# A verification of the Arches installer

TLA+ specifications of the Arches installer (`src/installer/arches_installer`,
a Python and Textual program that partitions disks, installs an Arch system with
pacstrap and leaves behind two services: a first-boot Ansible run and a hardware
rescan on every boot). TLC checks them on small instances; TLAPS proves the
most important results for all values of the constants.

Paths below are relative to `src/installer/arches_installer` unless they start
with `src/`.

## 1. The system

### Components

| Component | State it keeps | Operations | Talks to |
|---|---|---|---|
| **Install pipeline** `core/pipeline.py`, `core/install.py`, `core/bootloader.py`, `core/snapper.py`, `core/firstboot.py` | the target under `/mnt` (mounts, fstab, pacman.conf, initramfs, ESP, first-boot files); module globals of `install.py` (`_target_iso_cache_mounted`) | one function, `run_install_pipeline`, five phases | called by `ProgressScreen` in a thread; calls `disk_layout`, `hardware`, external commands |
| **Layout application** `core/disk_layout.py` | partition tables, file systems, mounts, a `PartitionMap` | `apply_disk_layout_resolved`, `apply_disk_layout`, `setup_raid_mdadm`, `mirror_esp` | called by the pipeline |
| **Disk-role resolution** `core/disk_layout.py` | none beyond one call; result is written to `disk-roles.state` | `resolve_disk_roles`, `_merge_role_overrides`, `write_disk_roles_state`, `validate_disk_roles` | called by the automatic install; descriptors from `core/disk_descriptor.py` |
| **Hardware rescan** `core/hardware_rescan.py`, `core/hardware.py`, its systemd unit | managed files in modprobe.d, udev/rules.d, sysctl.d; the recorded fingerprint and manifest; initramfs; chwd profile | `run_rescan`: probe, compare, reconcile, chwd, mkinitcpio, record | systemd on every boot, or the operator with flags |
| **First boot** `core/firstboot.py` | unit, wants link, script, sentinel, failure marker on the target | injected by the pipeline; on the target, each boot runs the script while the sentinel is there | systemd, Ansible, the operator |
| **Keyring preparation** `core/install.py` | the live system's pacman keyring, `_KEYRING_READY` | `_wait_for_keyring`, `_preseed_pacman_keyring` | races `pacman-init.service` |
| **Wizard** `tui/` | the app's fields (device, layout, mode, mounts, `raid_config`, template, hardware, account), its stack of screens, the widgets of screens already built | screens fill the fields, `InstallProgressScreen` builds `InstallParams` from them | the pipeline, through a thread |
| **Network screen** `tui/network.py`, `core/network.py` | current step, interface, lists, results of workers | workers that list, scan and connect | nmcli |
| **Entry points** `__main__.py`, `core/auto.py` | the parsed auto-install file | `main`, `_run_auto`: automatic install, then the wizard if it failed | wizard, pipeline, resolver |
| **Descriptors, disks** `core/disk_descriptor.py`, `core/disk.py` | none | parse and match, lsblk | resolver, layout |
| **Templates, platforms, modules, GPU stacks** `core/template.py`, `core/platform.py`, `core/module.py`, `core/gpu_stacks.py` | TOML files | load, merge, close over `requires` | wizard, entry points |
| **Host install** `core/host_install.py` | a target directory | a second front end over the same phases | the phases of `install.py` |

Shell scripts under `src/scripts`, the Ansible roles and the package recipes
under `src/modules` are outside: they hold no state of the installer.

### What is hard here

- **Partial failure.** Nearly every step is an external command. The pipeline
  has no rollback: whatever a failed step leaves is what the next step, the next
  pipeline of the same process, or the operator finds.
- **Two pipelines in one process.** When an automatic install fails, `main`
  enters the wizard in the same process, over the mounts, module globals and
  target files of the failed one.
- **Order.** genfstab, bind mounts and the package-cache mount happen in an
  order that decides what `/etc/fstab` says; hardware files are deployed after
  the kernel's hooks built the initramfs; the sentinel must come after
  everything its unit needs.
- **Wiping disks.** Which disks are wiped is decided by three layers of role
  overrides, a greedy assignment, a RAID configuration carried from one screen
  to another and a loop over partitions: a wrong decision in any of them costs
  data.
- **Years of boots.** The rescan's fast path relies on a fingerprint recorded
  by an earlier pass, which may have been interrupted between any two writes.
- **Screens that stay.** A screen named in `SCREENS` is built once and kept:
  going back and forth shows what an earlier visit computed, and fields of the
  app outlive the screens that set them.
- **Late answers.** Results of network workers and of the pipeline thread are
  delivered wherever the user is by then, and act on whichever screen is on top.
- **Two of a kind.** `pacman-init.service` next to the installer's own
  `pacman-key`; the first-boot script of the unit next to one started by hand.
- **Word order.** A disk descriptor is a text of words in any order, which
  narrow, replace or contradict one another; it must find the same disks at
  every boot although their `/dev` names change.

`PROJECT.json` lists each hazard at its line with the properties that cover it.

### What makes each component correct

- *Pipeline*: only disks handed over are written to; fstab lists what the target
  is mounted from, its swap included, and nothing of the live system; the
  initramfs is not older than the modprobe files; every mirror boots; the
  first-boot sentinel implies a runnable service with its playbooks; a request
  it could carry out fails only if a command failed; it ends; it returns only
  over a bootable target. (The code does not keep all of this: sections 3 and 5.)
- *Layout application*: every member and every copy of a partition is
  formatted, what is seen under `/mnt` is what the layout says, the
  `PartitionMap` names what is mounted; a layout that cannot be applied costs
  no data.
- *Resolution*: no disk for two roles; what is returned is allowed by the
  descriptors and counts, and nothing else would have been.
- *Descriptors*: a text finds the disks every word fits and no other; it is
  refused only if it had no chance; the order of the disks does not depend on
  `/dev` names.
- *First boot*: the sentinel only goes after a success or a recorded failure;
  the failure marker tells the last verdict; a finished run is not repeated; the
  machine settles and shows its display manager.
- *Keyring*: the installer goes ahead over a populated keyring only.
- *Network screen*: late answers never index past a list or leave a spinner
  over nothing; an address reported as applied is carried to the target; waits
  end.
- *Wizard and entry points*: what reaches the pipeline is complete, consistent
  and what the user last chose and saw; an app starts one pipeline; an automatic
  install's exit status is true; a pipeline that ended leaves no dead screen.
- *Modules*: what is installed is a selection whose requirements and conflicts
  hold, in an order that respects the categories.
- *Rescan*: files without the management header are never touched; a record
  implies reconciled files; between passes the initramfs is that of the modprobe
  files; a fast path implies there was nothing to do, or that something was left
  undone and is known to be; the machine ends up on the fast path.

## 2. Modules and how they correspond to the code

| Module | Models | Proofs | TLC instance |
|---|---|---|---|
| `InstallContract` | what `run_install_pipeline` promises its caller | | |
| `InstallPipeline` | the pipeline, implements `InstallContract` | `InstallPipeline_proofs` | `MCInstallPipeline` |
| `LayoutApply` | the layout appliers partition by partition | `LayoutApply_proofs` | `MCLayoutApply` |
| `DiskRoles` | `resolve_disk_roles` | `DiskRoles_proofs` | `MCDiskRoles` |
| `DiskDescriptor` | parsing and matching of disk descriptors | `DiskDescriptor_proofs` | `MCDiskDescriptor` |
| `HardwareRescan` | the rescan unit over the boots of a machine | `HardwareRescan_proofs` | `MCHardwareRescan` |
| `HardwareProfiles` | quirk and profile matching, merging of their files: operators `MCHardwareRescan` uses | | |
| `FirstBoot` | the first-boot unit and script over the boots of a machine | `FirstBoot_proofs` | `MCFirstBoot` |
| `Keyring` | the installer's keyring wait against `pacman-init.service` | | `MCKeyring` |
| `ModuleResolution` | modules, GPU stacks, templates: operators `Wizard` uses | | |
| `Wizard` | the ways into the installer, the screens, the app, the pipeline thread | `Wizard_proofs` | `MCWizard` |
| `NetworkScreen` | the network screen and its workers | `NetworkScreen_proofs` | `MCNetworkScreen` |

`PROJECT.json`'s `map` gives the lines each definition stands for. Operators
whose comment starts with *Mutant of* are plausible bugs of the definition below
them; no specification uses them, they show that each property can fail.

### InstallPipeline

One action per step of `run_install_pipeline` that changes something on the
target, in code order through `pc`. A request (`params`) holds what the
pipeline's branches read of `InstallParams`, template, platform and hardware
profile; everything else of them is abstracted away. `CommandFails` is the
`CalledProcessError` any step can end in (pacstrap only on its second attempt).
The actions that end in `Raise` are the failures the code comes to by itself:
roles without disks (`RolesUnassigned`), layouts that cannot be made, formatted or
mounted on the disks they are given, mdadm arrays among them (`LayoutMisfits`,
after the wipe, at the format or at any later mount), mounted disks (`BusyDisk`),
a bind mount or a link that is there already (`BindVarTwice`, `EnableUnitTwice`),
an unknown loader, GRUB without UEFI or with two kernels on aarch64
(`LoaderRefused`), an ESP at the wrong place or a firmware the platform has no
support for (`LoaderHasNoPlace`). Whether a layout fits is a field of the request
here (`fits`); `LayoutApply` says which ones do.

State ↔ code: `mounted` counts the mounts stacked on each mount point under
`/mnt`, `fstab` the entries of `/mnt/etc/fstab`, `cacheFlag` is
`install._target_iso_cache_mounted`, `cacheDir` the `CacheDir` line in the
target's pacman.conf, `initramfs` compares the last build with the modprobe
files, `loaderState` the loader binary and its entries, `artifacts` the files
phase 5 and `stage_ansible` write, `espCurrent` the disks whose ESP the firmware
could boot from, `queue` what the wipe and mirror loops still have to visit.
The firmware boots from the lead disk, except that under BIOS the boot sector is
on the device of the request (`LeadBoots`); a mirror boots if what is copied to it,
always `/boot`, is an ESP for UEFI. hid_apple.conf is a modprobe file like those of
a hardware profile (`ConfigureAppleInput`).
History variables: `chosen` (disks handed over), `named` (disks any request
mentions, in a `raid_config` too that its way of partitioning ignores), `erased`,
`faulted`, and `clear` (when the pipeline started, nothing of an earlier one was
mounted where it would be in its way).
Formatting and mounting is one action for the root and one per other mount here;
`LayoutApply` has the detail.

`Start` is the progress screen with whatever request it was given; how a request
comes about is `Wizard`'s matter. The second pipeline of a process is one of the
wizard after an automatic one that failed, as in `__main__.main`; it finds the
target the first one left. A re-partitioned disk starts an empty target, and
disks still mounted make `partprobe` refuse (`BusyDisk`).

### InstallContract

The abstract machine: disks are granted, destroyed only if granted; the target
becomes bootable or not; the call returns only over a bootable target, else
raises. `InstallPipeline` instantiates it with `phase <- status, granted <-
named, destroyed <- erased` and *bootable* as "entries generated and an
initramfs there", and `ImplementsContract` states the refinement. What is granted
are the disks a request names, since the code mirrors onto those of a
`raid_config` it should ignore; that only disks handed over are written to is the
stronger `OnlyChosenDisksErased`, which the code violates.

### LayoutApply

A layout is a sequence of partition records; the actions are the loops of the
appliers: check roles, wipe, create (role by role, device by device, in layout
order), probe, format, mount the root partition's subvolumes, mount the rest, one
`mount` at a time (`todo` holds triples: partition, rank, subvolume). `content` says what each
partition holds (`Missing`, `Blank`, a file system, an array member),
`effective` is the code's `effective_part`, `map` the `PartitionMap`, `stack`
the mounts under `/mnt` from the oldest to the newest. `kind` tells
`apply_disk_layout_resolved` (`roles`) from the three ways the wizard calls
`apply_disk_layout`. Sizes are abstracted to *fixed*, *rest of the disk* and
*does not parse*; xfs stands for ext4.

### DiskRoles

One iteration of the loop over `sorted(effective.keys())` per step. Descriptors
are abstracted to the sets of disks they match, layers to a descriptor per role;
`Winning` and `Effective` are `_merge_role_overrides` and the implicit default
role. `errors` is the list the code raises with at the end.

### HardwareRescan

Every statement of `run_rescan` and `reconcile_hardware_files` that writes
something is an action, so that power can be lost between any two of them.
`disk` gives the content of each managed name, with `Torn` (header kept, other
content than any quirk's), `Garbled` (header kept, cut within a character, so that
`read_text` raises and ends the pass) and `Partial` (header lost) for interrupted
writes and `Foreign` for the operator's. `built` is what the initramfs was built
from, `profile` the chwd profile the pass will record, `NoProfile` when none is
installed or `chwd --list-installed` fails. `Wants` (hardware to
file contents) is any function here; the instance computes it with the operators
of `HardwareProfiles`, one per function of `core/hardware.py` (`Quirk.matches`,
`suggest_machine`, `resolve_hardware`, `_resolved_files`), from a database like
the shipped one. `DriverOf` is what `chwd -a` selects. Between passes the
hardware may change, and the operator may put a file in place of a managed one,
edit one below its header or delete one.

`Init` is any machine the installer may leave: its files deployed or none of them
(Skip Hardware Config), the initramfs built after or before (GRUB), chwd run or
not, and a fingerprint recorded in all of these cases, or none. The history
variable `owed` says what is known to be undone: what the installer left out,
what an edit, a failed or skipped command or a pass cut short put in doubt, each
until a pass makes up for it. With it the properties hold the code to account
through failures, in place of speaking of machines without any.

### DiskDescriptor

A text is a sequence of tokens of five kinds (size, transport, technology,
vendor, free word); which kind a word is of is left to the constants. `BeginText`,
one `Parse…` action per kind and `TextParsed` are `parse_descriptor`; a table is
parsed in one step (`TakeTable`), a path likewise; `MatchDisks` is `match_disks`
with the sort by serial and path;
`Reboot` gives the disks other `/dev` names and asks again. `criteria` holds the
fields of `DiskCriteria`, an optional one as a set of at most one value. Sizes
are numbers with the code's window of ten percent either way; globs are words.

### FirstBoot

Every command of the generated script that changes a file is an action of the
copy (`"unit"` or `"hand"`) that executes it, so that power can be cut between
any two and two copies can run side by side. `pending` and `marker` are the
sentinel and the failure marker, `unit` the unit's `ActiveState`
(`RemainAfterExit` keeps it active), `display` the display manager the unit
is ordered before. `Playbook`
succeeds or fails.
`configured`, `last`, `overlap` and `touched` are history variables.

### Keyring

`Service` is the unit's two `pacman-key` calls and its marker file, `Installer`
`_wait_for_keyring` up to the copy into the target; they interleave freely.
`keyring` says which files are there and not empty, which is all the code asks;
`keys` says how much of the import is done, which it cannot see. That `--init`
leaves a trustdb and each imported key adds to the pubring is external and taken
from the comment in `_keyring_is_populated`.

### ModuleResolution

`Resolvable` is `resolve_modules` without a `ModuleError`, `Roles` the order of
its roles; `Winner`, `Excluded` and `Extra` are the arbitration of
`gpu_stacks.py`; `Merged` is a template after `resolve_and_merge_modules`, and
`Offered` what `discover_templates` returns. `Coherent` is what the pipeline
relies on.

### Wizard

`app` has the fields of `ArchesApp` as far as branches read them, `stack` is
Textual's stack of screens, `built` the screens kept in memory whose `on_mount`
has an effect that lasts; `boxes` and `shown` are the widgets in question. Each
button or list of a screen is an action; `Push` and `Pop` are Textual's. `Leave`
is the rest of `main` after `app.run()`, with the fall back from the ISO's own
automatic install to the wizard in a new app. The thread of the progress screen
is `ReadParams`, `PipelineEnds`, `MarkSuccess`, `Report`: the assignments it
makes while the user may press anything.

Abstracted: the network screen is a place where connections are started, whose
answers come as `LateConnect` (its inside is `NetworkScreen`); the three steps of
the RAID screen are one action; the partition screen's shell is left out; a
daemon thread that outlives its app is not followed.

### NetworkScreen

`step`, `ifaces`, `iface`, `nets` and `listed` are the screen's fields and what
its list shows; `loading`, `scans` and `attempts` are the workers and answers
under way. Handlers of answers (`InterfacesLoaded`, `WifiScanned`,
`ConnectResult`) may be taken at any time and in any order, like the user's
actions. An attempt's `stage` is the nmcli call it is at: `connect_wifi` and
`connect_ethernet_static` call by call, each of which may fail. `profiles`
counts the `arches-<iface>` connections `copy_network_profiles` finds later.
The address fields are abstracted to being complete or not.

## 3. Runs

Each run's configuration is named after its module.

| Run | Instance | Properties |
|---|---|---|
| `pipeline_allpaths` | every way to set up disks, Limine, GRUB and Apple platforms, a stale `raid_config`, a request refused or hopeless at each place where the code notices; 2 disks, two pipelines in one process | `TypeOK`, `FstabMatchesMounts`, `FailsOnlyOnFault`, `InitramfsCurrent`, `SentinelImpliesService`, `EveryMirrorBoots`, `CacheReleased`, `ImplementsContract`, `PipelineEnds` |
| `layout_apply` | every accepted layout of up to 3 partitions from a stock of 12, by role or in the wizard's ways, 4 disks, 2 roles | `LayoutSeen`, `EveryCopyWritten`, `MapMatchesMounts`, `ApplicableApplies` |
| `roles` | every way 3 roles, one perhaps RAID1, match 3 disks; every override of two roles by two more layers | `RolesDisjoint`, `ResultAllowed`, `ResultUnique` |
| `descriptors` | every text of up to 3 tokens from a stock of 11, a stock of tables, 3 disks under every naming | `MatchesAreExact`, `ErrorsAreHopeless`, `SameEveryBoot` |
| `rescan_boots` | 3 configurations of hardware, 2 files (one of them a modprobe file), 2 changes, 1 fault, any flags, everything the installer may leave | `QuietMeansApplied`, `RestMeansBuilt`, `ForeignUntouched`, `RecordedMeansReconciled`, `EventuallyQuiet` |
| `firstboot` | 2 power cuts, 2 runs by hand, 2 sentinels re-created | `NothingLost`, `VerdictShown`, `RunsOnce`, `Settles` |
| `network_screen` | machines with no, one or two interfaces; 2 networks, 2 scans, 2 attempts | `IndexInRange`, `SpinnersAreHonest`, `CarriedOver`, `WaitsEnd` |
| `session` | the three ways in, 2 sets of templates over 2 modules and 2 GPU stacks, 4 disks, one late connection | `InstallReady`, `ModeFollowsPath`, `ModulesAsTicked`, `OnePipeline`, `TruthfulExit`, `OutcomeReached` |

Three properties of the first run say in their own definition for which requests
they speak, all others being in the run as well: `OwnMounts` (the pipeline is on
mounts of its own), `EntriesRebuild` (the loader phase builds an initramfs, or
there are no modprobe files) and `EspsMirrored` (the firmware can find what is
mirrored). What the code does with the others is in section 5.

Four more runs each show one disagreement between a sentence in the repository
and what the code does (`findings` in `PROJECT.json` quote the sentence); TLC
finds the property violated:

| Run | Property | What it shows |
|---|---|---|
| `stale_raid` | `OnlyChosenDisksErased` | A `raid_config` left by an abandoned wizard path makes a manual install, whose mounts are to be "used as-is", `rsync --delete` onto a disk nobody handed over. `Wizard` shows how: nothing clears the field. |
| `rescan_recorded` | `RecordedMeansDone` | After a failed mkinitcpio (or chwd) the fingerprint is recorded as if the hardware had been dealt with, and no later boot makes up for it. |
| `keyring_race` | `ReadyMeansPopulated` | The installer goes on, and copies the keyring, while `pacman-init` is still importing keys. |
| `stale_confirm` | `ConfirmShowsTruth` | After Back and another disk, the confirm screen still names the first one. |

Further violated properties have a configuration, to be run in the same way, but
are not among the runs; section 5 names them.

### Bounds, and why they are enough

- *Two disks* in the pipeline: one chosen and one not, or two members of an
  array; nothing in the code relates three. `MaxRuns = 2`: a process starts at
  most an automatic and a manual pipeline.
- *Four disks, two roles, three partitions* in `LayoutApply`: RAID 5 needs three
  members and the second role a disk of its own; a partition before, at and
  after the one of interest, on the same disk or another, are all there with
  three.
- *Three roles, three disks*: the greedy loop's mistakes need an earlier role
  that takes a disk, a later one that wants it and a third disk to choose.
- *Three tokens, three disks* in the descriptors: two tokens that narrow or
  contradict each other and one of another kind before, between or after them;
  two disks alike but for the serial, and one without a serial.
- *Two changes, one fault, two files* in the rescan: a fault must be able to
  precede a change and follow it, and the dock must be able to come and go. One
  file for each of the two categories the loop goes through, one of which counts
  for the initramfs. The violated property is checked on three files and with the
  unit's own command line; the proofs have no bounds.
- *Two cuts, two manual runs, two retries* at first boot: a run is cut, the next
  overlaps a manual one, and a retry follows either.
- *Two of everything* on the network screen: an answer that comes while a
  second request of its kind, or one of the other kind, is under way.
- *Two modules* with a requirement between them whose categories are sorted
  against their slugs, *two stacks* that contend for a variant, an ISO whose
  templates all resolve and one with a template that does not. *Four disks*: the
  least with which RAID 10 is accepted. *One late connection*: each pops one
  screen, and the next is like the first in a state already covered.
- `pacstrap` attempts are counted by the code itself (at most two).

### Fairness

- `PipelineEnds`: `WF_vars(Step)`. The pipeline is one thread whose commands
  return or are killed; a `Start` is never forced.
- `EventuallyQuiet`: the machine keeps being booted (`WF_vars(Boot)`) and a pass
  which is not cut short goes on (`WF_vars(Pass)`): each command of `run_rescan`
  has a timeout.
- `Settles`: the machine is switched on again, systemd works its queue, and a
  playbook ends. The code sets no limit on the last (see the observations); the
  property is about everything around it.
- `WaitsEnd`: the nmcli calls have timeouts in the code, and Textual delivers
  every worker's answer. Nothing is assumed of the user.
- `OutcomeReached`: the thread and the event loop go on once the pipeline has
  ended. Neither the pipeline's end, nor the user, nor the network is assumed.

Failures, hardware changes, power cuts, edits and quits are never fair, and
bounded. Deadlock checking is off where the program ends: the pipeline after its
last run, the resolver after its answer, a layout once applied, an installer
that was left or has halted the machine, a first boot whose machine has
nothing left to do.

## 4. Proofs

All proofs hold for every value of the constants that satisfies the modules'
named assumptions. The inductive invariants were model-checked before they were
proved, or follow from conjuncts that were.

**`DiskRoles_proofs`** — `TypeCorrect`, `NoDiskTwice`, `ReturnsAllowed`,
`ReturnsUnique`: for any number of roles and disks. None of the properties is
inductive. `IInv` adds what the loop has achieved for the roles behind it:
`Served` (a role behind the loop without an error has as many disks as wanted,
all matched), `Unserved` (the others have none), and `Forced`: as long as there
is no error, *any* allowed assignment agrees with the one built so far. `Forced`
carries uniqueness through the greedy loop: an allowed assignment gives a role
only matches that the roles before it do not have, the roles before it have by
induction the claimed disks, so it chooses among exactly the unclaimed matches,
and there are as many as wanted.

**`DiskDescriptor_proofs`** — `TextsMatchExactly` (`MatchesAreExact`) and
`RefusalsAreHopeless` (`ErrorsAreHopeless`): for any finite set of disks and any
descriptors, texts of any length. `Said` is the set of tokens already parsed;
the invariant `ReadAs` ties each field of the criteria to it: the lower bound is
the largest of the windows' lower ends, the upper bound the smallest of their
upper ends, the vendors are the union of the aliases, and so on. A contradiction
is then one between two tokens. `Ranked` says that `match_disks` returns every
matching disk once; that a finite set has such an order is an argument by
injections from the library's cardinality theorems.

`OrderIsKept` (`SameEveryBoot`): for any assignment of `/dev` names to the disks at
each boot, under `NameFree` and `OwnSerials`. The criteria are a function of the
descriptor (`Exact` and `Says` determine every field), whether a disk meets them does
not depend on its name (`Fit`), and disks with serials of their own have one listing
(`Listings`): of two orders by serial, the first place where they differ would hold
the smaller serial in both.

**`HardwareRescan_proofs`** — `TypeCorrect`, `StrangersAreSafe`
(`ForeignUntouched`), `RecordsAreReconciled` (`RecordedMeansReconciled`): for any
hardware, quirks, files and any number of failures and power cuts. The
invariant's `Progress` says what the two nested loops have established for the
files and categories behind them; the record is written where that covers every
file. `FastPathIsApplied` (`QuietMeansApplied`) and `ImageIsBuilt`
(`RestMeansBuilt`) add `Excused`: a pass looks at the hardware there is or at none,
and what is not owed is there: the driver `chwd` selected (`DriverFits`), the
files and the driver of the hardware the record names, which need not be the one
there is now (`RecordFits`), and the initramfs of the modprobe files but for
changes the running pass has counted (`ImageFits`). `Init` and the failures are
those of the code: nothing is assumed of the installer, the probes or the power.

**`LayoutApply_proofs`** — `EveryCopyIsWritten` (`EveryCopyWritten`), `OnlyCommandsFail`
(`ApplicableApplies`): for any disks, roles, partitions and layouts. The
invariant follows the call through its loops: what they have left to do
(`Remaining`), that a disk which still gets a partition has room for it (`Room`),
that what has been created is there (`Present`), that the contents of a partition
are nowhere but on its own nodes (`Confined`), and that a partition already
formatted keeps its contents on every copy (`Copied`). No two partitions
share a node; for that, `InputAssumption` asks that no device is given twice
(`DevicesDiffer`). For roles that is `DiskRoles.RolesDisjoint`, for the wizard the
list its RAID screen toggles disks in and out of.

`LayoutIsSeen` (`LayoutSeen`) follows the mounts, under `OuterFirst` (outer mount
points are listed before inner ones, the swap has none). Only the first pass mounts
`/`, and everything else comes after it (`RootMounted`). `InOrder` says that what has
been mounted precedes what is due, `Seen` that each mount point behind the loops
still shows its partition: the next one mounted is neither the same nor an outer one
(`Uncovered`). `MapIsTrue` (`MapMatchesMounts`) adds `Mapped`, what the map records of
the mounts done so far.

**`InstallPipeline_proofs`** — for any set of disks, requests and any number of
pipelines per process:

- `TypeCorrect`: the hard conjunct is the bound on stacked mounts, which needs
  `MountsBounded` (the live cache is mounted at most once per pipeline and not
  yet in this one before `install_pacman_conf`; nothing else is mounted over).
- `SentinelSafe`: `SentinelImpliesService`, from `FirstbootOrder` (what is on
  the target when each file of phase 5 is written; files of earlier pipelines
  included).
- `KeepsContract`: the pipeline implements `InstallContract`, for every set of
  requests. `DisksSafe` says that neither loop over disks is given one no request
  named; `Gained` (an initramfs is there after pacstrap, boot entries after the
  loader phase) makes `Finish` a `Return`. That the disks were also handed over
  is not a theorem: `stale_raid` refutes it.
- `CacheIsReleased`: `CacheReleased`, for any requests and any earlier failures.
- `InitramfsIsCurrent`: `InitramfsCurrent`. What the modprobe files (a hardware
  profile's, hid_apple.conf) make stale is rebuilt with the boot entries.
- `MirrorsBoot`: `EveryMirrorBoots`. ESPs current and disks still queued make up
  all ESPs from the loader phase on, whatever failed on the way.
- `FstabIsComplete`: `FstabMatchesMounts`. Mounting the root leaves no cache bound
  under it until `genfstab` has run.
- `OnlyFaultsFail`: `FailsOnlyOnFault`, for every request. The property itself says
  which requests the code can carry out (`Serviceable`) and when nothing of an
  earlier pipeline is in the way (`clear`); the invariant `Untouched` says of the
  code's other exceptions that what they stumble on is gone when the root is
  mounted.

The conditions in these properties speak of the current request, not of all
requests: what earlier pipelines of the process were asked for, and how they
failed, is free.

**`FirstBoot_proofs`** — `NothingIsLost`, `VerdictIsShown`, `RunsOnlyOnce`: for
any number of boots, cuts, manual runs and retries. `Kept`: each copy of the
script that is past its verdict, and a machine without a sentinel, has a success
behind it or left the marker. `Ordered`: as long as no two copies ever
overlapped, the marker is as the only one that runs left it. `Owned`: a sentinel
that is there was not left by a finished run, unless the operator re-created it.
`TypeCorrect` gives the ranges all three rest on.

**`NetworkScreen_proofs`** — `NeverOutOfRange` (`IndexInRange`),
`SpinnersStayHonest`, `ProfileIsCarriedOver` (`CarriedOver`): for any interface
lists and any number of networks, scans, attempts and profiles. `CarriedOver`
needs the most: of the wired attempts that once ran without company at most one
is still busy (`Single`, `Apart`), one that has come far enough has its profile
(`Backed`), and none is busy over a profile reported as applied (`Settled`).

**`Wizard_proofs`** — `StartsOnce` (`OnePipeline`), `StatusIsTrue`
(`TruthfulExit`), `ModeIsOfThePath` (`ModeFollowsPath`), `ModulesAreTicked`
(`ModulesAsTicked`), `ParamsAreReady` (`InstallReady`): for any templates, catalogue,
layouts, disks and late connections. Each screen has a level, and `Climbs` says that
levels rise along the stack: whatever is pushed, popped, or popped by a late
connection, the screens above the one that sets the mode or the modules are gone when
it sets them. `Counted` ties the one start of the thread to the progress screen kept
in memory, `Honest` the exit status to the assignment after the pipeline's return.

`ParamsAreReady` needs two things. `Ready` says which answers the screens on the
stack rest on (`AfterDevice`, `AfterMode`, `AfterAccount`) and that an answer is never
taken back while the app lasts, so that it also holds between Install and the
thread's reading, when a late connection may take the user back to any screen. And
`RolesInOrder`: `Place` counts the modules that sort no later, which is injective
because `sort_key` is a total order, so by counting every place is taken and `Roles`
is the sorted list; `CategoriesInOrder` compares that order with the dependencies
between categories. `Roles` is written with `Place` and not with the library's
`SetToSortSeq` because `SortSeq` has no definition the prover can expand.

Only model-checked: `Keyring`, whose run shows a violation, and everything temporal
beyond safety (`PipelineEnds`, `EventuallyQuiet`, `Settles`, `WaitsEnd`,
`OutcomeReached`), since liveness under fairness and `ENABLED` are beyond the prover,
as are induction over data and recursive operators (none are used). What
`HardwareProfiles` computes is checked through the runs that use it; the proofs about
`HardwareRescan` hold whatever it selects.

## 5. Observations without a run

Met while reading and modelling; recorded for whoever changes this code. Where
a definition states the property, it and a configuration that shows it violated
(if one is kept) are named.

Install pipeline and layouts:

- `InitramfsAlwaysCurrent` (`MCInstallPipeline_grub.cfg`): on a GRUB platform nothing
  rebuilds the initramfs after the modprobe files are deployed, although
  `core/install.py:1356-1358` leaves that to the bootloader phase.
- `EveryCopyBoots` (`MCInstallPipeline_grubmirror.cfg`): `mirror_esp` copies `/boot`
  (`core/disk_layout.py:1687`); with the ESP at `/boot/efi` the mirrors have no loader
  where the firmware looks for it.
- `EveryCopyBoots` (`MCInstallPipeline_mirroredrole.cfg`): an ESP replicated over the
  disks of a role is formatted on each and filled on the first only. The comment
  there promises no more than "the bootable one is the first member".
- `SwapInFstab` (`MCInstallPipeline_swap.cfg`): `apply_disk_layout`
  (`core/disk_layout.py:1497-1656`) reports no swap partitions, so the swap of a
  layout applied without roles is in no fstab. `FstabMatchesMounts` therefore speaks
  of swap for layouts by role only.
- `RolesHavePlaybooks` (`MCInstallPipeline_hwroles.cfg`): roles that come only
  from the hardware profile arm a first-boot script whose playbooks were never
  staged.
- `AcceptedApplies` (`MCLayoutApply_accepted.cfg`): layouts that pass validation and
  can only fail, after the disks are wiped: a `'*'` for each of two roles, on one
  disk, as with the shipped two-disk layout chosen in the wizard.
- Mirroring does not write a BIOS boot sector to the other disks, and
  `limine bios-install` gets the device of the request, which need not be the lead
  disk of the array or of the ESP's role.
- Any layout on an mdadm array fails, after the disks are wiped: the partitions of
  `/dev/md/…` are looked for under names they do not have. So does RAID 5/6 on
  btrfs without roles (`NotFormattable`).
- The shipped `basic.toml` mounts its ESP at `/boot`, `_install_grub`
  (`core/bootloader.py:392`) wants it at `/boot/efi`: GRUB with that layout
  always fails, after the disks are wiped (`LoaderHasNoPlace`).
- A manual install after an automatic one that failed inside phase 2 uses the
  mounts it finds, the live-cache bind mount included, and genfstab records it.
- A role for which two disks match is accepted if an earlier role claimed one of
  them (`core/disk_layout.py:656` against 698): the count is taken after
  claiming. Likewise roles no partition uses are still counted and wiped.
- Mount points nested in one another and listed child first are shadowed; this
  is the condition `OuterFirst` of `LayoutSeen`.
- Auxiliary mounts of btrfs partitions with subvolumes are recorded in the map
  at their `mount_point` although only subvolumes are mounted.
- `mirror_esp` assumes that the ESP is the first partition
  (`core/pipeline.py:190`).

Hardware rescan:

- `FastPathSound` (`MCHardwareRescan_fastpath.cfg`): `core/install.py:1308` records the
  fingerprint also after Skip Hardware Config; the first boot, and every later one
  of the same hardware, finds no change and deploys nothing.
- `OrphansAreOrphans` (`MCHardwareRescan_blind.cfg`): a failed `lspci` is an empty
  set of devices, and every PCI quirk's file becomes an orphan and is deleted.
- A managed file cut within a character makes `read_text` raise
  `UnicodeDecodeError`, which `core/hardware.py:743` does not catch: every pass that
  wants the file fails from then on. This is the exception in `EventuallyQuiet`.
- A file that lost its header in an interrupted write is the user's for every later
  pass; `Reconciled` counts it as such.
- The dry run compares recorded names (`core/hardware_rescan.py:344`), not
  contents on disk.
- The installer parses `chwd --list-installed` (`core/install.py:1338`) in
  another way than the rescan does and may record a warning as a profile.

First boot:

- `RetryStarts` (stated, violated): the advice in the failure marker
  (`core/firstboot.py:174-175`) starts nothing in the boot the unit has run in,
  because `RemainAfterExit=yes` keeps it active. The printed `\&\&` stays as it
  is, too.
- A playbook that hangs holds the display manager back for ever: the unit
  is ordered before it and sets no timeout of its own.
- The MOTD that shows the marker is deployed by a role of the very playbook
  whose failure it is to show.

Keyring:

- The installer's deadline (120 s, `core/install.py:949`) is shorter than the
  unit's `TimeoutStartSec=180`: its own `pacman-key` may run next to the unit's.

Disk descriptors:

- `NoFieldIgnored` (`MCDiskDescriptor_tables.cfg`): a table with nothing but a
  `size_max` counts as empty (`core/disk_descriptor.py:163`) and finds disks of any
  size.
- A size token of 0 loses its upper bound when a second size follows
  (`core/disk_descriptor.py:282`, `size_max or 10**18`).
- Vendors are OR-ed while all else is AND-ed; of two transports the last counts.
  `Coherent` leaves such texts out of `MatchesAreExact`.
- Free words also match `/dev` names, which change from boot to boot; `NameFree`
  is the condition in `SameEveryBoot`.
- A `device` in a table that is no path (369-372) makes the parser forget every
  other field.
- Two disks without a serial are ordered by path: `OwnSerials`.

Wizard and entry points:

- The boxes of the module screen are ticked on first sight only: after Back and
  another template they still show, and install, the first one's modules.
- Modules a template has through its GPU stacks have no boxes ticked, so going
  through the module screen drops them; `tui/module_select.py:143` drops the stacks
  and the extra packages merged into the template, too, which `Wizard` does not
  follow.
- The success report is inside the `try` of `tui/progress.py:101-147`: an exception
  there would be reported as a failure of an install that `install_success` calls
  complete. The model's `Report` has no such exception.
- Skip on the hardware screen, then Back and Continue: the detected
  configuration is not stored again.
- One template that does not resolve hides all of them: `discover_templates`
  does not catch the error.
- Exit of the welcome screen passes `return_code=2` (`tui/welcome.py:63`), which
  nothing reads: `main` returns 0.
- Quitting during an installation leaves its daemon thread at work; after a baked
  automatic install the wizard may start a second pipeline beside it. And a quit
  between the pipeline's return and `install_success` falls back to the wizard
  after a complete installation.
- The docstring of `_apply_arches_gpu_override` (`src/scripts/iso-config.py:69`)
  promises the install-time semantics, but `ARCHES_GPU` is not handed to the live
  system: the installer uses the template's stacks, whose modules may not have
  been built.

Network screen:

- A worker that raises ends the app (`core/network.py:311-314` catches
  `SubprocessError` only); the model's workers return.
- A late scan result takes the user to the scan step from any other.
- Two connections may be under way at once; either's success pops whichever
  screen is on top, the welcome screen included (`ScreenStackError`; `stack_error`
  in the model).
- After a success the step stays at "connecting": the screen opened again has a
  spinner and no Back. This is the exception in `SpinnersAreHonest`.
- While "Scanning..." is displayed, selecting the line takes the first network of
  the previous result.
- The profile of a static address that failed to come up stays and is carried
  over; choosing DHCP leaves an earlier static profile where it is.

## 6. Not modelled

- **Role validation on the installed system** (`validate_disk_roles`): it only
  reports.
- **Host install**: a second front end to the same phases.
- **Parsing of the auto-install file, `--host`, `--dry-run`**: what they lead to
  is `PrepareApp` or `PrepareFails`.
- **Quirk updates between boots**: `Wants` is a constant of `HardwareRescan`. What
  `chwd` selects is the constant `DriverOf`.
- **TOML loading, platform fields**: constants.
- **The partition screen's shell, address fields, classification of a word of a
  descriptor, globs**: abstracted as section 2 says.
- **Package installation, locale, users, SSH keys, services**: commands whose
  only modelled effect is that they can fail (`ConfigureChroot`,
  `EnableServices`, `SetupSnapshots`, `PrePacstrapSetup`).
- **lsblk/blkid parsing, logging, rendering, ISO build scripts, Ansible roles and
  package recipes**: I/O and layout.

## 7. Plan

In order; each with its mutants and, where marked, proofs.

1. Quirk updates as an input of `HardwareRescan` (the fingerprint does not cover
   the database); an abstract reconciler ("files are a function of the
   hardware") that it implements without faults.
2. `DiskRolesState`: `write_disk_roles_state` at install time against
   `validate_disk_roles` on later boots, with disks added, removed, duplicated.
3. `Wizard` composed with `InstallPipeline`: the requests of the first as the
   `Scenario` of the second, in place of the enumerated ones.
4. `HostInstall`, the auto-install file, and the build's closure
   over modules (`src/scripts/iso-config.py`).
