--------------------------- MODULE InstallPipeline ---------------------------
(***************************************************************************)
(* The install pipeline of installer/arches_installer/core/pipeline.py:    *)
(* run_install_pipeline and the functions of core/install.py,              *)
(* core/bootloader.py, core/snapper.py, core/firstboot.py and              *)
(* core/disk_layout.py it calls, one action per step that changes what     *)
(* ends up on the target.  It runs in one thread of the installer; the     *)
(* commands it starts can fail at any step, and an automatic install that  *)
(* failed may be followed, in the same process, by one driven by hand.     *)
(***************************************************************************)
EXTENDS Naturals, FiniteSets

CONSTANTS Disk,      \* the physical disks of the machine
          Scenario,  \* the InstallParams (with platform and template) that can be asked for
          MaxRuns    \* bound: pipelines started by one installer process

Sources == {"manual", "resolved", "legacy", "none"}
RaidKinds == {"off", "mdadm", "btrfs0", "btrfsMirror"}   \* btrfsMirror: RAID 1 or 10

(* What run_install_pipeline reads of its parameters.  "raidLead" is the    *)
(* first device of raid_config; "espDisks" are the disks the layout gives   *)
(* an ESP; "assigned": every role of its partitions has disks; "fits": its  *)
(* partitions can be made, formatted and mounted there (LayoutApply!        *)
(* Applicable); "oneKernel": not an aarch64 GRUB platform of several kernel *)
(* variants; "apple": the aarch64-apple platform; "hwFiles": the hardware   *)
(* profile brings modprobe files; "tplRoles", "hwRoles": roles of the       *)
(* template and the hardware profile.                                       *)
Params ==
  [source : Sources, auto : BOOLEAN, device : Disk, targets : SUBSET Disk,
   raid : RaidKinds, raidLead : Disk, raidDisks : SUBSET Disk, espDisks : SUBSET Disk,
   assigned : BOOLEAN, fits : BOOLEAN, oneKernel : BOOLEAN, apple : BOOLEAN,
   loader : {"limine", "grub", "other"}, firmware : {"uefi", "bios"}, biosOk : BOOLEAN,
   esp : {"/boot", "/boot/efi"}, btrfs : BOOLEAN, varSplit : BOOLEAN,
   swap : BOOLEAN, isoCache : BOOLEAN, detect : BOOLEAN, hwFiles : BOOLEAN,
   hwRoles : BOOLEAN, tplRoles : BOOLEAN]

ASSUME ScenarioAssumption == Scenario \subseteq Params
ASSUME MaxRunsAssumption == MaxRuns \in Nat \ {0}

VARIABLES
  params,     \* the InstallParams of the current pipeline
  runs,       \* pipelines started by this process
  clear,      \* history: nothing of an earlier pipeline is in the way of this one
  named,      \* history: disks any request named, in a raid_config it ignores too
  pc,         \* the next step of run_install_pipeline
  status,     \* "idle", "running", "failed" or "installed"
  faulted,    \* history: some command failed in the current pipeline
  attempt,    \* pacstrap attempts used
  queue,      \* disks the current loop (wipe, mirror) has still to visit
  chosen,     \* history: disks the operator handed to the installer
  erased,     \* disks on which something has been destroyed
  held,       \* disks with partitions mounted under /mnt
  espCurrent, \* disks the firmware can boot the target from
  mounted,    \* how many mounts sit on each mount point under /mnt
  fstab,      \* the entries of /mnt/etc/fstab
  cacheFlag,  \* install._target_iso_cache_mounted
  cacheDir,   \* the target's pacman.conf names the live cache
  initramfs,  \* "none", "stale" or "fresh" with respect to modprobe.d
  loaderState,\* "none", "binary" or "complete" (with boot entries)
  artifacts   \* what first boot needs and finds on the target

request == <<params, runs, clear, named>>
control == <<request, status, faulted>>
diskVars == <<chosen, erased, held, espCurrent>>
targetVars == <<mounted, fstab, cacheFlag, cacheDir>>
bootVars == <<initramfs, loaderState>>
effects == <<diskVars, targetVars, bootVars, artifacts>>
vars == <<control, pc, attempt, queue, effects>>

Mountpoints == {"/", "esp", "/var", "pacmandb", "isocache"}
FstabEntries == Mountpoints \cup {"swap"}
FirstbootFiles == {"playbooks", "unit", "wants", "script", "sentinel"}
Steps == {"disk", "wipe", "format", "mounts", "presetup", "pacstrap", "fstab", "varbind",
          "pacmanconf", "chroot", "appleinput", "hwfiles", "detect", "unmountcache", "services",
          "ansible", "swap", "bootconfig", "loader", "entries", "mirror",
          "snapshots", "unit", "wants", "script", "sentinel", "finish", "stopped"}

TypeOK ==
  /\ params \in Scenario /\ runs \in 0..MaxRuns /\ pc \in Steps
  /\ clear \in BOOLEAN /\ named \subseteq Disk
  /\ status \in {"idle", "running", "failed", "installed"}
  /\ faulted \in BOOLEAN /\ attempt \in 0..2
  /\ queue \subseteq Disk /\ chosen \subseteq Disk /\ erased \subseteq Disk
  /\ held \subseteq Disk /\ espCurrent \subseteq Disk
  /\ mounted \in [Mountpoints -> 0..MaxRuns] /\ fstab \subseteq FstabEntries
  /\ cacheFlag \in BOOLEAN /\ cacheDir \in BOOLEAN
  /\ initramfs \in {"none", "stale", "fresh"}
  /\ loaderState \in {"none", "binary", "complete"}
  /\ artifacts \subseteq FirstbootFiles

-----------------------------------------------------------------------------
(* Which disks a request hands over: the role assignments, the RAID members *)
(* or the single device.  Manual mode uses mounts the operator prepared.    *)
DisksToErase(p) ==
  CASE p.source = "resolved" -> p.targets
    [] p.source = "legacy" /\ p.raid # "off" -> p.raidDisks
    [] p.source = "legacy" /\ p.raid = "off" -> {p.device}
    [] OTHER -> {}

(* The disks a request mentions, whether or not it hands them over.         *)
DisksNamed(p) == DisksToErase(p) \cup (IF p.raid = "btrfsMirror" THEN p.raidDisks ELSE {})

(* The disk whose ESP is mounted under /mnt.                                *)
LeadDisk(p) == IF p.source = "legacy" /\ p.raid # "off" THEN p.raidLead ELSE p.device

MountsOf(p) == {"/", "esp"} \cup (IF p.varSplit THEN {"/var"} ELSE {})
IsMounted(m) == mounted[m] > 0
Mount(m) == mounted' = [mounted EXCEPT ![m] = @ + 1]
Armed(p) == p.tplRoles \/ p.hwRoles

Init ==
  /\ params \in Scenario /\ runs = 0 /\ pc = "stopped" /\ status = "idle"
  /\ clear = TRUE /\ named = {} /\ faulted = FALSE /\ attempt = 0 /\ queue = {}
  /\ chosen = {} /\ erased = {} /\ held = {} /\ espCurrent = {}
  /\ mounted = [m \in Mountpoints |-> 0] /\ fstab = {}
  /\ cacheFlag = FALSE /\ cacheDir = FALSE
  /\ initramfs = "none" /\ loaderState = "none" /\ artifacts = {}

Goto(step) == pc' = step /\ UNCHANGED control
Abort == pc' = "stopped" /\ status' = "failed" /\ UNCHANGED request
(* The code raises by itself, with every command answering as it should.    *)
Raise == Abort /\ UNCHANGED <<faulted, attempt, queue, effects>>

(* ProgressScreen starts a pipeline.  The second one of a process is the    *)
(* wizard's, entered by main() when the automatic install did not succeed.  *)
Start ==
  /\ status \in {"idle", "failed"} /\ runs < MaxRuns
  /\ \E p \in Scenario :
       /\ IF runs = 0 THEN p = params ELSE params.auto /\ ~p.auto
       /\ params' = p
       /\ chosen' = chosen \cup DisksToErase(p)
       /\ named' = named \cup DisksNamed(p)
       /\ clear' = /\ p.source = "manual" => ~IsMounted("/")
                   /\ DisksToErase(p) \cap held = {}
  /\ runs' = runs + 1 /\ status' = "running" /\ faulted' = FALSE
  /\ pc' = "disk" /\ attempt' = 0 /\ queue' = {}
  /\ UNCHANGED <<erased, held, espCurrent, targetVars, bootVars, artifacts>>

-----------------------------------------------------------------------------
(* Phase 1: disk setup.                                                     *)

(* partition_map: mounts the operator made, or those a failed run left      *)
(* (detect_mounts insists on a root, validate_mounts on an ESP).            *)
UseManualMounts ==
  /\ pc = "disk" /\ params.source = "manual"
  /\ IF IsMounted("/")
     THEN UNCHANGED <<mounted, held>>
     ELSE /\ mounted' = [m \in Mountpoints |-> IF m \in MountsOf(params) THEN 1 ELSE mounted[m]]
          /\ held' = {params.device}
  /\ Goto("presetup")
  /\ UNCHANGED <<attempt, queue, chosen, erased, espCurrent, fstab, cacheFlag,
                 cacheDir, bootVars, artifacts>>

(* apply_disk_layout_resolved asks for the roles before it touches a disk.  *)
ChooseDisks ==
  /\ pc = "disk" /\ params.source \in {"resolved", "legacy"}
  /\ params.source = "resolved" => params.assigned
  /\ queue' = DisksToErase(params)
  /\ Goto("wipe")
  /\ UNCHANGED <<attempt, effects>>

RolesUnassigned == pc = "disk" /\ params.source = "resolved" /\ ~params.assigned /\ Raise

NothingToInstallOn == pc = "disk" /\ params.source = "none" /\ Raise

WipeDevice ==
  /\ pc = "wipe"
  /\ \E d \in queue : erased' = erased \cup {d} /\ queue' = queue \ {d}
  /\ Goto(IF queue' = {} THEN "format" ELSE "wipe")
  /\ UNCHANGED <<attempt, chosen, held, espCurrent, targetVars, bootVars, artifacts>>

(* partprobe answers "busy" on a disk whose partitions are still mounted;   *)
(* other disks get mounted over whatever an earlier run left at /mnt.       *)
BusyDisk == pc = "format" /\ DisksToErase(params) \cap held # {} /\ Raise

(* Only some layouts can be applied to the disks they are given; none to an *)
(* mdadm array, whose partitions the code looks for under other names.      *)
Fits(p) == p.fits /\ (p.source = "legacy" => p.raid # "mdadm")

(* A size that does not parse or has no room, a RAID level or backend that  *)
(* cannot be formatted, a mount that fails: all after the disks are wiped.  *)
LayoutMisfits == pc \in {"format", "mounts"} /\ ~Fits(params) /\ Raise

(* Partitions are formatted and mounted, the root before the others; what   *)
(* an earlier target held is no longer seen under /mnt.                     *)
FormatAndMountRoot ==
  /\ pc = "format" /\ DisksToErase(params) \cap held = {}
  /\ held' = held \cup (IF params.source = "legacy" THEN DisksToErase(params) ELSE {params.device})
  /\ mounted' = [m \in Mountpoints |-> IF m = "/" THEN 1 ELSE 0]
  /\ fstab' = {} /\ cacheDir' = FALSE /\ artifacts' = {} /\ espCurrent' = {}
  /\ initramfs' = "none" /\ loaderState' = "none"
  /\ Goto("mounts")
  /\ UNCHANGED <<attempt, queue, chosen, erased, cacheFlag>>

MountNext ==
  /\ pc = "mounts"
  /\ \E m \in MountsOf(params) : ~IsMounted(m) /\ Mount(m)
  /\ held' = held \cup DisksToErase(params)
  /\ Goto(IF Fits(params) /\ \A m \in MountsOf(params) : mounted'[m] > 0
          THEN "presetup" ELSE "mounts")
  /\ UNCHANGED <<attempt, queue, chosen, erased, espCurrent, fstab, cacheFlag,
                 cacheDir, bootVars, artifacts>>

-----------------------------------------------------------------------------
(* Phase 2: install_system.                                                 *)

PrePacstrapSetup == pc = "presetup" /\ Goto("pacstrap") /\ UNCHANGED <<attempt, queue, effects>>

(* The kernel package's hooks build the first initramfs.                    *)
PacstrapInstalls ==
  /\ pc = "pacstrap" /\ Goto("fstab")
  /\ initramfs' = "fresh"
  /\ UNCHANGED <<attempt, queue, diskVars, targetVars, loaderState, artifacts>>

(* Mutants of PacstrapRetries: an off-by-one, and no count at all.          *)
PacstrapRetriesTooOften ==
  /\ pc = "pacstrap" /\ attempt <= 2
  /\ attempt' = attempt + 1
  /\ pc' = "pacstrap" /\ faulted' = TRUE
  /\ UNCHANGED <<request, status, queue, effects>>
PacstrapRetriesForever ==
  /\ pc = "pacstrap" /\ attempt' = 1 - attempt
  /\ pc' = "pacstrap" /\ faulted' = TRUE
  /\ UNCHANGED <<request, status, queue, effects>>

PacstrapRetries ==
  /\ pc = "pacstrap" /\ attempt = 0
  /\ attempt' = attempt + 1
  /\ pc' = "pacstrap" /\ faulted' = TRUE
  /\ UNCHANGED <<request, status, queue, effects>>

(* genfstab lists every mount it finds under /mnt, bind mounts included.    *)
GenerateFstab ==
  /\ pc = "fstab" /\ Goto("varbind")
  /\ fstab' = {m \in Mountpoints : IsMounted(m)}
  /\ UNCHANGED <<attempt, queue, diskVars, mounted, cacheFlag, cacheDir, bootVars, artifacts>>

(* Mutant of BindVar: the fstab entry is forgotten.                         *)
BindVarUnrecorded ==
  /\ pc = "varbind" /\ Goto("pacmanconf")
  /\ IF IsMounted("/var") THEN ~IsMounted("pacmandb") /\ Mount("pacmandb")
                          ELSE UNCHANGED mounted
  /\ UNCHANGED <<attempt, queue, diskVars, fstab, cacheFlag, cacheDir, bootVars, artifacts>>

(* /var/lib/pacman (as /var/lib/dkms, where there is one) is copied to the  *)
(* root subvolume and bound back.                                           *)
BindVar ==
  /\ pc = "varbind" /\ Goto("pacmanconf")
  /\ IF IsMounted("/var")
     THEN /\ ~IsMounted("pacmandb")
          /\ Mount("pacmandb") /\ fstab' = fstab \cup {"pacmandb"}
     ELSE UNCHANGED <<mounted, fstab>>
  /\ UNCHANGED <<attempt, queue, diskVars, cacheFlag, cacheDir, bootVars, artifacts>>

(* cp -a of a directory onto the bind mount of itself: "are the same file". *)
BindVarTwice == pc = "varbind" /\ IsMounted("/var") /\ IsMounted("pacmandb") /\ Raise

(* install_pacman_conf rewrites the file, then _mount_iso_cache_in_target.  *)
InstallPacmanConf ==
  /\ pc = "pacmanconf" /\ Goto("chroot")
  /\ \/ /\ params.isoCache
        /\ Mount("isocache") /\ cacheFlag' = TRUE /\ cacheDir' = TRUE
     \/ cacheDir' = FALSE /\ UNCHANGED <<mounted, cacheFlag>>   \* no cache, or mount refused
  /\ UNCHANGED <<attempt, queue, diskVars, fstab, bootVars, artifacts>>

(* Mirrorlists, sync, override packages, locale, timezone, hostname, user,  *)
(* SSH key, Apple firmware.                                                 *)
ConfigureChroot == pc = "chroot" /\ Goto("appleinput") /\ UNCHANGED <<attempt, queue, effects>>

(* hid_apple.conf goes to modprobe.d as well.                               *)
ConfigureAppleInput ==
  /\ pc = "appleinput" /\ Goto("hwfiles")
  /\ initramfs' = IF params.apple THEN "stale" ELSE initramfs
  /\ UNCHANGED <<attempt, queue, diskVars, targetVars, loaderState, artifacts>>

DeployHardwareFiles ==
  /\ pc = "hwfiles" /\ Goto("detect")
  /\ initramfs' = IF params.hwFiles THEN "stale" ELSE initramfs
  /\ UNCHANGED <<attempt, queue, diskVars, targetVars, loaderState, artifacts>>

(* chwd may install a driver package, whose hook rebuilds the initramfs;    *)
(* where hardware detection is optional its failure is only logged.         *)
RunHardwareDetection ==
  /\ pc = "detect" /\ Goto("unmountcache")
  /\ \/ params.detect /\ initramfs' = "fresh"
     \/ UNCHANGED initramfs
  /\ UNCHANGED <<attempt, queue, diskVars, targetVars, loaderState, artifacts>>

(* Mutant of UnmountIsoCache: pacman.conf is cleaned only after a umount    *)
(* that succeeded.                                                          *)
UnmountIsoCacheTrusting ==
  /\ pc = "unmountcache" /\ Goto("services")
  /\ IF cacheFlag
     THEN \/ /\ IsMounted("isocache") /\ cacheFlag' = FALSE /\ cacheDir' = FALSE
             /\ mounted' = [mounted EXCEPT !["isocache"] = @ - 1]
          \/ cacheFlag' = FALSE /\ UNCHANGED <<mounted, cacheDir>>
     ELSE UNCHANGED <<mounted, cacheFlag, cacheDir>>
  /\ UNCHANGED <<attempt, queue, diskVars, fstab, bootVars, artifacts>>

(* _unmount_iso_cache_from_target: a refused umount is only warned about.   *)
UnmountIsoCache ==
  /\ pc = "unmountcache" /\ Goto("services")
  /\ IF cacheFlag
     THEN /\ \/ IsMounted("isocache") /\ mounted' = [mounted EXCEPT !["isocache"] = @ - 1]
             \/ UNCHANGED mounted
          /\ cacheFlag' = FALSE /\ cacheDir' = FALSE
     ELSE UNCHANGED <<mounted, cacheFlag, cacheDir>>
  /\ UNCHANGED <<attempt, queue, diskVars, fstab, bootVars, artifacts>>

EnableServices == pc = "services" /\ Goto("ansible") /\ UNCHANGED <<attempt, queue, effects>>

StageAnsible ==
  /\ pc = "ansible" /\ Goto("swap")
  /\ artifacts' = IF params.tplRoles THEN artifacts \cup {"playbooks"} ELSE artifacts
  /\ UNCHANGED <<attempt, queue, diskVars, targetVars, bootVars>>

(* Only apply_disk_layout_resolved reports swap partitions; one whose UUID  *)
(* blkid cannot read is skipped with a warning.                             *)
AppendSwapFstabEntries ==
  /\ pc = "swap" /\ Goto("bootconfig")
  /\ fstab' = fstab \cup {e \in {"swap"} : params.source = "resolved" /\ params.swap}
  /\ UNCHANGED <<attempt, queue, diskVars, mounted, cacheFlag, cacheDir, bootVars, artifacts>>

SwapUuidUnreadable ==
  /\ pc = "swap" /\ params.source = "resolved" /\ params.swap
  /\ pc' = "bootconfig" /\ faulted' = TRUE
  /\ UNCHANGED <<request, status, attempt, queue, effects>>

-----------------------------------------------------------------------------
(* Phase 3: install_bootloader, then mirror_esp.                            *)

(* The type of the platform, the firmware under GRUB, and the one vmlinuz   *)
(* link the aarch64 hook can keep.                                          *)
LoaderSupported(p) ==
  \/ p.loader = "limine"
  \/ p.loader = "grub" /\ p.firmware = "uefi" /\ p.oneKernel

WriteBootConfig ==
  pc = "bootconfig" /\ LoaderSupported(params) /\ Goto("loader") /\ UNCHANGED <<attempt, queue, effects>>

LoaderRefused == pc = "bootconfig" /\ ~LoaderSupported(params) /\ Raise

(* Mutant of LoaderFits: supports_bios is not consulted.                    *)
LoaderFitsUefiOnly ==
  IF params.loader = "limine"
  THEN params.esp = "/boot" /\ params.firmware = "uefi"
  ELSE params.esp = "/boot/efi"

(* limine writes to ESP_PATH="/boot", grub-install to /boot/efi.            *)
LoaderFits ==
  IF params.loader = "limine"
  THEN params.esp = "/boot" /\ (params.firmware = "uefi" \/ params.biosOk)
  ELSE params.esp = "/boot/efi"

InstallLoader ==
  /\ pc = "loader" /\ LoaderFits /\ Goto("entries")
  /\ loaderState' = "binary"
  /\ UNCHANGED <<attempt, queue, diskVars, targetVars, initramfs, artifacts>>

LoaderHasNoPlace == pc = "loader" /\ ~LoaderFits /\ Raise

(* The disk of the mounted ESP; on BIOS limine's boot sector is on "device".*)
LeadBoots(p) == {d \in {LeadDisk(p)} : p.firmware = "bios" => d = p.device}

(* Mutants of GenerateBootEntries: entries without an initramfs, no queue   *)
(* for the mirror, and a failing limine-mkinitcpio that is only logged.     *)
GenerateBootEntriesOnly ==
  /\ pc = "entries" /\ Goto("mirror")
  /\ loaderState' = "complete" /\ espCurrent' = LeadBoots(params)
  /\ queue' = IF params.raid = "btrfsMirror" THEN params.raidDisks \ {params.raidLead} ELSE {}
  /\ UNCHANGED <<attempt, chosen, erased, held, targetVars, initramfs, artifacts>>
GenerateBootEntriesUnmirrored ==
  /\ pc = "entries" /\ Goto("mirror")
  /\ loaderState' = "complete" /\ espCurrent' = LeadBoots(params) /\ queue' = {}
  /\ initramfs' = IF params.loader = "limine" THEN "fresh" ELSE initramfs
  /\ UNCHANGED <<attempt, chosen, erased, held, targetVars, artifacts>>
GenerateBootEntriesBestEffort ==
  /\ pc = "entries" /\ Goto("mirror")
  /\ loaderState' \in {loaderState, "complete"}
  /\ espCurrent' = LeadBoots(params) /\ queue' = {}
  /\ UNCHANGED <<attempt, chosen, erased, held, targetVars, initramfs, artifacts>>

(* limine-mkinitcpio builds the initramfs and the entries; grub-mkconfig    *)
(* only the entries.                                                        *)
GenerateBootEntries ==
  /\ pc = "entries" /\ Goto("mirror")
  /\ loaderState' = "complete"
  /\ initramfs' = IF params.loader = "limine" THEN "fresh" ELSE initramfs
  /\ espCurrent' = LeadBoots(params)
  /\ queue' = IF params.raid = "btrfsMirror" THEN params.raidDisks \ {params.raidLead} ELSE {}
  /\ UNCHANGED <<attempt, chosen, erased, held, targetVars, artifacts>>

(* rsync -a --delete of /boot, wherever the ESP is mounted, onto partition 1 *)
(* of every other member of raid_config; no boot sector for BIOS.           *)
MirrorEsp ==
  /\ pc = "mirror" /\ queue # {}
  /\ \E d \in queue :
       /\ queue' = queue \ {d}
       /\ erased' = erased \cup {d}
       /\ espCurrent' = IF params.esp = "/boot" /\ params.firmware = "uefi"
                        THEN espCurrent \cup {d} ELSE espCurrent
  /\ Goto("mirror")
  /\ UNCHANGED <<attempt, chosen, held, targetVars, bootVars, artifacts>>

MirrorDone ==
  /\ pc = "mirror" /\ queue = {}
  /\ Goto(IF params.btrfs /\ params.source # "manual" THEN "snapshots" ELSE "unit")
  /\ UNCHANGED <<attempt, queue, effects>>

(* Phase 4: snapper's own command may fail unnoticed; file writes may not.  *)
SetupSnapshots == pc = "snapshots" /\ Goto("unit") /\ UNCHANGED <<attempt, queue, effects>>

-----------------------------------------------------------------------------
(* Phase 5: inject_firstboot_service, the roles state and the log.          *)

SkipFirstboot ==
  /\ pc = "unit" /\ ~Armed(params) /\ Goto("finish")
  /\ UNCHANGED <<attempt, queue, effects>>

WriteFile(step, file, next) ==
  /\ pc = step /\ Armed(params) /\ Goto(next)
  /\ artifacts' = artifacts \cup {file}
  /\ UNCHANGED <<attempt, queue, diskVars, targetVars, bootVars>>

WriteUnit == WriteFile("unit", "unit", "wants")
(* Mutant of EnableUnit: the sentinel is touched before the script exists.  *)
EnableUnitEarlySentinel == WriteFile("wants", "sentinel", "script")

EnableUnit == "wants" \notin artifacts /\ WriteFile("wants", "wants", "script")
(* Seen from the live system the link of an earlier run dangles: exists()   *)
(* is false and symlink_to raises.                                          *)
EnableUnitTwice == pc = "wants" /\ "wants" \in artifacts /\ Raise
WriteScript == WriteFile("script", "script", "sentinel")
TouchSentinel == WriteFile("sentinel", "sentinel", "finish")

Finish ==
  /\ pc = "finish" /\ pc' = "stopped" /\ status' = "installed"
  /\ UNCHANGED <<request, faulted, attempt, queue, effects>>

-----------------------------------------------------------------------------
(* A command of the step exits non-zero: CalledProcessError ends the run.   *)
CommandFails ==
  /\ status = "running" /\ pc \notin {"disk", "stopped"}
  /\ pc = "pacstrap" => attempt = 1
  /\ Abort /\ faulted' = TRUE /\ UNCHANGED <<attempt, queue, effects>>

PhaseDisk == UseManualMounts \/ ChooseDisks \/ RolesUnassigned \/ NothingToInstallOn
             \/ WipeDevice \/ BusyDisk \/ LayoutMisfits \/ FormatAndMountRoot \/ MountNext
PhaseSystem == PrePacstrapSetup \/ PacstrapInstalls \/ PacstrapRetries \/ GenerateFstab
               \/ BindVar \/ BindVarTwice \/ InstallPacmanConf \/ ConfigureChroot
               \/ ConfigureAppleInput \/ DeployHardwareFiles \/ RunHardwareDetection \/ UnmountIsoCache
               \/ EnableServices \/ StageAnsible
               \/ AppendSwapFstabEntries \/ SwapUuidUnreadable
PhaseBoot == WriteBootConfig \/ LoaderRefused \/ InstallLoader \/ LoaderHasNoPlace
             \/ GenerateBootEntries \/ MirrorEsp \/ MirrorDone
PhaseLast == SetupSnapshots \/ SkipFirstboot \/ WriteUnit \/ EnableUnit
             \/ EnableUnitTwice \/ WriteScript \/ TouchSentinel \/ Finish

Step == PhaseDisk \/ PhaseSystem \/ PhaseBoot \/ PhaseLast \/ CommandFails
Next == Start \/ Step
Spec == Init /\ [][Next]_vars
(* The pipeline is one sequential thread: every command it starts returns.  *)
FairSpec == Spec /\ WF_vars(Step)

-----------------------------------------------------------------------------
(* Properties.                                                              *)

(* Every disk the request gives an ESP.                                     *)
EspDisks(p) ==
  CASE p.source = "resolved" -> p.espDisks
    [] p.source = "legacy" -> DisksToErase(p)
    [] OTHER -> {p.device}

(* The mounts are this pipeline's own: a manual install that is not the     *)
(* first of its process may have found those of a failed one.               *)
OwnMounts == runs <= 1 \/ params.source # "manual"

(* Every file system the installed system lives on, the bound pacman        *)
(* database included, is in the fstab it will boot with, and nothing of the *)
(* live ISO is (generate_fstab runs before the cache is mounted; only a     *)
(* pipeline on mounts it found may see the cache); so is the swap of a      *)
(* layout applied by role, which genfstab could not see, unless its UUID    *)
(* could not be read.                                                       *)
FstabMatchesMounts ==
  status = "installed" /\ OwnMounts =>
    /\ {m \in Mountpoints \ {"isocache"} : IsMounted(m)} \subseteq fstab
    /\ "isocache" \notin fstab
    /\ params.source = "resolved" /\ params.swap /\ ~faulted => "swap" \in fstab

(* The swap of any layout is in the fstab, whichever path applied it, unless *)
(* a command failed ("the install pipeline appends their UUID entries to    *)
(* fstab separately").                                                      *)
SwapInFstab ==
  status = "installed" /\ params.source \in {"resolved", "legacy"} /\ params.swap /\ ~faulted =>
    "swap" \in fstab

(* What a request must be for the code to carry it out: a source, a layout  *)
(* with its roles assigned that can be applied to its disks, and a loader   *)
(* for which the firmware, the kernels and the place of the ESP are right.  *)
Serviceable(p) ==
  /\ p.source # "none"
  /\ p.source = "resolved" => p.assigned
  /\ p.source \in {"resolved", "legacy"} => p.fits
  /\ p.source = "legacy" => p.raid # "mdadm"
  /\ \/ p.loader = "limine" /\ p.esp = "/boot" /\ (p.firmware = "uefi" \/ p.biosOk)
     \/ p.loader = "grub" /\ p.esp = "/boot/efi" /\ p.firmware = "uefi" /\ p.oneKernel

(* A pipeline that fails with a request it could carry out, and nothing of  *)
(* an earlier one in its way, fails because a command failed: whatever the  *)
(* first pipeline of the process left behind, none of the code's own        *)
(* exceptions (busy disks, a bind mount or a wants link found again, loader *)
(* and layout checks) is reached.                                           *)
FailsOnlyOnFault == status = "failed" /\ Serviceable(params) /\ clear => faulted

(* The modprobe files are followed by limine-mkinitcpio, or there are none, *)
(* of the hardware profile or for Apple keyboards.                          *)
EntriesRebuild == params.loader = "limine" \/ (~params.hwFiles /\ ~params.apple)

(* No initramfs older than the modprobe files deployed next to it is left   *)
(* behind, by a loader phase that builds one (or when there are no files).  *)
InitramfsCurrent == status = "installed" /\ EntriesRebuild => initramfs = "fresh"

(* The same whatever the loader, as install_system has it: mkinitcpio is    *)
(* "handled by ... the bootloader phase".                                   *)
InitramfsAlwaysCurrent == status = "installed" => initramfs = "fresh"

(* Whenever the machine stops, the pending sentinel is on the target only   *)
(* with everything the unit that tests it needs to run.                     *)
SentinelImpliesService ==
  "sentinel" \in artifacts => {"unit", "wants", "script"} \subseteq artifacts

(* The first-boot script of an installed system finds its playbook.         *)
RolesHavePlaybooks ==
  status = "installed" /\ "script" \in artifacts => "playbooks" \in artifacts

(* However many pipelines the process ran and whichever umount was refused, *)
(* an installed system's pacman.conf does not name the live cache, and the  *)
(* process no longer believes it is mounted.                                *)
CacheReleased == status = "installed" => ~cacheDir /\ ~cacheFlag

(* Only disks handed over by the operator are written to.                   *)
OnlyChosenDisksErased == erased \subseteq chosen

(* Only the wizard's RAID mirrors an ESP, one mounted at /boot, for UEFI; a  *)
(* layout by role has one ESP, and the disks of an mdadm array boot from    *)
(* the array's lead disk alone.  BIOS boots from the disk that was named as *)
(* the device.                                                              *)
EspsMirrored ==
  /\ params.raid # "mdadm"
  /\ params.source = "resolved" => params.espDisks \subseteq {LeadDisk(params)}
  /\ params.raid = "btrfsMirror" => params.esp = "/boot" /\ params.firmware = "uefi"
  /\ params.firmware = "bios" => params.device = LeadDisk(params)

(* Unless it is striped, every disk with an ESP can boot the target on its  *)
(* own, whatever an earlier pipeline left: the mirrors are filled after the *)
(* last write to the lead ESP.                                              *)
EveryMirrorBoots ==
  status = "installed" /\ EspsMirrored /\ params.raid # "btrfs0" =>
    EspDisks(params) \subseteq espCurrent

(* mirror_esp, "provides boot redundancy for btrfs RAID 1/10 configurations",*)
(* wherever the ESP is mounted; and the copies of an ESP replicated by role.*)
EveryCopyBoots ==
  status = "installed" /\ params.raid # "btrfs0" => EspDisks(params) \subseteq espCurrent

(* A started pipeline returns or raises.                                    *)
PipelineEnds == status = "running" ~> status \in {"installed", "failed"}

(* The pipeline implements the contract of its caller.                      *)
Contract == INSTANCE InstallContract WITH
  phase <- status, granted <- named, destroyed <- erased,
  bootable <- (loaderState = "complete" /\ initramfs # "none")
ImplementsContract == Contract!ContractSpec
=============================================================================
