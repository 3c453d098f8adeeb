---------------------------- MODULE HardwareRescan ----------------------------
(***************************************************************************)
(* arches-hardware-rescan (core/hardware_rescan.py with the reconciliation *)
(* and state files of core/hardware.py): the oneshot unit that runs on     *)
(* every boot of an installed machine.  The installer may have deployed    *)
(* nothing.  Between two boots hardware may change and the operator may    *)
(* write, edit and delete files; during a pass a probe, chwd or mkinitcpio *)
(* may fail, and the machine may lose power (or systemd its patience)      *)
(* between any two writes.                                                 *)
(***************************************************************************)
EXTENDS Naturals

CONSTANTS Hw,          \* what the machine can consist of
          NoPci,       \* what a failed lspci reports
          File,        \* names under modprobe.d, udev/rules.d, sysctl.d
          Module,      \* those under modprobe.d
          Content,     \* what quirks and machine profiles put into them
          Wants,       \* hardware -> file -> what resolve_hardware wants there
          Driver,      \* chwd profiles
          NoProfile,   \* none installed, and what a failing chwd --list-installed reports
          DriverOf,    \* hardware -> the profile chwd -a selects
          NoFile, Foreign, Partial, Torn, Garbled, NoPrint,
          Invocations, \* command lines: sets of flags
          MaxChanges,  \* bound: hardware changes and operator edits
          MaxFaults    \* bound: failed or skipped commands, failed probes, power cuts

Flags == {"force", "skip_chwd", "skip_mkinitcpio"}
Seen == Hw \cup {NoPci}
Profile == Driver \cup {NoProfile}

ASSUME FilesAssumption == Module \subseteq File
ASSUME ContentAssumption ==
  /\ {NoFile, Foreign, Partial, Torn, Garbled} \cap Content = {}
  /\ NoFile \notin {Foreign, Partial, Torn, Garbled}
  /\ {Torn, Garbled} \cap {Foreign, Partial} = {} /\ Torn # Garbled
ASSUME WantsAssumption == Wants \in [Seen -> [File -> Content \cup {NoFile}]]
ASSUME DriverAssumption == NoProfile \notin Driver /\ DriverOf \in [Hw -> Profile]
ASSUME PrintAssumption == NoPci \notin Hw /\ NoPrint \notin Seen \X Profile
ASSUME BoundsAssumption == MaxChanges \in Nat /\ MaxFaults \in Nat
ASSUME InvocationsAssumption == Invocations \subseteq SUBSET Flags

VARIABLES
  hw,      \* the hardware that is there
  driver,  \* the chwd profile installed
  disk,    \* file -> NoFile, Content, Torn (header kept, the rest is not what any quirk says),
           \* Garbled (header kept, the rest no text), Partial or Foreign (no header)
  built,   \* the modprobe files the initramfs was built from
  saved,   \* the recorded fingerprint: (PCI set, chwd profile)
  manifest,\* the recorded names
  pc,      \* "off" between two passes
  opts,    \* flags of the current pass
  seen,    \* its PCI/DMI snapshot
  profile, \* the chwd profile it will record
  cat, todo, \* the loop over categories and over files
  changed, \* modules_changed
  owed,    \* history: what failures, edits, interruptions and the installer left undone
  changes, faults  \* used up of the two bounds

state == <<disk, built, saved, manifest>>
pass == <<opts, seen, profile, cat, todo, changed>>
run == <<pass, owed>>
env == <<hw, driver, changes, faults>>
vars == <<hw, driver, disk, built, saved, manifest, pc, opts, seen, profile,
          cat, todo, changed, owed, changes, faults>>

Pcs == {"off", "snapshot", "orphans", "writes", "chwd", "mkinitcpio", "manifest", "fingerprint"}
(* The steps of a pass in which the initramfs may be behind the files.      *)
Rebuilding == {"orphans", "writes", "chwd", "mkinitcpio"}
Anything == Content \cup {NoFile, Foreign, Partial, Torn, Garbled}

(* is_managed_file: the file starts with the management header.             *)
Managed(f) == disk[f] \in Content \cup {Torn, Garbled}
FilesOf(c) == IF c = "modprobe" THEN Module ELSE File \ Module

(* Types; the loops only ever look at files of their category's directory.  *)
TypeOK ==
  /\ hw \in Hw /\ driver \in Profile /\ disk \in [File -> Anything]
  /\ built \in [Module -> Anything] /\ saved \in (Seen \X Profile) \cup {NoPrint}
  /\ manifest \subseteq File /\ pc \in Pcs /\ opts \in SUBSET Flags
  /\ seen \in Seen /\ profile \in Profile /\ cat \in {"modprobe", "other"}
  /\ todo \subseteq File /\ changed \in BOOLEAN /\ owed \subseteq {"files", "driver", "image"}
  /\ pc \in {"orphans", "writes"} => todo \subseteq FilesOf(cat)
  /\ changes \in 0..MaxChanges /\ faults \in 0..MaxFaults

-----------------------------------------------------------------------------
Modules == [f \in Module |-> disk[f]]
Fault == faults < MaxFaults /\ faults' = faults + 1

(* The installer deploys the files of the hardware, or none of them (Skip   *)
(* Hardware Config); builds the initramfs after that, or before (GRUB);     *)
(* runs chwd, or does not; and records the fingerprint in every case, as    *)
(* best it can (a profile it cannot read is the empty one).                 *)
Init ==
  /\ hw \in Hw /\ driver \in {DriverOf[hw], NoProfile}
  /\ disk \in {Wants[hw], [f \in File |-> NoFile]}
  /\ built \in {Modules, [f \in Module |-> NoFile]}
  /\ manifest = {f \in File : disk[f] # NoFile}
  /\ saved \in {NoPrint, <<hw, driver>>, <<hw, NoProfile>>}
  /\ owed = {o \in {"files", "driver", "image"} :
               \/ o = "files" /\ disk # Wants[hw]
               \/ o = "driver" /\ driver # DriverOf[hw]
               \/ o = "image" /\ built # Modules}
  /\ pc = "off" /\ opts = {} /\ seen = hw /\ profile = driver
  /\ cat = "modprobe" /\ todo = {} /\ changed = FALSE
  /\ changes = 0 /\ faults = 0

(* While no pass runs: parts are swapped (the machine is off for that); the *)
(* operator puts a file in place, deletes one, or edits one below its header.*)
ChangeHardware ==
  /\ pc = "off" /\ changes < MaxChanges /\ changes' = changes + 1
  /\ hw' \in Hw \ {hw}
  /\ UNCHANGED <<driver, faults, state, pc, run>>

EditFile ==
  /\ pc = "off" /\ changes < MaxChanges /\ changes' = changes + 1
  /\ \E f \in File, edit \in {Foreign, NoFile, Torn} :
       /\ edit = Torn => Managed(f)
       /\ disk' = [disk EXCEPT ![f] = edit]
       /\ owed' = owed \cup {"files"} \cup {i \in {"image"} : f \in Module}
  /\ UNCHANGED <<hw, driver, faults, built, saved, manifest, pc, pass>>

(* The unit runs on boot; the operator may run the tool with flags of their *)
(* own, and asking it to skip a command counts as a fault, too.             *)
Boot ==
  /\ pc = "off" /\ pc' = "snapshot" /\ opts' \in Invocations
  /\ IF opts' \subseteq {"force"} THEN UNCHANGED faults ELSE Fault
  /\ UNCHANGED <<hw, driver, changes, state, seen, profile, cat, todo, changed, owed>>

(* detect_pci_ids and detect_chwd_profile; an unchanged fingerprint ends    *)
(* the pass, as does nothing else before the reconciliation.                *)
TakeSnapshot(pci, name) ==
  /\ pc = "snapshot" /\ seen' = pci /\ profile' = name
  /\ IF "force" \notin opts /\ saved = <<pci, name>>
     THEN pc' = "off" /\ UNCHANGED <<cat, todo, changed>>
     ELSE pc' = "orphans" /\ cat' = "modprobe" /\ todo' = Module /\ changed' = FALSE
  /\ UNCHANGED <<hw, driver, changes, state, opts, owed>>

Snapshot == TakeSnapshot(hw, driver) /\ UNCHANGED faults
(* lspci times out or is missing: no devices.  chwd does: no profile.       *)
SnapshotBlind == TakeSnapshot(NoPci, driver) /\ Fault
SnapshotUnnamed == TakeSnapshot(hw, NoProfile) /\ Fault

(* Mutants of RemoveOrphan: files without the header go, too; removals do   *)
(* not count as changes.                                                    *)
RemoveOrphansAndStrays ==
  /\ pc = "orphans" /\ todo # {}
  /\ \E f \in todo :
       /\ todo' = todo \ {f}
       /\ IF disk[f] # NoFile /\ Wants[seen][f] = NoFile
          THEN disk' = [disk EXCEPT ![f] = NoFile] /\ changed' = (changed \/ f \in Module)
          ELSE UNCHANGED <<disk, changed>>
  /\ UNCHANGED <<env, built, saved, manifest, pc, opts, seen, profile, cat, owed>>

RemoveOrphanUncounted ==
  /\ pc = "orphans" /\ todo # {}
  /\ \E f \in todo :
       /\ todo' = todo \ {f}
       /\ disk' = IF Managed(f) /\ Wants[seen][f] = NoFile
                  THEN [disk EXCEPT ![f] = NoFile] ELSE disk
  /\ UNCHANGED <<env, built, saved, manifest, pc, opts, seen, profile, cat, changed, owed>>

(* reconcile_hardware_files, first loop: managed files nobody wants go.     *)
RemoveOrphan ==
  /\ pc = "orphans" /\ todo # {}
  /\ \E f \in todo :
       /\ todo' = todo \ {f}
       /\ IF Managed(f) /\ Wants[seen][f] = NoFile
          THEN disk' = [disk EXCEPT ![f] = NoFile] /\ changed' = (changed \/ f \in Module)
          ELSE UNCHANGED <<disk, changed>>
  /\ UNCHANGED <<env, built, saved, manifest, pc, opts, seen, profile, cat, owed>>

(* The directory is clean; next, the files wanted in it.                    *)
OrphansDone ==
  /\ pc = "orphans" /\ todo = {} /\ pc' = "writes"
  /\ todo' = {f \in FilesOf(cat) : Wants[seen][f] # NoFile}
  /\ UNCHANGED <<env, state, opts, seen, profile, cat, changed, owed>>

(* Second loop: a wanted file is written unless it is right already or      *)
(* something without the header is in its place.                            *)
MustWrite(f) == disk[f] # Wants[seen][f] /\ (Managed(f) \/ disk[f] = NoFile)

(* What a pass that is cut short leaves in doubt.                           *)
CutShort == owed \cup (IF pc = "snapshot" THEN {} ELSE {"files", "driver"})
                 \cup (IF pc \in Rebuilding THEN {"image"} ELSE {})

(* Mutant of WriteFile: a file that is there, managed, is left alone.       *)
WriteFileIfMissing ==
  /\ pc = "writes" /\ todo # {}
  /\ \E f \in todo :
       /\ disk[f] # Garbled /\ todo' = todo \ {f}
       /\ IF disk[f] = NoFile
          THEN disk' = [disk EXCEPT ![f] = Wants[seen][f]] /\ changed' = (changed \/ f \in Module)
          ELSE UNCHANGED <<disk, changed>>
  /\ UNCHANGED <<env, built, saved, manifest, pc, opts, seen, profile, cat, owed>>

(* One turn of the second loop.                                             *)
WriteFile ==
  /\ pc = "writes" /\ todo # {}
  /\ \E f \in todo :
       /\ disk[f] # Garbled /\ todo' = todo \ {f}
       /\ IF MustWrite(f)
          THEN disk' = [disk EXCEPT ![f] = Wants[seen][f]] /\ changed' = (changed \/ f \in Module)
          ELSE UNCHANGED <<disk, changed>>
  /\ UNCHANGED <<env, built, saved, manifest, pc, opts, seen, profile, cat, owed>>

(* read_text cannot decode a managed file: UnicodeDecodeError ends the pass.*)
ReadGarbled ==
  /\ pc = "writes" /\ pc' = "off"
  /\ \E f \in todo : disk[f] = Garbled
  /\ owed' = CutShort
  /\ UNCHANGED <<env, state, pass>>

WritesDone ==
  /\ pc = "writes" /\ todo = {}
  /\ IF cat = "modprobe"
     THEN pc' = "orphans" /\ cat' = "other" /\ todo' = FilesOf("other")
     ELSE pc' = "chwd" /\ UNCHANGED <<cat, todo>>
  /\ UNCHANGED <<env, state, opts, seen, profile, changed, owed>>

(* chwd -a installs the packages of another profile only if there is one to *)
(* change to; their hooks rebuild the initramfs.                            *)
SelectDriver(name) ==
  /\ pc = "chwd" /\ pc' = "mkinitcpio" /\ "skip_chwd" \notin opts
  /\ driver' = DriverOf[hw] /\ profile' = name
  /\ IF driver = DriverOf[hw]
     THEN UNCHANGED built /\ owed' = owed \ {"driver"}
     ELSE built' = Modules /\ owed' = owed \ {"driver", "image"}
  /\ UNCHANGED <<hw, changes, disk, saved, manifest, opts, seen, cat, todo, changed>>

RunChwd == SelectDriver(DriverOf[hw]) /\ UNCHANGED faults
(* Its profile is read again, and that fails.                               *)
ChwdUnnamed == SelectDriver(NoProfile) /\ Fault

SkipChwd ==
  /\ pc = "chwd" /\ pc' = "mkinitcpio" /\ "skip_chwd" \in opts
  /\ owed' = owed \cup {"driver"}
  /\ UNCHANGED <<env, state, pass>>

ChwdFails ==
  /\ pc = "chwd" /\ pc' = "mkinitcpio" /\ "skip_chwd" \notin opts /\ Fault
  /\ owed' = owed \cup {"driver"}
  /\ UNCHANGED <<hw, driver, changes, state, pass>>

(* Only when a modprobe file was written or removed in this pass; the       *)
(* result is not looked at.                                                 *)
RunMkinitcpio ==
  /\ pc = "mkinitcpio" /\ pc' = "manifest"
  /\ IF changed /\ "skip_mkinitcpio" \notin opts
     THEN built' = Modules /\ owed' = owed \ {"image"}
     ELSE UNCHANGED built /\ owed' = owed \cup {i \in {"image"} : changed}
  /\ UNCHANGED <<env, disk, saved, manifest, pass>>

MkinitcpioFails ==
  /\ pc = "mkinitcpio" /\ pc' = "manifest" /\ Fault
  /\ changed /\ "skip_mkinitcpio" \notin opts
  /\ owed' = owed \cup {"image"}
  /\ UNCHANGED <<hw, driver, changes, state, pass>>

WriteManifest ==
  /\ pc = "manifest" /\ pc' = "fingerprint"
  /\ manifest' = {f \in File : Managed(f)}
  /\ UNCHANGED <<env, disk, built, saved, run>>

(* Mutant of WriteFingerprint: only a pass that changed files records one.  *)
WriteFingerprintIfChanged ==
  /\ pc = "fingerprint" /\ pc' = "off"
  /\ saved' = IF changed THEN <<seen, profile>> ELSE saved
  /\ owed' = owed \ {"files"}
  /\ UNCHANGED <<env, disk, built, manifest, pass>>

(* The snapshot's PCI and DMI identities with the profile chwd left.        *)
WriteFingerprint ==
  /\ pc = "fingerprint" /\ pc' = "off"
  /\ saved' = <<seen, profile>> /\ owed' = owed \ {"files"}
  /\ UNCHANGED <<env, disk, built, manifest, pass>>

(* Power is lost or systemd kills the unit.  write_text is not atomic: the  *)
(* file being written may keep its header (and end within a character), or  *)
(* not even that.                                                           *)
Crash ==
  /\ pc # "off" /\ Fault /\ pc' = "off" /\ owed' = CutShort
  /\ \/ UNCHANGED disk
     \/ /\ pc = "writes"
        /\ \E f \in todo, rest \in {Torn, Garbled, Partial} :
             MustWrite(f) /\ disk[f] # Garbled /\ disk' = [disk EXCEPT ![f] = rest]
  /\ UNCHANGED <<hw, driver, changes, built, saved, manifest, pass>>

Pass == Snapshot \/ RemoveOrphan \/ OrphansDone \/ WriteFile \/ ReadGarbled \/ WritesDone
        \/ RunChwd \/ SkipChwd \/ RunMkinitcpio \/ WriteManifest \/ WriteFingerprint
Failures == SnapshotBlind \/ SnapshotUnnamed \/ ChwdUnnamed \/ ChwdFails \/ MkinitcpioFails \/ Crash
Next == ChangeHardware \/ EditFile \/ Boot \/ Pass \/ Failures

Spec == Init /\ [][Next]_vars
(* The machine is booted again and again, and a pass that is not cut short  *)
(* runs on: every command has a timeout.                                    *)
FairSpec == Spec /\ WF_vars(Boot) /\ WF_vars(Pass)

-----------------------------------------------------------------------------
(* Properties.                                                              *)

(* "Never touches files we don't own": whatever fails, a pass neither       *)
(* changes nor removes a file that does not carry the header.               *)
ForeignUntouched ==
  [][pc # "off" => \A f \in File : disk[f] \in {Foreign, Partial} => disk'[f] = disk[f]]_vars

(* For one hardware: every managed file says what it wants, every file it   *)
(* wants is there unless one without the header is in its place.            *)
Reconciled(h) ==
  \A f \in File : \/ disk[f] = Wants[h][f]
                  \/ disk[f] \in {Foreign, Partial}

(* A fingerprint is recorded only over files reconciled for that hardware,  *)
(* through every failure and interruption.                                  *)
RecordedMeansReconciled ==
  [][saved' # saved => saved' # NoPrint /\ Reconciled(saved'[1])]_vars

(* The next boot takes the fast path, if its probes answer.                 *)
Quiet == pc = "off" /\ saved = <<hw, driver>>

(* While the next boot would take the fast path, the files are those of the *)
(* hardware that is there, whatever failed and whatever changed, unless the *)
(* installer left them out, the operator edited them or a pass was cut      *)
(* short since one was last completed; and so is the driver, unless the     *)
(* last chwd failed, was skipped or was cut short.                          *)
QuietMeansApplied ==
  Quiet => /\ "files" \notin owed => Reconciled(hw)
           /\ "driver" \notin owed => driver = DriverOf[hw]

(* Between two passes the initramfs is that of the modprobe files on disk   *)
(* (docstring, step d), unless it was older to begin with, an edit or an    *)
(* interruption came after it, or a rebuild failed or was skipped, and none *)
(* succeeded since.                                                         *)
RestMeansBuilt == pc = "off" /\ "image" \notin owed => built = Modules

(* When nothing changes any more, the record ends up matching the machine   *)
(* and every boot takes the fast path, unless a half-written file of the    *)
(* tool's own makes it fail on every boot.                                  *)
EventuallyQuiet ==
  <>[](saved = <<hw, driver>> \/ \E f \in File : disk[f] = Garbled)

(* The unit "runs on every boot" and "re-evaluates the hardware profile     *)
(* against what's currently on disk" (docstring): when it finds no change,  *)
(* a pass would have nothing to do for files, driver and initramfs.         *)
FastPathSound ==
  [][Snapshot /\ pc' = "off" => Reconciled(hw) /\ driver = DriverOf[hw] /\ built = Modules]_vars

(* The fingerprint is updated (docstring, step e) after the steps b to d    *)
(* have done their work: files, driver and initramfs are those of what was  *)
(* recorded.                                                                *)
RecordedMeansDone ==
  [][saved' # saved =>
       /\ Reconciled(saved'[1]) /\ \A f \in File : disk[f] # Partial
       /\ saved'[1] \in Hw => driver = DriverOf[saved'[1]]
       /\ built = Modules]_vars

(* "No longer applies (orphan) -- delete": a managed file is deleted only   *)
(* when the hardware that is there has no use for it.                       *)
OrphansAreOrphans ==
  [][pc # "off" =>
       \A f \in File : disk[f] # NoFile /\ disk'[f] = NoFile => Wants[hw][f] = NoFile]_vars
=============================================================================
