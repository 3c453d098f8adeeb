------------------------- MODULE HardwareRescan_proofs -------------------------
(***************************************************************************)
(* Proofs about HardwareRescan for every hardware, every set of quirks and *)
(* every number of boots and failures: a pass leaves strangers' files      *)
(* alone, and records a fingerprint only over files it has reconciled.     *)
(***************************************************************************)
EXTENDS HardwareRescan, TLAPS

(* What the loop over the categories has achieved for the files behind it.  *)
OrphanOk(f) == Managed(f) => Wants[seen][f] # NoFile
Done(f) == disk[f] = Wants[seen][f] \/ disk[f] \in {Foreign, Partial}

Progress ==
  /\ pc = "orphans" => \A f \in FilesOf(cat) \ todo : OrphanOk(f)
  /\ pc = "writes" => \A f \in FilesOf(cat) \ todo : Done(f)
  /\ pc \in {"orphans", "writes"} /\ cat = "other" => \A f \in Module : Done(f)
  /\ pc \in {"chwd", "mkinitcpio", "manifest", "fingerprint"} => \A f \in File : Done(f)

IInv == TypeOK /\ Progress

USE FilesAssumption, WantsAssumption DEF Seen

(* Files have one of the known contents, and the other variables their      *)
(* domains, in every reachable state.                                       *)
LEMMA TypeInit == Init => TypeOK
<1> SUFFICES ASSUME Init PROVE TypeOK
  OBVIOUS
<1>1. hw \in Hw /\ disk \in {Wants[hw], [f \in File |-> NoFile]} /\ driver \in {DriverOf[hw], NoProfile}
  BY DEF Init
<1>2. driver \in Profile
  BY <1>1, DriverAssumption DEF Profile
<1>3. disk \in [File -> Anything]
  BY <1>1 DEF Anything
<1>4. built \in [Module -> Anything]
  BY <1>3 DEF Init, Modules, Anything
<1>5. saved \in (Seen \X Profile) \cup {NoPrint}
  BY <1>1, <1>2 DEF Init, Profile
<1>6. 0 \in 0..MaxChanges /\ 0 \in 0..MaxFaults
  BY BoundsAssumption
<1>7. manifest \subseteq File /\ todo \subseteq File /\ opts \in SUBSET Flags
      /\ owed \subseteq {"files", "driver", "image"}
  BY DEF Init
<1> QED
  BY <1>1, <1>2, <1>3, <1>4, <1>5, <1>6, <1>7 DEF Init, TypeOK, Pcs

\* Every step keeps the variables to their values.
LEMMA TypeNext == TypeOK /\ [Next]_vars => TypeOK'
<1> SUFFICES ASSUME TypeOK, [Next]_vars PROVE TypeOK'
  OBVIOUS
<1> USE BoundsAssumption DEF TypeOK, Anything, Pcs, pass
<1>1. CASE ChangeHardware
  BY <1>1 DEF ChangeHardware, state, run
<1>2. CASE EditFile
  <2>1. disk' \in [File -> Anything] /\ owed' \subseteq {"files", "driver", "image"}
    BY <1>2 DEF EditFile
  <2>2. changes' \in 0..MaxChanges /\ pc = "off"
        /\ UNCHANGED <<hw, driver, faults, built, saved, manifest, pc, pass>>
    BY <1>2 DEF EditFile
  <2> QED
    BY <2>1, <2>2
<1>3. CASE Boot
  BY <1>3, InvocationsAssumption DEF Boot, Fault, state
<1>4. CASE Snapshot \/ SnapshotBlind \/ SnapshotUnnamed
  <2> USE DEF Snapshot, SnapshotBlind, SnapshotUnnamed, TakeSnapshot, Profile
  <2>1. changed' \in BOOLEAN
    BY <1>4
  <2>2. seen' \in Seen /\ faults' \in 0..MaxFaults
    BY <1>4 DEF Fault
  <2>3. /\ pc' \in Pcs /\ cat' \in {"modprobe", "other"} /\ todo' \subseteq File
        /\ pc' = "orphans" => todo' \subseteq FilesOf(cat')
        /\ pc' # "writes" /\ profile' \in Profile /\ UNCHANGED <<hw, driver, changes, state, opts, owed>>
    BY <1>4 DEF FilesOf
  <2> QED
    BY <2>1, <2>2, <2>3 DEF state
<1>5. CASE RemoveOrphan
  <2>1. changed' \in BOOLEAN
    BY <1>5 DEF RemoveOrphan
  <2>2. disk' \in [File -> Anything] /\ todo' \subseteq File
    BY <1>5 DEF RemoveOrphan
  <2> QED
    BY <1>5, <2>1, <2>2 DEF RemoveOrphan, env
<1>6. CASE OrphansDone
  BY <1>6 DEF OrphansDone, env, state, FilesOf
<1>7. CASE WriteFile
  <2>1. changed' \in BOOLEAN
    BY <1>7 DEF WriteFile
  <2>2. disk' \in [File -> Anything] /\ todo' \subseteq File
    BY <1>7 DEF WriteFile
  <2> QED
    BY <1>7, <2>1, <2>2 DEF WriteFile, env
<1>8. CASE WritesDone
  BY <1>8 DEF WritesDone, env, state, FilesOf
<1>9. CASE RunChwd \/ ChwdUnnamed
  <2> USE DEF RunChwd, ChwdUnnamed, SelectDriver
  <2>1. driver' \in Profile /\ profile' \in Profile /\ faults' \in 0..MaxFaults
    BY <1>9, DriverAssumption DEF Profile, Fault
  <2>2. built' \in [Module -> Anything] /\ owed' \subseteq {"files", "driver", "image"}
    BY <1>9 DEF Modules
  <2>3. pc' = "mkinitcpio" /\ UNCHANGED <<hw, changes, disk, saved, manifest, opts, seen, cat, todo, changed>>
    BY <1>9
  <2> QED
    BY <2>1, <2>2, <2>3
<1>10. CASE RunMkinitcpio
  BY <1>10 DEF RunMkinitcpio, Modules, env
<1>11. CASE WriteManifest
  BY <1>11 DEF WriteManifest, env, run
<1>12. CASE WriteFingerprint
  BY <1>12 DEF WriteFingerprint, env
<1>13. CASE ChwdFails \/ MkinitcpioFails
  <2>1. faults' \in 0..MaxFaults /\ pc' \in Pcs \ {"orphans", "writes"}
    BY <1>13 DEF ChwdFails, MkinitcpioFails, Fault
  <2>2. UNCHANGED <<hw, driver, changes, state, pass>> /\ owed' \subseteq {"files", "driver", "image"}
    BY <1>13 DEF ChwdFails, MkinitcpioFails
  <2> QED
    BY <2>1, <2>2 DEF state
<1>14. CASE Crash
  BY <1>14 DEF Crash, Fault, CutShort
<1>16. CASE SkipChwd \/ ReadGarbled
  BY <1>16 DEF SkipChwd, ReadGarbled, CutShort, env, state
<1>15. CASE UNCHANGED vars
  BY <1>15 DEF vars
<1> QED
  BY <1>1, <1>2, <1>3, <1>4, <1>5, <1>6, <1>7, <1>8, <1>9, <1>10, <1>11, <1>12,
     <1>13, <1>14, <1>15, <1>16 DEF Next, Pass, Failures

\* The files, the record and the loops of run_rescan keep to their ranges.
THEOREM TypeCorrect == Spec => []TypeOK
<1>1. Init => TypeOK
  BY TypeInit
<1>2. TypeOK /\ [Next]_vars => TypeOK'
  BY TypeNext
<1> QED
  BY <1>1, <1>2, PTL DEF Spec

(* The loop's bookkeeping is inductive: files behind it stay done.          *)
LEMMA ProgressNext == IInv /\ [Next]_vars => Progress'
<1> SUFFICES ASSUME TypeOK, Progress, [Next]_vars PROVE Progress'
  BY DEF IInv
<1> USE DEF Progress, OrphanOk, Done, Managed, FilesOf, pass
<1>1. CASE ChangeHardware \/ EditFile
  BY <1>1 DEF ChangeHardware, EditFile, state, run
<1>2. CASE Boot
  BY <1>2 DEF Boot, state
<1>3. CASE Snapshot \/ SnapshotBlind \/ SnapshotUnnamed
  BY <1>3 DEF Snapshot, SnapshotBlind, SnapshotUnnamed, TakeSnapshot, state
<1>4. CASE RemoveOrphan
  <2> PICK f \in todo :
        /\ todo' = todo \ {f}
        /\ IF Managed(f) /\ Wants[seen][f] = NoFile
           THEN disk' = [disk EXCEPT ![f] = NoFile]
           ELSE UNCHANGED disk
    BY <1>4 DEF RemoveOrphan
  <2>1. pc = "orphans" /\ UNCHANGED <<pc, cat, seen>>
    BY <1>4 DEF RemoveOrphan
  <2>2. f \in FilesOf(cat) /\ f \in File
    BY <2>1 DEF TypeOK
  <2>3. \A g \in File \ {f} : disk'[g] = disk[g]
    BY DEF TypeOK
  <2>4. OrphanOk(f)'
    BY <2>1, <2>2, ContentAssumption DEF TypeOK
  <2>5. \A g \in FilesOf(cat) \ todo' : OrphanOk(g)'
    BY <2>1, <2>2, <2>3, <2>4
  <2>6. cat = "other" => \A g \in Module : Done(g)'
    BY <2>1, <2>2, <2>3
  <2> QED
    BY <2>1, <2>5, <2>6
<1>5. CASE OrphansDone
  <2>1. pc = "orphans" /\ pc' = "writes" /\ todo = {} /\ UNCHANGED <<disk, seen, cat>>
    BY <1>5 DEF OrphansDone, state
  <2>2. todo' = {f \in FilesOf(cat) : Wants[seen][f] # NoFile}
    BY <1>5 DEF OrphansDone
  <2>3. \A f \in FilesOf(cat) \ todo' : Done(f)
    BY <2>1, <2>2, ContentAssumption DEF TypeOK, Anything
  <2> QED
    BY <2>1, <2>2, <2>3
<1>6. CASE WriteFile
  <2> PICK f \in todo :
        /\ todo' = todo \ {f}
        /\ IF MustWrite(f) THEN disk' = [disk EXCEPT ![f] = Wants[seen][f]]
           ELSE UNCHANGED disk
    BY <1>6 DEF WriteFile
  <2>1. pc = "writes" /\ UNCHANGED <<pc, cat, seen>>
    BY <1>6 DEF WriteFile
  <2>2. f \in FilesOf(cat) /\ f \in File
    BY <2>1 DEF TypeOK
  <2>3. \A g \in File \ {f} : disk'[g] = disk[g]
    BY DEF TypeOK
  <2>4. Done(f)'
    BY <2>1, <2>2, ContentAssumption DEF TypeOK, MustWrite, Anything
  <2>5. \A g \in FilesOf(cat) \ todo' : Done(g)'
    BY <2>1, <2>2, <2>3, <2>4
  <2>6. cat = "other" => \A g \in Module : Done(g)'
    BY <2>1, <2>2, <2>3
  <2> QED
    BY <2>1, <2>5, <2>6
<1>7. CASE WritesDone
  BY <1>7 DEF WritesDone, state, TypeOK
<1>8. CASE RunChwd \/ ChwdUnnamed \/ SkipChwd
  BY <1>8 DEF RunChwd, ChwdUnnamed, SelectDriver, SkipChwd, state
<1>9. CASE RunMkinitcpio \/ WriteManifest \/ WriteFingerprint
  BY <1>9 DEF RunMkinitcpio, WriteManifest, WriteFingerprint, run
<1>10. CASE ChwdFails \/ MkinitcpioFails
  BY <1>10 DEF ChwdFails, MkinitcpioFails, state, run
<1>11. CASE Crash \/ ReadGarbled
  BY <1>11 DEF Crash, ReadGarbled
<1>12. CASE UNCHANGED vars
  BY <1>12 DEF vars
<1> QED
  BY <1>1, <1>2, <1>3, <1>4, <1>5, <1>6, <1>7, <1>8, <1>9, <1>10, <1>11, <1>12
     DEF Next, Pass, Failures

\* The loops of a pass establish what the record will claim.
LEMMA Invariance == Spec => []IInv
<1>1. Init => IInv
  BY TypeInit DEF IInv, Progress, Init
<1>2. IInv /\ [Next]_vars => IInv'
  BY TypeNext, ProgressNext DEF IInv
<1> QED
  BY <1>1, <1>2, PTL DEF Spec

(* Whatever fails, a pass neither changes nor removes a file without the    *)
(* management header.                                                       *)
THEOREM StrangersAreSafe == Spec => ForeignUntouched
<1>1. ASSUME TypeOK, [Next]_vars, pc # "off",
             NEW f \in File, disk[f] \in {Foreign, Partial}
      PROVE  disk'[f] = disk[f]
  <2>1. CASE UNCHANGED disk
    BY <2>1
  <2>2. CASE RemoveOrphan
    BY <1>1, <2>2, ContentAssumption DEF RemoveOrphan, Managed, TypeOK
  <2>3. CASE WriteFile
    BY <1>1, <2>3, ContentAssumption DEF WriteFile, MustWrite, Managed, TypeOK
  <2>4. CASE Crash
    BY <1>1, <2>4, ContentAssumption DEF Crash, MustWrite, Managed, TypeOK
  <2>5. Next => RemoveOrphan \/ WriteFile \/ Crash \/ UNCHANGED disk
    BY <1>1 DEF Next, Pass, Failures, ChangeHardware, EditFile, Boot, Snapshot,
         SnapshotBlind, SnapshotUnnamed, TakeSnapshot, OrphansDone, ReadGarbled, WritesDone,
         RunChwd, ChwdUnnamed, SelectDriver, SkipChwd, RunMkinitcpio,
         WriteManifest, WriteFingerprint, ChwdFails, MkinitcpioFails, state
  <2>6. UNCHANGED vars => UNCHANGED disk
    BY DEF vars
  <2> QED
    BY <1>1, <2>1, <2>2, <2>3, <2>4, <2>5, <2>6
<1>2. TypeOK /\ [Next]_vars =>
        [pc # "off" => \A f \in File : disk[f] \in {Foreign, Partial} => disk'[f] = disk[f]]_vars
  BY <1>1
<1> QED
  BY <1>2, TypeCorrect, PTL DEF Spec, ForeignUntouched

(* A fingerprint is recorded only over files reconciled for its hardware.   *)
THEOREM RecordsAreReconciled == Spec => RecordedMeansReconciled
<1>1. ASSUME IInv, [Next]_vars, saved' # saved
      PROVE  saved' # NoPrint /\ Reconciled(saved'[1])
  <2>1. WriteFingerprint
    BY <1>1 DEF Next, Pass, Failures, ChangeHardware, EditFile, Boot, Snapshot,
         SnapshotBlind, SnapshotUnnamed, TakeSnapshot, RemoveOrphan, OrphansDone, WriteFile,
         ReadGarbled, WritesDone, RunChwd, ChwdUnnamed, SelectDriver, SkipChwd, RunMkinitcpio,
         WriteManifest, ChwdFails, MkinitcpioFails, Crash,
         state, vars
  <2>2. saved' = <<seen, profile>> /\ \A f \in File : Done(f)
    BY <1>1, <2>1 DEF WriteFingerprint, IInv, Progress
  <2>3. saved'[1] = seen
    BY <2>2
  <2>4. saved' \in Seen \X Profile
    BY <1>1, <2>2 DEF IInv, TypeOK
  <2> QED
    BY <2>2, <2>3, <2>4, PrintAssumption DEF Reconciled, Done
<1>2. IInv /\ [Next]_vars => [saved' # saved => saved' # NoPrint /\ Reconciled(saved'[1])]_vars
  BY <1>1
<1> QED
  BY <1>2, Invariance, PTL DEF Spec, RecordedMeansReconciled

-----------------------------------------------------------------------------
(* What the history variable "owed" does not excuse: a pass looks at the    *)
(* hardware that is there or at none, the driver is the one selected for    *)
(* it, what a fingerprint was recorded for is what files and driver are of, *)
(* and the initramfs is current but for changes the running pass counted.   *)
Working == Rebuilding \cup {"manifest", "fingerprint"}
LooksAtHardware == pc \in Working => seen \in {hw, NoPci}
DriverFits ==
  pc \in {"mkinitcpio", "manifest", "fingerprint"} /\ "driver" \notin owed => driver = DriverOf[hw]
RecordFits ==
  pc \notin Working /\ saved # NoPrint /\ saved[1] \in Hw =>
    /\ "files" \notin owed => Reconciled(saved[1])
    /\ "driver" \notin owed => driver = DriverOf[saved[1]]
ImageFits == "image" \notin owed => built = Modules \/ (changed /\ pc \in Rebuilding)
Excused == LooksAtHardware /\ DriverFits /\ RecordFits /\ ImageFits

\* What the installer did not do is owed on the first boot.
LEMMA ExcusedInit == Init => Excused
<1> SUFFICES ASSUME Init PROVE Excused
  OBVIOUS
<1>1. saved # NoPrint => saved[1] = hw
  BY DEF Init
<1>2. "files" \notin owed => Reconciled(hw)
  BY DEF Init, Reconciled
<1>3. "driver" \notin owed => driver = DriverOf[hw]
  BY DEF Init
<1>4. "image" \notin owed => built = Modules
  BY DEF Init
<1> QED
  BY <1>1, <1>2, <1>3, <1>4 DEF Init, Excused, LooksAtHardware, DriverFits, RecordFits,
     ImageFits, Working, Rebuilding

(* Every step keeps what it found fit, or says what it owes.                *)
LEMMA ExcusedNext == IInv /\ Excused /\ [Next]_vars => Excused'
<1> SUFFICES ASSUME TypeOK, Progress, Excused, [Next]_vars PROVE Excused'
  BY DEF IInv
<1> USE DEF Excused, Working, Rebuilding, pass
<1>1. CASE ChangeHardware
  BY <1>1 DEF ChangeHardware, state, run, LooksAtHardware, DriverFits, RecordFits,
     ImageFits, Modules, Reconciled
<1>2. CASE EditFile
  <2>1. PICK f \in File : /\ disk' = [disk EXCEPT ![f] = disk'[f]]
                          /\ owed' = owed \cup {"files"} \cup {i \in {"image"} : f \in Module}
    BY <1>2 DEF EditFile, TypeOK
  <2>2. pc = "off" /\ UNCHANGED <<hw, driver, built, saved, pc, seen, changed>>
    BY <1>2 DEF EditFile
  <2>3. f \notin Module => Modules' = Modules
    BY <2>1, FilesAssumption DEF Modules, TypeOK
  <2>4. ImageFits'
    BY <2>1, <2>2, <2>3 DEF ImageFits
  <2>5. RecordFits'
    BY <2>1, <2>2 DEF RecordFits
  <2> QED
    BY <2>2, <2>4, <2>5 DEF LooksAtHardware, DriverFits
<1>3. CASE Boot
  BY <1>3 DEF Boot, state, LooksAtHardware, DriverFits, RecordFits, ImageFits, Modules, Reconciled
<1>4. CASE Snapshot \/ SnapshotBlind \/ SnapshotUnnamed
  BY <1>4 DEF Snapshot, SnapshotBlind, SnapshotUnnamed, TakeSnapshot, state, LooksAtHardware,
     DriverFits, RecordFits, ImageFits, Modules, Reconciled
<1>5. CASE RemoveOrphan \/ WriteFile
  <2>1. PICK f \in todo :
          \/ UNCHANGED <<disk, changed>>
          \/ /\ disk' = [disk EXCEPT ![f] = disk'[f]]
             /\ changed' = (changed \/ f \in Module)
    BY <1>5 DEF RemoveOrphan, WriteFile, TypeOK
  <2>2. pc \in {"orphans", "writes"} /\ UNCHANGED <<env, built, saved, pc, opts, seen, profile, owed>>
    BY <1>5 DEF RemoveOrphan, WriteFile
  <2>3. \A g \in File \ {f} : disk'[g] = disk[g]
    BY <2>1 DEF TypeOK
  <2>4. ImageFits'
    <3>1. CASE changed' = TRUE
      BY <2>2, <3>1 DEF ImageFits
    <3>2. CASE changed' # TRUE
      <4>1. changed = FALSE /\ \A g \in Module : disk'[g] = disk[g]
        BY <2>1, <2>3, <3>2 DEF TypeOK
      <4>2. "image" \notin owed => built = Modules
        BY <4>1 DEF ImageFits
      <4>3. Modules' = Modules
        BY <4>1 DEF Modules
      <4> QED
        BY <2>2, <4>2, <4>3 DEF ImageFits
    <3> QED
      BY <3>1, <3>2
  <2> QED
    BY <2>2, <2>4 DEF env, LooksAtHardware, DriverFits, RecordFits
<1>6. CASE OrphansDone \/ WritesDone
  BY <1>6 DEF OrphansDone, WritesDone, env, state, LooksAtHardware, DriverFits,
     RecordFits, ImageFits, Modules
<1>7. CASE RunChwd \/ ChwdUnnamed
  BY <1>7 DEF RunChwd, ChwdUnnamed, SelectDriver, LooksAtHardware, DriverFits, RecordFits,
     ImageFits, Modules
<1>8. CASE SkipChwd \/ ChwdFails
  BY <1>8 DEF SkipChwd, ChwdFails, env, state, LooksAtHardware, DriverFits, RecordFits,
     ImageFits, Modules
<1>9. CASE RunMkinitcpio
  <2>1. pc = "mkinitcpio" /\ pc' = "manifest" /\ UNCHANGED <<env, disk, saved, manifest, pass>>
    BY <1>9 DEF RunMkinitcpio
  <2>2. "image" \notin owed' => built' = Modules'
    BY <1>9 DEF RunMkinitcpio, ImageFits, Modules
  <2>3. "driver" \notin owed' => "driver" \notin owed
    BY <1>9 DEF RunMkinitcpio
  <2> QED
    BY <2>1, <2>2, <2>3 DEF env, LooksAtHardware, DriverFits, RecordFits, ImageFits
<1>10. CASE MkinitcpioFails
  BY <1>10 DEF MkinitcpioFails, LooksAtHardware, DriverFits, RecordFits, ImageFits
<1>11. CASE WriteManifest
  BY <1>11 DEF WriteManifest, env, run, LooksAtHardware, DriverFits, RecordFits, ImageFits, Modules
<1>12. CASE WriteFingerprint
  <2>1. saved' = <<seen, profile>> /\ pc = "fingerprint" /\ pc' = "off"
        /\ owed' = owed \ {"files"} /\ UNCHANGED <<env, disk, built, pass>>
    BY <1>12 DEF WriteFingerprint
  <2>2. saved'[1] \in Hw => saved'[1] = hw /\ seen = hw
    BY <2>1, PrintAssumption DEF LooksAtHardware
  <2>3. seen = hw => Reconciled(hw)'
    <3>1. seen = hw => \A f \in File : disk[f] = Wants[hw][f] \/ disk[f] \in {Foreign, Partial}
      BY <2>1 DEF Progress, Done
    <3>2. disk' = disk /\ hw' = hw
      BY <2>1 DEF env
    <3> QED
      BY <3>1, <3>2 DEF Reconciled
  <2>4. "driver" \notin owed' => driver' = DriverOf[hw']
    BY <2>1 DEF DriverFits, env
  <2>5. RecordFits'
    BY <2>1, <2>2, <2>3, <2>4 DEF RecordFits, env, Reconciled
  <2>6. ImageFits'
    BY <2>1 DEF ImageFits, Modules
  <2> QED
    BY <2>1, <2>5, <2>6 DEF LooksAtHardware, DriverFits
<1>13. CASE Crash \/ ReadGarbled
  <2>1. pc' = "off" /\ owed' = CutShort /\ UNCHANGED <<hw, driver, built, saved, pass>>
    BY <1>13 DEF Crash, ReadGarbled, env, state
  <2>2. pc # "writes" => disk' = disk
    BY <1>13 DEF Crash, ReadGarbled, state
  <2>3. ImageFits'
    BY <2>1, <2>2 DEF ImageFits, CutShort, Modules
  <2>4. RecordFits'
    <3>1. CASE pc = "snapshot"
      BY <2>1, <2>2, <3>1 DEF RecordFits, CutShort, Reconciled
    <3>2. CASE pc # "snapshot"
      BY <2>1, <3>2 DEF RecordFits, CutShort
    <3> QED
      BY <3>1, <3>2
  <2> QED
    BY <2>1, <2>3, <2>4 DEF LooksAtHardware, DriverFits
<1>14. CASE UNCHANGED vars
  BY <1>14 DEF vars, LooksAtHardware, DriverFits, RecordFits, ImageFits, Modules, Reconciled
<1> QED
  BY <1>1, <1>2, <1>3, <1>4, <1>5, <1>6, <1>7, <1>8, <1>9, <1>10, <1>11, <1>12, <1>13, <1>14
  DEF Next, Pass, Failures

\* What is not owed is done, on every machine and after any failure.
LEMMA ExcusedAlways == Spec => []Excused
BY ExcusedInit, ExcusedNext, Invariance, PTL DEF Spec

(* A boot that would take the fast path has the files and the driver of the *)
(* hardware that is there, but for what is known to have been left undone:  *)
(* no other change or failure goes unnoticed.                               *)
THEOREM FastPathIsApplied == Spec => []QuietMeansApplied
<1>1. TypeOK /\ Excused => QuietMeansApplied
  <2> SUFFICES ASSUME TypeOK, Excused, Quiet
               PROVE  /\ "files" \notin owed => Reconciled(hw)
                      /\ "driver" \notin owed => driver = DriverOf[hw]
    BY DEF QuietMeansApplied
  <2>1. saved # NoPrint /\ saved[1] = hw
    BY PrintAssumption DEF Quiet, TypeOK
  <2> QED
    BY <2>1 DEF Excused, RecordFits, Working, Rebuilding, Quiet, TypeOK
<1> QED
  BY <1>1, ExcusedAlways, TypeCorrect, PTL

(* Between passes the initramfs is behind the modprobe files only when a    *)
(* rebuild is known to be missing: no pass forgets a change it made.        *)
THEOREM ImageIsBuilt == Spec => []RestMeansBuilt
<1>1. Excused => RestMeansBuilt
  BY DEF Excused, ImageFits, Rebuilding, RestMeansBuilt
<1> QED
  BY <1>1, ExcusedAlways, PTL
=============================================================================
