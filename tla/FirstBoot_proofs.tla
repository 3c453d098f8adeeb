--------------------------- MODULE FirstBoot_proofs ---------------------------
(***************************************************************************)
(* Proofs about FirstBoot for any number of power cuts, runs by hand and   *)
(* re-created sentinels: no failure is lost, the marker tells the truth,   *)
(* and boots do not repeat a run that ended.                               *)
(***************************************************************************)
EXTENDS FirstBoot, TLAPS

\* Every variable keeps to its values.
LEMMA TypeInit == Init => TypeOK
<1> SUFFICES ASSUME Init PROVE TypeOK
  OBVIOUS
<1>1. at \in [Runner -> {"idle", "play", "verdict", "fill", "remove"}] /\ rc \in [Runner -> {0, 2}]
  BY DEF Init
<1>2. cuts \in 0..MaxCuts /\ hands \in 0..MaxHands /\ touches \in 0..MaxTouches
  BY BoundsAssumption DEF Init
<1> QED
  BY <1>1, <1>2 DEF Init, TypeOK

\* Every step keeps the variables to their values.
LEMMA TypeNext == TypeOK /\ [Next]_vars => TypeOK'
<1> SUFFICES ASSUME TypeOK, [Next]_vars PROVE TypeOK'
  OBVIOUS
<1> USE BoundsAssumption DEF TypeOK
<1>1. CASE Boot
  BY <1>1 DEF Boot, files, counters, history
<1>2. CASE StartAtBoot
  BY <1>2 DEF StartAtBoot, StartUnit, Launch, files, counters
<1>3. CASE StartDisplay
  BY <1>3 DEF StartDisplay, files, counters, history
<1>4. CASE PowerOff
  <2>1. at' \in [Runner -> {"idle", "play", "verdict", "fill", "remove"}]
    BY <1>4 DEF PowerOff
  <2>2. cuts' \in 0..MaxCuts
    BY <1>4 DEF PowerOff
  <2>3. last' \in {"none", "ok", "failed", "cut"}
    BY <1>4 DEF PowerOff
  <2> QED
    BY <1>4, <2>1, <2>2, <2>3 DEF PowerOff, files
<1>5. CASE RunByHand
  <2>1. hands' \in 0..MaxHands
    BY <1>5 DEF RunByHand
  <2>2. at' \in [Runner -> {"idle", "play", "verdict", "fill", "remove"}]
    BY <1>5 DEF RunByHand, Launch, Runner
  <2>3. overlap' \in BOOLEAN
    BY <1>5 DEF RunByHand, Launch
  <2> QED
    BY <1>5, <2>1, <2>2, <2>3 DEF RunByHand, files
<1>6. CASE Touch
  <2>1. touches' \in 0..MaxTouches
    BY <1>6 DEF Touch
  <2> QED
    BY <1>6, <2>1 DEF Touch
<1>7. CASE SystemctlStart
  BY <1>7 DEF SystemctlStart, StartUnit, Launch, files, counters
<1>8. ASSUME NEW r \in Runner, Script(r) PROVE TypeOK'
  <2>1. CASE Playbook(r)
    BY <2>1 DEF Playbook, Goto, files, counters
  <2>2. CASE ClearMarker(r)
    BY <2>2 DEF ClearMarker, Goto, counters, history
  <2>3. CASE OpenMarker(r)
    BY <2>3 DEF OpenMarker, Goto, counters, history
  <2>4. CASE FillMarker(r)
    BY <2>4 DEF FillMarker, Goto, counters, history
  <2>5. CASE RemoveSentinel(r)
    BY <2>5 DEF RemoveSentinel, Goto, counters
  <2> QED
    BY <1>8, <2>1, <2>2, <2>3, <2>4, <2>5 DEF Script
<1>9. CASE UNCHANGED vars
  BY <1>9 DEF vars, files, counters, history
<1> QED
  BY <1>1, <1>2, <1>3, <1>4, <1>5, <1>6, <1>7, <1>8, <1>9 DEF Next

\* The variables of the unit's script, of the machine and of the operator take
\* only the values their comments name.
THEOREM TypeCorrect == Spec => []TypeOK
BY TypeInit, TypeNext, PTL DEF Spec

-----------------------------------------------------------------------------
\* What is known of the playbook's outcome: a copy of the script about to clear
\* the marker has seen a success, one past its verdict has left its mark, and
\* so it is once the sentinel is gone.
Known == configured \/ marker # "none"
Kept ==
  /\ \A r \in Runner : at[r] = "verdict" /\ rc[r] = 0 => configured
  /\ \A r \in Runner : at[r] \in {"fill", "remove"} => Known
  /\ ~pending => Known

\* No step loses a success or a failure that was not shown.
LEMMA KeptNext == TypeOK /\ Kept /\ [Next]_vars => Kept'
<1> SUFFICES ASSUME TypeOK, Kept, [Next]_vars PROVE Kept'
  OBVIOUS
<1> USE DEF Kept, Known, TypeOK
<1>1. CASE Boot
  BY <1>1 DEF Boot, files, history
<1>2. CASE StartAtBoot
  BY <1>2 DEF StartAtBoot, StartUnit, Launch, files
<1>3. CASE StartDisplay
  BY <1>3 DEF StartDisplay, files, history
<1>4. CASE PowerOff
  BY <1>4 DEF PowerOff, files
<1>5. CASE RunByHand
  BY <1>5 DEF RunByHand, Launch, files
<1>6. CASE Touch
  BY <1>6 DEF Touch
<1>7. CASE SystemctlStart
  BY <1>7 DEF SystemctlStart, StartUnit, Launch, files
<1>8. ASSUME NEW r \in Runner, Script(r) PROVE Kept'
  <2>1. CASE Playbook(r)
    BY <2>1 DEF Playbook, Goto, files
  <2>2. CASE ClearMarker(r)
    BY <2>2 DEF ClearMarker, Goto, history
  <2>3. CASE OpenMarker(r)
    BY <2>3 DEF OpenMarker, Goto, history
  <2>4. CASE FillMarker(r)
    BY <2>4 DEF FillMarker, Goto, history
  <2>5. CASE RemoveSentinel(r)
    BY <2>5 DEF RemoveSentinel, Goto
  <2> QED
    BY <1>8, <2>1, <2>2, <2>3, <2>4, <2>5 DEF Script
<1>9. CASE UNCHANGED vars
  BY <1>9 DEF vars, files, history
<1> QED
  BY <1>1, <1>2, <1>3, <1>4, <1>5, <1>6, <1>7, <1>8, <1>9 DEF Next

\* The sentinel is gone only after a playbook succeeded or a failure was left on
\* record, whenever the power went and however many copies ran.
THEOREM NothingIsLost == Spec => []NothingLost
<1>1. Init => Kept
  BY DEF Init, Kept, Known
<1>2. Kept => NothingLost
  BY DEF Kept, Known, NothingLost
<1> QED
  BY <1>1, <1>2, TypeInit, TypeNext, KeptNext, PTL DEF Spec

-----------------------------------------------------------------------------
\* As long as no two copies ever ran side by side, the only one that runs finds
\* the marker as it left it, and no one touches it between two runs.
Alone ==
  /\ Running("unit") => ~Running("hand")
  /\ \A r \in Runner :
       /\ at[r] = "fill" => rc[r] # 0 /\ marker = "empty"
       /\ at[r] = "remove" => (marker = "full") = (rc[r] # 0)
  /\ Quiet /\ last \in {"ok", "failed"} => (marker = "full") = (last = "failed")
Ordered == overlap \/ Alone

\* While no two copies overlap, the marker is as the last one left it.
LEMMA OrderedNext == TypeOK /\ Ordered /\ [Next]_vars => Ordered'
<1> SUFFICES ASSUME TypeOK, Ordered, [Next]_vars PROVE Ordered'
  OBVIOUS
<1> USE DEF Ordered, Alone, TypeOK, Runner, Running, Quiet
<1>1. CASE Boot
  BY <1>1 DEF Boot, files, history
<1>2. CASE StartAtBoot
  BY <1>2 DEF StartAtBoot, StartUnit, Launch, files
<1>3. CASE StartDisplay
  BY <1>3 DEF StartDisplay, files, history
<1>4. CASE PowerOff
  BY <1>4 DEF PowerOff, files
<1>5. CASE RunByHand
  BY <1>5 DEF RunByHand, Launch, files
<1>6. CASE Touch
  BY <1>6 DEF Touch
<1>7. CASE SystemctlStart
  BY <1>7 DEF SystemctlStart, StartUnit, Launch, files
<1>8. ASSUME NEW r \in Runner, Script(r) PROVE Ordered'
  <2>1. CASE Playbook(r)
    BY <2>1 DEF Playbook, Goto, files
  <2>2. CASE ClearMarker(r)
    BY <2>2 DEF ClearMarker, Goto, history
  <2>3. CASE OpenMarker(r)
    BY <2>3 DEF OpenMarker, Goto, history
  <2>4. CASE FillMarker(r)
    BY <2>4 DEF FillMarker, Goto, history
  <2>5. CASE RemoveSentinel(r)
    BY <2>5 DEF RemoveSentinel, Goto
  <2> QED
    BY <1>8, <2>1, <2>2, <2>3, <2>4, <2>5 DEF Script
<1>9. CASE UNCHANGED vars
  BY <1>9 DEF vars, files, history
<1> QED
  BY <1>1, <1>2, <1>3, <1>4, <1>5, <1>6, <1>7, <1>8, <1>9 DEF Next

\* A marker on display means that the last run failed, none that it succeeded,
\* unless that run was cut short or two ran side by side.
THEOREM VerdictIsShown == Spec => []VerdictShown
<1>1. Init => Ordered
  BY DEF Init, Ordered, Alone, Runner, Running, Quiet
<1>2. Ordered => VerdictShown
  BY DEF Ordered, Alone, VerdictShown
<1> QED
  BY <1>1, <1>2, TypeInit, TypeNext, OrderedNext, PTL DEF Spec

-----------------------------------------------------------------------------
\* A sentinel that outlived a run that ended is the operator's.
Owned == pending => last \in {"none", "cut"} \/ touched

\* A sentinel comes back only by the operator's hand.
LEMMA OwnedNext == Owned /\ [Next]_vars => Owned'
<1> SUFFICES ASSUME Owned, [Next]_vars PROVE Owned'
  OBVIOUS
<1> USE DEF Owned, files, history
<1>1. CASE Boot \/ StartAtBoot \/ StartDisplay \/ SystemctlStart
  BY <1>1 DEF Boot, StartAtBoot, StartDisplay, SystemctlStart
<1>2. CASE PowerOff
  BY <1>2 DEF PowerOff
<1>3. CASE RunByHand \/ Touch
  BY <1>3 DEF RunByHand, Touch
<1>4. ASSUME NEW r \in Runner, Script(r) PROVE Owned'
  BY <1>4 DEF Script, Playbook, ClearMarker, OpenMarker, FillMarker, RemoveSentinel
<1>5. CASE UNCHANGED vars
  BY <1>5 DEF vars
<1> QED
  BY <1>1, <1>2, <1>3, <1>4, <1>5 DEF Next

\* Only a step that finds the sentinel starts the unit's copy of the script.
LEMMA UnitNeedsSentinel ==
  TypeOK /\ [Next]_vars /\ ~Running("unit") /\ Running("unit")' => pending
<1> SUFFICES ASSUME TypeOK, [Next]_vars, ~Running("unit"), Running("unit")', ~pending
             PROVE FALSE
  OBVIOUS
<1> USE DEF Running, Runner, TypeOK
<1>1. CASE Boot \/ StartDisplay \/ Touch
  BY <1>1 DEF Boot, StartDisplay, Touch
<1>2. CASE StartAtBoot \/ SystemctlStart
  BY <1>2 DEF StartAtBoot, SystemctlStart, StartUnit
<1>3. CASE PowerOff
  BY <1>3 DEF PowerOff
<1>4. CASE RunByHand
  BY <1>4 DEF RunByHand, Launch
<1>5. ASSUME NEW r \in Runner, Script(r) PROVE FALSE
  BY <1>5 DEF Script, Playbook, ClearMarker, OpenMarker, FillMarker, RemoveSentinel, Goto
<1>6. CASE UNCHANGED vars
  BY <1>6 DEF vars
<1> QED
  BY <1>1, <1>2, <1>3, <1>4, <1>5, <1>6 DEF Next

\* Once a run has ended, well or not, no boot repeats it unless the operator
\* re-created the sentinel.
THEOREM RunsOnlyOnce == Spec => RunsOnce
<1>1. Init => Owned
  BY DEF Init, Owned
<1>2. TypeOK /\ Owned /\ [Next]_vars
        => [~Running("unit") /\ Running("unit")' => last \in {"none", "cut"} \/ touched]_vars
  BY UnitNeedsSentinel DEF Owned
<1> QED
  BY <1>1, <1>2, TypeInit, TypeNext, OwnedNext, PTL DEF Spec, RunsOnce
=============================================================================
