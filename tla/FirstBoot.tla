------------------------------ MODULE FirstBoot ------------------------------
(***************************************************************************)
(* What the unit and the script of core/firstboot.py do on the installed   *)
(* machine, over its boots: the unit runs the script while the sentinel is *)
(* there, the script runs the playbook, leaves a marker if it failed and   *)
(* removes the sentinel.  The power may go between any two commands, and   *)
(* the operator may run the script by hand, or follow the failure marker's *)
(* advice: touch the sentinel and start the unit.                          *)
(***************************************************************************)
EXTENDS Naturals

CONSTANTS MaxCuts,   \* bound: runs cut short
          MaxHands,  \* bound: runs by hand
          MaxTouches \* bound: sentinels re-created

ASSUME BoundsAssumption == MaxCuts \in Nat /\ MaxHands \in Nat /\ MaxTouches \in Nat

Runner == {"unit", "hand"}

VARIABLES
  power,    \* the machine runs
  boot,     \* this boot's job for the unit: "queued", then "done"
  unit,     \* ActiveState of arches-firstboot.service
  display,  \* the display manager was started at this boot
  pending,  \* /opt/arches/firstboot-pending is there
  marker,   \* /opt/arches/firstboot-failed: none, empty or full
  at,       \* Runner -> where its copy of the script is
  rc,       \* Runner -> its _ANSIBLE_RC
  cuts, hands, touches,
  configured, \* history: some playbook run succeeded
  last,       \* history: how the last run ended: none, ok, failed, cut
  overlap,    \* history: two copies of the script ran at once
  touched     \* history: the sentinel is the operator's

files == <<pending, marker>>
counters == <<cuts, hands, touches>>
history == <<configured, last, overlap, touched>>
vars == <<power, boot, unit, display, files, at, rc, counters, history>>

Init ==
  /\ power = FALSE /\ boot = "done" /\ unit = "inactive" /\ display = FALSE
  /\ pending = TRUE /\ marker = "none"
  /\ at = [r \in Runner |-> "idle"] /\ rc = [r \in Runner |-> 0]
  /\ cuts = 0 /\ hands = 0 /\ touches = 0
  /\ configured = FALSE /\ last = "none" /\ overlap = FALSE /\ touched = FALSE

Running(r) == at[r] # "idle"
Quiet == \A r \in Runner : ~Running(r)

(***************************************************************************)
(* The machine and systemd.                                                *)
(***************************************************************************)
Boot ==
  /\ ~power /\ power' = TRUE
  /\ boot' = "queued" /\ unit' = "inactive" /\ display' = FALSE
  /\ UNCHANGED <<files, at, rc, counters, history>>

\* A copy of the script starts.
Launch(r) ==
  /\ at' = [at EXCEPT ![r] = "play"]
  /\ overlap' = (overlap \/ ~Quiet)

\* ConditionPathExists: a unit whose condition fails stays inactive.
StartUnit ==
  IF pending /\ unit = "inactive"
  THEN unit' = "activating" /\ Launch("unit")
  ELSE UNCHANGED <<unit, at, overlap>>

\* graphical.target wants the unit.
StartAtBoot ==
  /\ power /\ boot = "queued" /\ boot' = "done" /\ StartUnit
  /\ UNCHANGED <<power, display, files, rc, counters, configured, last, touched>>

\* Before=display-manager.service
StartDisplay ==
  /\ power /\ boot = "done" /\ unit # "activating" /\ ~display
  /\ display' = TRUE
  /\ UNCHANGED <<power, boot, unit, files, at, rc, counters, history>>

\* A shutdown or a power failure; either kills what runs.
PowerOff ==
  /\ power /\ power' = FALSE
  /\ IF Quiet /\ boot = "done" THEN UNCHANGED cuts ELSE cuts < MaxCuts /\ cuts' = cuts + 1
  /\ at' = [r \in Runner |-> "idle"]
  /\ last' = IF Quiet THEN last ELSE "cut"
  /\ unit' = "inactive" /\ boot' = "done" /\ display' = FALSE
  /\ UNCHANGED <<files, rc, hands, touches, configured, overlap, touched>>

(***************************************************************************)
(* The operator.                                                           *)
(***************************************************************************)
RunByHand ==
  /\ power /\ ~Running("hand") /\ hands < MaxHands /\ hands' = hands + 1
  /\ Launch("hand")
  /\ UNCHANGED <<power, boot, unit, display, files, rc, cuts, touches,
                 configured, last, touched>>

Touch ==
  /\ power /\ touches < MaxTouches /\ touches' = touches + 1
  /\ pending' = TRUE /\ touched' = TRUE
  /\ UNCHANGED <<power, boot, unit, display, marker, at, rc, cuts, hands,
                 configured, last, overlap>>

\* systemctl start: RemainAfterExit keeps a unit that ran at this boot active.
SystemctlStart ==
  /\ power /\ boot = "done" /\ StartUnit
  /\ UNCHANGED <<power, boot, display, files, rc, counters, configured, last, touched>>

(***************************************************************************)
(* generate_firstboot_script, command by command.                          *)
(***************************************************************************)
Goto(r, label) == at' = [at EXCEPT ![r] = label]

\* Mutant of Playbook: the sentinel is removed as soon as it returns, as an
\* ExecStartPost would.
PlaybookThenRemove(r) ==
  /\ at[r] = "play" /\ Goto(r, "verdict")
  /\ \E code \in {0, 2} :
       /\ rc' = [rc EXCEPT ![r] = code]
       /\ configured' = (configured \/ code = 0)
  /\ pending' = FALSE
  /\ UNCHANGED <<power, boot, unit, display, marker, counters, last, overlap, touched>>

Playbook(r) ==
  /\ at[r] = "play" /\ Goto(r, "verdict")
  /\ \E code \in {0, 2} :
       /\ rc' = [rc EXCEPT ![r] = code]
       /\ configured' = (configured \/ code = 0)
  /\ UNCHANGED <<power, boot, unit, display, files, counters, last, overlap, touched>>

\* Mutant of ClearMarker: an earlier failure stays on record.
KeepMarker(r) ==
  /\ at[r] = "verdict" /\ rc[r] = 0
  /\ Goto(r, "remove")
  /\ UNCHANGED <<power, boot, unit, display, files, rc, counters, history>>

\* Success: rm -f firstboot-failed
ClearMarker(r) ==
  /\ at[r] = "verdict" /\ rc[r] = 0
  /\ marker' = "none" /\ Goto(r, "remove")
  /\ UNCHANGED <<power, boot, unit, display, pending, rc, counters, history>>

\* Failure: > firstboot-failed truncates the marker ...
OpenMarker(r) ==
  /\ at[r] = "verdict" /\ rc[r] # 0
  /\ marker' = "empty" /\ Goto(r, "fill")
  /\ UNCHANGED <<power, boot, unit, display, pending, rc, counters, history>>

\* ... and the group writes it, to no avail if it was removed meanwhile.
FillMarker(r) ==
  /\ at[r] = "fill"
  /\ marker' = IF marker = "none" THEN "none" ELSE "full"
  /\ Goto(r, "remove")
  /\ UNCHANGED <<power, boot, unit, display, pending, rc, counters, history>>

\* Mutant of RemoveSentinel: only a success removes the sentinel.
RemoveSentinelIfOk(r) ==
  /\ at[r] = "remove" /\ Goto(r, "idle")
  /\ pending' = (rc[r] # 0)
  /\ touched' = FALSE /\ last' = IF rc[r] = 0 THEN "ok" ELSE "failed"
  /\ unit' = IF r = "unit" THEN "active" ELSE unit
  /\ UNCHANGED <<power, boot, display, marker, rc, counters, configured, overlap>>

\* Mutant of RemoveSentinel: the sentinel is left to the unit.
RemoveNothing(r) ==
  /\ at[r] = "remove" /\ Goto(r, "idle")
  /\ touched' = FALSE /\ last' = IF rc[r] = 0 THEN "ok" ELSE "failed"
  /\ unit' = IF r = "unit" THEN "active" ELSE unit
  /\ UNCHANGED <<power, boot, display, files, rc, counters, configured, overlap>>

\* rm -f firstboot-pending; the banner after it cannot fail the script.
RemoveSentinel(r) ==
  /\ at[r] = "remove" /\ Goto(r, "idle")
  /\ pending' = FALSE
  /\ touched' = FALSE /\ last' = IF rc[r] = 0 THEN "ok" ELSE "failed"
  /\ unit' = IF r = "unit" THEN "active" ELSE unit
  /\ UNCHANGED <<power, boot, display, marker, rc, counters, configured, overlap>>

Script(r) == \/ Playbook(r) \/ ClearMarker(r) \/ OpenMarker(r) \/ FillMarker(r)
             \/ RemoveSentinel(r)

Next == \/ Boot \/ StartAtBoot \/ StartDisplay \/ PowerOff
        \/ RunByHand \/ Touch \/ SystemctlStart
        \/ \E r \in Runner : Script(r)

Spec == Init /\ [][Next]_vars

\* The machine is switched on again, systemd works its queue, a playbook ends.
Fairness == /\ WF_vars(Boot) /\ WF_vars(StartAtBoot) /\ WF_vars(StartDisplay)
            /\ \A r \in Runner : WF_vars(Script(r))
FairSpec == Spec /\ Fairness

(***************************************************************************)
(* Properties.                                                             *)
(***************************************************************************)
\* Every variable keeps to its values, and the bounds bound.
TypeOK ==
  /\ power \in BOOLEAN /\ boot \in {"queued", "done"}
  /\ unit \in {"inactive", "activating", "active"} /\ display \in BOOLEAN
  /\ pending \in BOOLEAN /\ marker \in {"none", "empty", "full"}
  /\ at \in [Runner -> {"idle", "play", "verdict", "fill", "remove"}]
  /\ rc \in [Runner -> {0, 2}]
  /\ cuts \in 0..MaxCuts /\ hands \in 0..MaxHands /\ touches \in 0..MaxTouches
  /\ configured \in BOOLEAN /\ last \in {"none", "ok", "failed", "cut"}
  /\ overlap \in BOOLEAN /\ touched \in BOOLEAN

\* "Failures visible at login ... instead of being silently lost": whenever no
\* copy of the script runs and the sentinel is gone, some playbook run had
\* succeeded or the failure marker is there, through power cuts and runs side
\* by side.
NothingLost == Quiet /\ ~pending => configured \/ marker # "none"

\* The marker tells how the last run ended, whatever came before it: unless that
\* run was cut short or two ran side by side.
VerdictShown ==
  Quiet /\ ~overlap /\ last \in {"ok", "failed"} => (marker = "full") = (last = "failed")

\* "The first-boot service runs once": after a run that ended, boots do not
\* start it again unless the operator re-creates the sentinel.
RunsOnce ==
  [][~Running("unit") /\ Running("unit")' => last \in {"none", "cut"} \/ touched]_vars

\* A machine that is switched on with the sentinel there gets rid of it, and
\* its display manager is not held back for ever.
Settles ==
  /\ (~power /\ pending) ~> ~pending
  /\ power ~> (display \/ ~power)

\* The marker's advice "sudo touch ... && sudo systemctl start" starts a run:
\* not at a boot the unit has already run in.
RetryStarts == [][SystemctlStart /\ pending => unit' = "activating"]_vars
=============================================================================
