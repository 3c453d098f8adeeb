------------------------------- MODULE Keyring -------------------------------
(***************************************************************************)
(* _wait_for_keyring (core/install.py) against pacman-init.service, which  *)
(* fills the live system's keyring at the same time, and the copy of that  *)
(* keyring the target gets afterwards.  pacman-key is external: --init     *)
(* creates trustdb.gpg, as the comment in _keyring_is_populated has it,    *)
(* --populate imports the distributions' keys, one after the other.        *)
(***************************************************************************)
VARIABLES
  at,      \* where the installer is: idle, wait, sleep, init, populate, seed, stopped
  late,    \* the deadline has passed
  ready,   \* _KEYRING_READY
  unit,    \* ActiveState of pacman-init.service
  job,     \* what the unit runs: nothing, --init, --populate, touch
  keyring, \* which of trustdb.gpg and pubring.gpg are there with a content
  keys,    \* the distributions' keys in it: none, some, all
  marker,  \* /run/arches-keyring-ready
  target   \* the keys copied into the target, or "nothing"

installer == <<at, late, ready, target>>
service == <<unit, job, marker>>
vars == <<installer, service, keyring, keys>>

Init ==
  /\ at = "idle" /\ late = FALSE /\ ready = FALSE /\ target = "nothing"
  /\ unit = "inactive" /\ job = "nothing" /\ marker = FALSE
  /\ keyring = {} /\ keys = "none"

(***************************************************************************)
(* pacman-key, run by either side.                                         *)
(***************************************************************************)
InitKeyring == keyring' = keyring \cup {"trustdb"}

ImportKeys ==
  /\ keyring' = keyring \cup {"pubring"}
  /\ keys' = IF keys = "none" THEN "some" ELSE "all"

(***************************************************************************)
(* pacman-init.service                                                     *)
(***************************************************************************)
StartJob == unit' = "activating" /\ job' = "init"

UnitStarts ==
  /\ unit = "inactive" /\ StartJob
  /\ UNCHANGED <<installer, marker, keyring, keys>>

UnitInit ==
  /\ job = "init" /\ job' = "populate" /\ InitKeyring
  /\ UNCHANGED <<installer, unit, marker, keys>>

UnitPopulates ==
  /\ job = "populate" /\ ImportKeys
  /\ job' = IF keys' = "all" THEN "touch" ELSE job
  /\ UNCHANGED <<installer, unit, marker>>

UnitEnds ==
  /\ job = "touch" /\ job' = "nothing" /\ unit' = "active" /\ marker' = TRUE
  /\ UNCHANGED <<installer, keyring, keys>>

\* A command fails, or TimeoutStartSec has passed.
UnitFails ==
  /\ unit = "activating" /\ unit' = "failed" /\ job' = "nothing"
  /\ UNCHANGED <<installer, marker, keyring, keys>>

(***************************************************************************)
(* The installer.                                                          *)
(***************************************************************************)
\* _keyring_is_populated
Populated == marker \/ keyring = {"trustdb", "pubring"}

Ready == ready' = TRUE /\ at' = "seed"

\* Returns at once, or kicks the unit and waits.
Wait ==
  /\ at = "idle"
  /\ \/ (ready \/ Populated) /\ Ready /\ UNCHANGED <<unit, job>>
     \/ /\ ~ready /\ ~Populated /\ at' = "wait" /\ UNCHANGED ready
        /\ \/ UNCHANGED <<unit, job>>
           \/ unit \in {"inactive", "failed"} /\ StartJob
  /\ late' = FALSE
  /\ UNCHANGED <<target, marker, keyring, keys>>

\* One round of the loop: the files, then systemctl is-active.
Poll ==
  /\ at = "wait" /\ ~late
  /\ \/ Populated /\ Ready
     \/ ~Populated /\ at' = (IF unit = "failed" THEN "init" ELSE "sleep") /\ UNCHANGED ready
  /\ UNCHANGED <<late, target, service, keyring, keys>>

\* time.sleep(2), after which the deadline may have passed.
Sleep ==
  /\ at = "sleep" /\ at' = "wait"
  /\ late' \in BOOLEAN
  /\ UNCHANGED <<ready, target, service, keyring, keys>>

GiveUp ==
  /\ at = "wait" /\ late /\ at' = "init"
  /\ UNCHANGED <<late, ready, target, service, keyring, keys>>

ManualInit ==
  /\ at = "init" /\ at' = "populate" /\ InitKeyring
  /\ UNCHANGED <<late, ready, target, service, keys>>

ManualPopulate ==
  /\ at = "populate" /\ ImportKeys
  /\ IF keys' = "all" THEN Ready ELSE UNCHANGED <<at, ready>>
  /\ UNCHANGED <<late, target, service>>

\* A warning; the caller goes on with the keyring as it is.
ManualFails ==
  /\ at \in {"init", "populate"} /\ at' = "seed"
  /\ UNCHANGED <<late, ready, target, service, keyring, keys>>

\* _preseed_pacman_keyring; pacstrap comes next.
Preseed ==
  /\ at = "seed" /\ at' = "stopped"
  /\ target' = IF "trustdb" \in keyring THEN keys ELSE target
  /\ UNCHANGED <<late, ready, service, keyring, keys>>

\* Another pipeline of the same process.
Again ==
  /\ at = "stopped" /\ at' = "idle"
  /\ UNCHANGED <<late, ready, target, service, keyring, keys>>

Service == UnitStarts \/ UnitInit \/ UnitPopulates \/ UnitEnds \/ UnitFails
Installer == \/ Wait \/ Poll \/ Sleep \/ GiveUp \/ ManualInit \/ ManualPopulate
             \/ ManualFails \/ Preseed \/ Again
Next == Service \/ Installer
Spec == Init /\ [][Next]_vars

(***************************************************************************)
(* Properties.                                                             *)
(***************************************************************************)
\* Every variable keeps to its values.
TypeOK ==
  /\ at \in {"idle", "wait", "sleep", "init", "populate", "seed", "stopped"}
  /\ late \in BOOLEAN /\ ready \in BOOLEAN /\ marker \in BOOLEAN
  /\ unit \in {"inactive", "activating", "active", "failed"}
  /\ job \in {"nothing", "init", "populate", "touch"}
  /\ keyring \subseteq {"trustdb", "pubring"} /\ keys \in {"none", "some", "all"}
  /\ target \in {"nothing", "none", "some", "all"}

\* "Wait for pacman-init.service to finish populating the keyring": the flag that
\* lets pacman and the copy into the target go ahead is set over a populated
\* keyring only.  Violated: both files have a content while --populate is at
\* work, and the test asks for no more.
ReadyMeansPopulated == ready => keys = "all"
=============================================================================
