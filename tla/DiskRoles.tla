------------------------------ MODULE DiskRoles ------------------------------
(***************************************************************************)
(* resolve_disk_roles of core/disk_layout.py: the loop that gives every    *)
(* disk role of a layout its physical disks before anything is wiped.      *)
(* Roles are numbered in the order of sorted(effective.keys()), disks in   *)
(* the (serial, path) order match_disks returns them in.  A descriptor is  *)
(* abstracted to the disks it matches among the candidates.                *)
(***************************************************************************)
EXTENDS Naturals, FiniteSets

CONSTANTS NRoles,       \* roles named by any of the three layers
          NDisks,       \* candidate disks
          DefaultRole,  \* DEFAULT_DISK_ROLE
          Input         \* the calls considered

ASSUME SizesAssumption == NRoles \in Nat /\ NDisks \in Nat

Role == 1..NRoles
Disk == 1..NDisks

(* One layer's DiskRole: missing, unparsable, or matching some disks.       *)
Spec1 == [kind : {"absent", "invalid", "ok"}, disks : SUBSET Disk]
Absent == [kind |-> "absent", disks |-> {}]

(* "required" is 0 where _required_count_for_role answers None; "fixed" is  *)
(* what the implicit descriptor {removable: false} matches.                 *)
IsCall(c) ==
  /\ {c.layout, c.machine, c.auto} \subseteq [Role -> Spec1]
  /\ c.required \in [Role -> Nat] /\ c.fixed \subseteq Disk

ASSUME InputAssumption == DefaultRole \in Role /\ \A c \in Input : IsCall(c)

VARIABLES call,        \* the arguments
          next,        \* the role the loop looks at
          claimed,     \* disks taken by earlier roles
          assignments, \* disks of each role ({}: none)
          errors,      \* roles for which an error was recorded
          outcome      \* "looping", "resolved" or "raised"

vars == <<call, next, claimed, assignments, errors, outcome>>

-----------------------------------------------------------------------------
(* Mutant of Winning: the layout is allowed to win over the machine.        *)
WinningLayoutFirst(c, r) ==
  IF c.auto[r].kind # "absent" THEN c.auto[r]
  ELSE IF c.layout[r].kind # "absent" THEN c.layout[r]
  ELSE c.machine[r]

(* _merge_role_overrides: layout < machine < auto-install, role by role.    *)
Winning(c, r) ==
  IF c.auto[r].kind # "absent" THEN c.auto[r]
  ELSE IF c.machine[r].kind # "absent" THEN c.machine[r]
  ELSE c.layout[r]

(* A layout without [[disk]] entries gets the default role.                 *)
Effective(c, r) ==
  IF r = DefaultRole /\ Winning(c, r).kind = "absent" /\ \A q \in Role : c.layout[q] = Absent
  THEN [kind |-> "ok", disks |-> c.fixed]
  ELSE Winning(c, r)

Named(c) == {r \in Role : Effective(c, r).kind # "absent"}

(* How many disks the role must get.                                        *)
Wanted(c, r) == IF c.required[r] = 0 THEN 1 ELSE c.required[r]

(* unclaimed[:n] of a list in disk order.                                   *)
Leading(S, n) == {d \in S : Cardinality({e \in S : e < d}) < n}

Init ==
  /\ call \in Input /\ next = 1 /\ claimed = {}
  /\ assignments = [r \in Role |-> {}] /\ errors = {} /\ outcome = "looping"

Advance == outcome = "looping" /\ next \in Role /\ next' = next + 1
           /\ UNCHANGED <<call, outcome>>

Unclaimed == Effective(call, next).disks \ claimed

SkipUnnamedRole ==
  Advance /\ next \notin Named(call) /\ UNCHANGED <<claimed, assignments, errors>>

(* Mutants of Acceptable: more disks than wanted are fine, take the first   *)
(* ones; or fewer than wanted are fine.                                     *)
AcceptableAmbiguous ==
  Effective(call, next).kind = "ok" /\ Cardinality(Unclaimed) >= Wanted(call, next)
AcceptableShort ==
  /\ Effective(call, next).kind = "ok" /\ Unclaimed # {}
  /\ Cardinality(Unclaimed) <= Wanted(call, next)

(* The descriptor parses and its unclaimed matches are as many as wanted.   *)
Acceptable ==
  Effective(call, next).kind = "ok" /\ Cardinality(Unclaimed) = Wanted(call, next)

(* No match, matches claimed by earlier roles only, too few or too many     *)
(* matches, or a descriptor that does not parse: the loop goes on.          *)
RecordError ==
  /\ Advance /\ next \in Named(call) /\ ~Acceptable
  /\ errors' = errors \cup {next} /\ UNCHANGED <<claimed, assignments>>

(* Mutant of Assign: the disks are not marked as claimed.                   *)
AssignUnmarked ==
  /\ Advance /\ next \in Named(call) /\ Acceptable
  /\ assignments' = [assignments EXCEPT ![next] = Leading(Unclaimed, Wanted(call, next))]
  /\ UNCHANGED <<claimed, errors>>

(* The matches are as many as wanted: the role gets them.                   *)
Assign ==
  /\ Advance /\ next \in Named(call) /\ Acceptable
  /\ LET chosen == Leading(Unclaimed, Wanted(call, next))
     IN  assignments' = [assignments EXCEPT ![next] = chosen] /\ claimed' = claimed \cup chosen
  /\ UNCHANGED errors

(* After the loop: raise with every error collected, or return the map.     *)
Return ==
  /\ outcome = "looping" /\ next = NRoles + 1
  /\ outcome' = IF errors = {} THEN "resolved" ELSE "raised"
  /\ UNCHANGED <<call, next, claimed, assignments, errors>>

Next == SkipUnnamedRole \/ RecordError \/ Assign \/ Return
Spec == Init /\ [][Next]_vars

-----------------------------------------------------------------------------
(* Types, and the loop's bookkeeping: claimed disks are the assigned ones.  *)
TypeOK ==
  /\ IsCall(call) /\ next \in 1..(NRoles + 1)
  /\ assignments \in [Role -> SUBSET Disk] /\ claimed = UNION {assignments[r] : r \in Role}
  /\ errors \subseteq Role /\ outcome \in {"looping", "resolved", "raised"}

(* No disk serves two roles: it would be partitioned twice.                 *)
RolesDisjoint ==
  \A r, q \in Role : r # q => assignments[r] \cap assignments[q] = {}

(* An assignment the arguments allow: each named role gets as many disks as *)
(* it wants, all of them matched by the descriptor with the last word.      *)
LastWord(c, r) ==
  IF c.auto[r].kind # "absent" THEN c.auto[r].disks
  ELSE IF c.machine[r].kind # "absent" THEN c.machine[r].disks
  ELSE IF c.layout[r].kind # "absent" THEN c.layout[r].disks
  ELSE c.fixed

Allowed(c, A) ==
  /\ \A r \in Named(c) : A[r] \subseteq LastWord(c, r) /\ Cardinality(A[r]) = Wanted(c, r)
  /\ \A r, q \in Named(c) : r # q => A[r] \cap A[q] = {}

(* What is returned is allowed by the arguments.                            *)
ResultAllowed == outcome = "resolved" => Allowed(call, assignments)

(* What is returned is the only thing that could be: the resolver never     *)
(* decides for the operator which of several disks will be wiped.           *)
ResultUnique ==
  outcome = "resolved" =>
    \A A \in [Role -> SUBSET Disk] :
      Allowed(call, A) => \A r \in Named(call) : A[r] = assignments[r]
=============================================================================
