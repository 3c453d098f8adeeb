--------------------------- MODULE DiskRoles_proofs ---------------------------
(***************************************************************************)
(* Proofs about DiskRoles for any number of roles and disks and any        *)
(* arguments: the resolver gives no disk to two roles, returns what the    *)
(* arguments allow, and returns it only when they allow nothing else.      *)
(***************************************************************************)
EXTENDS DiskRoles, FiniteSetTheorems, TLAPS

(* What the loop has established for the roles behind it.                   *)
Behind(r) == r \in Named(call) /\ r < next /\ r \notin errors

Served ==
  \A r \in Role : Behind(r) => /\ assignments[r] \subseteq LastWord(call, r)
                               /\ Cardinality(assignments[r]) = Wanted(call, r)
Unserved == \A r \in Role : ~Behind(r) => assignments[r] = {}
Forced ==
  errors = {} =>
    \A A \in [Role -> SUBSET Disk] :
      Allowed(call, A) => \A r \in Role : Behind(r) => A[r] = assignments[r]
Finished == outcome = "resolved" => next = NRoles + 1 /\ errors = {}
ErrorsBehind == \A r \in errors : r < next

IInv == TypeOK /\ RolesDisjoint /\ Served /\ Unserved /\ ErrorsBehind /\ Forced /\ Finished

-----------------------------------------------------------------------------
(* Sets of disks are finite, and the first n disks of n disks are all.      *)
LEMMA DisksFinite == ASSUME NEW S \in SUBSET Disk PROVE IsFiniteSet(S) /\ Cardinality(S) \in Nat
<1>1. IsFiniteSet(Disk)
  BY SizesAssumption, FS_Interval DEF Disk
<1> QED
  BY <1>1, FS_Subset, FS_CardinalityType

\* As many leading disks as there are disks are all of them.
LEMMA LeadingAll ==
  ASSUME NEW S \in SUBSET Disk PROVE Leading(S, Cardinality(S)) = S
<1>1. ASSUME NEW d \in S PROVE Cardinality({e \in S : e < d}) < Cardinality(S)
  <2> DEFINE T == {e \in S : e < d}
  <2>1. T \in SUBSET S /\ d \notin T
    BY DEF Disk
  <2>2. IsFiniteSet(S) /\ Cardinality(S) \in Nat /\ Cardinality(T) \in Nat
    BY DisksFinite, <2>1
  <2>3. Cardinality(T) <= Cardinality(S) /\ Cardinality(T) # Cardinality(S)
    BY <2>1, <2>2, FS_Subset
  <2> QED
    BY <2>2, <2>3
<1> QED
  BY <1>1 DEF Leading

(* The layer with the last word is the one _merge_role_overrides kept.      *)
LEMMA LastWordIsEffective ==
  ASSUME NEW c, NEW r \in Role, r \in Named(c) PROVE LastWord(c, r) = Effective(c, r).disks
BY DEF Named, Effective, Winning, LastWord

(* Sets of equally many disks, one within the other, are the same.          *)
LEMMA SameSize ==
  ASSUME NEW S \in SUBSET Disk, NEW T \in SUBSET S, Cardinality(S) = Cardinality(T)
  PROVE  S = T
BY DisksFinite, FS_Subset

-----------------------------------------------------------------------------
\* The invariant holds before the first role.
LEMMA InitInv == Init => IInv
<1> SUFFICES ASSUME Init PROVE IInv
  OBVIOUS
<1>1. \A r \in Role : ~Behind(r)
  BY DEF Init, Behind, Role
<1>2. TypeOK
  BY SizesAssumption, InputAssumption DEF Init, TypeOK
<1> QED
  BY <1>1, <1>2 DEF Init, IInv, RolesDisjoint, Served, Unserved, ErrorsBehind, Forced, Finished

\* A role that no descriptor names claims nothing.
LEMMA SkipInv == IInv /\ SkipUnnamedRole => IInv'
<1> SUFFICES ASSUME IInv, SkipUnnamedRole PROVE IInv'
  OBVIOUS
<1>1. /\ next' = next + 1 /\ next \in Role /\ next \notin Named(call) /\ outcome = "looping"
      /\ UNCHANGED <<call, outcome, claimed, assignments, errors>>
  BY DEF SkipUnnamedRole, Advance
<1>2. TypeOK'
  BY <1>1, SizesAssumption DEF IInv, TypeOK, Role
<1>3. \A r \in Role : Behind(r)' <=> Behind(r)
  BY <1>1 DEF Behind, Role
<1>4. ErrorsBehind'
  BY <1>1 DEF IInv, ErrorsBehind, TypeOK, Role
<1> QED
  BY <1>1, <1>2, <1>3, <1>4 DEF IInv, RolesDisjoint, Served, Unserved, Forced, Finished

\* A role that matches the wrong number of disks claims nothing.
LEMMA ErrorInv == IInv /\ RecordError => IInv'
<1> SUFFICES ASSUME IInv, RecordError PROVE IInv'
  OBVIOUS
<1>1. /\ next' = next + 1 /\ next \in Role /\ outcome = "looping" /\ errors' = errors \cup {next}
      /\ UNCHANGED <<call, outcome, claimed, assignments>>
  BY DEF RecordError, Advance
<1>2. TypeOK'
  BY <1>1, SizesAssumption DEF IInv, TypeOK, Role
<1>3. \A r \in Role : Behind(r)' <=> Behind(r)
  BY <1>1 DEF Behind, Role
<1>4. ErrorsBehind'
  BY <1>1 DEF IInv, ErrorsBehind, TypeOK, Role
<1>5. errors' # {}
  BY <1>1
<1> QED
  BY <1>1, <1>2, <1>3, <1>4, <1>5 DEF IInv, RolesDisjoint, Served, Unserved, Forced, Finished

(* The only step with work to do: the role gets all that is left for it.    *)
LEMMA AssignInv == IInv /\ Assign => IInv'
<1> SUFFICES ASSUME IInv, Assign PROVE IInv'
  OBVIOUS
<1> DEFINE S == Unclaimed
<1>1. /\ next' = next + 1 /\ next \in Role /\ outcome = "looping" /\ next \in Named(call)
      /\ Effective(call, next).kind = "ok" /\ Cardinality(S) = Wanted(call, next)
      /\ UNCHANGED <<call, outcome, errors>>
  BY DEF Assign, Advance, Acceptable
<1>2. S \in SUBSET Disk
  BY <1>1 DEF IInv, TypeOK, IsCall, Unclaimed, Effective, Winning, Spec1
<1>3. assignments' = [assignments EXCEPT ![next] = S] /\ claimed' = claimed \cup S
  BY <1>1, <1>2, LeadingAll DEF Assign
<1>4. assignments \in [Role -> SUBSET Disk] /\ claimed = UNION {assignments[r] : r \in Role}
  BY DEF IInv, TypeOK
<1>5. next \notin errors /\ \A r \in Role : Behind(r)' <=> Behind(r) \/ r = next
  BY <1>1 DEF IInv, ErrorsBehind, Behind, Role
<1>6. assignments[next] = {} /\ \A r \in Role : assignments[r] \cap S = {}
  BY <1>1, <1>4 DEF IInv, Unserved, Behind, Unclaimed, Role
<1>7. TypeOK'
  <2>1. assignments' \in [Role -> SUBSET Disk]
    BY <1>2, <1>3, <1>4
  <2>2. claimed' = UNION {assignments'[r] : r \in Role}
    BY <1>1, <1>2, <1>3, <1>4, <1>6
  <2>3. next' \in 1..(NRoles + 1)
    BY <1>1, SizesAssumption DEF Role
  <2> QED
    BY <1>1, <2>1, <2>2, <2>3 DEF IInv, TypeOK
<1>8. RolesDisjoint'
  BY <1>3, <1>4, <1>6 DEF IInv, RolesDisjoint
<1>9. Served'
  <2>1. S \subseteq LastWord(call, next)
    BY <1>1, LastWordIsEffective DEF Unclaimed
  <2> QED
    BY <1>1, <1>3, <1>4, <1>5, <2>1 DEF IInv, Served
<1>10. Unserved'
  BY <1>1, <1>3, <1>4, <1>5 DEF IInv, Unserved
<1>11. Forced'
  <2> SUFFICES ASSUME errors = {}, NEW A \in [Role -> SUBSET Disk], Allowed(call, A),
                      NEW r \in Role, Behind(r)'
               PROVE  A[r] = assignments'[r]
    BY <1>1 DEF Forced, Allowed
  <2>1. \A q \in Role : Behind(q) => A[q] = assignments[q]
    BY DEF IInv, Forced
  <2>2. CASE r = next
    <3>1. A[next] \subseteq LastWord(call, next) /\ Cardinality(A[next]) = Wanted(call, next)
      BY <1>1 DEF Allowed
    <3>2. \A q \in Role : A[next] \cap assignments[q] = {}
      <4> SUFFICES ASSUME NEW q \in Role, Behind(q) PROVE A[next] \cap assignments[q] = {}
        BY DEF IInv, Unserved
      <4>1. q \in Named(call) /\ q # next
        BY <1>1 DEF Behind, Role
      <4> QED
        BY <1>1, <2>1, <4>1 DEF Allowed
    <3>3. A[next] \subseteq S
      BY <1>1, <1>4, <3>1, <3>2, LastWordIsEffective DEF Unclaimed
    <3>4. A[next] = S
      BY <1>1, <1>2, <3>1, <3>3, SameSize
    <3> QED
      BY <1>1, <1>3, <1>4, <2>2, <3>4
  <2>3. CASE r # next
    BY <1>3, <1>4, <1>5, <2>1, <2>3
  <2> QED
    BY <2>2, <2>3
<1>12. ErrorsBehind'
  BY <1>1 DEF IInv, TypeOK, ErrorsBehind, Role
<1>13. Finished'
  BY <1>1 DEF Finished
<1> QED
  BY <1>7, <1>8, <1>9, <1>10, <1>11, <1>12, <1>13 DEF IInv

\* The answer is the assignment of a loop without an error.
LEMMA ReturnInv == IInv /\ (Return \/ UNCHANGED vars) => IInv'
<1> SUFFICES ASSUME IInv, Return \/ UNCHANGED vars PROVE IInv'
  OBVIOUS
<1>1. UNCHANGED <<call, next, claimed, assignments, errors>>
  BY DEF Return, vars
<1>2. Finished' /\ outcome' \in {"looping", "resolved", "raised"}
  BY DEF IInv, TypeOK, Finished, Return, vars
<1> QED
  BY <1>1, <1>2 DEF IInv, TypeOK, RolesDisjoint, Served, Unserved, ErrorsBehind, Forced, Behind

\* The loop keeps its invariant for any number of roles and disks.
LEMMA Invariance == Spec => []IInv
<1>1. IInv /\ [Next]_vars => IInv'
  BY SkipInv, ErrorInv, AssignInv, ReturnInv DEF Next
<1> QED
  BY <1>1, InitInv, PTL DEF Spec

-----------------------------------------------------------------------------
(* The loop's bookkeeping is right in every state.                          *)
THEOREM TypeCorrect == Spec => []TypeOK
<1>1. IInv => TypeOK
  BY DEF IInv
<1> QED
  BY <1>1, Invariance, PTL

(* No disk is ever given to two roles.                                      *)
THEOREM NoDiskTwice == Spec => []RolesDisjoint
<1>1. IInv => RolesDisjoint
  BY DEF IInv
<1> QED
  BY <1>1, Invariance, PTL

(* When the loop returns, every named role is behind it.                    *)
LEMMA AllBehind ==
  ASSUME IInv, outcome = "resolved" PROVE \A r \in Named(call) : r \in Role /\ Behind(r)
BY SizesAssumption DEF IInv, Finished, Behind, Named, Role

(* What is returned is an assignment the arguments allow.                   *)
THEOREM ReturnsAllowed == Spec => []ResultAllowed
<1>1. IInv => ResultAllowed
  BY AllBehind DEF IInv, Served, RolesDisjoint, ResultAllowed, Allowed
<1> QED
  BY <1>1, Invariance, PTL

(* What is returned is the only assignment the arguments allow.             *)
THEOREM ReturnsUnique == Spec => []ResultUnique
<1>1. IInv => ResultUnique
  BY AllBehind DEF IInv, Forced, Finished, ResultUnique
<1> QED
  BY <1>1, Invariance, PTL
=============================================================================
