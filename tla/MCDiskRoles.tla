----------------------------- MODULE MCDiskRoles -----------------------------
(* Instances of DiskRoles with three roles and three disks: every way a     *)
(* layout alone can match them, and, for two roles on two disks, every      *)
(* override of layout roles by machine and auto-install roles.              *)
EXTENDS DiskRoles

NoLayer == [r \in Role |-> Absent]
Ok(S) == [kind |-> "ok", disks |-> S]
Invalid == [kind |-> "invalid", disks |-> {}]

(* RAID1 on no role or on one of them.                                      *)
Counts == {[r \in Role |-> IF r = q THEN 2 ELSE 0] : q \in 0..NRoles}

LayoutLayers == [Role -> {Absent, Invalid} \cup {Ok(S) : S \in SUBSET Disk}]
ByLayoutOnly ==
  {[layout |-> l, machine |-> NoLayer, auto |-> NoLayer,
    required |-> n, fixed |-> {1}] : l \in LayoutLayers, n \in Counts}

SmallLayers ==
  {[r \in Role |-> IF r = 1 THEN a ELSE IF r = 2 THEN b ELSE Absent] :
     a \in {Absent, Ok({1}), Ok({2})}, b \in {Absent, Ok({1}), Ok({1, 2})}}
ByLayers ==
  {[layout |-> l, machine |-> m, auto |-> a,
    required |-> [r \in Role |-> 0], fixed |-> f] :
     l \in SmallLayers, m \in SmallLayers, a \in SmallLayers, f \in {{1}, {2, 3}}}

Calls == ByLayoutOnly \cup ByLayers
=============================================================================
