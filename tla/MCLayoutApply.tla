---------------------------- MODULE MCLayoutApply ----------------------------
(* Instances of LayoutApply: every layout of up to three partitions from a  *)
(* small stock that _validate_layout accepts, applied by role to the disks  *)
(* resolve_disk_roles gives it, or in one of the wizard's ways; and the     *)
(* accepted layouts that cannot be applied.                                 *)
EXTENDS LayoutApply

Points == {"/", "/boot", "/home", "/var", "/var/log"}
AbovePairs == ({"/"} \X (Points \ {"/"})) \cup {<<"/var", "/var/log">>}

P == [fs |-> "ext4", at |-> None, role |-> 1, raid |-> "", backend |-> "",
      size |-> "fixed", subs |-> <<>>]
Esp == [P EXCEPT !.fs = "vfat", !.at = "/boot"]
Root == [P EXCEPT !.fs = "btrfs", !.at = "/", !.size = "fill", !.subs = <<"/var", "/", None>>]
Swap == [P EXCEPT !.fs = "swap"]
Spare == [P EXCEPT !.fs = ""]
Home == [P EXCEPT !.at = "/home", !.role = 2, !.size = "fill"]
Log == [P EXCEPT !.at = "/var/log", !.role = 2]

Stock == {Esp, Root, [Spare EXCEPT !.at = "/var"], Swap, Spare, Home, Log,
          [Root EXCEPT !.raid = "1", !.subs = <<"/", "/home">>],
          [P EXCEPT !.at = "/", !.raid = "5"], [P EXCEPT !.at = "/var"],
          [Root EXCEPT !.raid = "5"], [Root EXCEPT !.backend = "mdadm", !.raid = "1"]}
Layouts == UNION {[1..n -> Stock] : n \in 1..MaxParts}

(* Disks 1, 2, ... for the first role, the last one for the second.         *)
Required(parts) ==
  IF \E i \in DOMAIN parts : parts[i].raid = "5" THEN 3
  ELSE IF \E i \in DOMAIN parts : parts[i].raid = "1" THEN 2 ELSE 1
Some(parts) == [kind |-> "roles", parts |-> parts, devs |-> <<1>>, members |-> {},
                assign |-> <<[k \in 1..Required(parts) |-> k], <<NDisks>>>>]
ByWizard(parts) == {[Some(parts) EXCEPT !.kind = "single"],
                    [Some(parts) EXCEPT !.kind = "btrfsraid", !.devs = <<1, 2>>]}

(* The shipped two-disk layout chosen in the wizard, any layout on an mdadm *)
(* array, RAID 5 on btrfs.                                                  *)
Workstation == <<Esp, Root, Home>>
Hopeless ==
  {[Some(Workstation) EXCEPT !.kind = "single"],
   [Some(<<Esp, Root>>) EXCEPT !.kind = "mdraid", !.devs = <<0>>, !.members = {1, 2}],
   Some(<<Esp, [Root EXCEPT !.raid = "5"]>>)}

Calls ==
  {c \in UNION {{Some(l)} \cup ByWizard(l) : l \in Layouts} : Accepted(c)}
  \cup Hopeless
  \cup {[Some(<<Esp, Home>>) EXCEPT !.assign[2] = <<>>],
        Some(<<Esp, [Root EXCEPT !.size = "bad"]>>)}
=============================================================================
