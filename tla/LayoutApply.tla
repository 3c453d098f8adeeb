----------------------------- MODULE LayoutApply -----------------------------
(***************************************************************************)
(* Applying a disk layout (core/disk_layout.py): by role                   *)
(* (apply_disk_layout_resolved), the way of the automatic install, or with *)
(* every partition on each of the devices the operator chose               *)
(* (apply_disk_layout, after setup_raid_mdadm for an mdadm array), the way *)
(* of the wizard.  Disks are numbered; 0 stands for md devices.            *)
(***************************************************************************)
EXTENDS Naturals, Sequences, FiniteSets, Functions

CONSTANTS NDisks, NRoles, MaxParts, \* bounds: disks, roles, partitions of a layout
          MountPoint,               \* mount points layouts mention
          Above,                    \* pairs: the first is a directory above the second
          Input                     \* the calls considered

Disk == 0..NDisks
Role == 1..NRoles
Node == Disk \X (1..MaxParts)
None == "none"
Kinds == {"roles", "single", "btrfsraid", "mdraid"}

(* PartitionSpec; "fs" is "" for raw, ext4 stands for xfs, too; "size" tells *)
(* sizes that parse, that do not, and "*"; "subs": mount points of its btrfs *)
(* subvolumes.                                                              *)
Part ==
  [fs : {"", "vfat", "ext4", "btrfs", "swap"}, at : MountPoint \cup {None}, role : Role,
   raid : {"", "0", "1", "5", "6", "10"}, backend : {"", "btrfs", "mdadm"},
   size : {"fixed", "fill", "bad"}, subs : Seq(MountPoint \cup {None})]

(* "assign": the devices of each role (none: an unresolved one); "devs": the *)
(* devices of the wizard's ways; "members": the disks of its mdadm array.   *)
IsCall(c) ==
  /\ c.kind \in Kinds /\ c.parts \in Seq(Part) /\ Len(c.parts) \in 1..MaxParts
  /\ c.assign \in [Role -> Seq(Disk \ {0})]
  /\ c.devs \in Seq(Disk) /\ c.devs # <<>> /\ c.members \subseteq Disk \ {0}
  /\ c.kind # "mdraid" => c.members = {} /\ 0 \notin Range(c.devs)

(* No device twice: resolve_disk_roles gives a disk to one role and counts  *)
(* it once (RolesDisjoint of DiskRoles), the wizard's lists offer it once.  *)
DevicesDiffer(c) ==
  /\ \A r, q \in Role : \A k \in DOMAIN c.assign[r], l \in DOMAIN c.assign[q] :
       c.assign[r][k] = c.assign[q][l] => r = q /\ k = l
  /\ \A k, l \in DOMAIN c.devs : c.devs[k] = c.devs[l] => k = l

ASSUME InputAssumption ==
  /\ {NDisks, NRoles, MaxParts} \subseteq Nat /\ None \notin MountPoint /\ "/" \in MountPoint
  /\ \A c \in Input : IsCall(c) /\ DevicesDiffer(c)

VARIABLES
  call,      \* the arguments
  pc,        \* the next step, "returned" or "raised"
  todo,      \* what the current loop has still to do
  wiped,     \* disks whose partition table has been replaced
  full,      \* disks on which a partition has taken the rest
  content,   \* what a partition (or md device) holds
  effective, \* effective_part: the device that stands for a partition
  map,       \* the PartitionMap
  stack,     \* mounts under /mnt, oldest first
  faulted    \* history: a command failed

vars == <<call, pc, todo, wiped, full, content, effective, map, stack, faulted>>

Missing == <<"missing">>   \* no such node
Blank == <<"blank">>
Holds(i) == <<"fs", i>>
Member(i) == <<"member", i>>
NoNode == <<0, 0>>
Volume == Node \cup {NoNode}

-----------------------------------------------------------------------------
Parts(c) == DOMAIN c.parts
ByRole(c) == c.kind = "roles"
Devices(c, i) == IF ByRole(c) THEN c.assign[c.parts[i].role] ELSE c.devs

ToWipe(c) ==
  IF ByRole(c) THEN UNION {Range(c.assign[r]) : r \in Role} ELSE c.members \cup Range(c.devs)

(* Numbers are dense on each disk, whatever other disks' partitions are     *)
(* listed in between.                                                       *)
PartNumber(c, i) ==
  Cardinality({k \in 1..i : ByRole(c) => c.parts[k].role = c.parts[i].role})

(* _part_name only knows nvme and mmcblk to need a "p": the partitions of   *)
(* /dev/md0 are not at /dev/md01.                                           *)
PartName(d, n) == IF d = 0 THEN NoNode ELSE <<d, n>>

(* Mutant of Nodes: the layout's index instead of the number on the disk.   *)
NodesByIndex(c, i) == [k \in DOMAIN Devices(c, i) |-> PartName(Devices(c, i)[k], i)]

(* part_paths: where partition i is, on each of its devices.                *)
Nodes(c, i) == [k \in DOMAIN Devices(c, i) |-> PartName(Devices(c, i)[k], PartNumber(c, i))]

Backend(p) == IF p.backend # "" THEN p.backend ELSE IF p.fs = "btrfs" THEN "btrfs" ELSE "mdadm"

(* Mutant of FormattedAs: only the lead device's copy is formatted.         *)
FormattedAsLead(c, i) == IF ByRole(c) /\ c.parts[i].raid # "" THEN "pool" ELSE "first"

(* How a partition's nodes are used: each on its own, the first only,       *)
(* pooled by btrfs, or assembled into an array.  RaidLevel has 0, 1 and 10. *)
FormattedAs(c, i) ==
  LET p == c.parts[i] IN
  CASE ByRole(c) /\ p.raid = "" -> "each"
    [] ByRole(c) /\ p.raid # "" /\ Backend(p) = "mdadm" -> "array"
    [] ByRole(c) /\ p.raid \in {"0", "1", "10"} /\ Backend(p) = "btrfs" /\ p.fs = "btrfs" -> "pool"
    [] ~ByRole(c) /\ p.fs = "vfat" -> "each"
    [] ~ByRole(c) /\ p.fs = "btrfs" -> "pool"
    [] ~ByRole(c) /\ p.fs \notin {"vfat", "btrfs"} -> "first"
    [] OTHER -> "unsupported"

NoMap == [esp |-> NoNode, root |-> NoNode, home |-> NoNode, swaps |-> {}, extra |-> {}]

Init ==
  /\ call \in Input /\ pc = "check" /\ todo = {} /\ wiped = {} /\ full = {}
  /\ content = [n \in Node |-> Missing]
  /\ effective = [i \in 1..MaxParts |-> NoNode]
  /\ map = NoMap /\ stack = <<>> /\ faulted = FALSE

Raise ==
  /\ pc' = "raised"
  /\ UNCHANGED <<call, todo, wiped, full, content, effective, map, stack, faulted>>

-----------------------------------------------------------------------------
(* Every role partitions refer to must be assigned; nothing is wiped before. *)
Unresolved(c) == ByRole(c) /\ \E i \in Parts(c) : Devices(c, i) = <<>>

CheckRoles ==
  /\ pc = "check" /\ ~Unresolved(call) /\ pc' = "wipe"
  /\ todo' = ToWipe(call)
  /\ UNCHANGED <<call, wiped, full, content, effective, map, stack, faulted>>

RoleUnresolved == pc = "check" /\ Unresolved(call) /\ Raise

(* A disk of an mdadm array gets its one partition at once; the array itself *)
(* is there when all of them have.                                          *)
Wipe ==
  /\ pc = "wipe"
  /\ \E d \in todo :
       LET raided == d \in call.members IN
       /\ d = 0 => todo = {0}
       /\ todo' = todo \ {d} /\ wiped' = wiped \cup {d}
       /\ full' = IF raided THEN full \cup {d} ELSE full
       /\ content' = [n \in Node |-> IF raided /\ n = <<d, 1>> THEN Blank ELSE content[n]]
  /\ UNCHANGED <<call, pc, effective, map, stack, faulted>>

(* Partitions are created role by role, device by device, in layout order.  *)
Creations(c) ==
  UNION {{<<IF ByRole(c) THEN c.parts[i].role ELSE 0, k, i>> : k \in DOMAIN Devices(c, i)} :
           i \in Parts(c)}

WipesDone ==
  /\ pc = "wipe" /\ todo = {} /\ pc' = "create" /\ todo' = Creations(call)
  /\ UNCHANGED <<call, wiped, full, content, effective, map, stack, faulted>>

Precedes(x, y) ==
  \/ x[1] < y[1]
  \/ x[1] = y[1] /\ x[2] < y[2]
  \/ x[1] = y[1] /\ x[2] = y[2] /\ x[3] <= y[3]
IsFirst(x, S) == x \in S /\ \A y \in S : Precedes(x, y)

CreatePartition ==
  /\ pc = "create"
  /\ \E x \in todo :
       LET i == x[3]  d == Devices(call, i)[x[2]]  size == call.parts[i].size IN
       /\ IsFirst(x, todo)
       /\ size # "bad" /\ d \notin full
       /\ content' = [content EXCEPT ![<<d, PartNumber(call, i)>>] = Blank]
       /\ full' = IF size = "fill" THEN full \cup {d} ELSE full
       /\ todo' = todo \ {x}
  /\ UNCHANGED <<call, pc, wiped, effective, map, stack, faulted>>

(* parse_size_spec raises, or sgdisk finds no free sector.                  *)
NoSuchPartition ==
  /\ pc = "create"
  /\ \E x \in todo : /\ IsFirst(x, todo)
                     /\ \/ call.parts[x[3]].size = "bad"
                        \/ Devices(call, x[3])[x[2]] \in full
  /\ Raise

(* partprobe and udevadm settle.                                            *)
Probe ==
  /\ pc = "create" /\ todo = {} /\ pc' = "format" /\ todo' = Parts(call)
  /\ UNCHANGED <<call, wiped, full, content, effective, map, stack, faulted>>

-----------------------------------------------------------------------------
NextPart(i) == i \in todo /\ \A k \in todo : i <= k

(* The nodes the formatting of partition i writes to.                       *)
Written(c, i) ==
  IF FormattedAs(c, i) = "first" THEN {Nodes(c, i)[1]} ELSE Range(Nodes(c, i))

Formattable(c, i) ==
  /\ FormattedAs(c, i) # "unsupported"
  /\ c.parts[i].fs # "" \/ FormattedAs(c, i) = "array" =>
       \A n \in Written(c, i) : n # NoNode /\ content[n] # Missing

(* What formatting partition i leaves on a node.                            *)
AfterFormat(c, i, n) ==
  CASE FormattedAs(c, i) = "array" /\ n \in Written(c, i) -> Member(i)
    [] FormattedAs(c, i) = "array" /\ n = <<0, i>> -> IF c.parts[i].fs = "" THEN Blank ELSE Holds(i)
    [] FormattedAs(c, i) # "array" /\ n \in Written(c, i) /\ c.parts[i].fs # "" -> Holds(i)
    [] OTHER -> content[n]

Canonical == {"/", "/boot", "/boot/efi", "/home"}
Recorded(m, p, v) ==
  [esp   |-> IF p.fs = "vfat" /\ p.at \in {"/boot", "/boot/efi"} THEN v ELSE m.esp,
   root  |-> IF p.at = "/" THEN v ELSE m.root,
   home  |-> IF p.at = "/home" THEN v ELSE m.home,
   swaps |-> IF ByRole(call) /\ p.fs = "swap" THEN m.swaps \cup {v} ELSE m.swaps,
   extra |-> IF ByRole(call) /\ p.fs # "swap" /\ p.at \notin Canonical \cup {None}
             THEN m.extra \cup {<<v, p.at>>} ELSE m.extra]

(* Mutant of FormatPartition: a replicated partition stands for its last    *)
(* copy in the map.                                                         *)
FormatPartitionLastCopy ==
  /\ pc = "format"
  /\ \E i \in Parts(call) :
       LET v == IF FormattedAs(call, i) = "array" THEN <<0, i>> ELSE Nodes(call, i)[1]
           w == Nodes(call, i)[Len(Nodes(call, i))] IN
       /\ NextPart(i) /\ Formattable(call, i)
       /\ content' = [n \in Node |-> AfterFormat(call, i, n)]
       /\ effective' = [effective EXCEPT ![i] = v]
       /\ map' = Recorded(map, call.parts[i], w)
       /\ todo' = todo \ {i}
  /\ UNCHANGED <<call, pc, wiped, full, stack, faulted>>

FormatPartition ==
  /\ pc = "format"
  /\ \E i \in Parts(call) :
       LET v == IF FormattedAs(call, i) = "array" THEN <<0, i>> ELSE Nodes(call, i)[1] IN
       /\ NextPart(i) /\ Formattable(call, i)
       /\ content' = [n \in Node |-> AfterFormat(call, i, n)]
       /\ effective' = [effective EXCEPT ![i] = v]
       /\ map' = Recorded(map, call.parts[i], v)
       /\ todo' = todo \ {i}
  /\ UNCHANGED <<call, pc, wiped, full, stack, faulted>>

(* RaidLevel(int("5")), a backend that does not fit, or mkfs on a name that *)
(* does not exist.                                                          *)
NotFormattable ==
  pc = "format" /\ (\E i \in Parts(call) : NextPart(i) /\ ~Formattable(call, i)) /\ Raise

-----------------------------------------------------------------------------
HasSubvolumes(p) == p.fs = "btrfs" /\ p.subs # <<>>
Mounted(p) == (IF HasSubvolumes(p) THEN Range(p.subs) ELSE {p.at}) \ {None}

(* _create_and_mount_subvolumes creates the subvolumes of partition i, then  *)
(* mounts the one at / (the last such), then the others as listed.          *)
Creates(c, i) == IF HasSubvolumes(c.parts[i]) THEN {<<i, 0, 0>>} ELSE {}
Spots(c, i) ==
  LET p == c.parts[i]
      IsMounted(k) == /\ p.subs[k] # None
                      /\ p.subs[k] = "/" => \A l \in DOMAIN p.subs : l > k => p.subs[l] # "/" IN
  IF HasSubvolumes(p)
  THEN {<<i, IF p.subs[k] = "/" THEN 1 ELSE 2, k>> : k \in {l \in DOMAIN p.subs : IsMounted(l)}}
  ELSE IF p.at # None THEN {<<i, 1, 1>>} ELSE {}
SpotAt(c, x) ==
  IF HasSubvolumes(c.parts[x[1]]) THEN c.parts[x[1]].subs[x[3]] ELSE c.parts[x[1]].at

(* First pass: the first partition for /, if there is one.  Second pass: the *)
(* others; apply_disk_layout does not leave swap out.                       *)
RootPart(c, i) == c.parts[i].at = "/" /\ \A k \in Parts(c) : k < i => c.parts[k].at # "/"
LaterPart(c, i) == c.parts[i].at # "/" /\ ~(ByRole(c) /\ c.parts[i].fs = "swap")
RootMounts(c) == UNION {Creates(c, i) \cup Spots(c, i) : i \in {j \in Parts(c) : RootPart(c, j)}}
LaterMounts(c) == UNION {Creates(c, i) \cup Spots(c, i) : i \in {j \in Parts(c) : LaterPart(c, j)}}

(* Only what holds a file system can be mounted.                            *)
Mountable(p) == p.fs \notin {"", "swap"}

(* Mutant of FormatsDone: root is left to the loop over all partitions.     *)
FormatsDoneRootInTurn ==
  /\ pc = "format" /\ todo = {} /\ pc' = "mounts" /\ todo' = RootMounts(call) \cup LaterMounts(call)
  /\ UNCHANGED <<call, wiped, full, content, effective, map, stack, faulted>>

FormatsDone ==
  /\ pc = "format" /\ todo = {} /\ pc' = "root" /\ todo' = RootMounts(call)
  /\ UNCHANGED <<call, wiped, full, content, effective, map, stack, faulted>>

RootMounted ==
  /\ pc = "root" /\ todo = {} /\ pc' = "mounts" /\ todo' = LaterMounts(call)
  /\ UNCHANGED <<call, wiped, full, content, effective, map, stack, faulted>>

CreateSubvolumes ==
  /\ pc \in {"root", "mounts"}
  /\ \E x \in todo : IsFirst(x, todo) /\ x[2] = 0 /\ todo' = todo \ {x}
  /\ UNCHANGED <<call, pc, wiped, full, content, effective, map, stack, faulted>>

Mount ==
  /\ pc \in {"root", "mounts"}
  /\ \E x \in todo :
       /\ IsFirst(x, todo) /\ x[2] # 0 /\ Mountable(call.parts[x[1]])
       /\ stack' = Append(stack, [at |-> SpotAt(call, x), vol |-> effective[x[1]]])
       /\ todo' = todo \ {x}
  /\ UNCHANGED <<call, pc, wiped, full, content, effective, map, faulted>>

NotMountable ==
  /\ pc \in {"root", "mounts"}
  /\ \E x \in todo : IsFirst(x, todo) /\ ~Mountable(call.parts[x[1]])
  /\ Raise

Return ==
  /\ pc = "mounts" /\ todo = {} /\ pc' = "returned"
  /\ UNCHANGED <<call, todo, wiped, full, content, effective, map, stack, faulted>>

(* Any command may exit non-zero: CalledProcessError.                       *)
CommandFails ==
  /\ pc \in {"wipe", "create", "format", "root", "mounts"} /\ todo # {}
  /\ pc' = "raised" /\ faulted' = TRUE
  /\ UNCHANGED <<call, todo, wiped, full, content, effective, map, stack>>

Next ==
  \/ CheckRoles \/ RoleUnresolved \/ Wipe \/ WipesDone
  \/ CreatePartition \/ NoSuchPartition \/ Probe
  \/ FormatPartition \/ NotFormattable \/ FormatsDone
  \/ RootMounted \/ CreateSubvolumes \/ Mount \/ NotMountable \/ Return \/ CommandFails
Spec == Init /\ [][Next]_vars

-----------------------------------------------------------------------------
(* Properties.                                                              *)

(* Types; and no partition outgrows its disk's table: what has been created *)
(* has been created on wiped disks.                                         *)
TypeOK ==
  /\ IsCall(call) /\ faulted \in BOOLEAN /\ wiped \subseteq Disk /\ full \subseteq wiped
  /\ pc \in {"check", "wipe", "create", "format", "root", "mounts", "returned", "raised"}
  /\ effective \in [1..MaxParts -> Volume]
  /\ map \in [esp : Volume, root : Volume, home : Volume,
             swaps : SUBSET Volume, extra : SUBSET (Volume \X MountPoint)]
  /\ \A k \in DOMAIN stack : stack[k].at \in MountPoint /\ stack[k].vol \in Volume
  /\ \A n \in Node : content[n] # Missing => n[1] \in wiped \cup {0}

(* What is seen at a mount point: nothing was mounted on it or above it     *)
(* afterwards.                                                              *)
SeenAt(m, v) ==
  \E k \in DOMAIN stack :
    /\ stack[k] = [at |-> m, vol |-> v]
    /\ \A l \in DOMAIN stack : l > k => stack[l].at # m /\ <<stack[l].at, m>> \notin Above

(* The layout mounts each partition where it says and swap nowhere, at paths *)
(* of their own, and lists outer mount points before those below them; the  *)
(* partition for / may come anywhere.                                       *)
AllSpots(c) == UNION {Spots(c, i) : i \in Parts(c)}
OuterFirst(c) ==
  /\ \A i \in Parts(c) : LET p == c.parts[i] IN
       (p.at # None => p.fs # "swap" /\ p.at \in Mounted(p)) /\ ("/" \in Mounted(p) => p.at = "/")
  /\ \A x, y \in AllSpots(c) : x # y => SpotAt(c, x) # SpotAt(c, y)
  /\ \A x, y \in AllSpots(c) :
       <<SpotAt(c, x), SpotAt(c, y)>> \in Above /\ SpotAt(c, x) # "/" =>
         IF c.parts[y[1]].at = "/" THEN x[1] = y[1] /\ Precedes(x, y)
         ELSE Precedes(x, y) \/ c.parts[x[1]].at = "/"

(* On return, every path the layout mounts shows the file system of its     *)
(* partition, wherever the layout lists the root.                           *)
LayoutSeen ==
  pc = "returned" /\ OuterFirst(call) =>
    \A i \in Parts(call) : \A m \in Mounted(call.parts[i]) : SeenAt(m, effective[i])

(* On return, each disk of a role carries exactly one node of each of its   *)
(* partitions, holding what the layout says: every member of an array or a  *)
(* pool, every copy of a replicated partition; and what stands for the      *)
(* partition holds its file system.                                         *)
EveryCopyWritten ==
  pc = "returned" /\ ByRole(call) =>
    \A i \in Parts(call) : call.parts[i].fs # "" =>
      /\ content[effective[i]] = Holds(i)
      /\ \A d \in Range(call.assign[call.parts[i].role]) :
           Cardinality({n \in Node : n[1] = d /\ content[n] \in {Holds(i), Member(i)}}) = 1

(* The map handed to the later phases: the ESP they write loaders to is the *)
(* one they see under /mnt, likewise /home and the auxiliary mounts, and    *)
(* each swap device of a layout by role is one that stands for a partition. *)
MapMatchesMounts ==
  pc = "returned" /\ OuterFirst(call) =>
    /\ map.esp # NoNode => SeenAt("/boot", map.esp) \/ SeenAt("/boot/efi", map.esp)
    /\ map.root # NoNode => SeenAt("/", map.root)
    /\ map.home # NoNode => SeenAt("/home", map.home)
    /\ \A e \in map.extra : SeenAt(e[2], e[1])
    /\ ByRole(call) =>
         map.swaps = {effective[i] : i \in {j \in Parts(call) : call.parts[j].fs = "swap"}}

(* _validate_layout.                                                        *)
Accepted(c) ==
  /\ \A i, k \in Parts(c) :
       i < k => /\ c.parts[i].size = "fill" => c.parts[i].role # c.parts[k].role
                /\ c.parts[i].at # None => c.parts[i].at # c.parts[k].at
  /\ \A i \in Parts(c) : c.parts[i].subs # <<>> => c.parts[i].fs = "btrfs"

(* What else the code needs of a layout: sizes that parse, a RAID level and *)
(* backend it has, a file system on what it mounts; and, all partitions     *)
(* being created on every device of the wizard's ways, one "*" at the end.  *)
Applicable(c) ==
  /\ c.kind # "mdraid" /\ ~Unresolved(c)
  /\ \A i \in Parts(c) :
       /\ c.parts[i].size # "bad" /\ FormattedAs(c, i) # "unsupported"
       /\ c.parts[i].fs = "" => c.parts[i].at = None
       /\ c.parts[i].fs = "swap" => c.parts[i].at = None \/ (ByRole(c) /\ c.parts[i].at # "/")
       /\ c.parts[i].size = "fill" => ByRole(c) \/ i = Len(c.parts)

(* An accepted layout the code has the means for fails only with a command. *)
ApplicableApplies == pc = "raised" /\ ~faulted => ~(Accepted(call) /\ Applicable(call))

(* load_disk_layout: "Raises ValueError if the layout fails validation".    *)
(* One that passes is applied to its disks unless a command fails; no disk  *)
(* is wiped for a layout that never had a chance.                           *)
AcceptedApplies == pc = "raised" /\ ~faulted /\ Accepted(call) => wiped = {}
=============================================================================
