----------------------- MODULE LayoutApply_proofs -----------------------
(***************************************************************************)
(* Proofs about LayoutApply for any number of disks, roles and partitions  *)
(* and any layouts: every copy of a partition is written and by no other   *)
(* partition, an unresolved role costs no data, an accepted layout the     *)
(* code has the means for fails only with a command, what is mounted shows *)
(* on return, and the map says what does.                                  *)
(***************************************************************************)
EXTENDS LayoutApply, FiniteSetTheorems, WellFoundedInduction, TLAPS

Contents == {Missing, Blank} \cup {Holds(i) : i \in 1..MaxParts} \cup {Member(i) : i \in 1..MaxParts}

\* The disks that partition i is on, and where creation x puts it.
DisksOf(c, i) == Range(Devices(c, i))
PlaceOf(c, x) == <<Devices(c, x[3])[x[2]], PartNumber(c, x[3])>>
DiskOf(c, x) == Devices(c, x[3])[x[2]]

Good(c) == Accepted(c) /\ Applicable(c)

Typed ==
  /\ IsCall(call) /\ DevicesDiffer(call)
  /\ pc \in {"check", "wipe", "create", "format", "root", "mounts", "returned", "raised"}
  /\ content \in [Node -> Contents]
  /\ effective \in [1..MaxParts -> Disk \X (0..MaxParts)]

\* Past the check every role has devices.
NothingYet == Unresolved(call) => pc \in {"check", "raised"} /\ wiped = {}

\* What the loops have left.
Remaining ==
  /\ pc = "create" => todo \subseteq Creations(call)
  /\ pc = "format" => todo \subseteq Parts(call)
  /\ pc = "root" => todo \subseteq RootMounts(call)
  /\ pc = "mounts" => todo \subseteq LaterMounts(call)

\* A disk that still gets a partition has room for it.
Room ==
  Good(call) =>
    /\ pc \in {"check", "wipe"} => full = {}
    /\ pc = "create" => \A x \in todo : DiskOf(call, x) \notin full

\* What has been created is there.
Present ==
  /\ pc = "create" => \A x \in Creations(call) \ todo : content[PlaceOf(call, x)] # Missing
  /\ pc = "format" => \A x \in Creations(call) : content[PlaceOf(call, x)] # Missing

\* The file system of a partition is nowhere but on the partition's nodes.
Confined ==
  ByRole(call) =>
    \A i \in Parts(call), n \in Node :
      n[1] # 0 /\ content[n] \in {Holds(i), Member(i)} =>
        n[1] \in DisksOf(call, i) /\ n[2] = PartNumber(call, i)

\* Partition i is formatted on all its disks; none of this is undone.
Everywhere(i) ==
  /\ content[effective[i]] = Holds(i)
  /\ \/ effective[i] = <<0, i>>
     \/ effective[i][1] \in DisksOf(call, i) /\ effective[i][2] = PartNumber(call, i)
  /\ \A d \in DisksOf(call, i) : content[<<d, PartNumber(call, i)>>] \in {Holds(i), Member(i)}
Copied ==
  ByRole(call) =>
    \A i \in Parts(call) :
      /\ call.parts[i].fs # ""
      /\ pc \in {"root", "mounts", "returned"} \/ (pc = "format" /\ i \notin todo)
      => Everywhere(i)

IInv ==
  /\ Typed /\ NothingYet /\ Remaining /\ Room /\ Present /\ Confined /\ Copied
  /\ ApplicableApplies

-----------------------------------------------------------------------------
\* A sequence is a function of its positions.
LEMMA SeqIsFunction ==
  ASSUME NEW S, NEW s \in Seq(S)
  PROVE  s \in [1..Len(s) -> S] /\ Len(s) \in Nat /\ DOMAIN s = 1..Len(s)
OBVIOUS

\* The bounds of the instance are numbers.
LEMMA BoundsNat == NDisks \in Nat /\ NRoles \in Nat /\ MaxParts \in Nat
BY InputAssumption

\* A node is a disk and a number, and pairs have their parts.
LEMMA Pairs ==
  /\ 0 \in Disk /\ Node = Disk \X (1..MaxParts)
  /\ \A S, T : \A x \in S \X T : x = <<x[1], x[2]>>
  /\ \A d, e, m, n : <<d, m>> = <<e, n>> => d = e /\ m = n
BY BoundsNat DEF Disk, Node

\* The contents of different partitions, members and blanks differ.
LEMMA Tags ==
  /\ \A i, j : Holds(i) # Member(j) /\ (Holds(i) = Holds(j) => i = j) /\ (Member(i) = Member(j) => i = j)
  /\ \A i : Holds(i) \notin {Missing, Blank} /\ Member(i) \notin {Missing, Blank}
  /\ Missing # Blank
BY DEF Holds, Member, Missing, Blank

\* The parts of a call that the proofs use.
LEMMA CallFacts ==
  ASSUME NEW c, IsCall(c), NEW i \in Parts(c)
  PROVE  /\ Parts(c) = 1..Len(c.parts) /\ Len(c.parts) \in Nat
         /\ i \in 1..MaxParts /\ i \in Nat /\ c.parts[i] \in Part
         /\ c.parts[i].role \in Role /\ c.parts[i].role \in Nat
         /\ Devices(c, i) \in Seq(Disk)
         /\ DisksOf(c, i) \subseteq Disk
         /\ ByRole(c) \/ c.kind # "mdraid" => 0 \notin DisksOf(c, i)
         /\ ~Unresolved(c) => 1 \in DOMAIN Devices(c, i)
<1> USE BoundsNat
<1>1. Parts(c) = 1..Len(c.parts) /\ Len(c.parts) \in Nat /\ i \in 1..MaxParts /\ c.parts[i] \in Part
  BY DEF Parts, IsCall
<1>2. c.parts[i].role \in Role /\ c.parts[i].role \in Nat
  <2>1. \A p \in Part : p.role \in Role
    BY DEF Part
  <2>2. Role \subseteq Nat
    BY DEF Role
  <2> QED BY <1>1, <2>1, <2>2
<1>3. CASE ByRole(c)
  <2>1. Devices(c, i) = c.assign[c.parts[i].role] /\ Devices(c, i) \in Seq(Disk \ {0})
    BY <1>2, <1>3 DEF Devices, IsCall
  <2>2. Devices(c, i) \in [1..Len(Devices(c, i)) -> Disk \ {0}] /\ Len(Devices(c, i)) \in Nat
    BY <2>1, SeqIsFunction
  <2>3. Devices(c, i) \in Seq(Disk) /\ DisksOf(c, i) \subseteq Disk /\ 0 \notin DisksOf(c, i)
    BY <2>1, <2>2 DEF DisksOf, Range
  <2>4. ~Unresolved(c) => Devices(c, i) # <<>>
    BY <1>3 DEF Unresolved
  <2>5. Devices(c, i) # <<>> => 1 \in DOMAIN Devices(c, i)
    BY <2>1
  <2> QED BY <1>1, <1>2, <2>3, <2>4, <2>5
<1>4. CASE ~ByRole(c)
  <2>1. Devices(c, i) = c.devs /\ c.devs \in Seq(Disk) /\ c.devs # <<>>
    BY <1>4 DEF Devices, IsCall
  <2>2. Devices(c, i) \in [1..Len(Devices(c, i)) -> Disk] /\ 1 \in DOMAIN Devices(c, i)
    BY <2>1, SeqIsFunction
  <2>3. DisksOf(c, i) \subseteq Disk
    BY <2>2 DEF DisksOf, Range
  <2>4. c.kind # "mdraid" => 0 \notin DisksOf(c, i)
    BY <2>1 DEF DisksOf, IsCall
  <2> QED BY <1>1, <1>2, <1>4, <2>1, <2>2, <2>3, <2>4
<1> QED BY <1>3, <1>4

\* Partition numbers fit the bound and tell the partitions of a disk apart.
LEMMA Numbered ==
  ASSUME NEW c, IsCall(c), NEW i \in Parts(c)
  PROVE  PartNumber(c, i) \in 1..MaxParts
<1> DEFINE S == {k \in 1..i : ByRole(c) => c.parts[k].role = c.parts[i].role}
<1>1. i \in 1..MaxParts /\ i \in Nat
  BY CallFacts, BoundsNat
<1>2. IsFiniteSet(1..i) /\ Cardinality(1..i) = i
  BY <1>1, FS_Interval
<1>3. IsFiniteSet(S) /\ Cardinality(S) <= i
  <2>1. S \in SUBSET (1..i)
    OBVIOUS
  <2> HIDE DEF S
  <2> QED BY <1>2, <2>1, FS_Subset
<1>4. i \in S
  BY <1>1
<1>5. Cardinality(S) \in Nat /\ Cardinality(S) # 0
  BY <1>3, <1>4, FS_CardinalityType, FS_EmptySet
<1>6. PartNumber(c, i) = Cardinality(S)
  BY DEF PartNumber
<1> HIDE DEF S
<1> QED BY <1>1, <1>3, <1>5, <1>6, BoundsNat

\* Two partitions of the same role, or of a layout without roles, differ in number.
LEMMA NumbersRise ==
  ASSUME NEW c, IsCall(c), NEW i \in Parts(c), NEW j \in Parts(c), i < j,
         ByRole(c) => c.parts[i].role = c.parts[j].role
  PROVE  PartNumber(c, i) # PartNumber(c, j)
<1> DEFINE S(p) == {k \in 1..p : ByRole(c) => c.parts[k].role = c.parts[p].role}
<1>1. i \in Nat /\ j \in Nat /\ 1 <= i
  BY CallFacts, BoundsNat
<1>2. IsFiniteSet(1..j)
  BY <1>1, FS_Interval
<1>3. S(i) \in SUBSET S(j) /\ S(j) \in SUBSET (1..j) /\ j \in S(j) /\ j \notin S(i)
  BY <1>1
<1>4. PartNumber(c, i) = Cardinality(S(i)) /\ PartNumber(c, j) = Cardinality(S(j))
  BY DEF PartNumber
<1> HIDE DEF S
<1>5. IsFiniteSet(S(j))
  BY <1>2, <1>3, FS_Subset
<1>6. Cardinality(S(j)) # Cardinality(S(i))
  BY <1>3, <1>5, FS_Subset
<1> QED BY <1>4, <1>6

\* So partitions by role that share a disk share no number.
LEMMA NumbersApart ==
  ASSUME NEW c, IsCall(c), DevicesDiffer(c), ByRole(c), NEW i \in Parts(c), NEW j \in Parts(c),
         NEW d \in DisksOf(c, i), d \in DisksOf(c, j), PartNumber(c, i) = PartNumber(c, j)
  PROVE  i = j
<1>1. i \in Nat /\ j \in Nat /\ c.parts[i].role \in Role /\ c.parts[j].role \in Role
  BY CallFacts
<1>2. PICK k \in DOMAIN c.assign[c.parts[i].role] : c.assign[c.parts[i].role][k] = d
  BY DEF DisksOf, Range, Devices
<1>3. PICK l \in DOMAIN c.assign[c.parts[j].role] : c.assign[c.parts[j].role][l] = d
  BY DEF DisksOf, Range, Devices
<1>4. c.parts[i].role = c.parts[j].role
  BY <1>1, <1>2, <1>3 DEF DevicesDiffer
<1>5. ~(i < j) /\ ~(j < i)
  BY <1>1, <1>4, NumbersRise
<1> QED BY <1>1, <1>5

\* A creation is of a partition on one of its devices, at a node there may be.
LEMMA CreationFacts ==
  ASSUME NEW c, IsCall(c), NEW x \in Creations(c)
  PROVE  /\ x = <<x[1], x[2], x[3]>>
         /\ x[3] \in Parts(c) /\ x[2] \in DOMAIN Devices(c, x[3])
         /\ x[1] = IF ByRole(c) THEN c.parts[x[3]].role ELSE 0
         /\ x[2] \in Nat /\ x[1] \in Nat /\ x[3] \in Nat
         /\ DiskOf(c, x) \in DisksOf(c, x[3]) /\ PlaceOf(c, x) \in Node
         /\ PlaceOf(c, x)[1] = DiskOf(c, x) /\ PlaceOf(c, x)[2] = PartNumber(c, x[3])
<1>0. PICK i \in Parts(c) :
        x \in {<<IF ByRole(c) THEN c.parts[i].role ELSE 0, k, i>> : k \in DOMAIN Devices(c, i)}
  BY Zenon DEF Creations
<1>1. PICK k \in DOMAIN Devices(c, i) : x = <<IF ByRole(c) THEN c.parts[i].role ELSE 0, k, i>>
  BY <1>0, Zenon
<1>2. x[3] = i /\ x[2] = k /\ x[1] = IF ByRole(c) THEN c.parts[i].role ELSE 0
  BY <1>1
<1>3. i \in Nat /\ k \in Nat /\ c.parts[i].role \in Nat
  <2>1. i \in Nat /\ c.parts[i].role \in Nat /\ Devices(c, i) \in Seq(Disk)
    BY CallFacts
  <2>2. DOMAIN Devices(c, i) = 1..Len(Devices(c, i)) /\ Len(Devices(c, i)) \in Nat
    BY <2>1
  <2> QED BY <2>1, <2>2
<1>4. DiskOf(c, x) \in DisksOf(c, i)
  BY <1>1, <1>2 DEF DiskOf, DisksOf, Range
<1>5. DiskOf(c, x) \in Disk /\ PartNumber(c, i) \in 1..MaxParts
  BY <1>1, <1>4, CallFacts, Numbered
<1>6. PlaceOf(c, x) = <<DiskOf(c, x), PartNumber(c, i)>>
  BY <1>2 DEF PlaceOf, DiskOf
<1> QED BY <1>1, <1>2, <1>3, <1>4, <1>5, <1>6 DEF Node

\* The partition that takes the rest of a disk is the last one created on it.
LEMMA FillComesLast ==
  ASSUME NEW c, IsCall(c), DevicesDiffer(c), Good(c),
         NEW x \in Creations(c), NEW y \in Creations(c), x # y, Precedes(x, y),
         DiskOf(c, x) = DiskOf(c, y), c.parts[x[3]].size = "fill"
  PROVE  FALSE
<1>1. /\ x = <<x[1], x[2], x[3]>> /\ y = <<y[1], y[2], y[3]>>
      /\ x[3] \in Parts(c) /\ y[3] \in Parts(c)
      /\ x[2] \in DOMAIN Devices(c, x[3]) /\ y[2] \in DOMAIN Devices(c, y[3])
      /\ x[2] \in Nat /\ y[2] \in Nat /\ x[3] \in Nat /\ y[3] \in Nat
  BY CreationFacts
<1>2. Devices(c, x[3])[x[2]] = Devices(c, y[3])[y[2]]
  BY DEF DiskOf
<1>3. Parts(c) = 1..Len(c.parts) /\ Len(c.parts) \in Nat
  BY <1>1, CallFacts
<1>4. CASE ByRole(c)
  <2>1. c.parts[x[3]].role \in Role /\ c.parts[y[3]].role \in Role
    BY <1>1, CallFacts
  <2>2. /\ Devices(c, x[3]) = c.assign[c.parts[x[3]].role]
        /\ Devices(c, y[3]) = c.assign[c.parts[y[3]].role]
    BY <1>4 DEF Devices
  <2>3. c.parts[x[3]].role = c.parts[y[3]].role /\ x[2] = y[2]
    BY <1>1, <1>2, <2>1, <2>2 DEF DevicesDiffer
  <2>4. x[1] = y[1]
    BY <1>4, <2>3, CreationFacts
  <2>5. x[1] \in Nat
    BY CreationFacts
  <2>6. x[3] < y[3]
    BY <1>1, <2>3, <2>4, <2>5 DEF Precedes
  <2> QED BY <1>1, <2>3, <2>6 DEF Good, Accepted
<1>5. CASE ~ByRole(c)
  <2>1. x[1] = 0 /\ y[1] = 0
    BY <1>5, CreationFacts
  <2>2. Devices(c, x[3]) = c.devs /\ Devices(c, y[3]) = c.devs
    BY <1>5 DEF Devices
  <2>3. x[2] = y[2]
    BY <1>1, <1>2, <2>2 DEF DevicesDiffer
  <2>4. x[3] < y[3]
    BY <1>1, <2>1, <2>3 DEF Precedes
  <2>5. x[3] = Len(c.parts)
    BY <1>1, <1>5 DEF Good, Applicable
  <2> QED BY <1>1, <1>3, <2>4, <2>5
<1> QED BY <1>4, <1>5

-----------------------------------------------------------------------------
\* The invariant holds when apply_disk_layout is called.
LEMMA Start == Init => IInv
<1> SUFFICES ASSUME Init PROVE IInv
  OBVIOUS
<1> USE DEF Init
<1>1. Typed
  <2>1. IsCall(call) /\ DevicesDiffer(call)
    BY InputAssumption
  <2>2. effective \in [1..MaxParts -> Disk \X (0..MaxParts)]
    BY BoundsNat DEF NoNode, Disk
  <2> QED BY <2>1, <2>2 DEF Typed, Contents
<1>2. Confined
  BY Tags DEF Confined
<1> QED BY <1>1, <1>2 DEF IInv, NothingYet, Remaining, Room, Present, Copied, ApplicableApplies

\* Steps that write to no disk: to the next loop, or out by an exception.
LEMMA ChecksKeep ==
  ASSUME IInv, CheckRoles \/ RoleUnresolved
  PROVE  IInv'
<1> USE DEF IInv, Raise
<1>1. CASE CheckRoles
  BY <1>1 DEF CheckRoles, Typed, NothingYet, Remaining, Room, Present, Confined, Copied, Everywhere,
     ApplicableApplies
<1>2. CASE RoleUnresolved
  BY <1>2 DEF RoleUnresolved, Typed, NothingYet, Remaining, Room, Present, Confined, Copied, Everywhere,
     ApplicableApplies, Applicable
<1> QED BY <1>1, <1>2

\* Wiping disks comes before there is anything of the layout on them.
LEMMA WipesKeep ==
  ASSUME IInv, Wipe \/ WipesDone
  PROVE  IInv'
<1> USE DEF IInv
<1>1. CASE WipesDone
  BY <1>1 DEF WipesDone, Typed, NothingYet, Remaining, Room, Present, Confined, Copied, Everywhere,
     ApplicableApplies
<1>2. CASE Wipe
  <2>1. PICK d \in todo :
          /\ full' = IF d \in call.members THEN full \cup {d} ELSE full
          /\ content' = [n \in Node |-> IF d \in call.members /\ n = <<d, 1>> THEN Blank ELSE content[n]]
    BY <1>2 DEF Wipe
  <2>2. pc = "wipe" /\ UNCHANGED <<call, pc, effective, map, stack, faulted>>
    BY <1>2 DEF Wipe
  <2>3. Typed'
    BY <2>1, <2>2 DEF Typed, Contents
  <2>4. Room'
    BY <2>1, <2>2 DEF Room, Good, Applicable, Typed, IsCall
  <2>5. Confined'
    BY <2>1, <2>2, Tags DEF Confined
  <2> QED BY <2>2, <2>3, <2>4, <2>5 DEF NothingYet, Remaining, Present, Copied, ApplicableApplies
<1> QED BY <1>1, <1>2

\* Creating a partition takes its room and no other partition's.
LEMMA CreationsKeep ==
  ASSUME IInv, CreatePartition \/ NoSuchPartition \/ Probe
  PROVE  IInv'
<1> USE DEF IInv
<1>1. CASE CreatePartition
  <2>1. pc = "create" /\ UNCHANGED <<call, pc, wiped, effective, map, stack, faulted>>
    BY <1>1 DEF CreatePartition
  <2>2. PICK x \in todo :
          /\ IsFirst(x, todo)
          /\ content' = [content EXCEPT ![PlaceOf(call, x)] = Blank]
          /\ full' = IF call.parts[x[3]].size = "fill" THEN full \cup {DiskOf(call, x)} ELSE full
          /\ todo' = todo \ {x}
    BY <1>1 DEF CreatePartition, PlaceOf, DiskOf
  <2>3. IsCall(call) /\ DevicesDiffer(call) /\ todo \subseteq Creations(call)
    BY <2>1 DEF Typed, Remaining
  <2>4. \A y \in Creations(call) : PlaceOf(call, y) \in Node
    BY <2>3, CreationFacts
  <2>5. Typed'
    BY <2>1, <2>2 DEF Typed, Contents
  <2>6. Room'
    <3> SUFFICES ASSUME Good(call), NEW y \in todo, y # x, DiskOf(call, y) \in full'
                 PROVE  FALSE
      BY <2>1, <2>2 DEF Room
    <3>1. DiskOf(call, y) \notin full
      BY <2>1 DEF Room
    <3>2. call.parts[x[3]].size = "fill" /\ DiskOf(call, y) = DiskOf(call, x)
      BY <2>2, <3>1
    <3>3. Precedes(x, y)
      BY <2>2 DEF IsFirst
    <3> QED BY <2>3, <3>2, <3>3, FillComesLast
  <2>7. Present'
    <3> SUFFICES ASSUME NEW y \in Creations(call), y \notin todo'
                 PROVE  content'[PlaceOf(call, y)] # Missing
      BY <2>1 DEF Present
    <3>1. CASE PlaceOf(call, y) = PlaceOf(call, x)
      BY <2>2, <2>4, <3>1, Tags DEF Typed
    <3>2. CASE PlaceOf(call, y) # PlaceOf(call, x)
      BY <2>1, <2>2, <2>4, <3>2 DEF Typed, Present
    <3> QED BY <3>1, <3>2
  <2>8. Confined'
    <3> SUFFICES ASSUME NEW i, NEW n \in Node, content'[n] \in {Holds(i), Member(i)}
                 PROVE  content[n] = content'[n]
      BY <2>1 DEF Confined
    <3> QED BY <2>2, Tags DEF Typed
  <2> QED BY <2>1, <2>2, <2>5, <2>6, <2>7, <2>8 DEF NothingYet, Remaining, Copied, ApplicableApplies
<1>2. CASE NoSuchPartition
  <2>1. pc = "create" /\ pc' = "raised"
        /\ UNCHANGED <<call, todo, wiped, full, content, effective, map, stack, faulted>>
    BY <1>2 DEF NoSuchPartition, Raise
  <2>2. ~Good(call)
    <3>1. PICK x \in todo : call.parts[x[3]].size = "bad" \/ DiskOf(call, x) \in full
      BY <1>2 DEF NoSuchPartition, DiskOf
    <3>2. x[3] \in Parts(call)
      BY <2>1, CreationFacts DEF Remaining, Typed
    <3> QED BY <2>1, <3>1, <3>2 DEF Good, Applicable, Room
  <2> QED BY <2>1, <2>2
      DEF Typed, NothingYet, Remaining, Room, Present, Confined, Copied, ApplicableApplies, Good
<1>3. CASE Probe
  BY <1>3 DEF Probe, Typed, NothingYet, Remaining, Room, Present, Confined, Copied, ApplicableApplies
<1> QED BY <1>1, <1>2, <1>3

-----------------------------------------------------------------------------
\* Where the nodes of a partition are.
LEMMA NodesFacts ==
  ASSUME NEW c, IsCall(c), NEW i \in Parts(c), ~Unresolved(c)
  PROVE  /\ Nodes(c, i)[1] \in Disk \X (0..MaxParts)
         /\ 0 \notin DisksOf(c, i) =>
              /\ \A n : n \in Range(Nodes(c, i)) <=> \E d \in DisksOf(c, i) : n = <<d, PartNumber(c, i)>>
              /\ Nodes(c, i)[1] \in Range(Nodes(c, i))
<1>1. 1 \in DOMAIN Devices(c, i) /\ Devices(c, i)[1] \in DisksOf(c, i) /\ DisksOf(c, i) \subseteq Disk
  BY CallFacts DEF DisksOf, Range
<1>2. PartNumber(c, i) \in 0..MaxParts /\ 0 \in 0..MaxParts /\ 0 \in Disk
  BY Numbered, BoundsNat DEF Disk
<1>3. /\ DOMAIN Nodes(c, i) = DOMAIN Devices(c, i)
      /\ \A k \in DOMAIN Devices(c, i) : Nodes(c, i)[k] = PartName(Devices(c, i)[k], PartNumber(c, i))
  BY DEF Nodes
<1>4. Nodes(c, i)[1] \in Disk \X (0..MaxParts)
  BY <1>1, <1>2, <1>3 DEF PartName, NoNode
<1>5. ASSUME 0 \notin DisksOf(c, i)
      PROVE  \A k \in DOMAIN Devices(c, i) : Nodes(c, i)[k] = <<Devices(c, i)[k], PartNumber(c, i)>>
  BY <1>3, <1>5 DEF PartName, DisksOf, Range
<1>6. ASSUME 0 \notin DisksOf(c, i), NEW n
      PROVE  n \in Range(Nodes(c, i)) <=> \E d \in DisksOf(c, i) : n = <<d, PartNumber(c, i)>>
  BY <1>3, <1>5, <1>6 DEF Range, DisksOf
<1>7. Nodes(c, i)[1] \in Range(Nodes(c, i))
  BY <1>1, <1>3 DEF Range
<1> QED BY <1>4, <1>6, <1>7

\* What formatting leaves, whatever the partition.
LEMMA AfterFormatFacts ==
  ASSUME Typed, NEW i \in Parts(call), NEW n \in Node
  PROVE  /\ AfterFormat(call, i, n) \in Contents
         /\ content[n] # Missing => AfterFormat(call, i, n) # Missing
         /\ AfterFormat(call, i, n) \in {Holds(i), Member(i), Blank} \/ AfterFormat(call, i, n) = content[n]
         /\ n \notin Written(call, i) /\ n # <<0, i>> => AfterFormat(call, i, n) = content[n]
<1>1. i \in 1..MaxParts
  BY CallFacts DEF Typed
<1>2. /\ AfterFormat(call, i, n) \in {Holds(i), Member(i), Blank} \/ AfterFormat(call, i, n) = content[n]
      /\ n \notin Written(call, i) /\ n # <<0, i>> => AfterFormat(call, i, n) = content[n]
  BY DEF AfterFormat
<1> QED BY <1>1, <1>2, Tags DEF Typed, Contents

\* The device that stands for a partition from its formatting on.
StandsFor(c, i) == IF FormattedAs(c, i) = "array" THEN <<0, i>> ELSE Nodes(c, i)[1]

\* By role, no partition is formatted over another one's nodes.
LEMMA FormatsApart ==
  ASSUME Typed, Copied, ByRole(call), pc = "format",
         NEW i \in Parts(call), i \in todo, Formattable(call, i), ~Unresolved(call),
         effective'[i] = StandsFor(call, i),
         \A k \in (1..MaxParts) \ {i} : effective'[k] = effective[k],
         \A n \in Node : content'[n] = AfterFormat(call, i, n),
         call' = call, NEW j \in Parts(call), call.parts[j].fs # "", j \notin todo \/ j = i
  PROVE  Everywhere(j)'
<1>1. /\ i \in 1..MaxParts /\ j \in 1..MaxParts /\ 0 \in Disk
      /\ 0 \notin DisksOf(call, i) /\ 0 \notin DisksOf(call, j)
      /\ DisksOf(call, i) \subseteq Disk /\ DisksOf(call, j) \subseteq Disk
  <2>1. IsCall(call) /\ ByRole(call)
    BY DEF Typed
  <2> QED BY <2>1, CallFacts, Pairs
<1>2. PartNumber(call, i) \in 1..MaxParts /\ PartNumber(call, j) \in 1..MaxParts
  BY Numbered DEF Typed
<1>3. /\ \A n : n \in Range(Nodes(call, i)) <=> \E d \in DisksOf(call, i) : n = <<d, PartNumber(call, i)>>
      /\ Nodes(call, i)[1] \in Range(Nodes(call, i))
  BY <1>1, NodesFacts DEF Typed
<1>4. FormattedAs(call, i) \in {"each", "array", "pool"}
  BY DEF Formattable, FormattedAs
<1>5. Written(call, i) = Range(Nodes(call, i))
  BY <1>4 DEF Written
<1>6. /\ <<0, i>> \in Node /\ <<0, j>> \in Node /\ <<0, i>> \notin Written(call, i)
      /\ <<0, j>> \notin Written(call, i)
      /\ \A d \in DisksOf(call, i) : <<d, PartNumber(call, i)>> \in Node
      /\ \A d \in DisksOf(call, j) : <<d, PartNumber(call, j)>> \in Node
  <2>1. \A k : <<0, k>> \notin Written(call, i)
    <3> SUFFICES ASSUME NEW k, <<0, k>> \in Written(call, i) PROVE FALSE
      OBVIOUS
    <3>1. PICK d \in DisksOf(call, i) : <<0, k>> = <<d, PartNumber(call, i)>>
      BY <1>3, <1>5, Zenon
    <3>2. d = 0
      BY <3>1, Pairs, Zenon
    <3> QED BY <1>1, <3>2
  <2> QED BY <1>1, <1>2, <2>1, Pairs
<1>7. CASE j = i
  <2>1. \A n \in Written(call, i) : n \in Node /\ content'[n] \in {Holds(i), Member(i)}
    <3> SUFFICES ASSUME NEW n \in Written(call, i)
                 PROVE  n \in Node /\ content'[n] \in {Holds(i), Member(i)}
      OBVIOUS
    <3>1. n \in Node
      BY <1>3, <1>5, <1>6, Zenon
    <3>2. content'[n] = AfterFormat(call, i, n)
      BY <3>1
    <3> QED BY <1>7, <3>1, <3>2 DEF AfterFormat
  <2>0. \A d \in DisksOf(call, i) : <<d, PartNumber(call, i)>> \in Written(call, i)
    BY <1>3, <1>5, Zenon
  <2>2. CASE FormattedAs(call, i) = "array"
    <3>1. effective'[i] = <<0, i>>
      BY <1>1, <2>2 DEF Typed, StandsFor
    <3>2. content'[<<0, i>>] = Holds(i)
      BY <1>6, <1>7, <2>2 DEF AfterFormat
    <3> QED BY <1>7, <2>0, <2>1, <3>1, <3>2 DEF Everywhere
  <2>3. CASE FormattedAs(call, i) # "array"
    <3>1. effective'[i] = Nodes(call, i)[1]
      BY <1>1, <2>3 DEF Typed, StandsFor
    <3>2. content'[Nodes(call, i)[1]] = Holds(i)
      BY <1>3, <1>5, <1>7, <2>1, <2>3 DEF AfterFormat
    <3>3. PICK d \in DisksOf(call, i) : Nodes(call, i)[1] = <<d, PartNumber(call, i)>>
      BY <1>3, Zenon
    <3>4. <<d, PartNumber(call, i)>>[1] = d /\ <<d, PartNumber(call, i)>>[2] = PartNumber(call, i)
      OBVIOUS
    <3>5. /\ content'[effective'[i]] = Holds(i)
          /\ effective'[i][1] \in DisksOf(call, i) /\ effective'[i][2] = PartNumber(call, i)
      BY <3>1, <3>2, <3>3, <3>4
    <3> QED BY <1>7, <2>0, <2>1, <3>5 DEF Everywhere
  <2> QED BY <2>2, <2>3
<1>8. CASE j # i
  <2>1. Everywhere(j)
    BY <1>8 DEF Copied
  <2>2. effective'[j] = effective[j]
    BY <1>1, <1>8 DEF Typed
  <2>3. \A d \in DisksOf(call, j) : <<d, PartNumber(call, j)>> \notin Written(call, i)
    <3> SUFFICES ASSUME NEW d \in DisksOf(call, j), <<d, PartNumber(call, j)>> \in Written(call, i)
                 PROVE  FALSE
      OBVIOUS
    <3>1. d \in DisksOf(call, i) /\ PartNumber(call, j) = PartNumber(call, i)
      <4>1. PICK e \in DisksOf(call, i) : <<d, PartNumber(call, j)>> = <<e, PartNumber(call, i)>>
        BY <1>3, <1>5, Zenon
      <4> QED BY <4>1
    <3> QED BY <1>8, <3>1, NumbersApart DEF Typed
  <2>4. \A d \in DisksOf(call, j) :
          content'[<<d, PartNumber(call, j)>>] = content[<<d, PartNumber(call, j)>>]
    BY <1>1, <1>6, <2>3, AfterFormatFacts
  <2>5. content'[<<0, j>>] = content[<<0, j>>]
    BY <1>6, <1>8, AfterFormatFacts
  <2>6. content'[effective[j]] = Holds(j)
    <3>1. effective[j] \in Disk \X (0..MaxParts)
      BY <1>1 DEF Typed
    <3>2. effective[j] = <<0, j>> \/ \E d \in DisksOf(call, j) : effective[j] = <<d, PartNumber(call, j)>>
      <4>1. effective[j] = <<effective[j][1], effective[j][2]>>
        BY <3>1, Pairs, Zenon
      <4> QED BY <2>1, <4>1 DEF Everywhere
    <3> QED BY <2>1, <2>4, <2>5, <3>2 DEF Everywhere
  <2> QED BY <2>1, <2>2, <2>4, <2>6 DEF Everywhere
<1> QED BY <1>7, <1>8

\* A partition is formatted on its own nodes, every copy of it.
LEMMA FormatKeeps ==
  ASSUME IInv, FormatPartition
  PROVE  IInv'
<1> USE DEF IInv
<1>1. pc = "format" /\ UNCHANGED <<call, pc, wiped, full, stack, faulted>>
  BY DEF FormatPartition
<1>2. PICK i \in Parts(call) :
        /\ NextPart(i) /\ Formattable(call, i)
        /\ content' = [n \in Node |-> AfterFormat(call, i, n)]
        /\ effective' = [effective EXCEPT ![i] = StandsFor(call, i)]
        /\ todo' = todo \ {i}
  BY Zenon DEF FormatPartition, StandsFor
<1>3. ~Unresolved(call) /\ IsCall(call) /\ i \in 1..MaxParts /\ i \in todo
  BY <1>1, <1>2, CallFacts DEF NothingYet, Typed, NextPart
<1>4. StandsFor(call, i) \in Disk \X (0..MaxParts)
  <2>1. <<0, i>> \in Disk \X (0..MaxParts)
    BY <1>3, Pairs
  <2> QED BY <1>3, <2>1, NodesFacts DEF StandsFor
<1>5. Typed'
  <2>1. content' \in [Node -> Contents]
    BY <1>2, AfterFormatFacts
  <2>2. effective' \in [1..MaxParts -> Disk \X (0..MaxParts)]
    BY <1>2, <1>4 DEF Typed
  <2> QED BY <1>1, <2>1, <2>2 DEF Typed
<1>6. Present'
  <2> SUFFICES ASSUME NEW x \in Creations(call) PROVE content'[PlaceOf(call, x)] # Missing
    BY <1>1 DEF Present
  <2>1. PlaceOf(call, x) \in Node
    BY <1>3, CreationFacts
  <2>2. content[PlaceOf(call, x)] # Missing
    BY <1>1 DEF Present
  <2> QED BY <1>2, <2>1, <2>2, AfterFormatFacts
<1>7. Confined'
  <2> SUFFICES ASSUME ByRole(call), NEW j \in Parts(call), NEW n \in Node, n[1] # 0,
                      content'[n] \in {Holds(j), Member(j)}
               PROVE  n[1] \in DisksOf(call, j) /\ n[2] = PartNumber(call, j)
    BY <1>1 DEF Confined
  <2>1. content'[n] = AfterFormat(call, i, n)
    BY <1>2
  <2>2. CASE content'[n] = content[n]
    BY <2>2 DEF Confined
  <2>3. CASE content'[n] # content[n]
    <3>1. content'[n] \in {Holds(i), Member(i), Blank}
      BY <1>2, <2>1, <2>3, AfterFormatFacts
    <3>2. i = j
      BY <3>1, Tags
    <3>3. n # <<0, i>>
      BY Pairs
    <3>4. n \in Written(call, i)
      BY <1>2, <2>1, <2>3, <3>3, AfterFormatFacts
    <3>5. FormattedAs(call, i) # "first"
      BY DEF FormattedAs
    <3>6. 0 \notin DisksOf(call, i)
      BY <1>2, <1>3, CallFacts
    <3>7. PICK d \in DisksOf(call, i) : n = <<d, PartNumber(call, i)>>
      <4>1. n \in Range(Nodes(call, i))
        BY <3>4, <3>5 DEF Written
      <4> QED BY <1>2, <1>3, <3>6, <4>1, NodesFacts
    <3> QED BY <3>2, <3>7
  <2> QED BY <2>2, <2>3
<1>8. Copied'
  <2> SUFFICES ASSUME ByRole(call), NEW j \in Parts(call), call.parts[j].fs # "", j \notin todo \/ j = i
               PROVE  Everywhere(j)'
    BY <1>1, <1>2 DEF Copied
  <2>1. effective'[i] = StandsFor(call, i) /\ \A k \in (1..MaxParts) \ {i} : effective'[k] = effective[k]
    BY <1>2, <1>3 DEF Typed
  <2>2. \A n \in Node : content'[n] = AfterFormat(call, i, n)
    BY <1>2
  <2>3. call' = call
    BY <1>1
  <2> QED BY <1>1, <1>2, <1>3, <2>1, <2>2, <2>3, FormatsApart
<1> QED BY <1>1, <1>2, <1>5, <1>6, <1>7, <1>8 DEF NothingYet, Remaining, Room, ApplicableApplies

\* A layout that meets its conditions asks for no file system that cannot be made.
LEMMA NotFormattableKeeps ==
  ASSUME IInv, NotFormattable
  PROVE  IInv'
<1> USE DEF IInv
<1>1. pc = "format" /\ pc' = "raised"
      /\ UNCHANGED <<call, todo, wiped, full, content, effective, map, stack, faulted>>
  BY DEF NotFormattable, Raise
<1>2. PICK i \in Parts(call) : NextPart(i) /\ ~Formattable(call, i)
  BY DEF NotFormattable
<1>3. IsCall(call) /\ ~Unresolved(call)
  BY <1>1 DEF Typed, NothingYet
<1>4. ~Good(call)
  <2> SUFFICES ASSUME Good(call) PROVE FALSE
    OBVIOUS
  <2>1. FormattedAs(call, i) # "unsupported" /\ call.kind # "mdraid"
    BY <1>2 DEF Good, Applicable
  <2>2. 0 \notin DisksOf(call, i)
    BY <1>2, <1>3, <2>1, CallFacts
  <2>3. PICK n \in Written(call, i) : ~(n # NoNode /\ content[n] # Missing)
    BY <1>2, <2>1 DEF Formattable
  <2>4. n \in Range(Nodes(call, i))
    BY <1>2, <1>3, <2>2, <2>3, NodesFacts DEF Written
  <2>5. PICK d \in DisksOf(call, i) : n = <<d, PartNumber(call, i)>>
    BY <1>2, <1>3, <2>2, <2>4, NodesFacts
  <2>6. n # NoNode
    BY <2>2, <2>5, Pairs DEF NoNode
  <2>7. content[n] # Missing
    <3>1. PICK k \in DOMAIN Devices(call, i) : Devices(call, i)[k] = d
      BY DEF DisksOf, Range
    <3> DEFINE x == <<IF ByRole(call) THEN call.parts[i].role ELSE 0, k, i>>
    <3>2. x \in Creations(call)
      <4>1. x \in {<<IF ByRole(call) THEN call.parts[i].role ELSE 0, l, i>> : l \in DOMAIN Devices(call, i)}
        BY <3>1
      <4> QED BY <1>2, <4>1, Zenon DEF Creations
    <3>3. PlaceOf(call, x) = n
      BY <2>5, <3>1 DEF PlaceOf
    <3> HIDE DEF x
    <3> QED BY <1>1, <3>2, <3>3 DEF Present
  <2> QED BY <2>3, <2>6, <2>7
<1> QED BY <1>1, <1>4
    DEF Typed, NothingYet, Remaining, Room, Present, Confined, Copied, ApplicableApplies, Good

-----------------------------------------------------------------------------
\* The steps that mount partition i: on which partition, in which order.
LEMMA SpotFacts ==
  ASSUME NEW c, IsCall(c), NEW i \in Parts(c), NEW x \in Creates(c, i) \cup Spots(c, i)
  PROVE  /\ x = <<x[1], x[2], x[3]>> /\ x[1] = i /\ x[2] \in 0..2 /\ x[3] \in Nat /\ i \in Nat
         /\ x \in Spots(c, i) <=> x[2] # 0
         /\ x[2] # 0 /\ HasSubvolumes(c.parts[i]) => (SpotAt(c, x) = "/" <=> x[2] = 1)
         /\ x[2] # 0 /\ ~HasSubvolumes(c.parts[i]) => x = <<i, 1, 1>>
         /\ x[2] # 0 => SpotAt(c, x) \in Mounted(c.parts[i])
<1>1. i \in Nat /\ c.parts[i] \in Part
  BY CallFacts
<1>2. CASE x \in Creates(c, i)
  <2>1. x = <<i, 0, 0>>
    BY <1>2 DEF Creates
  <2>2. x \notin Spots(c, i)
    <3> SUFFICES ASSUME x \in Spots(c, i) PROVE FALSE
      OBVIOUS
    <3>1. x[2] \in {1, 2}
      BY DEF Spots
    <3> QED BY <2>1, <3>1
  <2> QED BY <1>1, <2>1, <2>2
<1>3. CASE x \in Spots(c, i) /\ HasSubvolumes(c.parts[i])
  <2>1. PICK k \in DOMAIN c.parts[i].subs :
          /\ x = <<i, IF c.parts[i].subs[k] = "/" THEN 1 ELSE 2, k>> /\ c.parts[i].subs[k] # None
    BY <1>3 DEF Spots
  <2>2. c.parts[i].subs \in Seq(MountPoint \cup {None})
    BY <1>1 DEF Part
  <2>3. k \in Nat
    BY <2>2, SeqIsFunction
  <2>4. x[1] = i /\ x[2] = (IF c.parts[i].subs[k] = "/" THEN 1 ELSE 2) /\ x[3] = k
    BY <2>1
  <2>5. SpotAt(c, x) = c.parts[i].subs[k]
    BY <1>3, <2>4 DEF SpotAt
  <2>6. c.parts[i].subs[k] \in Mounted(c.parts[i])
    BY <1>3, <2>1 DEF Mounted, Range
  <2> QED BY <1>1, <1>3, <2>1, <2>3, <2>4, <2>5, <2>6
<1>4. CASE x \in Spots(c, i) /\ ~HasSubvolumes(c.parts[i])
  <2>1. x = <<i, 1, 1>> /\ c.parts[i].at # None
    BY <1>4 DEF Spots
  <2>2. SpotAt(c, x) = c.parts[i].at
    BY <1>4, <2>1 DEF SpotAt
  <2> QED BY <1>1, <1>4, <2>1, <2>2 DEF Mounted
<1> QED BY <1>2, <1>3, <1>4

\* What the two passes have to do belongs to the partitions they are about.
LEMMA MountFacts ==
  ASSUME NEW c, IsCall(c), NEW x \in RootMounts(c) \cup LaterMounts(c)
  PROVE  /\ x[1] \in Parts(c) /\ x \in Creates(c, x[1]) \cup Spots(c, x[1])
         /\ x \in RootMounts(c) => RootPart(c, x[1])
         /\ x \in LaterMounts(c) => LaterPart(c, x[1])
         /\ x[2] # 0 <=> x \in AllSpots(c)
<1>1. ASSUME NEW i \in Parts(c), x \in Creates(c, i) \cup Spots(c, i) PROVE x[1] = i
  BY <1>1, SpotFacts
<1>2. x \in RootMounts(c) => \E i \in Parts(c) : RootPart(c, i) /\ x \in Creates(c, i) \cup Spots(c, i)
  BY DEF RootMounts
<1>3. x \in LaterMounts(c) => \E i \in Parts(c) : LaterPart(c, i) /\ x \in Creates(c, i) \cup Spots(c, i)
  BY DEF LaterMounts
<1>4. x[1] \in Parts(c) /\ x \in Creates(c, x[1]) \cup Spots(c, x[1])
  BY <1>1, <1>2, <1>3
<1>5. x[2] # 0 <=> x \in AllSpots(c)
  <2>1. x[2] # 0 <=> x \in Spots(c, x[1])
    BY <1>4, SpotFacts
  <2>2. ASSUME NEW i \in Parts(c), x \in Spots(c, i) PROVE x[2] # 0
    BY <2>2, SpotFacts
  <2> QED BY <1>4, <2>1, <2>2 DEF AllSpots
<1> QED BY <1>1, <1>2, <1>3, <1>4, <1>5

\* The mounts touch no disk; what fails without a command is no Good layout.
LEMMA MountsKeep ==
  ASSUME IInv, FormatsDone \/ RootMounted \/ CreateSubvolumes \/ Mount \/ Return
  PROVE  IInv'
<1>1. /\ UNCHANGED <<call, wiped, full, content, effective, map, faulted>>
      /\ pc \in {"format", "root", "mounts"} /\ pc' \in {"root", "mounts", "returned"}
      /\ pc = "format" => todo = {}
      /\ pc' = "root" => todo' = RootMounts(call) \/ (pc = "root" /\ todo' \subseteq todo)
      /\ pc' = "mounts" => todo' = LaterMounts(call) \/ (pc = "mounts" /\ todo' \subseteq todo)
  BY DEF FormatsDone, RootMounted, CreateSubvolumes, Mount, Return
<1>2. Copied'
  <2> SUFFICES ASSUME ByRole(call), NEW i \in Parts(call), call.parts[i].fs # ""
               PROVE  Everywhere(i)'
    BY <1>1 DEF Copied
  <2>1. Everywhere(i)
    BY <1>1 DEF IInv, Copied
  <2> QED BY <1>1, <2>1 DEF Everywhere
<1>3. Remaining'
  BY <1>1 DEF IInv, Remaining
<1> QED BY <1>1, <1>2, <1>3
    DEF IInv, Typed, NothingYet, Room, Present, Confined, ApplicableApplies

\* A command that fails ends the call where it is.
LEMMA FailuresKeep ==
  ASSUME IInv, NotMountable \/ CommandFails
  PROVE  IInv'
<1>1. pc' = "raised" /\ UNCHANGED <<call, todo, wiped, full, content, effective, map, stack>>
      /\ pc \in {"wipe", "create", "format", "root", "mounts"}
  BY DEF NotMountable, CommandFails, Raise
<1>2. ApplicableApplies'
  <2>1. CASE CommandFails
    BY <2>1 DEF CommandFails, ApplicableApplies
  <2>2. CASE NotMountable
    <3>1. PICK x \in RootMounts(call) \cup LaterMounts(call) : ~Mountable(call.parts[x[1]])
      BY <2>2 DEF NotMountable, IInv, Remaining
    <3>2. /\ x[1] \in Parts(call) /\ x \in Creates(call, x[1]) \cup Spots(call, x[1])
          /\ RootPart(call, x[1]) \/ LaterPart(call, x[1])
      BY <3>1, MountFacts DEF IInv, Typed
    <3>3. HasSubvolumes(call.parts[x[1]]) \/ call.parts[x[1]].at # None
      BY <3>2 DEF Creates, Spots
    <3> QED BY <1>1, <3>1, <3>2, <3>3 DEF ApplicableApplies, Applicable, Mountable, HasSubvolumes,
            RootPart, LaterPart
  <2> QED BY <2>1, <2>2
<1> QED BY <1>1, <1>2 DEF IInv, Typed, NothingYet, Remaining, Room, Present, Confined, Copied

\* Every step of the call keeps the invariant.
LEMMA StepKeeps == IInv /\ [Next]_vars => IInv'
<1> SUFFICES ASSUME IInv, [Next]_vars PROVE IInv'
  OBVIOUS
<1>1. CASE UNCHANGED vars
  BY <1>1 DEF vars, IInv, Typed, NothingYet, Remaining, Room, Present, Confined, Copied, Everywhere,
     ApplicableApplies
<1>2. CASE Next
  BY <1>2, ChecksKeep, WipesKeep, CreationsKeep, FormatKeeps, NotFormattableKeeps, MountsKeep, FailuresKeep
     DEF Next
<1> QED BY <1>1, <1>2

\* The invariant holds throughout.
THEOREM Inductive == Spec => []IInv
BY Start, StepKeeps, PTL DEF Spec

\* apply_disk_layout_resolved returns with each disk of a role carrying one
\* node of each of its partitions, holding what the layout says.
THEOREM EveryCopyIsWritten == Spec => []EveryCopyWritten
<1>1. IInv => EveryCopyWritten
  <2> SUFFICES ASSUME IInv, pc = "returned", ByRole(call), NEW i \in Parts(call), call.parts[i].fs # "",
                      NEW d \in Range(call.assign[call.parts[i].role])
               PROVE  /\ content[effective[i]] = Holds(i)
                      /\ Cardinality({n \in Node : n[1] = d /\ content[n] \in {Holds(i), Member(i)}}) = 1
    <3>1. ASSUME IInv, pc = "returned", ByRole(call), NEW i \in Parts(call), call.parts[i].fs # ""
          PROVE  content[effective[i]] = Holds(i)
      BY <3>1 DEF IInv, Copied, Everywhere
    <3> QED BY <3>1 DEF EveryCopyWritten
  <2>1. Everywhere(i)
    BY DEF IInv, Copied
  <2>2. d \in DisksOf(call, i) /\ d \in Disk /\ d # 0 /\ PartNumber(call, i) \in 1..MaxParts
    <3>1. d \in DisksOf(call, i) /\ IsCall(call)
      BY DEF DisksOf, Devices, IInv, Typed
    <3> QED BY <3>1, CallFacts, Numbered
  <2> DEFINE S == {n \in Node : n[1] = d /\ content[n] \in {Holds(i), Member(i)}}
  <2>3. S = {<<d, PartNumber(call, i)>>}
    <3>1. <<d, PartNumber(call, i)>> \in S
      BY <2>1, <2>2, Pairs DEF Everywhere
    <3>2. ASSUME NEW n \in S PROVE n = <<d, PartNumber(call, i)>>
      <4>1. n \in Node /\ n[1] = d /\ n[2] = PartNumber(call, i)
        BY <2>2 DEF IInv, Confined
      <4> QED BY <4>1, Pairs
    <3> QED BY <3>1, <3>2
  <2> HIDE DEF S
  <2>4. Cardinality(S) = 1
    BY <2>3, FS_Singleton
  <2> QED BY <2>1, <2>4 DEF S, Everywhere
<1> QED BY <1>1, Inductive, PTL

\* An accepted layout the code has the means for fails only with a command:
\* the disks have room for its partitions, what is formatted has been created,
\* what is mounted holds a file system.
THEOREM OnlyCommandsFail == Spec => []ApplicableApplies
<1>1. IInv => ApplicableApplies
  BY DEF IInv
<1> QED BY <1>1, Inductive, PTL

-----------------------------------------------------------------------------
(* What is mounted, and what the map says of it.                            *)

\* What the current pass, and both passes, have mounted; what is formatted.
Passed == IF pc = "root" THEN RootMounts(call) \ todo ELSE LaterMounts(call) \ todo
Done ==
  CASE pc = "root" -> RootMounts(call) \ todo
    [] pc = "mounts" -> RootMounts(call) \cup (LaterMounts(call) \ todo)
    [] pc = "returned" -> RootMounts(call) \cup LaterMounts(call)
    [] OTHER -> {}
Formatted ==
  CASE pc = "format" -> Parts(call) \ todo
    [] pc \in {"root", "mounts", "returned"} -> Parts(call)
    [] OTHER -> {}

Stacked == stack \in Seq([at : MountPoint \cup {None}, vol : Disk \X (0..MaxParts)])

InOrder == pc \in {"root", "mounts"} => \A x \in Passed, y \in todo : Precedes(x, y)

Seen ==
  OuterFirst(call) =>
    \A x \in Done : x \in AllSpots(call) => SeenAt(SpotAt(call, x), effective[x[1]])

\* The map names what stands for formatted partitions, and all their swap.
Esps == {i \in Formatted : call.parts[i].fs = "vfat" /\ call.parts[i].at \in {"/boot", "/boot/efi"}}
At(m) == {i \in Formatted : call.parts[i].at = m}
Extras == {i \in Formatted : call.parts[i].fs # "swap" /\ call.parts[i].at \notin {None, "/"}}
Swaps == {i \in Formatted : call.parts[i].fs = "swap"}
Mapped ==
  pc # "raised" =>
    /\ map.esp # NoNode => \E i \in Esps : map.esp = effective[i]
    /\ map.root # NoNode => \E i \in At("/") : map.root = effective[i]
    /\ map.home # NoNode => \E i \in At("/home") : map.home = effective[i]
    /\ \A e \in map.extra : \E i \in Extras : e = <<effective[i], call.parts[i].at>>
    /\ ByRole(call) => map.swaps = {effective[i] : i \in Swaps}

MInv == Stacked /\ InOrder /\ Seen /\ Mapped

\* In a layout with the outer mounts first, nothing covers an earlier mount.
LEMMA Uncovered ==
  ASSUME NEW c, IsCall(c), OuterFirst(c),
         NEW x \in RootMounts(c) \cup LaterMounts(c), NEW y \in RootMounts(c) \cup LaterMounts(c),
         x \in AllSpots(c), y \in AllSpots(c), x # y,
         \/ x \in RootMounts(c) /\ y \in LaterMounts(c)
         \/ x \in RootMounts(c) /\ y \in RootMounts(c) /\ Precedes(x, y)
         \/ x \in LaterMounts(c) /\ y \in LaterMounts(c) /\ Precedes(x, y)
  PROVE  SpotAt(c, y) # SpotAt(c, x) /\ <<SpotAt(c, y), SpotAt(c, x)>> \notin Above
<1>1. SpotAt(c, y) # SpotAt(c, x)
  BY DEF OuterFirst
<1>2. /\ x[1] \in Parts(c) /\ x \in Spots(c, x[1]) /\ x[2] # 0
      /\ y[1] \in Parts(c) /\ y \in Spots(c, y[1]) /\ y[2] # 0
      /\ x \in RootMounts(c) => RootPart(c, x[1])
      /\ y \in RootMounts(c) => RootPart(c, y[1])
      /\ x \in LaterMounts(c) => LaterPart(c, x[1])
      /\ y \in LaterMounts(c) => LaterPart(c, y[1])
  BY MountFacts, SpotFacts
<1>3. /\ x = <<x[1], x[2], x[3]>> /\ x[1] \in Nat /\ x[2] \in 0..2 /\ x[3] \in Nat
      /\ y = <<y[1], y[2], y[3]>> /\ y[1] \in Nat /\ y[2] \in 0..2 /\ y[3] \in Nat
  BY <1>2, SpotFacts
<1>4. ~(Precedes(x, y) /\ Precedes(y, x))
  BY <1>3 DEF Precedes
<1>5. CASE SpotAt(c, y) # "/"
  <2> SUFFICES ASSUME <<SpotAt(c, y), SpotAt(c, x)>> \in Above PROVE FALSE
    BY <1>1
  <2>1. IF c.parts[x[1]].at = "/" THEN y[1] = x[1] /\ Precedes(y, x)
        ELSE Precedes(y, x) \/ c.parts[y[1]].at = "/"
    BY <1>5 DEF OuterFirst
  <2> QED BY <1>2, <1>4, <2>1 DEF RootPart, LaterPart
<1>6. CASE SpotAt(c, y) = "/"
  <2>1. c.parts[y[1]].at = "/"
    BY <1>2, <1>6, SpotFacts DEF OuterFirst
  <2>2. y \in RootMounts(c) /\ x \in RootMounts(c) /\ Precedes(x, y)
    BY <1>2, <2>1 DEF LaterPart
  <2>3. x[1] = y[1]
    BY <1>2, <1>3, <2>2 DEF RootPart
  <2>4. CASE HasSubvolumes(c.parts[y[1]])
    <3>1. y[2] = 1
      BY <1>2, <1>6, <2>4, SpotFacts
    <3>2. x[2] = 1
      BY <1>2, <1>3, <2>2, <2>3, <3>1 DEF Precedes
    <3>3. SpotAt(c, x) = "/"
      BY <1>2, <2>3, <2>4, <3>2, SpotFacts
    <3> QED BY <1>1, <1>6, <3>3
  <2>5. CASE ~HasSubvolumes(c.parts[y[1]])
    <3>1. x = <<x[1], 1, 1>> /\ y = <<y[1], 1, 1>>
      BY <1>2, <2>3, <2>5, SpotFacts
    <3> QED BY <2>3, <3>1
  <2> QED BY <2>4, <2>5
<1> QED BY <1>5, <1>6

\* A mount is seen until another one covers it.
LEMMA MountSeen ==
  ASSUME Stacked, NEW e \in [at : MountPoint \cup {None}, vol : Disk \X (0..MaxParts)],
         stack' = Append(stack, e)
  PROVE  /\ Stacked' /\ SeenAt(e.at, e.vol)'
         /\ \A m, v : SeenAt(m, v) /\ e.at # m /\ <<e.at, m>> \notin Above => SeenAt(m, v)'
<1> DEFINE M == [at : MountPoint \cup {None}, vol : Disk \X (0..MaxParts)]
<1>1. stack \in Seq(M) /\ e \in M
  BY DEF Stacked
<1>2. e = [at |-> e.at, vol |-> e.vol]
  OBVIOUS
<1> HIDE DEF M
<1>3. /\ stack' \in Seq(M) /\ Len(stack) \in Nat /\ DOMAIN stack = 1..Len(stack)
      /\ DOMAIN stack' = 1..(Len(stack) + 1) /\ stack'[Len(stack) + 1] = e
      /\ \A k \in 1..Len(stack) : stack'[k] = stack[k]
  BY <1>1
<1>4. SeenAt(e.at, e.vol)'
  <2>1. Len(stack) + 1 \in DOMAIN stack' /\ stack'[Len(stack) + 1] = [at |-> e.at, vol |-> e.vol]
    BY <1>2, <1>3
  <2>2. \A l \in DOMAIN stack' : ~(l > Len(stack) + 1)
    BY <1>3
  <2> QED BY <2>1, <2>2 DEF SeenAt
<1>5. ASSUME NEW m, NEW v, SeenAt(m, v), e.at # m, <<e.at, m>> \notin Above PROVE SeenAt(m, v)'
  <2>1. PICK k \in DOMAIN stack :
          /\ stack[k] = [at |-> m, vol |-> v]
          /\ \A l \in DOMAIN stack : l > k => stack[l].at # m /\ <<stack[l].at, m>> \notin Above
    BY <1>5 DEF SeenAt
  <2>2. k \in DOMAIN stack' /\ stack'[k] = [at |-> m, vol |-> v]
    BY <1>3, <2>1
  <2>3. ASSUME NEW l \in DOMAIN stack', l > k PROVE stack'[l].at # m /\ <<stack'[l].at, m>> \notin Above
    <3>1. CASE l \in DOMAIN stack
      BY <1>3, <2>1, <2>3, <3>1
    <3>2. CASE l = Len(stack) + 1
      BY <1>3, <1>5, <3>2
    <3>3. l \in DOMAIN stack \/ l = Len(stack) + 1
      BY <1>3
    <3> QED BY <3>1, <3>2, <3>3
  <2> QED BY <2>2, <2>3 DEF SeenAt
<1> QED BY <1>3, <1>4, <1>5 DEF Stacked, M

\* A mount hides nothing that was mounted for the layout.
LEMMA MountStep ==
  ASSUME IInv, MInv, Mount
  PROVE  MInv'
<1>1. /\ pc \in {"root", "mounts"} /\ UNCHANGED <<call, pc, wiped, full, content, effective, map, faulted>>
  BY DEF Mount
<1>2. PICK x \in todo :
        /\ IsFirst(x, todo) /\ x[2] # 0
        /\ stack' = Append(stack, [at |-> SpotAt(call, x), vol |-> effective[x[1]]])
        /\ todo' = todo \ {x}
  BY DEF Mount
<1>3. IsCall(call) /\ x \in RootMounts(call) \cup LaterMounts(call)
  BY <1>1, <1>2 DEF IInv, Typed, Remaining
<1>4. /\ x[1] \in Parts(call) /\ x \in Spots(call, x[1]) /\ x \in AllSpots(call)
      /\ SpotAt(call, x) \in MountPoint
  <2>1. x[1] \in Parts(call) /\ x \in AllSpots(call) /\ x \in Spots(call, x[1])
    BY <1>2, <1>3, MountFacts, SpotFacts
  <2>2. SpotAt(call, x) \in Mounted(call.parts[x[1]]) /\ call.parts[x[1]] \in Part
    BY <1>2, <1>3, <2>1, SpotFacts, CallFacts
  <2>3. \A p \in Part : p.at \in MountPoint \cup {None} /\ p.subs \in Seq(MountPoint \cup {None})
    BY DEF Part
  <2>4. ASSUME NEW p \in Part PROVE Mounted(p) \subseteq MountPoint
    <3>1. p.subs \in [1..Len(p.subs) -> MountPoint \cup {None}]
      BY <2>3, SeqIsFunction
    <3> QED BY <2>3, <3>1 DEF Mounted, Range
  <2> QED BY <2>1, <2>2, <2>4
<1>0. PICK e : e = [at |-> SpotAt(call, x), vol |-> effective[x[1]]]
  OBVIOUS
<1>5. /\ e \in [at : MountPoint \cup {None}, vol : Disk \X (0..MaxParts)]
      /\ e.at = SpotAt(call, x) /\ e.vol = effective[x[1]]
  <2>1. effective[x[1]] \in Disk \X (0..MaxParts)
    BY <1>3, <1>4, CallFacts DEF IInv, Typed
  <2> QED BY <1>0, <1>4, <2>1
<1>6. /\ Stacked' /\ SeenAt(e.at, e.vol)'
      /\ \A m, v : SeenAt(m, v) /\ e.at # m /\ <<e.at, m>> \notin Above => SeenAt(m, v)'
  <2>1. stack' = Append(stack, e)
    BY <1>0, <1>2
  <2> QED BY <1>5, <2>1, MountSeen DEF MInv
<1>7. InOrder'
  <2> SUFFICES ASSUME NEW z \in Passed', NEW y \in todo' PROVE Precedes(z, y)
    BY <1>1 DEF InOrder
  <2>1. z \in Passed \/ z = x
    BY <1>1, <1>2 DEF Passed
  <2> QED BY <1>1, <1>2, <2>1 DEF MInv, InOrder, IsFirst
<1>8. Seen'
  <2> SUFFICES ASSUME OuterFirst(call), NEW z \in Done', z \in AllSpots(call)
               PROVE  SeenAt(SpotAt(call, z), effective[z[1]])'
    BY <1>1 DEF Seen
  <2>0. SpotAt(call, z)' = SpotAt(call, z) /\ effective' = effective
    BY <1>1 DEF SpotAt
  <2>1. CASE z = x
    BY <1>5, <1>6, <2>0, <2>1
  <2>2. CASE z # x
    <3>1. z \in Done
      BY <1>1, <1>2, <2>2 DEF Done
    <3>2. /\ z \in RootMounts(call) \cup LaterMounts(call)
          /\ \/ z \in RootMounts(call) /\ x \in LaterMounts(call)
             \/ z \in RootMounts(call) /\ x \in RootMounts(call) /\ Precedes(z, x)
             \/ z \in LaterMounts(call) /\ x \in LaterMounts(call) /\ Precedes(z, x)
      <4>1. CASE pc = "root"
        BY <1>2, <3>1, <4>1 DEF Done, Passed, IInv, Remaining, MInv, InOrder
      <4>2. CASE pc = "mounts"
        BY <1>2, <3>1, <4>2 DEF Done, Passed, IInv, Remaining, MInv, InOrder
      <4> QED BY <1>1, <4>1, <4>2
    <3>3. SpotAt(call, x) # SpotAt(call, z) /\ <<SpotAt(call, x), SpotAt(call, z)>> \notin Above
      BY <1>3, <1>4, <2>2, <3>2, Uncovered
    <3>4. SeenAt(SpotAt(call, z), effective[z[1]])
      BY <3>1 DEF MInv, Seen
    <3> QED BY <1>5, <1>6, <2>0, <3>3, <3>4
  <2> QED BY <2>1, <2>2
<1>9. Mapped'
  BY <1>1 DEF MInv, Mapped, Formatted, Esps, At, Extras, Swaps
<1> QED BY <1>6, <1>7, <1>8, <1>9 DEF MInv

\* A partition formatted is recorded in the map as what it is.
LEMMA FormatStep ==
  ASSUME IInv, MInv, FormatPartition
  PROVE  MInv'
<1>1. pc = "format" /\ UNCHANGED <<call, pc, wiped, full, stack, faulted>>
  BY DEF FormatPartition
<1>2. PICK i \in Parts(call) :
        /\ NextPart(i) /\ effective' = [effective EXCEPT ![i] = StandsFor(call, i)]
        /\ map' = Recorded(map, call.parts[i], StandsFor(call, i)) /\ todo' = todo \ {i}
  BY Zenon DEF FormatPartition, StandsFor
<1>3. IsCall(call) /\ i \in 1..MaxParts /\ i \in todo /\ Parts(call) \subseteq 1..MaxParts
  BY <1>2, CallFacts DEF IInv, Typed, NextPart
<1>4. effective'[i] = StandsFor(call, i) /\ \A k \in Formatted : effective'[k] = effective[k]
  BY <1>1, <1>2, <1>3 DEF IInv, Typed, Formatted
<1>5. Formatted' = Formatted \cup {i} /\ i \notin Formatted
  BY <1>1, <1>2, <1>3 DEF Formatted
<1>6. /\ map'.esp = IF i \in Esps' THEN effective'[i] ELSE map.esp
      /\ map'.root = IF i \in At("/")' THEN effective'[i] ELSE map.root
      /\ map'.home = IF i \in At("/home")' THEN effective'[i] ELSE map.home
      /\ map'.extra \in {map.extra, map.extra \cup {<<effective'[i], call.parts[i].at>>}}
      /\ map'.extra = map.extra \/ i \in Extras'
      /\ ByRole(call) => map'.swaps = IF i \in Swaps' THEN map.swaps \cup {effective'[i]} ELSE map.swaps
  BY <1>1, <1>2, <1>4, <1>5 DEF Recorded, Esps, At, Extras, Swaps, Canonical
<1>7. /\ Esps \subseteq Esps' /\ At("/") \subseteq At("/")' /\ At("/home") \subseteq At("/home")'
      /\ Extras \subseteq Extras' /\ Swaps' = Swaps \cup ({i} \cap Swaps')
  BY <1>1, <1>5 DEF Esps, At, Extras, Swaps
<1>8. Esps \cup At("/") \cup At("/home") \cup Extras \cup Swaps \subseteq Formatted
  BY DEF Esps, At, Extras, Swaps
<1>9. Mapped'
  <2>1. map'.esp # NoNode => \E k \in Esps' : map'.esp = effective'[k]
    BY <1>1, <1>4, <1>6, <1>7, <1>8 DEF MInv, Mapped
  <2>2. map'.root # NoNode => \E k \in At("/")' : map'.root = effective'[k]
    BY <1>1, <1>4, <1>6, <1>7, <1>8 DEF MInv, Mapped
  <2>3. map'.home # NoNode => \E k \in At("/home")' : map'.home = effective'[k]
    BY <1>1, <1>4, <1>6, <1>7, <1>8 DEF MInv, Mapped
  <2>4. \A e \in map'.extra : \E k \in Extras' : e = <<effective'[k], call'.parts[k].at>>
    BY <1>1, <1>4, <1>6, <1>7, <1>8 DEF MInv, Mapped
  <2>5. ByRole(call') => map'.swaps = {effective'[k] : k \in Swaps'}
    <3> SUFFICES ASSUME ByRole(call) PROVE map'.swaps = {effective'[k] : k \in Swaps'}
      BY <1>1
    <3>1. map.swaps = {effective[k] : k \in Swaps}
      BY <1>1 DEF MInv, Mapped
    <3>2. {effective[k] : k \in Swaps} = {effective'[k] : k \in Swaps}
      BY <1>4, <1>8
    <3>3. CASE i \in Swaps'
      <4>1. Swaps' = Swaps \cup {i} /\ map'.swaps = {effective'[k] : k \in Swaps} \cup {effective'[i]}
        BY <1>6, <1>7, <3>1, <3>2, <3>3
      <4> QED BY <4>1
    <3>4. CASE i \notin Swaps'
      <4>1. Swaps' = Swaps /\ map'.swaps = {effective'[k] : k \in Swaps}
        BY <1>6, <1>7, <3>1, <3>2, <3>4
      <4> QED BY <4>1
    <3> QED BY <3>3, <3>4
  <2> QED BY <2>1, <2>2, <2>3, <2>4, <2>5 DEF Mapped
<1>10. Stacked' /\ InOrder' /\ Seen'
  BY <1>1 DEF MInv, Stacked, InOrder, Seen, Done
<1> QED BY <1>9, <1>10 DEF MInv

\* The other steps: from a loop to the next, or without any mount.
LEMMA OtherSteps ==
  ASSUME IInv, MInv, [Next]_vars, ~Mount, ~FormatPartition
  PROVE  MInv'
<1>1. UNCHANGED <<call, stack, effective, map>>
  BY DEF Next, vars, CheckRoles, RoleUnresolved, Wipe, WipesDone, CreatePartition, NoSuchPartition,
     Probe, NotFormattable, FormatsDone, RootMounted, CreateSubvolumes, NotMountable, Return,
     CommandFails, Raise
<1>2. Stacked'
  BY <1>1 DEF MInv, Stacked
<1>3. ASSUME Formatted' = Formatted PROVE (pc' # "raised" => pc # "raised") => Mapped'
  BY <1>1, <1>3 DEF MInv, Mapped, Esps, At, Extras, Swaps
<1>4. ASSUME NEW m, NEW v, SeenAt(m, v) PROVE SeenAt(m, v)'
  BY <1>1, <1>4 DEF SeenAt
<1>5. ASSUME \A x \in Done' : x \in Done \/ x \notin AllSpots(call) PROVE Seen'
  <2> SUFFICES ASSUME OuterFirst(call), NEW x \in Done', x \in AllSpots(call)
               PROVE  SeenAt(SpotAt(call, x), effective[x[1]])'
    BY <1>1 DEF Seen
  <2>1. SeenAt(SpotAt(call, x), effective[x[1]])
    BY <1>5 DEF MInv, Seen
  <2>2. SpotAt(call, x)' = SpotAt(call, x) /\ effective' = effective
    BY <1>1 DEF SpotAt
  <2> QED BY <1>4, <2>1, <2>2
<1>6. CASE UNCHANGED vars
  <2>1. Formatted' = Formatted /\ Done' = Done /\ InOrder'
    BY <1>6 DEF vars, Formatted, Done, MInv, InOrder, Passed
  <2> QED BY <1>2, <1>3, <1>5, <1>6, <2>1 DEF MInv, vars
<1>7. CASE CheckRoles \/ Wipe \/ WipesDone \/ CreatePartition
  <2>1. /\ pc \in {"check", "wipe", "create"} /\ pc' \in {"wipe", "create"}
        /\ Formatted' = {} /\ Formatted = {} /\ Done' = {}
    BY <1>7 DEF CheckRoles, Wipe, WipesDone, CreatePartition, Formatted, Done
  <2>2. InOrder'
    BY <2>1 DEF InOrder
  <2> QED BY <1>2, <1>3, <1>5, <2>1, <2>2 DEF MInv
<1>8. CASE RoleUnresolved \/ NoSuchPartition \/ NotFormattable \/ NotMountable \/ CommandFails
  <2>1. pc' = "raised"
    BY <1>8 DEF RoleUnresolved, NoSuchPartition, NotFormattable, NotMountable, CommandFails, Raise
  <2>2. Done' = {} /\ InOrder' /\ Mapped'
    BY <2>1 DEF Done, InOrder, Mapped
  <2> QED BY <1>2, <1>5, <2>2 DEF MInv
<1>9. CASE Probe
  <2>1. pc = "create" /\ pc' = "format" /\ todo' = Parts(call) /\ Formatted' = {} /\ Formatted = {}
        /\ Done' = {}
    BY <1>1, <1>9 DEF Probe, Formatted, Done
  <2>2. InOrder'
    BY <2>1 DEF InOrder
  <2> QED BY <1>2, <1>3, <1>5, <2>1, <2>2 DEF MInv
<1>10. CASE FormatsDone
  <2>1. /\ pc = "format" /\ todo = {} /\ pc' = "root" /\ todo' = RootMounts(call)
        /\ Formatted' = Formatted /\ Done' = {} /\ Passed' = {}
    BY <1>1, <1>10 DEF FormatsDone, Formatted, Done, Passed
  <2>2. InOrder'
    BY <2>1 DEF InOrder
  <2> QED BY <1>2, <1>3, <1>5, <2>1, <2>2 DEF MInv
<1>11. CASE RootMounted
  <2>1. /\ pc = "root" /\ todo = {} /\ pc' = "mounts" /\ todo' = LaterMounts(call)
        /\ Formatted' = Formatted /\ Done' = Done /\ Passed' = {}
    BY <1>1, <1>11 DEF RootMounted, Formatted, Done, Passed
  <2>2. InOrder'
    BY <2>1 DEF InOrder
  <2> QED BY <1>2, <1>3, <1>5, <2>1, <2>2 DEF MInv
<1>12. CASE CreateSubvolumes
  <2>1. pc \in {"root", "mounts"} /\ pc' = pc
    BY <1>12 DEF CreateSubvolumes
  <2>2. PICK x \in todo : IsFirst(x, todo) /\ x[2] = 0 /\ todo' = todo \ {x}
    BY <1>12 DEF CreateSubvolumes
  <2>3. IsCall(call) /\ x \in RootMounts(call) \cup LaterMounts(call)
    BY <2>1, <2>2 DEF IInv, Typed, Remaining
  <2>4. x \notin AllSpots(call)
    BY <2>2, <2>3, MountFacts
  <2>5. \A y \in Done' : y \in Done \/ y = x
    BY <1>1, <2>1, <2>2 DEF Done
  <2>6. InOrder'
    <3> SUFFICES ASSUME NEW z \in Passed', NEW y \in todo' PROVE Precedes(z, y)
      BY <2>1 DEF InOrder
    <3>1. z \in Passed \/ z = x
      BY <1>1, <2>1, <2>2 DEF Passed
    <3> QED BY <2>1, <2>2, <3>1 DEF MInv, InOrder, IsFirst
  <2>7. Formatted' = Formatted
    BY <1>1, <2>1 DEF Formatted
  <2> QED BY <1>2, <1>3, <1>5, <2>1, <2>4, <2>5, <2>6, <2>7 DEF MInv
<1>13. CASE Return
  <2>1. pc = "mounts" /\ todo = {} /\ pc' = "returned"
    BY <1>13 DEF Return
  <2>2. Formatted' = Formatted /\ Done' = Done /\ InOrder'
    BY <1>1, <2>1 DEF Formatted, Done, InOrder
  <2> QED BY <1>2, <1>3, <1>5, <2>1, <2>2 DEF MInv
<1> QED BY <1>6, <1>7, <1>8, <1>9, <1>10, <1>11, <1>12, <1>13 DEF Next

\* The mounts follow the order of the passes, and the map is true, throughout.
LEMMA MountsInductive == Spec => [](IInv /\ MInv)
<1>1. Init => MInv
  <2> SUFFICES ASSUME Init PROVE MInv
    OBVIOUS
  <2>1. Formatted = {} /\ Done = {}
    BY DEF Init, Formatted, Done
  <2>2. Mapped
    BY <2>1 DEF Init, NoMap, Mapped, Swaps
  <2> QED BY <2>1, <2>2 DEF Init, MInv, Stacked, InOrder, Seen
<1>2. IInv /\ MInv /\ [Next]_vars => MInv'
  BY MountStep, FormatStep, OtherSteps
<1> QED BY <1>1, <1>2, Start, StepKeeps, PTL DEF Spec

\* A nonempty set of numbers up to a bound has a greatest one.
LEMMA Greatest ==
  ASSUME NEW n \in Nat, NEW S, S \subseteq 1..n, S # {}
  PROVE  \E k \in S : \A l \in S : ~(l > k)
<1> DEFINE R == OpToRel(<, Nat)
           T == {m \in Nat : n - m \in S}
<1>1. IsWellFoundedOn(R, Nat)
  BY NatLessThanWellFounded
<1>2. \A x, y \in Nat : x < y => <<x, y>> \in R
  BY DEF OpToRel
<1>3. \A k \in S : n - k \in T /\ n - (n - k) = k
  OBVIOUS
<1>4. T \subseteq Nat /\ T # {} /\ \A m \in T : n - m \in S
  BY <1>3
<1> HIDE DEF R, T
<1>5. PICK m \in T : \A l \in T : ~(<<l, m>> \in R)
  BY <1>1, <1>4, WFMin
<1>6. n - m \in S /\ m \in Nat
  BY <1>4
<1>7. ASSUME NEW l \in S PROVE ~(l > n - m)
  <2>1. n - l \in T /\ n - l \in Nat /\ l \in Nat
    BY <1>3, <1>4
  <2>2. ~(n - l < m)
    BY <1>2, <1>5, <1>6, <2>1, Zenon
  <2> QED BY <1>6, <2>1, <2>2
<1> QED BY <1>6, <1>7

\* Every path a partition mounts is one of its mounts.
LEMMA EveryPath ==
  ASSUME NEW c, IsCall(c), NEW i \in Parts(c), NEW m \in Mounted(c.parts[i])
  PROVE  \E x \in Spots(c, i) : SpotAt(c, x) = m /\ x[1] = i
<1>1. CASE ~HasSubvolumes(c.parts[i])
  <2>1. m = c.parts[i].at /\ m # None
    BY <1>1 DEF Mounted
  <2>2. <<i, 1, 1>> \in Spots(c, i)
    BY <1>1, <2>1 DEF Spots
  <2>3. SpotAt(c, <<i, 1, 1>>) = m
    BY <1>1, <2>1 DEF SpotAt
  <2> QED BY <2>2, <2>3
<1>2. CASE HasSubvolumes(c.parts[i])
  <2> DEFINE subs == c.parts[i].subs
             S == {k \in DOMAIN subs : subs[k] = m}
             Spot(k) == <<i, IF subs[k] = "/" THEN 1 ELSE 2, k>>
  <2>1. subs \in Seq(MountPoint \cup {None})
    <3>1. c.parts[i] \in Part
      BY CallFacts
    <3> QED BY <3>1 DEF Part
  <2>2. Len(subs) \in Nat /\ DOMAIN subs = 1..Len(subs)
    BY <2>1, SeqIsFunction
  <2>3. S \subseteq 1..Len(subs) /\ S # {} /\ m # None
    BY <1>2, <2>2 DEF Mounted, Range
  <2>4. PICK k \in S : \A l \in S : ~(l > k)
    <3> HIDE DEF S, subs
    <3> QED BY <2>2, <2>3, Greatest
  <2>5. Spot(k) \in Spots(c, i)
    BY <1>2, <2>3, <2>4 DEF Spots
  <2>6. Spot(k)[1] = i /\ Spot(k)[3] = k
    OBVIOUS
  <2>7. SpotAt(c, Spot(k)) = m
    BY <1>2, <2>4, <2>6 DEF SpotAt
  <2> QED BY <2>5, <2>6, <2>7
<1> QED BY <1>1, <1>2

\* When the layout lists outer mount points first, each path it mounts shows
\* on return.
LEMMA Shown ==
  ASSUME IInv, MInv, pc = "returned", OuterFirst(call), NEW i \in Parts(call),
         NEW m \in Mounted(call.parts[i])
  PROVE  SeenAt(m, effective[i])
<1>1. IsCall(call)
  BY DEF IInv, Typed
<1>2. PICK x \in Spots(call, i) : SpotAt(call, x) = m /\ x[1] = i
  BY <1>1, EveryPath
<1>3. x \in AllSpots(call)
  BY <1>2 DEF AllSpots
<1>4. x \in RootMounts(call) \cup LaterMounts(call)
  <2>1. CASE RootPart(call, i)
    BY <1>2, <2>1 DEF RootMounts
  <2>2. CASE LaterPart(call, i)
    BY <1>2, <2>2 DEF LaterMounts
  <2>3. ASSUME call.parts[i].at = "/" PROVE RootPart(call, i)
    <3> SUFFICES ASSUME NEW k \in Parts(call), k < i, call.parts[k].at = "/" PROVE FALSE
      BY <2>3 DEF RootPart
    <3>1. "/" \in Mounted(call.parts[i]) /\ "/" \in Mounted(call.parts[k])
      BY <2>3, InputAssumption DEF OuterFirst
    <3>2. PICK y \in Spots(call, i) : SpotAt(call, y) = "/" /\ y[1] = i
      BY <1>1, <3>1, EveryPath
    <3>3. PICK z \in Spots(call, k) : SpotAt(call, z) = "/" /\ z[1] = k
      BY <1>1, <3>1, EveryPath
    <3>4. y \in AllSpots(call) /\ z \in AllSpots(call) /\ i \in Nat /\ k \in Nat
      BY <1>1, <3>2, <3>3, CallFacts DEF AllSpots
    <3> QED BY <3>2, <3>3, <3>4 DEF OuterFirst
  <2>4. call.parts[i].fs # "swap"
    <3> SUFFICES ASSUME call.parts[i].fs = "swap" PROVE FALSE
      OBVIOUS
    <3>1. call.parts[i].at = None /\ ~HasSubvolumes(call.parts[i])
      BY DEF OuterFirst, HasSubvolumes
    <3> QED BY <3>1 DEF Mounted
  <2> QED BY <2>1, <2>2, <2>3, <2>4 DEF LaterPart
<1> QED BY <1>2, <1>3, <1>4 DEF MInv, Seen, Done

\* On return every path the layout mounts shows the file system of its
\* partition, wherever the layout lists the root: the first pass mounts it,
\* and in it the subvolume for / before the others.
THEOREM LayoutIsSeen == Spec => []LayoutSeen
<1>1. IInv /\ MInv => LayoutSeen
  BY Shown DEF LayoutSeen
<1> QED BY <1>1, MountsInductive, PTL

\* The map handed to the later phases names the ESP, /home and the auxiliary
\* mounts that are seen under /mnt, and exactly the swap of the layout.
THEOREM MapIsTrue == Spec => []MapMatchesMounts
<1>1. IInv /\ MInv => MapMatchesMounts
  <2> SUFFICES ASSUME IInv, MInv, pc = "returned", OuterFirst(call) PROVE MapMatchesMounts
    BY DEF MapMatchesMounts
  <2>1. Formatted = Parts(call) /\ Mapped
    BY DEF Formatted, MInv
  <2>2. ASSUME NEW i \in Parts(call), call.parts[i].at # None
        PROVE  SeenAt(call.parts[i].at, effective[i])
    <3>1. call.parts[i].at \in Mounted(call.parts[i])
      BY <2>2 DEF OuterFirst
    <3> QED BY <3>1, Shown
  <2>3. "/boot" # None /\ "/boot/efi" # None /\ "/" # None /\ "/home" # None
    BY DEF None
  <2>4. map.esp # NoNode => SeenAt("/boot", map.esp) \/ SeenAt("/boot/efi", map.esp)
    BY <2>1, <2>2, <2>3 DEF Mapped, Esps
  <2>5. map.root # NoNode => SeenAt("/", map.root)
    BY <2>1, <2>2, <2>3 DEF Mapped, At
  <2>6. map.home # NoNode => SeenAt("/home", map.home)
    BY <2>1, <2>2, <2>3 DEF Mapped, At
  <2>7. ASSUME NEW e \in map.extra PROVE SeenAt(e[2], e[1])
    <3>1. PICK i \in Extras : e = <<effective[i], call.parts[i].at>>
      BY <2>1 DEF Mapped
    <3>2. e[2] = call.parts[i].at /\ e[1] = effective[i]
      BY <3>1
    <3> QED BY <2>1, <2>2, <3>2 DEF Extras
  <2>8. ByRole(call) =>
          map.swaps = {effective[i] : i \in {j \in Parts(call) : call.parts[j].fs = "swap"}}
    BY <2>1 DEF Mapped, Swaps
  <2> QED BY <2>4, <2>5, <2>6, <2>7, <2>8 DEF MapMatchesMounts
<1> QED BY <1>1, MountsInductive, PTL

=============================================================================
