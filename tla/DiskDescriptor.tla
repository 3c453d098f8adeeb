--------------------------- MODULE DiskDescriptor ---------------------------
(***************************************************************************)
(* How a descriptor such as "2TB WD SN850x SSD" finds its disks            *)
(* (core/disk_descriptor.py).  A text is parsed token by token into the    *)
(* fields of DiskCriteria, a table in one go; match_disks evaluates them   *)
(* against what the kernel found at this boot, where a disk may have       *)
(* another /dev name than at the last one.                                 *)
(*                                                                         *)
(* An optional field of DiskCriteria is a set of at most one value.        *)
(***************************************************************************)
EXTENDS Naturals, Sequences, FiniteSets

CONSTANTS Disks,
          SizeOf,        \* size_bytes, 0 if lsblk gave none
          TransportOf,
          Rotational,    \* the disks with the kernel's rotational flag
          Removable,
          SerialOf,      \* serials in sort order, 0 for an empty one
          TextOf,        \* the words found in model, vendor, serial, wwn, links
          VendorTextOf,  \* those found where a vendor token may match
          Names,         \* /dev names in sort order
          NameText,      \* the word a name is
          AliasesOf,     \* _VENDOR_ALIASES
          Descriptors    \* the configurations of a run

Transport == {"nvme", "sata", "usb"}
Text == UNION {TextOf[d] : d \in Disks} \cup UNION {VendorTextOf[d] : d \in Disks}
        \cup {NameText[n] : n \in Names} \cup {"typo"}
Vendor == DOMAIN AliasesOf
Token ==      [kind : {"size"}, size : Nat \ {0}]
         \cup [kind : {"transport"}, transport : Transport]
         \cup [kind : {"technology"}, rotational : BOOLEAN]
         \cup [kind : {"vendor"}, vendor : Vendor]
         \cup [kind : {"free"}, text : Text]
Optional(S) == {o \in SUBSET S : \A a, b \in o : a = b}
Table == [size : Optional(Nat \ {0}), min : Optional(Nat), max : Optional(Nat),
          transport : Optional(Transport), rotational : Optional(BOOLEAN),
          removable : Optional(BOOLEAN), vendor : Optional(Vendor), free : Optional(Text),
          device : Optional(Names), text : Optional(Seq(Token))]
Descriptor ==      [form : {"text"}, tokens : Seq(Token)]
              \cup [form : {"path"}, name : Names]
              \cup [form : {"table"}, table : Table]

ASSUME DisksAssumption ==
  /\ IsFiniteSet(Disks)
  /\ SizeOf \in [Disks -> Nat] /\ SerialOf \in [Disks -> Nat]
  /\ TransportOf \in [Disks -> Transport \cup {""}]
  /\ Rotational \subseteq Disks /\ Removable \subseteq Disks
  /\ Names \subseteq Nat /\ DOMAIN NameText = Names
  /\ AliasesOf \in [Vendor -> (SUBSET Text) \ {{}}]
ASSUME DescriptorsAssumption == Descriptors \subseteq Descriptor

Criteria == [min : Optional(Nat), max : Optional(Nat), transport : Optional(Transport),
             rotational : Optional(BOOLEAN), removable : Optional(BOOLEAN),
             vendors : SUBSET Text, free : SUBSET Text, device : Optional(Names)]
NoCriteria == [min |-> {}, max |-> {}, transport |-> {}, rotational |-> {},
               removable |-> {}, vendors |-> {}, free |-> {}, device |-> {}]

VARIABLES
  descriptor, \* what the configuration says, for ever
  names,      \* Disks -> Names, as the kernel assigned them at this boot
  phase,
  tokens,     \* the tokens of a text
  next,       \* the first one not parsed yet
  criteria,
  result,     \* what match_disks returned
  earlier     \* what it returned at earlier boots

vars == <<descriptor, names, phase, tokens, next, criteria, result, earlier>>

Namings == {f \in [Disks -> Names] : \A d, e \in Disks : f[d] = f[e] => d = e}

Init ==
  /\ descriptor \in Descriptors /\ names \in Namings
  /\ phase = "start" /\ tokens = <<>> /\ next = 1
  /\ criteria = NoCriteria /\ result = <<>> /\ earlier = {}

(***************************************************************************)
(* parse_descriptor                                                        *)
(***************************************************************************)
\* _size_window: ten percent either way.
Low(size) == (9 * size) \div 10
High(size) == (11 * size) \div 10

Larger(a, b) == IF a > b THEN a ELSE b
Smaller(a, b) == IF a < b THEN a ELSE b

BeginText ==
  /\ phase = "start"
  /\ \/ descriptor.form = "text" /\ tokens' = descriptor.tokens
     \/ /\ descriptor.form = "table" /\ descriptor.table.device = {}
        /\ \E text \in descriptor.table.text : tokens' = text
  /\ phase' = "parsing"
  /\ UNCHANGED <<descriptor, names, next, criteria, result, earlier>>

\* An explicit /dev path: every other field stays unset.
TakePath ==
  /\ phase = "start" /\ descriptor.form = "path"
  /\ criteria' = [NoCriteria EXCEPT !.device = {descriptor.name}]
  /\ phase' = "matching"
  /\ UNCHANGED <<descriptor, names, tokens, next, result, earlier>>

\* _parse_dict_descriptor; exact bounds replace those of the tolerant size.
TakeTable ==
  /\ phase = "start" /\ descriptor.form = "table"
  /\ LET t == descriptor.table
     IN  /\ t.device # {} \/ t.text = {}
         /\ criteria' = [min |-> IF t.min # {} THEN t.min ELSE {Low(s) : s \in t.size},
                         max |-> IF t.max # {} THEN t.max ELSE {High(s) : s \in t.size},
                         transport |-> t.transport, rotational |-> t.rotational,
                         removable |-> t.removable, free |-> t.free,
                         vendors |-> UNION {AliasesOf[v] : v \in t.vendor},
                         device |-> t.device]
  /\ phase' = "matching"
  /\ UNCHANGED <<descriptor, names, tokens, next, result, earlier>>

Token1(kind) == phase = "parsing" /\ next \in DOMAIN tokens /\ tokens[next].kind = kind

\* A token is done with: nothing but the criteria and the position change.
Parsed == next' = next + 1 /\ UNCHANGED <<descriptor, names, phase, tokens, result, earlier>>

\* Mutant of ParseSize: the last size counts.
ParseLastSize ==
  /\ Token1("size")
  /\ LET s == tokens[next].size
     IN  criteria' = [criteria EXCEPT !.min = {Low(s)}, !.max = {High(s)}]
  /\ Parsed

\* A second size narrows the window to the intersection of both.
ParseSize ==
  /\ Token1("size")
  /\ LET s == tokens[next].size
     IN  criteria' = [criteria EXCEPT
           !.min = IF @ = {} THEN {Low(s)} ELSE {Larger(m, Low(s)) : m \in @},
           !.max = IF @ = {} THEN {High(s)} ELSE {Smaller(m, High(s)) : m \in @}]
  /\ Parsed

\* The last transport counts; NVMe implies an SSD unless something was said before.
ParseTransport ==
  /\ Token1("transport")
  /\ LET t == tokens[next].transport
     IN  criteria' = [criteria EXCEPT
           !.transport = {t},
           !.rotational = IF t = "nvme" /\ @ = {} THEN {FALSE} ELSE @]
  /\ Parsed

ParseTechnology ==
  /\ Token1("technology")
  /\ criteria.rotational \subseteq {tokens[next].rotational}
  /\ criteria' = [criteria EXCEPT !.rotational = {tokens[next].rotational}]
  /\ Parsed

\* Mutant of Contradiction: whatever was said before contradicts.
ContradictionAlways ==
  /\ Token1("technology") /\ criteria.rotational # {}
  /\ phase' = "error"
  /\ UNCHANGED <<descriptor, names, tokens, next, criteria, result, earlier>>

\* DescriptorError
Contradiction ==
  /\ Token1("technology")
  /\ ~ criteria.rotational \subseteq {tokens[next].rotational}
  /\ phase' = "error"
  /\ UNCHANGED <<descriptor, names, tokens, next, criteria, result, earlier>>

ParseVendor ==
  /\ Token1("vendor")
  /\ criteria' = [criteria EXCEPT !.vendors = @ \cup AliasesOf[tokens[next].vendor]]
  /\ Parsed

ParseFree ==
  /\ Token1("free")
  /\ criteria' = [criteria EXCEPT !.free = @ \cup {tokens[next].text}]
  /\ Parsed

TextParsed ==
  /\ phase = "parsing" /\ next = Len(tokens) + 1 /\ phase' = "matching"
  /\ UNCHANGED <<descriptor, names, tokens, next, criteria, result, earlier>>

(***************************************************************************)
(* match_disks                                                             *)
(***************************************************************************)
IsSsd(d) == d \notin Rotational \/ TransportOf[d] = "nvme"

\* _candidate_search_corpus: the device's path and name are searched, too.
Corpus(d) == TextOf[d] \cup {NameText[names[d]]}

\* is_empty: an upper bound alone is not looked at.
IsEmpty(c) ==
  /\ c.min = {} /\ c.transport = {} /\ c.rotational = {} /\ c.removable = {}
  /\ c.vendors = {} /\ c.free = {} /\ c.device = {}

SizeFits(c, d) ==
  /\ c.min \cup c.max # {} => SizeOf[d] > 0
  /\ \A m \in c.min : SizeOf[d] >= m
  /\ \A m \in c.max : SizeOf[d] <= m
TransportFits(c, d) == \A t \in c.transport : TransportOf[d] = t
TechnologyFits(c, d) == \A r \in c.rotational : IsSsd(d) = ~r
RemovableFits(c, d) == \A r \in c.removable : (d \in Removable) = r
VendorFits(c, d) == c.vendors # {} => c.vendors \cap VendorTextOf[d] # {}
TextFits(c, d) == c.free \subseteq Corpus(d)

\* matches
Matches(c, d) ==
  IF c.device # {} THEN names[d] \in c.device
  ELSE IsEmpty(c) \/ /\ SizeFits(c, d) /\ TransportFits(c, d) /\ TechnologyFits(c, d)
                     /\ RemovableFits(c, d) /\ VendorFits(c, d) /\ TextFits(c, d)

\* Mutant of Before: sorted by path.
BeforeByPath(d, e) == names[d] < names[e]

\* The sort key is (serial, path).
Before(d, e) == \/ SerialOf[d] < SerialOf[e]
                \/ SerialOf[d] = SerialOf[e] /\ names[d] < names[e]

Elements(s) == {s[i] : i \in DOMAIN s}
Sorted(S) == {s \in [1..Cardinality(S) -> S] :
                \A i, j \in DOMAIN s : i < j => Before(s[i], s[j])}

Matched(c) == {d \in Disks : Matches(c, d) /\ (c.removable = {} => d \notin Removable)}

MatchDisks ==
  /\ phase = "matching"
  /\ result' \in Sorted(Matched(criteria))
  /\ phase' = "done"
  /\ UNCHANGED <<descriptor, names, tokens, next, criteria, earlier>>

\* The machine boots again with the same disks and the same configuration.
Reboot ==
  /\ phase \in {"done", "error"}
  /\ names' \in Namings
  /\ earlier' = IF phase = "done" THEN earlier \cup {result} ELSE earlier
  /\ phase' = "start" /\ tokens' = <<>> /\ next' = 1
  /\ criteria' = NoCriteria /\ result' = <<>>
  /\ UNCHANGED descriptor

Parse == \/ BeginText \/ TakePath \/ TakeTable \/ ParseSize \/ ParseTransport
         \/ ParseTechnology \/ Contradiction \/ ParseVendor \/ ParseFree \/ TextParsed
Next == Parse \/ MatchDisks \/ Reboot
Spec == Init /\ [][Next]_vars

(***************************************************************************)
(* Properties.                                                             *)
(***************************************************************************)
\* What a token by itself asks of a disk.
Accepts(t, d) ==
  CASE t.kind = "size" -> SizeOf[d] > 0 /\ Low(t.size) <= SizeOf[d] /\ SizeOf[d] <= High(t.size)
    [] t.kind = "transport" -> TransportOf[d] = t.transport
    [] t.kind = "technology" -> IsSsd(d) = ~t.rotational
    [] t.kind = "vendor" -> AliasesOf[t.vendor] \cap VendorTextOf[d] # {}
    [] t.kind = "free" -> t.text \in Corpus(d)

\* A text speaks of one vendor and one transport at most.
Coherent ==
  \A i, j \in DOMAIN tokens :
    /\ tokens[i].kind = "vendor" /\ tokens[j].kind = "vendor"
         => AliasesOf[tokens[i].vendor] = AliasesOf[tokens[j].vendor]
    /\ tokens[i].kind = "transport" /\ tokens[j].kind = "transport"
         => tokens[i].transport = tokens[j].transport

Wanted(d) == \A i \in DOMAIN tokens : Accepts(tokens[i], d)

\* Every optional field holds a value at most, and a result is a sequence of disks.
TypeOK ==
  /\ phase \in {"start", "parsing", "matching", "done", "error"}
  /\ names \in Namings /\ criteria \in Criteria
  /\ next \in 1..(Len(tokens) + 1)
  /\ result \in Seq(Disks) /\ earlier \subseteq Seq(Disks)

\* Whatever the order of its tokens and however many sizes, technologies and
\* words it has, a text matches exactly the fixed disks that every one of its
\* tokens accepts ("Every token must match something").
MatchesAreExact ==
  phase = "done" /\ descriptor.form = "text" /\ Coherent
    => Elements(result) = {d \in Disks \ Removable : Wanted(d)}

\* A text is refused as contradictory only if no disk could have satisfied it.
ErrorsAreHopeless == phase = "error" => ~ \E d \in Disks : Wanted(d)

\* The members of an array come in the same order at every boot, whatever
\* names the kernel gives the disks, as long as each of them has a serial of its
\* own and the descriptor mentions no /dev name.
NameFree ==
  /\ criteria.device = {}
  /\ criteria.free \cap {NameText[n] : n \in Names} = {}
OwnSerials == \A d, e \in Elements(result) :
                SerialOf[d] > 0 /\ (SerialOf[d] = SerialOf[e] => d = e)
SameEveryBoot == phase = "done" /\ NameFree /\ OwnSerials => earlier \subseteq {result}

\* What the fields of a table ask for, AND-combined.
TableAccepts(t, d) ==
  /\ \A s \in t.size : t.min = {} => SizeOf[d] >= Low(s)
  /\ \A s \in t.size : t.max = {} => SizeOf[d] <= High(s)
  /\ \A m \in t.min : SizeOf[d] >= m
  /\ \A m \in t.max : SizeOf[d] <= m
  /\ \A x \in t.transport : TransportOf[d] = x
  /\ \A r \in t.rotational : IsSsd(d) = ~r
  /\ \A r \in t.removable : (d \in Removable) = r
  /\ \A v \in t.vendor : AliasesOf[v] \cap VendorTextOf[d] # {}
  /\ t.free \subseteq Corpus(d)

\* "A candidate BlockDevice matches only if every set predicate accepts it":
\* no field of a table without a device path is ignored.  Violated: a size_max
\* alone counts as no predicate at all (is_empty), and a device that is not a
\* path makes the parser forget every other field.
NoFieldIgnored ==
  phase = "done" /\ descriptor.form = "table" /\ descriptor.table.device = {}
    => \A d \in Elements(result) : TableAccepts(descriptor.table, d)
=============================================================================
