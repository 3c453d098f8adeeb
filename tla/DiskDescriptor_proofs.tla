------------------------ MODULE DiskDescriptor_proofs ------------------------
(***************************************************************************)
(* Proofs about DiskDescriptor for any disks, any descriptors and texts of *)
(* any length: a text finds exactly the disks that every one of its tokens *)
(* accepts, and is refused only if there is none; without a /dev name, it  *)
(* lists the same disks in the same order at every boot.                   *)
(***************************************************************************)
EXTENDS DiskDescriptor, FiniteSetTheorems, WellFoundedInduction, TLAPS

\* What is parsed token by token: a text, or the text of a table.
ByTokens(w) ==
  \/ w.form = "text"
  \/ w.form = "table" /\ w.table.device = {} /\ w.table.text # {}
IsText(w, toks) == IF w.form = "text" THEN toks = w.tokens ELSE toks \in w.table.text

\* The tokens of one kind before position n.
Said(toks, n, kind) == {toks[i] : i \in {j \in 1..(n - 1) : toks[j].kind = kind}}

Shape ==
  /\ descriptor \in Descriptor /\ phase \in {"start", "parsing", "matching", "done", "error"}
  /\ names \in [Disks -> Names]
  /\ tokens \in Seq(Token) /\ next \in 1..(Len(tokens) + 1)
  /\ phase = "start" => tokens = <<>> /\ next = 1 /\ criteria = NoCriteria
  /\ phase \in {"matching", "done"} /\ ByTokens(descriptor) => next = Len(tokens) + 1

\* What the parser makes of the tokens S of one kind, field by field.
SizesOk(c, S) ==
  /\ c.min \in SUBSET Nat /\ c.max \in SUBSET Nat
  /\ \A m, n \in c.min : m = n
  /\ \A m, n \in c.max : m = n
  /\ (c.min = {}) <=> (S = {})
  /\ (c.max = {}) <=> (S = {})
  /\ \A x \in Nat : (\A m \in c.min : m <= x) <=> (\A t \in S : Low(t.size) <= x)
  /\ \A x \in Nat : (\A m \in c.max : x <= m) <=> (\A t \in S : x <= High(t.size))

TransportsOk(c, S) ==
  /\ \A x \in c.transport : \E t \in S : t.transport = x
  /\ S # {} => c.transport # {}

TechnologiesOk(c, S, T) ==
  /\ \A t \in S : c.rotational = {t.rotational}
  /\ \A r \in c.rotational :
       \/ \E t \in S : t.rotational = r
       \/ r = FALSE /\ \E t \in T : t.transport = "nvme"

VendorsOk(c, S) == c.vendors = UNION {AliasesOf[t.vendor] : t \in S}
WordsOk(c, S) == c.free = {t.text : t \in S}

Fields == {"min", "max", "transport", "rotational", "removable", "vendors", "free", "device"}
Others(c) == DOMAIN c = Fields /\ c.removable = {} /\ c.device = {}

\* The criteria c are those of the tokens before position n.
ReadAs(c, toks, n) ==
  /\ SizesOk(c, Said(toks, n, "size"))
  /\ TransportsOk(c, Said(toks, n, "transport"))
  /\ TechnologiesOk(c, Said(toks, n, "technology"), Said(toks, n, "transport"))
  /\ VendorsOk(c, Said(toks, n, "vendor"))
  /\ WordsOk(c, Said(toks, n, "free"))
  /\ Others(c)

FromTokens == phase \in {"start", "parsing", "error"} \/ ByTokens(descriptor)
Read == FromTokens => ReadAs(criteria, tokens, next)

Refused ==
  phase = "error" =>
    /\ next \in DOMAIN tokens /\ tokens[next].kind = "technology"
    /\ ~ criteria.rotational \subseteq {tokens[next].rotational}

Ranked == phase = "done" => result \in Sorted(Matched(criteria))

-----------------------------------------------------------------------------
\* A text is a sequence of tokens, also within a table.
LEMMA Texts ==
  ASSUME NEW w \in Descriptor
  PROVE  /\ w.form = "text" => w.tokens \in Seq(Token)
         /\ w.form = "table" => \A s \in w.table.text : s \in Seq(Token)
         /\ w.form \in {"text", "path", "table"}
<1>1. CASE w \in [form : {"text"}, tokens : Seq(Token)]
  BY <1>1
<1>2. CASE w \in [form : {"path"}, name : Names]
  BY <1>2
<1>3. CASE w \in [form : {"table"}, table : Table]
  <2>1. w.table \in Table /\ w.form = "table"
    BY <1>3
  <2>2. w.table.text \in Optional(Seq(Token))
    BY <2>1 DEF Table
  <2> QED
    BY <2>1, <2>2 DEF Optional
<1> QED
  BY <1>1, <1>2, <1>3 DEF Descriptor

\* Whatever the tolerance is, a window has natural bounds.
LEMMA Bounds == ASSUME NEW s \in Nat PROVE Low(s) \in Nat /\ High(s) \in Nat
BY DEF Low, High

\* Every token is of one kind, with a value of that kind.
LEMMA Kinds ==
  ASSUME NEW t \in Token
  PROVE  /\ t.kind \in {"size", "transport", "technology", "vendor", "free"}
         /\ t.kind = "size" => t.size \in Nat \ {0}
         /\ t.kind = "vendor" => t.vendor \in Vendor
         /\ t.kind = "technology" => t.rotational \in BOOLEAN
BY DEF Token

\* Every step keeps the variables to their values.
LEMMA ShapeNext == Shape /\ [Next]_vars => Shape'
<1> SUFFICES ASSUME Shape, [Next]_vars PROVE Shape'
  OBVIOUS
<1> USE DEF Shape
<1>1. CASE BeginText
  <2>1. tokens' \in Seq(Token)
    BY <1>1, Texts DEF BeginText
  <2>2. 1 \in 1..(Len(tokens') + 1)
    BY <2>1
  <2> QED
    BY <1>1, <2>1, <2>2 DEF BeginText
<1>2. CASE TakePath \/ TakeTable
  BY <1>2 DEF TakePath, TakeTable
<1>3. CASE ParseSize \/ ParseTransport \/ ParseTechnology \/ ParseVendor \/ ParseFree
  <2>1. phase = "parsing" /\ next \in DOMAIN tokens
        /\ next' = next + 1 /\ UNCHANGED <<descriptor, names, phase, tokens>>
    BY <1>3 DEF ParseSize, ParseTransport, ParseTechnology, ParseVendor, ParseFree, Token1, Parsed
  <2> QED
    BY <2>1
<1>4. CASE Contradiction
  BY <1>4 DEF Contradiction, Token1
<1>5. CASE TextParsed
  BY <1>5 DEF TextParsed
<1>6. CASE MatchDisks
  BY <1>6 DEF MatchDisks
<1>7. CASE Reboot
  <2>1. <<>> \in Seq(Token) /\ 1 \in 1..(Len(<<>>) + 1)
    OBVIOUS
  <2> QED
    BY <1>7, <2>1 DEF Reboot, Namings
<1>8. CASE UNCHANGED vars
  BY <1>8 DEF vars
<1> QED
  BY <1>1, <1>2, <1>3, <1>4, <1>5, <1>6, <1>7, <1>8 DEF Next, Parse

-----------------------------------------------------------------------------
\* Nothing has been said before the first token; the one at n adds itself.
LEMMA NothingSaid == ASSUME NEW toks, NEW kind PROVE Said(toks, 1, kind) = {}
BY DEF Said

\* With the next token parsed, its kind has one more said, the others none.
LEMMA OneMoreSaid ==
  ASSUME NEW toks \in Seq(Token), NEW n \in DOMAIN toks, NEW kind
  PROVE  /\ toks[n].kind = kind => Said(toks, n + 1, kind) = Said(toks, n, kind) \cup {toks[n]}
         /\ toks[n].kind # kind => Said(toks, n + 1, kind) = Said(toks, n, kind)
<1>1. n \in Nat /\ n >= 1
  OBVIOUS
<1>2. \A j : j \in 1..(n + 1 - 1) <=> j \in 1..(n - 1) \/ j = n
  BY <1>1
<1> QED
  BY <1>2 DEF Said

\* What was said of a kind are tokens of that kind.
LEMMA TokensSaid ==
  ASSUME NEW toks \in Seq(Token), NEW n \in 1..(Len(toks) + 1), NEW kind
  PROVE  \A t \in Said(toks, n, kind) : t \in Token /\ t.kind = kind
BY DEF Said

\* Before the first token the fields are those nothing was said of.
LEMMA NothingRead == ASSUME NEW toks PROVE ReadAs(NoCriteria, toks, 1)
<1> DEFINE c == NoCriteria
<1>1. /\ c.min = {} /\ c.max = {} /\ c.transport = {} /\ c.rotational = {}
      /\ c.vendors = {} /\ c.free = {} /\ Others(c)
  BY DEF NoCriteria, Others, Fields
<1> HIDE DEF c
<1> SUFFICES ReadAs(c, toks, 1)
  BY DEF c
<1>2. SizesOk(c, {}) /\ TransportsOk(c, {}) /\ TechnologiesOk(c, {}, {})
  BY <1>1 DEF SizesOk, TransportsOk, TechnologiesOk
<1>3. VendorsOk(c, {}) /\ WordsOk(c, {})
  BY <1>1 DEF VendorsOk, WordsOk
<1> QED
  BY <1>1, <1>2, <1>3, NothingSaid DEF ReadAs

-----------------------------------------------------------------------------
\* One token more of a kind, and the field it changes.
LEMMA SizeStep ==
  ASSUME NEW c, DOMAIN c = Fields, NEW S, SizesOk(c, S),
         NEW t, t.size \in Nat, NEW c2,
         c2.min = IF c.min = {} THEN {Low(t.size)} ELSE {Larger(m, Low(t.size)) : m \in c.min},
         c2.max = IF c.max = {} THEN {High(t.size)} ELSE {Smaller(m, High(t.size)) : m \in c.max}
  PROVE  SizesOk(c2, S \cup {t})
<1> DEFINE lo == Low(t.size)
           hi == High(t.size)
<1>1. lo \in Nat /\ hi \in Nat
  BY Bounds
<1> HIDE DEF lo, hi
<1>2. CASE S = {}
  <2>1. c2.min = {lo} /\ c2.max = {hi}
    BY <1>2 DEF SizesOk, lo, hi
  <2> QED
    BY <1>1, <1>2, <2>1 DEF SizesOk, lo, hi
<1>3. CASE S # {}
  <2>1. PICK m \in Nat, n \in Nat : c.min = {m} /\ c.max = {n}
    BY <1>3 DEF SizesOk
  <2>2. c2.min = {Larger(m, lo)} /\ c2.max = {Smaller(n, hi)}
    BY <2>1 DEF lo, hi
  <2>3. Larger(m, lo) \in Nat /\ Smaller(n, hi) \in Nat
    BY <1>1, <2>1 DEF Larger, Smaller
  <2>4. ASSUME NEW x \in Nat
        PROVE  /\ Larger(m, lo) <= x <=> m <= x /\ lo <= x
               /\ x <= Smaller(n, hi) <=> x <= n /\ x <= hi
    BY <1>1, <2>1 DEF Larger, Smaller
  <2>5. ASSUME NEW x \in Nat
        PROVE  /\ m <= x <=> \A u \in S : Low(u.size) <= x
               /\ x <= n <=> \A u \in S : x <= High(u.size)
    BY <2>1 DEF SizesOk
  <2> QED
    BY <2>2, <2>3, <2>4, <2>5 DEF SizesOk, lo, hi
<1> QED
  BY <1>2, <1>3

\* _parse_descriptor on a transport: it counts from now on, and NVMe implies an SSD
\* unless a technology was named.
LEMMA TransportStep ==
  ASSUME NEW c, NEW S, NEW T, TransportsOk(c, T), TechnologiesOk(c, S, T), NEW t, NEW c2,
         c2.transport = {t.transport},
         c2.rotational = IF t.transport = "nvme" /\ c.rotational = {} THEN {FALSE}
                         ELSE c.rotational
  PROVE  TransportsOk(c2, T \cup {t}) /\ TechnologiesOk(c2, S, T \cup {t})
<1>1. TransportsOk(c2, T \cup {t})
  BY DEF TransportsOk
<1>2. CASE t.transport = "nvme" /\ c.rotational = {}
  <2>1. S = {} /\ c2.rotational = {FALSE}
    BY <1>2 DEF TechnologiesOk
  <2>2. \E u \in T \cup {t} : u.transport = "nvme"
    BY <1>2
  <2> QED
    BY <1>1, <2>1, <2>2 DEF TechnologiesOk
<1>3. CASE ~(t.transport = "nvme" /\ c.rotational = {})
  <2>1. c2.rotational = c.rotational
    BY <1>3
  <2> QED
    BY <1>1, <2>1 DEF TechnologiesOk
<1> QED
  BY <1>2, <1>3

\* The same on a technology that does not contradict the fields.
LEMMA TechnologyStep ==
  ASSUME NEW c, NEW S, NEW T, TechnologiesOk(c, S, T), NEW t, NEW c2,
         c.rotational \subseteq {t.rotational}, c2.rotational = {t.rotational}
  PROVE  TechnologiesOk(c2, S \cup {t}, T)
BY DEF TechnologiesOk

\* A field left alone is still read from the same tokens.
LEMMA LeftAlone ==
  ASSUME NEW c, NEW c2, NEW S, NEW T
  PROVE  /\ SizesOk(c, S) /\ c2.min = c.min /\ c2.max = c.max => SizesOk(c2, S)
         /\ TransportsOk(c, S) /\ c2.transport = c.transport => TransportsOk(c2, S)
         /\ TechnologiesOk(c, S, T) /\ c2.rotational = c.rotational => TechnologiesOk(c2, S, T)
         /\ VendorsOk(c, S) /\ c2.vendors = c.vendors => VendorsOk(c2, S)
         /\ WordsOk(c, S) /\ c2.free = c.free => WordsOk(c2, S)
BY DEF SizesOk, TransportsOk, TechnologiesOk, VendorsOk, WordsOk

\* Each of the five branches reads its token into its own fields.
LEMMA ReadStep ==
  ASSUME Shape, ReadAs(criteria, tokens, next),
         ParseSize \/ ParseTransport \/ ParseTechnology \/ ParseVendor \/ ParseFree
  PROVE  ReadAs(criteria, tokens, next)'
<1> DEFINE now(kind) == Said(tokens, next, kind)
           then(kind) == Said(tokens, next + 1, kind)
           t == tokens[next]
<1>1. /\ tokens \in Seq(Token) /\ next \in DOMAIN tokens /\ t \in Token
      /\ tokens' = tokens /\ next' = next + 1
  BY DEF Shape, ParseSize, ParseTransport, ParseTechnology, ParseVendor, ParseFree, Token1, Parsed
<1>2. SUFFICES ReadAs(criteria', tokens, next + 1)
  BY <1>1
<1>3. DOMAIN criteria = Fields /\ Others(criteria)
  BY DEF ReadAs, Others
<1>4. ASSUME NEW kind, t.kind = kind
      PROVE  then(kind) = now(kind) \cup {t} /\ \A k : k # kind => then(k) = now(k)
  BY <1>1, <1>4, OneMoreSaid
<1> HIDE DEF now, then, t
<1> SUFFICES /\ SizesOk(criteria', then("size"))
             /\ TransportsOk(criteria', then("transport"))
             /\ TechnologiesOk(criteria', then("technology"), then("transport"))
             /\ VendorsOk(criteria', then("vendor"))
             /\ WordsOk(criteria', then("free"))
             /\ Others(criteria')
  BY DEF ReadAs, then
<1>5. /\ SizesOk(criteria, now("size"))
      /\ TransportsOk(criteria, now("transport"))
      /\ TechnologiesOk(criteria, now("technology"), now("transport"))
      /\ VendorsOk(criteria, now("vendor"))
      /\ WordsOk(criteria, now("free"))
  BY DEF ReadAs, now
<1>6. CASE ParseSize
  <2>1. /\ t.kind = "size"
        /\ criteria' = [criteria EXCEPT
             !.min = IF @ = {} THEN {Low(t.size)} ELSE {Larger(m, Low(t.size)) : m \in @},
             !.max = IF @ = {} THEN {High(t.size)} ELSE {Smaller(m, High(t.size)) : m \in @}]
    BY <1>6 DEF ParseSize, Token1, t
  <2>2. /\ criteria'.transport = criteria.transport
        /\ criteria'.rotational = criteria.rotational
        /\ criteria'.vendors = criteria.vendors /\ criteria'.free = criteria.free
        /\ Others(criteria')
    BY <1>3, <2>1 DEF Others, Fields
  <2>3. SizesOk(criteria', now("size") \cup {t})
    <3>1. t.size \in Nat
      BY <1>1, <2>1, Kinds
    <3> QED
      BY <1>3, <1>5, <2>1, <3>1, SizeStep DEF Fields
  <2>4. then("size") = now("size") \cup {t}
    BY <1>4, <2>1
  <2>5. /\ then("transport") = now("transport") /\ then("technology") = now("technology")
        /\ then("vendor") = now("vendor") /\ then("free") = now("free")
    BY <1>4, <2>1
  <2>6. /\ TransportsOk(criteria', now("transport"))
        /\ TechnologiesOk(criteria', now("technology"), now("transport"))
        /\ VendorsOk(criteria', now("vendor")) /\ WordsOk(criteria', now("free"))
    BY <1>5, <2>2, LeftAlone
  <2> QED
    BY <2>2, <2>3, <2>4, <2>5, <2>6
<1>7. CASE ParseTransport
  <2>1. /\ t.kind = "transport"
        /\ criteria' = [criteria EXCEPT
             !.transport = {t.transport},
             !.rotational = IF t.transport = "nvme" /\ @ = {} THEN {FALSE} ELSE @]
    BY <1>7 DEF ParseTransport, Token1, t
  <2>2. /\ criteria'.transport = {t.transport}
        /\ criteria'.rotational = IF t.transport = "nvme" /\ criteria.rotational = {}
                                  THEN {FALSE} ELSE criteria.rotational
        /\ criteria'.min = criteria.min /\ criteria'.max = criteria.max
        /\ criteria'.vendors = criteria.vendors /\ criteria'.free = criteria.free
        /\ Others(criteria')
    BY <1>3, <2>1 DEF Others, Fields
  <2>3. /\ TransportsOk(criteria', now("transport") \cup {t})
        /\ TechnologiesOk(criteria', now("technology"), now("transport") \cup {t})
    BY <1>5, <2>2, TransportStep
  <2>4. then("transport") = now("transport") \cup {t}
    BY <1>4, <2>1
  <2>5. /\ then("size") = now("size") /\ then("technology") = now("technology")
        /\ then("vendor") = now("vendor") /\ then("free") = now("free")
    BY <1>4, <2>1
  <2>6. /\ SizesOk(criteria', now("size")) /\ VendorsOk(criteria', now("vendor"))
        /\ WordsOk(criteria', now("free"))
    BY <1>5, <2>2, LeftAlone
  <2> QED
    BY <2>2, <2>3, <2>4, <2>5, <2>6
<1>8. CASE ParseTechnology
  <2>1. /\ t.kind = "technology" /\ criteria.rotational \subseteq {t.rotational}
        /\ criteria' = [criteria EXCEPT !.rotational = {t.rotational}]
    BY <1>8 DEF ParseTechnology, Token1, t
  <2>2. /\ criteria'.rotational = {t.rotational}
        /\ criteria'.transport = criteria.transport
        /\ criteria'.min = criteria.min /\ criteria'.max = criteria.max
        /\ criteria'.vendors = criteria.vendors /\ criteria'.free = criteria.free
        /\ Others(criteria')
    BY <1>3, <2>1 DEF Others, Fields
  <2>3. TechnologiesOk(criteria', now("technology") \cup {t}, now("transport"))
    BY <1>5, <2>1, <2>2, TechnologyStep
  <2>4. then("technology") = now("technology") \cup {t}
    BY <1>4, <2>1
  <2>5. /\ then("size") = now("size") /\ then("transport") = now("transport")
        /\ then("vendor") = now("vendor") /\ then("free") = now("free")
    BY <1>4, <2>1
  <2>6. /\ SizesOk(criteria', now("size")) /\ TransportsOk(criteria', now("transport"))
        /\ VendorsOk(criteria', now("vendor")) /\ WordsOk(criteria', now("free"))
    BY <1>5, <2>2, LeftAlone
  <2> QED
    BY <2>2, <2>3, <2>4, <2>5, <2>6
<1>9. CASE ParseVendor
  <2>1. /\ t.kind = "vendor"
        /\ criteria' = [criteria EXCEPT !.vendors = @ \cup AliasesOf[t.vendor]]
    BY <1>9 DEF ParseVendor, Token1, t
  <2>2. /\ criteria'.vendors = criteria.vendors \cup AliasesOf[t.vendor]
        /\ criteria'.transport = criteria.transport
        /\ criteria'.rotational = criteria.rotational
        /\ criteria'.min = criteria.min /\ criteria'.max = criteria.max
        /\ criteria'.free = criteria.free
        /\ Others(criteria')
    BY <1>3, <2>1 DEF Others, Fields
  <2>3. VendorsOk(criteria', now("vendor") \cup {t})
    BY <1>5, <2>2 DEF VendorsOk
  <2>4. then("vendor") = now("vendor") \cup {t}
    BY <1>4, <2>1
  <2>5. /\ then("size") = now("size") /\ then("transport") = now("transport")
        /\ then("technology") = now("technology") /\ then("free") = now("free")
    BY <1>4, <2>1
  <2>6. /\ SizesOk(criteria', now("size")) /\ TransportsOk(criteria', now("transport"))
        /\ TechnologiesOk(criteria', now("technology"), now("transport"))
        /\ WordsOk(criteria', now("free"))
    BY <1>5, <2>2, LeftAlone
  <2> QED
    BY <2>2, <2>3, <2>4, <2>5, <2>6
<1>10. CASE ParseFree
  <2>1. /\ t.kind = "free"
        /\ criteria' = [criteria EXCEPT !.free = @ \cup {t.text}]
    BY <1>10 DEF ParseFree, Token1, t
  <2>2. /\ criteria'.free = criteria.free \cup {t.text}
        /\ criteria'.transport = criteria.transport
        /\ criteria'.rotational = criteria.rotational
        /\ criteria'.min = criteria.min /\ criteria'.max = criteria.max
        /\ criteria'.vendors = criteria.vendors
        /\ Others(criteria')
    BY <1>3, <2>1 DEF Others, Fields
  <2>3. WordsOk(criteria', now("free") \cup {t})
    BY <1>5, <2>2 DEF WordsOk
  <2>4. then("free") = now("free") \cup {t}
    BY <1>4, <2>1
  <2>5. /\ then("size") = now("size") /\ then("transport") = now("transport")
        /\ then("technology") = now("technology") /\ then("vendor") = now("vendor")
    BY <1>4, <2>1
  <2>6. /\ SizesOk(criteria', now("size")) /\ TransportsOk(criteria', now("transport"))
        /\ TechnologiesOk(criteria', now("technology"), now("transport")) /\ VendorsOk(criteria', now("vendor"))
    BY <1>5, <2>2, LeftAlone
  <2> QED
    BY <2>2, <2>3, <2>4, <2>5, <2>6
<1> QED
  BY <1>6, <1>7, <1>8, <1>9, <1>10

\* No other step touches what was read.
LEMMA ReadNext == Shape /\ Read /\ [Next]_vars => Read'
<1> SUFFICES ASSUME Shape, Read, [Next]_vars PROVE Read'
  OBVIOUS
<1> USE DEF Read, FromTokens
<1>1. CASE BeginText
  <2>1. phase = "start" /\ next = 1 /\ next' = 1 /\ criteria = NoCriteria /\ criteria' = criteria
    BY <1>1 DEF BeginText, Shape
  <2> QED
    BY <2>1, NothingRead
<1>2. CASE TakePath \/ TakeTable
  BY <1>2 DEF TakePath, TakeTable, ByTokens
<1>3. CASE ParseSize \/ ParseTransport \/ ParseTechnology \/ ParseVendor \/ ParseFree
  <2>1. phase = "parsing"
    BY <1>3 DEF ParseSize, ParseTransport, ParseTechnology, ParseVendor, ParseFree, Token1
  <2> QED
    BY <1>3, <2>1, ReadStep
<1>4. CASE Contradiction \/ TextParsed \/ MatchDisks
  BY <1>4 DEF Contradiction, TextParsed, MatchDisks, Token1
<1>5. CASE Reboot
  BY <1>5, NothingRead DEF Reboot
<1>6. CASE UNCHANGED vars
  BY <1>6 DEF vars
<1> QED
  BY <1>1, <1>2, <1>3, <1>4, <1>5, <1>6 DEF Next, Parse

\* The parser raises at a technology that contradicts the fields, and only there.
LEMMA RefusedNext == Shape /\ Refused /\ [Next]_vars => Refused'
<1> SUFFICES ASSUME Shape, Refused, [Next]_vars PROVE Refused'
  OBVIOUS
<1> USE DEF Refused
<1>1. CASE BeginText \/ TakePath \/ TakeTable \/ TextParsed \/ MatchDisks \/ Reboot
  BY <1>1 DEF BeginText, TakePath, TakeTable, TextParsed, MatchDisks, Reboot
<1>2. CASE ParseSize \/ ParseTransport \/ ParseTechnology \/ ParseVendor \/ ParseFree
  BY <1>2 DEF ParseSize, ParseTransport, ParseTechnology, ParseVendor, ParseFree, Token1, Parsed
<1>3. CASE Contradiction
  BY <1>3 DEF Contradiction, Token1
<1>4. CASE UNCHANGED vars
  BY <1>4 DEF vars
<1> QED
  BY <1>1, <1>2, <1>3, <1>4 DEF Next, Parse

\* match_disks returns each matching disk once, and nothing later changes it.
LEMMA RankedNext == Ranked /\ [Next]_vars => Ranked'
<1> SUFFICES ASSUME Ranked, [Next]_vars PROVE Ranked'
  OBVIOUS
<1> USE DEF Ranked
<1>1. CASE Parse
  BY <1>1 DEF Parse, BeginText, TakePath, TakeTable, ParseSize, ParseTransport, ParseTechnology,
              Contradiction, ParseVendor, ParseFree, TextParsed, Token1, Parsed
<1>2. CASE MatchDisks
  <2>1. result' \in Sorted(Matched(criteria)) /\ UNCHANGED <<names, criteria>>
    BY <1>2 DEF MatchDisks
  <2>2. Sorted(Matched(criteria))' = Sorted(Matched(criteria))
    BY <2>1 DEF Sorted, Matched, Before, Matches, TextFits, Corpus
  <2> QED
    BY <2>1, <2>2
<1>3. CASE Reboot
  BY <1>3 DEF Reboot
<1>4. CASE UNCHANGED vars
  <2>1. Sorted(Matched(criteria))' = Sorted(Matched(criteria))
    BY <1>4 DEF vars, Sorted, Matched, Before, Matches, TextFits, Corpus
  <2> QED
    BY <1>4, <2>1 DEF vars
<1> QED
  BY <1>1, <1>2, <1>3, <1>4 DEF Next

-----------------------------------------------------------------------------
\* A sorted sequence of a finite set holds each of its elements.
LEMMA SortedIsAll ==
  ASSUME NEW S \in SUBSET Disks, names \in [Disks -> Names], NEW s \in Sorted(S)
  PROVE  Elements(s) = S
<1>1. IsFiniteSet(S) /\ Cardinality(S) \in Nat
  BY DisksAssumption, FS_Subset, FS_CardinalityType
<1>2. /\ s \in [1..Cardinality(S) -> S]
      /\ \A i, j \in 1..Cardinality(S) : i < j => Before(s[i], s[j])
  BY DEF Sorted
<1>3. \A d \in Disks : ~Before(d, d)
  <2>1. \A d \in Disks : SerialOf[d] \in Nat /\ names[d] \in Nat
    BY DisksAssumption
  <2> QED
    BY <2>1 DEF Before
<1>4. s \in Injection(1..Cardinality(S), S)
  <2>1. ASSUME NEW i \in 1..Cardinality(S), NEW j \in 1..Cardinality(S), s[i] = s[j]
        PROVE  i = j
    BY <1>1, <1>2, <1>3, <2>1
  <2> QED
    BY <1>2, <2>1 DEF Injection, IsInjective
<1>5. IsFiniteSet(1..Cardinality(S)) /\ Cardinality(1..Cardinality(S)) = Cardinality(S)
  BY <1>1, FS_Interval
<1>6. s \in Surjection(1..Cardinality(S), S)
  BY <1>1, <1>4, <1>5, FS_Injection
<1> QED
  BY <1>2, <1>6 DEF Surjection, Elements

\* Over a whole text, a disk is wanted if the tokens of each kind accept it.
LEMMA WantedByKind ==
  ASSUME tokens \in Seq(Token), NEW d
  PROVE  Wanted(d) <=> \A kind \in {"size", "transport", "technology", "vendor", "free"} :
                         \A t \in Said(tokens, Len(tokens) + 1, kind) : Accepts(t, d)
<1>1. \A i \in DOMAIN tokens :
        /\ tokens[i].kind \in {"size", "transport", "technology", "vendor", "free"}
        /\ tokens[i] \in Said(tokens, Len(tokens) + 1, tokens[i].kind)
  BY Kinds DEF Said
<1>2. \A kind : \A t \in Said(tokens, Len(tokens) + 1, kind) :
        \E i \in DOMAIN tokens : t = tokens[i]
  BY DEF Said
<1> HIDE DEF Said
<1> QED
  BY <1>1, <1>2 DEF Wanted

\* What a token of each kind asks.
LEMMA AcceptsByKind ==
  ASSUME NEW t, NEW d
  PROVE  /\ t.kind = "size" => (Accepts(t, d) <=> /\ SizeOf[d] > 0 /\ Low(t.size) <= SizeOf[d]
                                                 /\ SizeOf[d] <= High(t.size))
         /\ t.kind = "transport" => (Accepts(t, d) <=> TransportOf[d] = t.transport)
         /\ t.kind = "technology" => (Accepts(t, d) <=> IsSsd(d) = ~t.rotational)
         /\ t.kind = "vendor"
              => (Accepts(t, d) <=> AliasesOf[t.vendor] \cap VendorTextOf[d] # {})
         /\ t.kind = "free" => (Accepts(t, d) <=> t.text \in Corpus(d))
BY DEF Accepts

\* The bounds take a disk if and only if each size token does.
LEMMA SizeAgrees ==
  ASSUME NEW c, NEW S, SizesOk(c, S), \A t \in S : t.kind = "size", NEW d \in Disks
  PROVE  SizeFits(c, d) <=> \A t \in S : Accepts(t, d)
<1>1. SizeOf[d] \in Nat
  BY DisksAssumption
<1>2. /\ (\A m \in c.min : SizeOf[d] >= m) <=> (\A t \in S : Low(t.size) <= SizeOf[d])
      /\ (\A m \in c.max : SizeOf[d] <= m) <=> (\A t \in S : SizeOf[d] <= High(t.size))
      /\ c.min \cup c.max # {} <=> S # {}
  BY <1>1 DEF SizesOk
<1>3. \A t \in S : Accepts(t, d) <=> /\ SizeOf[d] > 0 /\ Low(t.size) <= SizeOf[d]
                                     /\ SizeOf[d] <= High(t.size)
  BY AcceptsByKind
<1> QED
  BY <1>2, <1>3 DEF SizeFits

\* So do transport and technology, when no two transports were named.
LEMMA TechnologyAgrees ==
  ASSUME NEW c, NEW S, NEW T, NEW d, TechnologiesOk(c, S, T), TransportsOk(c, T),
         \A t \in S : t.kind = "technology" /\ t.rotational \in BOOLEAN,
         \A t \in T : t.kind = "transport",
         \A t, u \in T : t.transport = u.transport
  PROVE  TransportFits(c, d) /\ TechnologyFits(c, d) <=> \A t \in S \cup T : Accepts(t, d)
<1>1. TransportFits(c, d) <=> \A t \in T : Accepts(t, d)
  <2>1. \A t \in T : Accepts(t, d) <=> TransportOf[d] = t.transport
    BY AcceptsByKind
  <2> QED
    BY <2>1 DEF TransportFits, TransportsOk
<1>2. TechnologyFits(c, d) => \A t \in S : Accepts(t, d)
  <2>1. \A t \in S : Accepts(t, d) <=> IsSsd(d) = ~t.rotational
    BY AcceptsByKind
  <2> QED
    BY <2>1 DEF TechnologyFits, TechnologiesOk
<1>3. ASSUME \A t \in S \cup T : Accepts(t, d) PROVE TechnologyFits(c, d)
  <2> SUFFICES ASSUME NEW r \in c.rotational PROVE IsSsd(d) = ~r
    BY DEF TechnologyFits
  <2>1. CASE \E t \in S : t.rotational = r
    BY <1>3, <2>1, AcceptsByKind
  <2>2. CASE r = FALSE /\ \E t \in T : t.transport = "nvme"
    <3>1. TransportOf[d] = "nvme"
      BY <1>3, <2>2, AcceptsByKind
    <3> QED
      BY <2>2, <3>1 DEF IsSsd
  <2> QED
    BY <2>1, <2>2 DEF TechnologiesOk
<1> QED
  BY <1>1, <1>2, <1>3

\* So do the vendors, which are OR-ed, when they have the same aliases.
LEMMA VendorAgrees ==
  ASSUME NEW c, NEW S, NEW d, VendorsOk(c, S),
         \A t \in S : t.kind = "vendor" /\ t.vendor \in Vendor,
         \A t, u \in S : AliasesOf[t.vendor] = AliasesOf[u.vendor]
  PROVE  /\ VendorFits(c, d) <=> \A t \in S : Accepts(t, d)
         /\ c.vendors = {} => S = {}
<1>1. \A t \in S : Accepts(t, d) <=> AliasesOf[t.vendor] \cap VendorTextOf[d] # {}
  BY AcceptsByKind
<1>2. \A t \in S : AliasesOf[t.vendor] # {} /\ c.vendors = AliasesOf[t.vendor]
  BY DisksAssumption DEF VendorsOk
<1>3. S = {} => c.vendors = {}
  BY DEF VendorsOk
<1> QED
  BY <1>1, <1>2, <1>3 DEF VendorFits

\* So do the free words.
LEMMA WordsAgree ==
  ASSUME NEW c, NEW S, NEW d, WordsOk(c, S), \A t \in S : t.kind = "free"
  PROVE  /\ TextFits(c, d) <=> \A t \in S : Accepts(t, d)
         /\ c.free = {} => S = {}
<1>1. \A t \in S : Accepts(t, d) <=> t.text \in Corpus(d)
  BY AcceptsByKind
<1> QED
  BY <1>1 DEF TextFits, WordsOk

\* match_disks takes a disk if and only if every token of a coherent text does.
LEMMA MatchesAreWanted ==
  ASSUME Shape, Coherent, next = Len(tokens) + 1, ReadAs(criteria, tokens, next),
         NEW d \in Disks
  PROVE  Matches(criteria, d) <=> Wanted(d)
<1> DEFINE said(kind) == Said(tokens, next, kind)
           c == criteria
<1>1. tokens \in Seq(Token) /\ next \in 1..(Len(tokens) + 1)
  BY DEF Shape
<1>2. \A kind : \A t \in said(kind) : t \in Token /\ t.kind = kind
  BY <1>1, TokensSaid
<1>3. \A kind : \A t \in said(kind) : \E i \in DOMAIN tokens : t = tokens[i]
  BY <1>1 DEF Said
<1>4. /\ SizesOk(c, said("size")) /\ TransportsOk(c, said("transport"))
      /\ TechnologiesOk(c, said("technology"), said("transport"))
      /\ VendorsOk(c, said("vendor")) /\ WordsOk(c, said("free")) /\ Others(c)
  BY DEF ReadAs
<1>5. Wanted(d) <=> \A kind \in {"size", "transport", "technology", "vendor", "free"} :
                      \A t \in said(kind) : Accepts(t, d)
  BY <1>1, WantedByKind
<1> HIDE DEF said, c
<1>6. SizeFits(c, d) <=> \A t \in said("size") : Accepts(t, d)
  BY <1>2, <1>4, SizeAgrees
<1>7. TransportFits(c, d) /\ TechnologyFits(c, d)
        <=> \A t \in said("technology") \cup said("transport") : Accepts(t, d)
  <2>1. \A t \in said("technology") : t.kind = "technology" /\ t.rotational \in BOOLEAN
    BY <1>2, Kinds
  <2>2. \A t, u \in said("transport") : t.transport = u.transport
    BY <1>2, <1>3 DEF Coherent
  <2> QED
    BY <1>2, <1>4, <2>1, <2>2, TechnologyAgrees
<1>8. /\ VendorFits(c, d) <=> \A t \in said("vendor") : Accepts(t, d)
      /\ c.vendors = {} => said("vendor") = {}
  <2>1. \A t \in said("vendor") : t.kind = "vendor" /\ t.vendor \in Vendor
    BY <1>2, Kinds
  <2>2. \A t, u \in said("vendor") : AliasesOf[t.vendor] = AliasesOf[u.vendor]
    BY <1>2, <1>3 DEF Coherent
  <2> QED
    BY <1>4, <2>1, <2>2, VendorAgrees
<1>9. TextFits(c, d) <=> \A t \in said("free") : Accepts(t, d)
  BY <1>2, <1>4, WordsAgree
<1>10. c.device = {} /\ c.removable = {} /\ RemovableFits(c, d)
  BY <1>4 DEF Others, RemovableFits
<1>11. IsEmpty(c) => /\ SizeFits(c, d) /\ TransportFits(c, d) /\ TechnologyFits(c, d)
                     /\ VendorFits(c, d) /\ TextFits(c, d)
  <2> SUFFICES ASSUME IsEmpty(c)
               PROVE  /\ SizeFits(c, d) /\ TransportFits(c, d) /\ TechnologyFits(c, d)
                      /\ VendorFits(c, d) /\ TextFits(c, d)
    OBVIOUS
  <2>1. c.min = {} /\ c.max = {}
    BY <1>4 DEF IsEmpty, SizesOk
  <2> QED
    BY <2>1 DEF IsEmpty, SizeFits, TransportFits, TechnologyFits, VendorFits, TextFits
<1>12. Matches(c, d) <=> /\ SizeFits(c, d) /\ TransportFits(c, d) /\ TechnologyFits(c, d)
                         /\ VendorFits(c, d) /\ TextFits(c, d)
  BY <1>10, <1>11 DEF Matches
<1>13. Matches(c, d) <=> Wanted(d)
  BY <1>5, <1>6, <1>7, <1>8, <1>9, <1>12
<1> QED
  BY <1>13 DEF c

-----------------------------------------------------------------------------
\* The invariants hold before anything was read.
LEMMA Inits == Init => Shape /\ Read /\ Refused /\ Ranked
<1> SUFFICES ASSUME Init PROVE Shape /\ Read /\ Refused /\ Ranked
  OBVIOUS
<1>1. <<>> \in Seq(Token) /\ 1 \in 1..(Len(<<>>) + 1)
  OBVIOUS
<1>2. Shape
  BY <1>1, DescriptorsAssumption DEF Init, Shape, Namings
<1>3. Read
  BY NothingRead DEF Init, Read
<1> QED
  BY <1>2, <1>3 DEF Init, Refused, Ranked

\* Whatever the order of its tokens, and however many of each kind there are, a
\* text finds the fixed disks that every token accepts: all of them, no other.
THEOREM TextsMatchExactly == Spec => []MatchesAreExact
<1>1. Shape /\ Read /\ Ranked => MatchesAreExact
  <2> SUFFICES ASSUME Shape, Read, Ranked, phase = "done", descriptor.form = "text", Coherent
               PROVE  Elements(result) = {d \in Disks \ Removable : Wanted(d)}
    BY DEF MatchesAreExact
  <2>1. next = Len(tokens) + 1 /\ ReadAs(criteria, tokens, next)
    BY DEF Shape, Read, FromTokens, ByTokens
  <2>2. Matched(criteria) = {d \in Disks : Matches(criteria, d) /\ d \notin Removable}
    BY <2>1 DEF ReadAs, Others, Matched
  <2>3. Elements(result) = Matched(criteria)
    <3>1. Matched(criteria) \in SUBSET Disks
      BY DEF Matched
    <3> QED
      BY <3>1, SortedIsAll DEF Ranked, Shape
  <2>4. \A d \in Disks : Matches(criteria, d) <=> Wanted(d)
    BY <2>1, MatchesAreWanted
  <2> QED
    BY <2>2, <2>3, <2>4
<1> QED
  BY <1>1, Inits, ShapeNext, ReadNext, RankedNext, PTL DEF Spec

\* A text refused as contradictory would have matched no disk, of any machine.
THEOREM RefusalsAreHopeless == Spec => []ErrorsAreHopeless
<1>1. Shape /\ Read /\ Refused => ErrorsAreHopeless
  <2> SUFFICES ASSUME Shape, Read, Refused, phase = "error", NEW d \in Disks, Wanted(d)
               PROVE  FALSE
    BY DEF ErrorsAreHopeless
  <2> DEFINE t == tokens[next]
             said(kind) == Said(tokens, next, kind)
  <2>1. /\ next \in DOMAIN tokens /\ tokens \in Seq(Token) /\ t.kind = "technology"
        /\ ~ criteria.rotational \subseteq {t.rotational}
        /\ TechnologiesOk(criteria, said("technology"), said("transport"))
    BY DEF Shape, Read, FromTokens, ReadAs, Refused
  <2>2. t.rotational \in BOOLEAN /\ IsSsd(d) = ~t.rotational
    <3>1. Accepts(t, d) /\ t \in Token
      BY <2>1 DEF Wanted
    <3> QED
      BY <2>1, <3>1, Kinds, AcceptsByKind
  <2>3. \A kind : \A u \in said(kind) : u \in Token /\ u.kind = kind /\ Accepts(u, d)
    BY <2>1, TokensSaid DEF Said, Wanted
  <2> HIDE DEF said, t
  <2>4. PICK r \in criteria.rotational : r # t.rotational
    BY <2>1
  <2>5. CASE \E u \in said("technology") : u.rotational = r
    <3>1. r \in BOOLEAN /\ IsSsd(d) = ~r
      BY <2>3, <2>5, Kinds, AcceptsByKind
    <3> QED
      BY <2>2, <2>4, <3>1
  <2>6. CASE r = FALSE /\ \E u \in said("transport") : u.transport = "nvme"
    <3>1. TransportOf[d] = "nvme"
      BY <2>3, <2>6, AcceptsByKind
    <3> QED
      BY <2>2, <2>4, <2>6, <3>1 DEF IsSsd
  <2> QED
    BY <2>1, <2>4, <2>5, <2>6 DEF TechnologiesOk
<1> QED
  BY <1>1, Inits, ShapeNext, ReadNext, RefusedNext, PTL DEF Spec

-----------------------------------------------------------------------------
(* The same disks in the same order at every boot.                         *)

\* The position of the last token of a kind before position n.
LastSaid(toks, n, kind) ==
  {i \in 1..(n - 1) : toks[i].kind = kind /\ \A j \in 1..(n - 1) : j > i => toks[j].kind # kind}

\* What ReadAs leaves open: the last transport counts, a technology counts more
\* than what NVMe implies.
Exact(c, toks, n) ==
  /\ c.transport = {toks[i].transport : i \in LastSaid(toks, n, "transport")}
  /\ c.rotational =
       IF Said(toks, n, "technology") # {}
       THEN {t.rotational : t \in Said(toks, n, "technology")}
       ELSE IF \E t \in Said(toks, n, "transport") : t.transport = "nvme" THEN {FALSE} ELSE {}
ReadExactly == FromTokens => Exact(criteria, tokens, next)

\* The fields of a table without a text, and of a path.
FromTable(w, c) ==
  IF w.form = "path" THEN c.device = {w.name}
  ELSE LET t == w.table IN
       /\ c.min = (IF t.min # {} THEN t.min ELSE {Low(s) : s \in t.size})
       /\ c.max = (IF t.max # {} THEN t.max ELSE {High(s) : s \in t.size})
       /\ c.transport = t.transport /\ c.rotational = t.rotational
       /\ c.removable = t.removable /\ c.free = t.free /\ c.device = t.device
       /\ c.vendors = UNION {AliasesOf[v] : v \in t.vendor}

Taken ==
  /\ phase \in {"parsing", "error"} => ByTokens(descriptor)
  /\ phase \in {"parsing", "error", "matching", "done"} =>
       IF ByTokens(descriptor) THEN IsText(descriptor, tokens) ELSE FromTable(descriptor, criteria)

\* c is what a descriptor w says.
Says(w, c) ==
  IF ByTokens(w)
  THEN \E toks \in Seq(Token) :
         /\ IsText(w, toks) /\ ReadAs(c, toks, Len(toks) + 1) /\ Exact(c, toks, Len(toks) + 1)
  ELSE FromTable(w, c)

\* Criteria that do not ask for a name, and what they match under any names.
Nameless(c) == c.device = {} /\ c.free \cap {NameText[n] : n \in Names} = {}
Fit(c) ==
  {d \in Disks :
    /\ \/ IsEmpty(c)
       \/ /\ SizeFits(c, d) /\ TransportFits(c, d) /\ TechnologyFits(c, d)
          /\ RemovableFits(c, d) /\ VendorFits(c, d) /\ c.free \subseteq TextOf[d]
    /\ c.removable = {} => d \notin Removable}

\* The listings of a set of disks, sorted by serial.
Listings(S) ==
  {s \in [1..Cardinality(S) -> S] :
    \A i, j \in 1..Cardinality(S) : i < j => s[i] # s[j] /\ SerialOf[s[i]] <= SerialOf[s[j]]}

Kept ==
  \A s \in earlier : \E c : Says(descriptor, c) /\ (Nameless(c) => s \in Listings(Fit(c)))

\* No token has been parsed, so none is the last of its kind.
LEMMA NothingLast == ASSUME NEW toks, NEW kind PROVE LastSaid(toks, 1, kind) = {}
BY DEF LastSaid

\* The token just parsed is the last of its kind.
LEMMA OneMoreLast ==
  ASSUME NEW toks \in Seq(Token), NEW n \in DOMAIN toks, NEW kind
  PROVE  LastSaid(toks, n + 1, kind) = IF toks[n].kind = kind THEN {n} ELSE LastSaid(toks, n, kind)
<1>1. n \in Nat /\ n >= 1
  OBVIOUS
<1>2. \A j : j \in 1..(n + 1 - 1) <=> j \in 1..(n - 1) \/ j = n
  BY <1>1
<1>3. \A j \in 1..(n - 1) : j \in Nat /\ n > j /\ ~(j > n)
  BY <1>1
<1> QED
  BY <1>1, <1>2, <1>3 DEF LastSaid

\* Before the first token no field is set.
LEMMA NothingExact == ASSUME NEW toks PROVE Exact(NoCriteria, toks, 1)
BY NothingLast, NothingSaid DEF Exact, NoCriteria

\* Each branch also sets its fields to what the last token of a kind decides.
LEMMA ExactStep ==
  ASSUME Shape, ReadAs(criteria, tokens, next), Exact(criteria, tokens, next),
         ParseSize \/ ParseTransport \/ ParseTechnology \/ ParseVendor \/ ParseFree
  PROVE  Exact(criteria, tokens, next)'
<1> DEFINE t == tokens[next]
           tech == Said(tokens, next, "technology")
           trans == Said(tokens, next, "transport")
<1>1. /\ tokens \in Seq(Token) /\ next \in DOMAIN tokens
      /\ tokens' = tokens /\ next' = next + 1
  BY DEF Shape, ParseSize, ParseTransport, ParseTechnology, ParseVendor, ParseFree, Token1, Parsed
<1>2. SUFFICES Exact(criteria', tokens, next + 1)
  BY <1>1
<1>3. DOMAIN criteria = Fields
  BY DEF ReadAs, Others
<1>4. /\ LastSaid(tokens, next + 1, "transport") =
           IF t.kind = "transport" THEN {next} ELSE LastSaid(tokens, next, "transport")
      /\ Said(tokens, next + 1, "technology") = IF t.kind = "technology" THEN tech \cup {t} ELSE tech
      /\ Said(tokens, next + 1, "transport") = IF t.kind = "transport" THEN trans \cup {t} ELSE trans
  BY <1>1, OneMoreLast, OneMoreSaid
<1>5. /\ criteria.transport = {tokens[i].transport : i \in LastSaid(tokens, next, "transport")}
      /\ criteria.rotational =
           IF tech # {} THEN {u.rotational : u \in tech}
           ELSE IF \E u \in trans : u.transport = "nvme" THEN {FALSE} ELSE {}
  BY DEF Exact
<1> HIDE DEF t, tech, trans
<1>6. CASE ParseSize \/ ParseVendor \/ ParseFree
  <2>1. /\ criteria'.transport = criteria.transport /\ criteria'.rotational = criteria.rotational
        /\ t.kind \notin {"transport", "technology"}
    BY <1>3, <1>6 DEF ParseSize, ParseVendor, ParseFree, Token1, Fields, t
  <2> QED
    BY <1>4, <1>5, <2>1 DEF Exact
<1>7. CASE ParseTransport
  <2>1. /\ t.kind = "transport" /\ criteria'.transport = {t.transport}
        /\ criteria'.rotational = IF t.transport = "nvme" /\ criteria.rotational = {}
                                  THEN {FALSE} ELSE criteria.rotational
    BY <1>3, <1>7 DEF ParseTransport, Token1, Fields, t
  <2>2. criteria'.transport = {tokens[i].transport : i \in LastSaid(tokens, next + 1, "transport")}
    BY <1>4, <2>1 DEF t
  <2>3. CASE tech # {}
    <3>1. criteria.rotational # {}
      BY <1>5, <2>3
    <3> QED
      BY <1>4, <1>5, <2>1, <2>2, <2>3, <3>1 DEF Exact
  <2>4. CASE tech = {}
    BY <1>4, <1>5, <2>1, <2>2, <2>4 DEF Exact
  <2> QED
    BY <2>3, <2>4
<1>8. CASE ParseTechnology
  <2>1. /\ t.kind = "technology" /\ criteria.rotational \subseteq {t.rotational}
        /\ criteria'.rotational = {t.rotational} /\ criteria'.transport = criteria.transport
    BY <1>3, <1>8 DEF ParseTechnology, Token1, Fields, t
  <2>2. {u.rotational : u \in tech \cup {t}} = {t.rotational}
    BY <1>5, <2>1
  <2> QED
    BY <1>4, <1>5, <2>1, <2>2 DEF Exact
<1> QED
  BY <1>6, <1>7, <1>8

\* No other step touches those fields.
LEMMA ExactNext == Shape /\ Read /\ ReadExactly /\ [Next]_vars => ReadExactly'
<1> SUFFICES ASSUME Shape, Read, ReadExactly, [Next]_vars PROVE ReadExactly'
  OBVIOUS
<1> USE DEF ReadExactly, FromTokens
<1>1. CASE BeginText
  <2>1. phase = "start" /\ next = 1 /\ next' = 1 /\ criteria = NoCriteria /\ criteria' = criteria
    BY <1>1 DEF BeginText, Shape
  <2> QED
    BY <2>1, NothingExact
<1>2. CASE TakePath \/ TakeTable
  BY <1>2 DEF TakePath, TakeTable, ByTokens
<1>3. CASE ParseSize \/ ParseTransport \/ ParseTechnology \/ ParseVendor \/ ParseFree
  <2>1. phase = "parsing"
    BY <1>3 DEF ParseSize, ParseTransport, ParseTechnology, ParseVendor, ParseFree, Token1
  <2> QED
    BY <1>3, <2>1, ExactStep DEF Read
<1>4. CASE Contradiction \/ TextParsed \/ MatchDisks
  BY <1>4 DEF Contradiction, TextParsed, MatchDisks, Token1
<1>5. CASE Reboot
  BY <1>5, NothingExact DEF Reboot
<1>6. CASE UNCHANGED vars
  BY <1>6 DEF vars
<1> QED
  BY <1>1, <1>2, <1>3, <1>4, <1>5, <1>6 DEF Next, Parse

\* A descriptor stays the text or the table the fields were taken from.
LEMMA TakenNext == Shape /\ Taken /\ [Next]_vars => Taken'
<1> SUFFICES ASSUME Shape, Taken, [Next]_vars PROVE Taken'
  OBVIOUS
<1>1. CASE BeginText
  <2>1. ByTokens(descriptor) /\ IsText(descriptor, tokens')
    BY <1>1 DEF BeginText, ByTokens, IsText
  <2> QED
    BY <1>1, <2>1 DEF BeginText, Taken
<1>2. CASE TakePath
  <2>1. ~ByTokens(descriptor) /\ descriptor.form = "path" /\ criteria'.device = {descriptor.name}
    BY <1>2 DEF TakePath, ByTokens, NoCriteria
  <2> QED
    BY <1>2, <2>1 DEF TakePath, Taken, FromTable
<1>3. CASE TakeTable
  <2>1. ~ByTokens(descriptor) /\ descriptor.form = "table"
    BY <1>3 DEF TakeTable, ByTokens
  <2>2. FromTable(descriptor, criteria')
    BY <1>3, <2>1 DEF TakeTable, FromTable
  <2> QED
    BY <1>3, <2>1, <2>2 DEF TakeTable, Taken
<1>4. CASE ParseSize \/ ParseTransport \/ ParseTechnology \/ ParseVendor \/ ParseFree
  <2>1. phase = "parsing" /\ UNCHANGED <<descriptor, phase, tokens>>
    BY <1>4 DEF ParseSize, ParseTransport, ParseTechnology, ParseVendor, ParseFree, Token1, Parsed
  <2> QED
    BY <2>1 DEF Taken
<1>5. CASE Contradiction \/ TextParsed \/ MatchDisks
  BY <1>5 DEF Contradiction, TextParsed, MatchDisks, Token1, Taken
<1>6. CASE Reboot
  BY <1>6 DEF Reboot, Taken
<1>7. CASE UNCHANGED vars
  BY <1>7 DEF vars, Taken
<1> QED
  BY <1>1, <1>2, <1>3, <1>4, <1>5, <1>6, <1>7 DEF Next, Parse

\* A descriptor says one thing only.
SameFields(c, e) ==
  /\ c.min = e.min /\ c.max = e.max /\ c.transport = e.transport /\ c.rotational = e.rotational
  /\ c.removable = e.removable /\ c.vendors = e.vendors /\ c.free = e.free /\ c.device = e.device

\* Two readings of the same sizes have the same bounds.
LEMMA SizesAgree ==
  ASSUME NEW c, NEW e, NEW S, SizesOk(c, S), SizesOk(e, S)
  PROVE  c.min = e.min /\ c.max = e.max
<1>1. CASE S = {}
  BY <1>1 DEF SizesOk
<1>2. CASE S # {}
  <2>1. PICK m \in Nat, n \in Nat : c.min = {m} /\ c.max = {n}
    BY <1>2 DEF SizesOk
  <2>2. PICK k \in Nat, l \in Nat : e.min = {k} /\ e.max = {l}
    BY <1>2 DEF SizesOk
  <2>3. /\ \A x \in Nat : m <= x <=> \A t \in S : Low(t.size) <= x
        /\ \A x \in Nat : x <= n <=> \A t \in S : x <= High(t.size)
    BY <2>1 DEF SizesOk
  <2>4. /\ \A x \in Nat : k <= x <=> \A t \in S : Low(t.size) <= x
        /\ \A x \in Nat : x <= l <=> \A t \in S : x <= High(t.size)
    BY <2>2 DEF SizesOk
  <2>5. /\ \A x \in Nat : m <= x <=> k <= x
        /\ \A x \in Nat : x <= n <=> x <= l
    BY <2>3, <2>4
  <2>6. m <= k /\ k <= m /\ n <= l /\ l <= n
    BY <2>5
  <2> QED
    BY <2>1, <2>2, <2>6
<1> QED
  BY <1>1, <1>2

\* A descriptor says one thing: its fields do not depend on the boot.
LEMMA SaysOne ==
  ASSUME NEW w \in Descriptor, NEW c, NEW e, Says(w, c), Says(w, e), c.device = {}
  PROVE  SameFields(c, e)
<1>1. CASE ByTokens(w)
  <2>1. PICK toks \in Seq(Token) :
          /\ IsText(w, toks) /\ ReadAs(c, toks, Len(toks) + 1) /\ Exact(c, toks, Len(toks) + 1)
    BY <1>1 DEF Says
  <2>2. PICK uoks \in Seq(Token) :
          /\ IsText(w, uoks) /\ ReadAs(e, uoks, Len(uoks) + 1) /\ Exact(e, uoks, Len(uoks) + 1)
    BY <1>1 DEF Says
  <2>3. uoks = toks
    <3>1. CASE w.form = "text"
      BY <2>1, <2>2, <3>1 DEF IsText
    <3>2. CASE w.form # "text"
      <4>1. w.form = "table"
        BY <1>1, <3>2 DEF ByTokens
      <4>2. w.table \in Table
        BY <4>1 DEF Descriptor
      <4>3. w.table.text \in Optional(Seq(Token))
        BY <4>2 DEF Table
      <4> QED
        BY <2>1, <2>2, <3>2, <4>3 DEF IsText, Optional
    <3> QED
      BY <3>1, <3>2
  <2>4. c.min = e.min /\ c.max = e.max
    BY <2>1, <2>2, <2>3, SizesAgree DEF ReadAs
  <2>5. c.transport = e.transport /\ c.rotational = e.rotational
    BY <2>1, <2>2, <2>3 DEF Exact
  <2>6. c.vendors = e.vendors /\ c.free = e.free
    BY <2>1, <2>2, <2>3 DEF ReadAs, VendorsOk, WordsOk
  <2>7. c.removable = e.removable /\ c.device = e.device
    BY <2>1, <2>2 DEF ReadAs, Others
  <2> QED
    BY <2>4, <2>5, <2>6, <2>7 DEF SameFields
<1>2. CASE ~ByTokens(w)
  <2>1. FromTable(w, c) /\ FromTable(w, e)
    BY <1>2 DEF Says
  <2>2. w.form # "path"
    BY <2>1 DEF FromTable
  <2> QED
    BY <2>1, <2>2 DEF FromTable, SameFields
<1> QED
  BY <1>1, <1>2

\* Criteria without a name match the same disks under any names.
LEMMA MatchedIsFit ==
  ASSUME NEW c, Nameless(c), names \in [Disks -> Names]
  PROVE  Matched(c) = Fit(c)
<1>1. ASSUME NEW d \in Disks PROVE TextFits(c, d) <=> c.free \subseteq TextOf[d]
  <2>1. NameText[names[d]] \notin c.free
    BY DEF Nameless
  <2> QED
    BY <2>1 DEF TextFits, Corpus
<1> QED
  BY <1>1 DEF Nameless, Matched, Fit, Matches

\* Which disks fit is a matter of the fields.
LEMMA FitIsSame == ASSUME NEW c, NEW e, SameFields(c, e) PROVE Fit(c) = Fit(e)
BY DEF SameFields, Fit, IsEmpty, SizeFits, TransportFits, TechnologyFits, RemovableFits, VendorFits

\* match_disks lists disks by serial.
LEMMA SortedIsListing ==
  ASSUME NEW S \in SUBSET Disks, names \in [Disks -> Names], NEW s \in Sorted(S)
  PROVE  s \in Listings(S)
<1>1. Cardinality(S) \in Nat
  BY DisksAssumption, FS_Subset, FS_CardinalityType
<1>2. /\ s \in [1..Cardinality(S) -> S]
      /\ \A i, j \in 1..Cardinality(S) : i < j => Before(s[i], s[j])
  BY DEF Sorted
<1>3. ASSUME NEW d \in Disks, NEW e \in Disks, Before(d, e)
      PROVE  d # e /\ SerialOf[d] <= SerialOf[e]
  <2>1. SerialOf[d] \in Nat /\ SerialOf[e] \in Nat /\ names[d] \in Nat /\ names[e] \in Nat
    BY DisksAssumption
  <2> QED
    BY <1>3, <2>1 DEF Before
<1> QED
  BY <1>1, <1>2, <1>3 DEF Listings

\* Disks with serials of their own have one listing.
LEMMA OneListing ==
  ASSUME NEW S \in SUBSET Disks, NEW r \in Listings(S), NEW s \in Listings(S),
         Elements(r) = S, Elements(s) = S,
         \A d, e \in S : SerialOf[d] = SerialOf[e] => d = e
  PROVE  r = s
<1> DEFINE I == 1..Cardinality(S)
           B == {i \in I : r[i] # s[i]}
           R == OpToRel(<, Nat)
<1>0. Cardinality(S) \in Nat
  BY DisksAssumption, FS_Subset, FS_CardinalityType
<1>1. I \subseteq Nat /\ r \in [I -> S] /\ s \in [I -> S]
  BY <1>0 DEF Listings
<1>2. ASSUME NEW i \in I, NEW j \in I, i < j
      PROVE  /\ SerialOf[r[i]] < SerialOf[r[j]] /\ SerialOf[s[i]] < SerialOf[s[j]]
             /\ r[i] # r[j] /\ s[i] # s[j]
  <2>1. /\ r[i] # r[j] /\ SerialOf[r[i]] <= SerialOf[r[j]]
        /\ s[i] # s[j] /\ SerialOf[s[i]] <= SerialOf[s[j]]
    BY <1>2 DEF Listings
  <2>2. r[i] \in S /\ r[j] \in S /\ s[i] \in S /\ s[j] \in S
    BY <1>1
  <2>3. \A d \in S : SerialOf[d] \in Nat
    BY DisksAssumption
  <2> QED
    BY <2>1, <2>2, <2>3
<1>3. IsWellFoundedOn(R, Nat)
  BY NatLessThanWellFounded
<1>4. \A x, y \in Nat : x < y => <<x, y>> \in R
  BY DEF OpToRel
<1>5. Elements(r) = {r[i] : i \in I} /\ Elements(s) = {s[i] : i \in I}
  BY <1>1 DEF Elements
<1>6. B \subseteq Nat
  BY <1>1
<1> HIDE DEF R, I
<1>7. SUFFICES ASSUME B # {} PROVE FALSE
  BY <1>1
<1>8. PICK i \in B : \A j \in B : ~(<<j, i>> \in R)
  <2> HIDE DEF B
  <2> QED
    BY <1>3, <1>6, <1>7, WFMin
<1>9. ASSUME NEW j \in I, j < i PROVE r[j] = s[j]
  BY <1>1, <1>4, <1>8, <1>9, Zenon
<1>10. i \in I /\ r[i] # s[i] /\ r[i] \in S /\ s[i] \in S /\ i \in Nat
  BY <1>1, <1>8
<1>11. PICK j \in I : s[j] = r[i]
  BY <1>5, <1>10
<1>12. PICK k \in I : r[k] = s[i]
  BY <1>5, <1>10
<1>13. j \in Nat /\ k \in Nat /\ j # i /\ k # i
  BY <1>1, <1>10, <1>11, <1>12
<1>14. ~(j < i) /\ ~(k < i)
  BY <1>2, <1>9, <1>10, <1>11, <1>12
<1>15. i < j /\ i < k
  BY <1>10, <1>13, <1>14
<1>16. SerialOf[s[i]] < SerialOf[r[i]] /\ SerialOf[r[i]] < SerialOf[s[i]]
  BY <1>2, <1>10, <1>11, <1>12, <1>15
<1>17. SerialOf[s[i]] \in Nat /\ SerialOf[r[i]] \in Nat
  BY <1>10, DisksAssumption
<1> QED
  BY <1>16, <1>17

\* What is listed holds every disk of the set.
LEMMA ListingIsAll ==
  ASSUME NEW S \in SUBSET Disks, NEW s \in Listings(S)
  PROVE  Elements(s) = S
<1>1. IsFiniteSet(S) /\ Cardinality(S) \in Nat
  BY DisksAssumption, FS_Subset, FS_CardinalityType
<1>2. /\ s \in [1..Cardinality(S) -> S]
      /\ \A i, j \in 1..Cardinality(S) : i < j => s[i] # s[j]
  BY DEF Listings
<1>3. s \in Injection(1..Cardinality(S), S)
  <2>1. ASSUME NEW i \in 1..Cardinality(S), NEW j \in 1..Cardinality(S), s[i] = s[j]
        PROVE  i = j
    BY <1>1, <1>2, <2>1
  <2> QED
    BY <1>2, <2>1 DEF Injection, IsInjective
<1>4. IsFiniteSet(1..Cardinality(S)) /\ Cardinality(1..Cardinality(S)) = Cardinality(S)
  BY <1>1, FS_Interval
<1>5. s \in Surjection(1..Cardinality(S), S)
  BY <1>1, <1>3, <1>4, FS_Injection
<1> QED
  BY <1>2, <1>5 DEF Surjection, Elements

\* A returned result comes of what the descriptor says.
LEMMA DoneSays == Shape /\ Read /\ ReadExactly /\ Taken /\ phase = "done" => Says(descriptor, criteria)
<1> SUFFICES ASSUME Shape, Read, ReadExactly, Taken, phase = "done" PROVE Says(descriptor, criteria)
  OBVIOUS
<1>1. CASE ByTokens(descriptor)
  <2>1. /\ tokens \in Seq(Token) /\ next = Len(tokens) + 1 /\ IsText(descriptor, tokens)
        /\ ReadAs(criteria, tokens, next) /\ Exact(criteria, tokens, next)
    BY <1>1 DEF Shape, Read, ReadExactly, FromTokens, Taken
  <2> QED
    BY <1>1, <2>1 DEF Says
<1>2. CASE ~ByTokens(descriptor)
  BY <1>2 DEF Says, Taken
<1> QED
  BY <1>1, <1>2

\* Each boot adds a listing of the disks that fit what the descriptor says.
LEMMA KeptNext ==
  Shape /\ Read /\ ReadExactly /\ Taken /\ Ranked /\ Kept /\ [Next]_vars => Kept'
<1> SUFFICES ASSUME Shape, Read, ReadExactly, Taken, Ranked, Kept, [Next]_vars PROVE Kept'
  OBVIOUS
<1>1. descriptor' = descriptor
  BY DEF Next, Parse, BeginText, TakePath, TakeTable, ParseSize, ParseTransport, ParseTechnology,
         Contradiction, ParseVendor, ParseFree, TextParsed, MatchDisks, Reboot, Parsed, vars
<1>2. CASE earlier' = earlier
  BY <1>1, <1>2 DEF Kept
<1>3. CASE earlier' # earlier
  <2>1. phase = "done" /\ earlier' = earlier \cup {result}
    BY <1>3 DEF Next, Parse, BeginText, TakePath, TakeTable, ParseSize, ParseTransport,
       ParseTechnology, Contradiction, ParseVendor, ParseFree, TextParsed, MatchDisks, Reboot,
       Parsed, vars
  <2>2. Says(descriptor, criteria)
    BY <2>1, DoneSays
  <2>3. Nameless(criteria) => result \in Listings(Fit(criteria))
    <3>1. result \in Sorted(Matched(criteria)) /\ Matched(criteria) \in SUBSET Disks
      BY <2>1 DEF Ranked, Matched
    <3>2. result \in Listings(Matched(criteria))
      BY <3>1, SortedIsListing DEF Shape
    <3> QED
      BY <3>2, MatchedIsFit DEF Shape
  <2> QED
    BY <1>1, <2>1, <2>2, <2>3 DEF Kept
<1> QED
  BY <1>2, <1>3

\* Whatever names the kernel gives the disks at a boot, a descriptor without a
\* /dev name lists disks with serials of their own in one order: neither what is
\* parsed, nor what matches, nor the order depends on the names.
THEOREM OrderIsKept == Spec => []SameEveryBoot
<1>1. Shape /\ Read /\ ReadExactly /\ Taken /\ Ranked /\ Kept => SameEveryBoot
  <2> SUFFICES ASSUME Shape, Read, ReadExactly, Taken, Ranked, Kept,
                      phase = "done", NameFree, OwnSerials, NEW s \in earlier
               PROVE  s = result
    BY DEF SameEveryBoot
  <2> DEFINE S == Fit(criteria)
  <2>1. Nameless(criteria) /\ Says(descriptor, criteria)
    BY DoneSays DEF NameFree, Nameless
  <2>2. Matched(criteria) = S /\ S \in SUBSET Disks
    BY <2>1, MatchedIsFit DEF Shape, Fit
  <2>3. result \in Listings(S)
    BY <2>2, SortedIsListing DEF Ranked, Shape
  <2>4. s \in Listings(S)
    <3>1. PICK c : Says(descriptor, c) /\ (Nameless(c) => s \in Listings(Fit(c)))
      BY DEF Kept
    <3>2. SameFields(criteria, c)
      BY <2>1, <3>1, SaysOne DEF Shape, Nameless
    <3>3. Fit(c) = S /\ Nameless(c)
      BY <2>1, <3>2, FitIsSame DEF SameFields, Nameless
    <3> QED
      BY <3>1, <3>3
  <2> HIDE DEF S
  <2>5. Elements(result) = S /\ Elements(s) = S
    BY <2>2, <2>3, <2>4, ListingIsAll
  <2>6. \A d, e \in S : SerialOf[d] = SerialOf[e] => d = e
    BY <2>5 DEF OwnSerials
  <2> QED
    BY <2>2, <2>3, <2>4, <2>5, <2>6, OneListing
<1>2. Init => ReadExactly /\ Taken /\ Kept
  BY NothingExact DEF Init, ReadExactly, Taken, Kept
<1> QED
  BY <1>1, <1>2, Inits, ShapeNext, ReadNext, ExactNext, TakenNext, RankedNext, KeptNext, PTL DEF Spec
=============================================================================
