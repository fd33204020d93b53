---------------------------- MODULE HubImagesProofs ----------------------------
(***************************************************************************)
(* Theorems about the readers of a SQLite image and of the frames around   *)
(* it, for every value of their constants.                                 *)
(*                                                                         *)
(* SqlitePage: a page is accepted exactly when it is the one layout of its *)
(* cells.  The page is judged piece by piece; the invariant says that what *)
(* was read so far is the beginning of such a layout, and a refusal is     *)
(* derived from the layout that the page would have to be.                 *)
(*                                                                         *)
(* PackStream: a pack is accepted exactly when it was cut between two      *)
(* sound frames and decodes to what the receipt announced.  The invariant  *)
(* names the frame in hand; what lies in front of it is sound and was      *)
(* counted, and whatever is refused no whole pack could hold.              *)
(*                                                                         *)
(* SqliteWalk: an image is accepted exactly when its B-tree pages make one *)
(* forest of all its pages.  The invariant keeps books that the program    *)
(* does not: for every page in hand the reference that led to it and its   *)
(* place in the forest, for every link still to be followed the reference  *)
(* it follows.  Whatever is refused then contradicts the forest at a page  *)
(* of it, and what is left at the end is a forest because nothing is ahead.*)
(*                                                                         *)
(* SqliteRecord: a payload is read exactly when it is what some row was    *)
(* written as, and as that row.  What the encoder of a varint spells is    *)
(* the shortest run for its number, two different numbers never share a    *)
(* run, and each column stands where the lengths before it say; so the     *)
(* invariant needs only one row in hand, the one that was read so far.     *)
(***************************************************************************)
EXTENDS SqlitePage, PackStream, SqliteWalk, SqliteRecord, FiniteSetTheorems, FunctionTheorems, SequenceTheorems,
        WellFoundedInduction, TLAPS

(* Every nonempty set of natural numbers has a least element.              *)
LEMMA MinOf ==
  ASSUME NEW S \in SUBSET Nat, S # {}
  PROVE  Min(S) \in S /\ \A i \in S : Min(S) <= i
<1>1. \E x \in S : \A y \in S : ~(<<y, x>> \in OpToRel(<, Nat))
  BY NatLessThanWellFounded, WFMin
<1>2. \A x, y \in Nat : <<y, x>> \in OpToRel(<, Nat) <=> y < x
  BY DEF OpToRel
<1>3. \E x \in S : \A y \in S : ~(y < x)
  <2>1. \A x \in S : x \in Nat
    OBVIOUS
  <2> QED BY <1>1, <1>2, <2>1, Zenon
<1>4. \E x \in S : \A y \in S : x <= y
  BY ONLY <1>3, S \in SUBSET Nat
<1> QED
  BY ONLY <1>4 DEF Min

-----------------------------------------------------------------------------
(* The layout of a page, its parts by name: the bytes of the cells, the    *)
(* bytes left over behind the start, where a run of them ends, and the     *)
(* runs wide enough for a free block.                                      *)
Taken == UNION {CellBytes(cells[i]) : i \in DOMAIN cells}
Free == {o \in Start..Size - 1 : o \notin Taken}
EndOf(o) == Min({p \in o..Size : p \notin Free})
Heads == {o \in Free : o - 1 \notin Free /\ EndOf(o) - o >= MinFree}
After(o) == {h \in Heads : h > o}

InBounds == \A i \in DOMAIN cells : Start <= cells[i].at /\ cells[i].at + cells[i].length <= Size
Disjoint == \A i, j \in DOMAIN cells : i # j => CellBytes(cells[i]) \cap CellBytes(cells[j]) = {}
ChainFits ==
  /\ header.first = IF Heads = {} THEN 0 ELSE Min(Heads)
  /\ Heads \subseteq DOMAIN free_block
  /\ \A o \in Heads : free_block[o] = [next |-> IF After(o) = {} THEN 0 ELSE Min(After(o)),
                                       size |-> EndOf(o) - o]
Scraps == {o \in Free : ~\E h \in Heads : o \in h..EndOf(h) - 1}
DirtFits == dirty \subseteq Span(0, PointerEnd) \cup Taken \cup UNION {h..h + MinFree - 1 : h \in Heads}

LEMMA LayoutParts ==
  WellLaidOut <=> /\ PointerEnd <= Start /\ Start <= Size
                  /\ InBounds /\ Disjoint /\ ChainFits
                  /\ header.fragments = Cardinality(Scraps)
                  /\ DirtFits
BY DEF WellLaidOut, InBounds, Disjoint, ChainFits, Scraps, DirtFits, Taken, Free, EndOf, Heads, After, Min

(* What SqlitePage assumes of its inputs, said of the page in hand.        *)
Formed ==
  /\ header \in [first : Nat, start : Nat, fragments : Nat, base : Nat]
  /\ cells \in Seq([at : Nat, length : Nat \ {0}])
  /\ DOMAIN free_block \subseteq Nat /\ free_block \in [DOMAIN free_block -> [next : Nat, size : Nat]]
  /\ \A o \in DOMAIN free_block : free_block[o].next \in DOMAIN free_block \cup {0}
  /\ header.first \in DOMAIN free_block \cup {0}

LEMMA FormedNumbers ==
  ASSUME Formed
  PROVE  /\ Start \in Nat /\ PointerEnd \in Nat /\ Size \in Nat /\ MinFree \in Nat \ {0}
         /\ header.first \in Nat /\ header.fragments \in Nat /\ Len(cells) \in Nat
         /\ DOMAIN cells = 1..Len(cells)
         /\ \A i \in 1..Len(cells) : cells[i].at \in Nat /\ cells[i].length \in Nat \ {0}
         /\ \A o \in DOMAIN free_block : o \in Nat /\ free_block[o].next \in Nat /\ free_block[o].size \in Nat
<1>1. header.first \in Nat /\ header.start \in Nat /\ header.fragments \in Nat /\ header.base \in Nat
  BY DEF Formed
<1>2. Len(cells) \in Nat /\ DOMAIN cells = 1..Len(cells)
  BY DEF Formed
<1>3. \A i \in 1..Len(cells) : cells[i].at \in Nat /\ cells[i].length \in Nat \ {0}
  <2>1. cells \in Seq([at : Nat, length : Nat \ {0}])
    BY DEF Formed
  <2>2. \A i \in 1..Len(cells) : cells[i] \in [at : Nat, length : Nat \ {0}]
    BY <2>1, ElementOfSeq
  <2> QED
    BY <2>2
<1>4. \A o \in DOMAIN free_block : o \in Nat /\ free_block[o].next \in Nat /\ free_block[o].size \in Nat
  BY DEF Formed
<1>5. Start \in Nat /\ PointerEnd \in Nat /\ Size \in Nat /\ MinFree \in Nat \ {0}
  BY <1>1, <1>2, PageAssumption DEF Start, PointerEnd
<1> QED
  BY <1>1, <1>2, <1>3, <1>4, <1>5

LEMMA EndFacts ==
  ASSUME Formed, Start <= Size, NEW o \in Free
  PROVE  /\ o \in Nat /\ o >= Start /\ o < Size
         /\ EndOf(o) \in Nat /\ EndOf(o) > o /\ EndOf(o) <= Size /\ EndOf(o) \notin Free
         /\ \A q \in o..EndOf(o) - 1 : q \in Free
<1>1. Start \in Nat /\ Size \in Nat
  BY FormedNumbers
<1>2. o \in Nat /\ Start <= o /\ o < Size
  BY <1>1 DEF Free
<1> DEFINE S == {p \in o..Size : p \notin Free}
<1>3. Size \in S /\ S \in SUBSET Nat
  BY <1>1, <1>2 DEF Free
<1>4. EndOf(o) \in S /\ \A p \in S : EndOf(o) <= p
  <2> HIDE DEF S
  <2>1. Min(S) \in S /\ \A p \in S : Min(S) <= p
    BY <1>3, MinOf
  <2> QED
    BY <2>1 DEF EndOf, S
<1>5. EndOf(o) # o
  BY <1>4
<1>6. \A q \in o..EndOf(o) - 1 : q \in Free
  BY <1>1, <1>2, <1>4
<1> QED
  BY <1>1, <1>2, <1>4, <1>5, <1>6

(* A run that begins where another ends, or inside it, is the other.       *)
LEMMA RunsApart ==
  ASSUME Formed, Start <= Size, NEW g \in Free, NEW h \in Free, h - 1 \notin Free, g < h
  PROVE  EndOf(g) <= h
<1>1. /\ g \in Nat /\ EndOf(g) \in Nat /\ h \in Nat
      /\ \A q \in g..EndOf(g) - 1 : q \in Free
  BY EndFacts
<1> QED
  BY <1>1

(* Every byte left over lies in exactly the run that begins at the least   *)
(* byte from which all are left over.                                      *)
LEMMA EveryFreeInRun ==
  ASSUME Formed, Start <= Size, NEW o \in Free
  PROVE  \E h \in Free : h - 1 \notin Free /\ h <= o /\ o < EndOf(h)
<1>1. Start \in Nat /\ Size \in Nat /\ o \in Nat /\ Start <= o /\ o < Size
  BY FormedNumbers DEF Free
<1> DEFINE S == {q \in Start..o : \A r \in q..o : r \in Free}
           h == Min(S)
<1>2. o \in S /\ S \in SUBSET Nat
  BY <1>1
<1>3. h \in S /\ \A q \in S : h <= q
  <2> HIDE DEF S
  <2> QED
    BY <1>2, MinOf
<1>4. h \in Nat /\ Start <= h /\ h <= o /\ \A r \in h..o : r \in Free
  BY <1>1, <1>3
<1>5. h \in Free
  BY <1>1, <1>4
<1>6. h - 1 \notin Free
  <2> SUFFICES ASSUME h - 1 \in Free PROVE FALSE
    OBVIOUS
  <2> HIDE DEF h
  <2>1. h - 1 \in Start..o
    BY <1>1, <1>4 DEF Free
  <2>2. \A r \in (h - 1)..o : r \in Free
    BY <1>1, <1>4
  <2> QED
    BY <1>3, <1>4, <2>1, <2>2
<1>7. o < EndOf(h)
  <2> HIDE DEF h
  <2> QED
    BY <1>1, <1>4, <1>5, EndFacts
<1> QED
  BY <1>4, <1>5, <1>6, <1>7

(* The gaps that the reader finds between the live bytes are the runs, and *)
(* what it counts as fragments are the bytes of the runs too narrow for a  *)
(* free block.                                                             *)
LiveIsTaken == \A o \in Start..Size - 1 : o \in live <=> o \in Taken

LEMMA GapsAreRuns ==
  ASSUME Formed, Start <= Size, LiveIsTaken, NEW from \in Nat, NEW end \in Nat
  PROVE  [from |-> from, end |-> end] \in Gaps
           <=> from \in Free /\ from - 1 \notin Free /\ end = EndOf(from)
<1>1. Start \in Nat /\ Size \in Nat
  BY FormedNumbers
<1>2. \A o \in Start..Size - 1 : o \in live <=> o \notin Free
  BY <1>1 DEF Free, LiveIsTaken
<1>3. \A o \in Int : o \in Free => Start <= o /\ o < Size
  BY <1>1 DEF Free
<1>4. [from |-> from, end |-> end] \in Gaps
        <=> /\ from \in Start..Size /\ end \in Start..Size
            /\ from < end /\ Span(from, end) \cap live = {}
            /\ from = Start \/ from - 1 \in live
            /\ end = Size \/ end \in live
  BY DEF Gaps
<1>5. ASSUME [from |-> from, end |-> end] \in Gaps
      PROVE  from \in Free /\ from - 1 \notin Free /\ end = EndOf(from)
  <2>1. /\ Start <= from /\ from <= Size /\ Start <= end /\ end <= Size /\ from < end
        /\ from = Start \/ from - 1 \in live
        /\ end = Size \/ end \in live
    BY <1>1, <1>4, <1>5
  <2>2. \A o \in from..end - 1 : o \in Free
    <3>1. \A o \in from..end - 1 : o \notin live
      BY <1>4, <1>5 DEF Span
    <3> QED
      BY <1>1, <1>2, <2>1, <3>1
  <2>3. from \in Free /\ from - 1 \notin Free
    BY <1>1, <1>2, <1>3, <2>1, <2>2
  <2>4. end \notin Free
    BY <1>1, <1>2, <1>3, <2>1
  <2>5. /\ EndOf(from) \in Nat /\ EndOf(from) > from /\ EndOf(from) \notin Free
        /\ \A q \in from..EndOf(from) - 1 : q \in Free
    BY <2>3, EndFacts
  <2> QED
    BY <2>1, <2>2, <2>3, <2>4, <2>5
<1>6. ASSUME from \in Free, from - 1 \notin Free, end = EndOf(from)
      PROVE  [from |-> from, end |-> end] \in Gaps
  <2>1. /\ from >= Start /\ from < Size /\ end > from /\ end <= Size /\ end \notin Free
        /\ \A q \in from..end - 1 : q \in Free
    BY <1>6, EndFacts
  <2>2. Span(from, end) \cap live = {}
    BY <1>1, <1>2, <1>3, <2>1 DEF Span
  <2>3. from = Start \/ from - 1 \in live
    BY <1>1, <1>2, <1>6, <2>1
  <2>4. end = Size \/ end \in live
    BY <1>1, <1>2, <2>1
  <2> QED
    BY <1>1, <1>4, <2>1, <2>2, <2>3, <2>4
<1> QED
  BY <1>5, <1>6

LEMMA WideAreHeads ==
  ASSUME Formed, Start <= Size, LiveIsTaken
  PROVE  Wide = {[from |-> h, end |-> EndOf(h)] : h \in Heads}
<1>1. Start \in Nat /\ Size \in Nat
  BY FormedNumbers
<1>2. \A h \in Heads : h \in Nat /\ EndOf(h) \in Nat /\ h \in Free /\ h - 1 \notin Free /\ EndOf(h) - h >= MinFree
  BY EndFacts DEF Heads
<1>3. ASSUME NEW g \in Wide PROVE g \in {[from |-> h, end |-> EndOf(h)] : h \in Heads}
  <2>1. g \in Gaps /\ g.end - g.from >= MinFree
    BY DEF Wide
  <2>2. g.from \in Nat /\ g.end \in Nat /\ g = [from |-> g.from, end |-> g.end]
    BY <1>1, <2>1 DEF Gaps
  <2>3. g.from \in Free /\ g.from - 1 \notin Free /\ g.end = EndOf(g.from)
    BY <2>1, <2>2, GapsAreRuns
  <2> QED
    BY <2>1, <2>2, <2>3 DEF Heads
<1>4. ASSUME NEW h \in Heads PROVE [from |-> h, end |-> EndOf(h)] \in Wide
  <2>1. [from |-> h, end |-> EndOf(h)] \in Gaps
    BY <1>2, GapsAreRuns
  <2> QED
    BY <1>2, <2>1 DEF Wide
<1> QED
  BY <1>3, <1>4

LEMMA FragmentsAreScraps ==
  ASSUME Formed, Start <= Size, LiveIsTaken
  PROVE  Fragments = Scraps
<1>1. Start \in Nat /\ Size \in Nat /\ MinFree \in Nat
  BY FormedNumbers
<1>2. ASSUME NEW o \in Fragments PROVE o \in Scraps
  <2>1. o \in Nat /\ Start <= o /\ o < Size
    BY <1>1 DEF Fragments
  <2>2. PICK g \in Gaps \ Wide : o \in Span(g.from, g.end)
    BY DEF Fragments
  <2>3. g.from \in Nat /\ g.end \in Nat /\ g = [from |-> g.from, end |-> g.end]
    BY <1>1 DEF Gaps
  <2>4. g.from \in Free /\ g.from - 1 \notin Free /\ g.end = EndOf(g.from)
    BY <2>3, GapsAreRuns
  <2>5. g.end - g.from < MinFree /\ g.from <= o /\ o < g.end
    BY <1>1, <2>1, <2>2, <2>3 DEF Wide, Span
  <2>6. o \in Free
    BY <2>1, <2>3, <2>4, <2>5, EndFacts
  <2>7. ASSUME NEW h \in Heads, o \in h..EndOf(h) - 1 PROVE FALSE
    <3>1. h \in Free /\ h - 1 \notin Free /\ EndOf(h) - h >= MinFree
      BY DEF Heads
    <3>2. h \in Nat /\ EndOf(h) \in Nat /\ h <= o /\ o < EndOf(h)
      BY <2>1, <2>7, <3>1, EndFacts
    <3>3. h < g.from => EndOf(h) <= g.from
      BY <2>4, <3>1, RunsApart
    <3>4. g.from < h => EndOf(g.from) <= h
      BY <2>4, <3>1, RunsApart
    <3> QED
      BY <1>1, <2>1, <2>3, <2>4, <2>5, <3>1, <3>2, <3>3, <3>4
  <2> QED
    BY <2>6, <2>7 DEF Scraps
<1>3. ASSUME NEW o \in Scraps PROVE o \in Fragments
  <2>1. o \in Free /\ o \in Start..Size - 1 /\ o \in Nat
    BY <1>1 DEF Scraps, Free
  <2>2. PICK h \in Free : h - 1 \notin Free /\ h <= o /\ o < EndOf(h)
    BY <2>1, EveryFreeInRun
  <2>3. h \in Nat /\ EndOf(h) \in Nat
    BY EndFacts
  <2>4. o \in h..EndOf(h) - 1
    BY <2>1, <2>2, <2>3
  <2>5. h \notin Heads
    BY <2>4 DEF Scraps
  <2>6. EndOf(h) - h < MinFree
    BY <1>1, <2>2, <2>3, <2>5 DEF Heads
  <2> DEFINE g == [from |-> h, end |-> EndOf(h)]
  <2>7. g \in Gaps
    BY <2>2, <2>3, GapsAreRuns
  <2>8. g \notin Wide
    BY <1>1, <2>3, <2>6 DEF Wide
  <2>9. o \in Span(g.from, g.end)
    BY <2>4 DEF Span
  <2> QED
    BY <2>1, <2>7, <2>8, <2>9 DEF Fragments
<1> QED
  BY <1>2, <1>3

LEMMA RoomForOneMore ==
  ASSUME NEW s \in Nat, NEW m \in Nat \ {0}, NEW k \in Nat, m * (k + 1) <= s
  PROVE  k < s \div m
OBVIOUS

-----------------------------------------------------------------------------
(* The invariant of the reader of a page.                                  *)
Freed == {o \in Offsets : \E i \in 1..Len(ranges) : ranges[i].from <= o /\ o < ranges[i].end}
Filled(n) == {o \in Offsets : \E i \in 1..n : o \in CellBytes(cells[i])}

(* What one accepted free block established.                               *)
SoundRange(r) ==
  /\ r.from \in DOMAIN free_block /\ r.end = r.from + free_block[r.from].size
  /\ Start <= r.from /\ free_block[r.from].size >= MinFree /\ r.end <= Size
  /\ Span(r.from + MinFree, r.end) \cap dirty = {}
  /\ r.from # 0

(* The blocks read so far are a chain that leads to pos.                   *)
Chained(pos) ==
  /\ ranges \in Seq([from : Nat, end : Nat])
  /\ \A i \in 1..Len(ranges) : SoundRange(ranges[i]) /\ MinFree * i <= ranges[i].end
  /\ \A i, j \in 1..Len(ranges) : i < j => ranges[i].end <= ranges[j].from
  /\ header.first = IF ranges = <<>> THEN pos ELSE ranges[1].from
  /\ \A i \in 1..Len(ranges) :
       free_block[ranges[i].from].next = IF i = Len(ranges) THEN pos ELSE ranges[i + 1].from

ReadingBlocks ==
  /\ Chained(at) /\ at \in DOMAIN free_block \cup {0}
  /\ at # 0 => \A i \in 1..Len(ranges) : ranges[i].end <= at
  /\ live = Span(0, PointerEnd) /\ used = live \cup Freed

(* The first n cells fit behind the start and touch nothing.               *)
CellsFit(n) ==
  /\ \A i \in 1..n : /\ Start <= cells[i].at /\ cells[i].at + cells[i].length <= Size
                     /\ CellBytes(cells[i]) \cap Freed = {}
  /\ \A i, j \in 1..n : i # j => CellBytes(cells[i]) \cap CellBytes(cells[j]) = {}

ReadingCells ==
  /\ Chained(0)
  /\ at \in 1..Len(cells) + 1 /\ CellsFit(at - 1)
  /\ live = Span(0, PointerEnd) \cup Filled(at - 1) /\ used = live \cup Freed

PageInv ==
  /\ Formed /\ PageTypeOK /\ page_phase # "idle"
  /\ page_phase = "header" => used = {} /\ live = {} /\ ranges = <<>>
  /\ page_phase \in {"blocks", "cells"} => PointerEnd <= Start /\ Start <= Size
  /\ page_phase = "blocks" => ReadingBlocks
  /\ page_phase = "cells" => ReadingCells
  /\ LayoutExact

-----------------------------------------------------------------------------
(* A page that is well laid out leads the reader from run to run.          *)
LEMMA RangeNumbers ==
  ASSUME Formed, NEW pos, Chained(pos)
  PROVE  /\ Len(ranges) \in Nat /\ DOMAIN ranges = 1..Len(ranges)
         /\ \A i \in 1..Len(ranges) :
              /\ ranges[i] = [from |-> ranges[i].from, end |-> ranges[i].end]
              /\ ranges[i].from \in Nat /\ ranges[i].end \in Nat
              /\ ranges[i].from < ranges[i].end /\ ranges[i].from # 0
<1>1. ranges \in Seq([from : Nat, end : Nat])
  BY DEF Chained
<1>2. Len(ranges) \in Nat /\ DOMAIN ranges = 1..Len(ranges)
  BY <1>1
<1>3. \A i \in 1..Len(ranges) : ranges[i] \in [from : Nat, end : Nat]
  BY <1>1, ElementOfSeq
<1>4. \A i \in 1..Len(ranges) : SoundRange(ranges[i])
  BY DEF Chained
<1> SUFFICES ASSUME NEW i \in 1..Len(ranges)
             PROVE  ranges[i].from < ranges[i].end /\ ranges[i].from # 0
  BY <1>2, <1>3
<1>5. /\ ranges[i].end = ranges[i].from + free_block[ranges[i].from].size
      /\ free_block[ranges[i].from].size >= MinFree /\ ranges[i].from # 0
      /\ ranges[i].from \in DOMAIN free_block
  BY <1>4 DEF SoundRange
<1> QED
  BY <1>3, <1>5, FormedNumbers

(* Whether the chain leads on, given the run it is at.                     *)
LEMMA HeadFacts ==
  ASSUME Formed, WellLaidOut, NEW h \in Heads
  PROVE  /\ h \in Nat /\ h # 0 /\ h >= Start /\ h \in Free /\ h - 1 \notin Free
         /\ EndOf(h) \in Nat /\ EndOf(h) <= Size /\ EndOf(h) - h >= MinFree
         /\ \A q \in h..EndOf(h) - 1 : q \in Free
         /\ h \in DOMAIN free_block
         /\ free_block[h].size = EndOf(h) - h
         /\ free_block[h].next = IF After(h) = {} THEN 0 ELSE Min(After(h))
<1>1. PointerEnd <= Start /\ Start <= Size /\ ChainFits
  BY LayoutParts
<1>2. h \in Free /\ h - 1 \notin Free /\ EndOf(h) - h >= MinFree
  BY DEF Heads
<1>3. /\ h \in Nat /\ h >= Start /\ h < Size /\ EndOf(h) \in Nat /\ EndOf(h) <= Size
      /\ \A q \in h..EndOf(h) - 1 : q \in Free
  BY <1>1, <1>2, EndFacts
<1>4. /\ h \in DOMAIN free_block /\ free_block[h].size = EndOf(h) - h
      /\ free_block[h].next = IF After(h) = {} THEN 0 ELSE Min(After(h))
  <2> DEFINE next == IF After(h) = {} THEN 0 ELSE Min(After(h))
  <2>1. free_block[h] = [next |-> next, size |-> EndOf(h) - h] /\ h \in DOMAIN free_block
    BY <1>1, Zenon DEF ChainFits
  <2> HIDE DEF next
  <2>2. free_block[h].next = next /\ free_block[h].size = EndOf(h) - h
    BY <2>1
  <2> QED
    BY <2>1, <2>2 DEF next
<1>5. h # 0
  BY <1>3, FormedNumbers DEF Start
<1> QED
  BY <1>2, <1>3, <1>4, <1>5

LEMMA AfterFacts ==
  ASSUME Formed, WellLaidOut, NEW h \in Heads
  PROVE  /\ After(h) = {} <=> free_block[h].next = 0
         /\ After(h) # {} => /\ free_block[h].next \in After(h)
                             /\ \A g \in After(h) : free_block[h].next <= g
<1>1. \A g \in Heads : g \in Nat /\ g # 0
  BY HeadFacts
<1>2. After(h) \in SUBSET Nat /\ 0 \notin After(h)
  BY <1>1 DEF After
<1>3. After(h) # {} => Min(After(h)) \in After(h) /\ \A g \in After(h) : Min(After(h)) <= g
  BY <1>2, MinOf
<1>4. free_block[h].next = IF After(h) = {} THEN 0 ELSE Min(After(h))
  BY HeadFacts
<1> QED
  BY <1>2, <1>3, <1>4

LEMMA FirstFacts ==
  ASSUME Formed, WellLaidOut
  PROVE  /\ Heads = {} <=> header.first = 0
         /\ Heads # {} => header.first \in Heads /\ \A g \in Heads : header.first <= g
<1>1. \A g \in Heads : g \in Nat /\ g # 0
  BY HeadFacts
<1>2. Heads \in SUBSET Nat /\ 0 \notin Heads
  BY <1>1
<1>3. Heads # {} => Min(Heads) \in Heads /\ \A g \in Heads : Min(Heads) <= g
  BY <1>2, MinOf
<1>4. header.first = IF Heads = {} THEN 0 ELSE Min(Heads)
  BY LayoutParts DEF ChainFits
<1> QED
  BY <1>2, <1>3, <1>4

(* Every block read is a run: the first one that was not would follow one  *)
(* that is, or be the first of the chain.                                  *)
LEMMA RangesAreHeads ==
  ASSUME Formed, WellLaidOut, NEW pos, Chained(pos)
  PROVE  \A i \in 1..Len(ranges) : ranges[i].from \in Heads /\ ranges[i].end = EndOf(ranges[i].from)
<1>1. /\ Len(ranges) \in Nat
      /\ \A i \in 1..Len(ranges) : ranges[i].from \in Nat /\ ranges[i].end \in Nat /\ ranges[i].from # 0
  BY RangeNumbers
<1> DEFINE S == {i \in 1..Len(ranges) : ranges[i].from \notin Heads}
           k == Min(S)
<1>2. S = {}
  <2> SUFFICES ASSUME S # {} PROVE FALSE
    OBVIOUS
  <2>1. k \in S /\ \A i \in S : k <= i
    <3>1. S \in SUBSET Nat
      BY <1>1
    <3> HIDE DEF S
    <3> QED BY <3>1, MinOf
  <2>2. k \in 1..Len(ranges) /\ ranges[k].from \notin Heads
    BY <2>1
  <2>3. \A i \in 1..Len(ranges) : i < k => ranges[i].from \in Heads
    <3> SUFFICES ASSUME NEW i \in 1..Len(ranges), i < k, ranges[i].from \notin Heads PROVE FALSE
      OBVIOUS
    <3>1. i \in S
      OBVIOUS
    <3> HIDE DEF S, k
    <3> QED BY <1>1, <2>1, <2>2, <3>1
  <2> HIDE DEF S, k
  <2>4. CASE k = 1
    <3>1. ranges # <<>>
      BY <1>1, <2>2, <2>4
    <3>2. header.first = ranges[k].from
      BY <2>4, <3>1 DEF Chained
    <3>3. header.first # 0
      BY <1>1, <2>2, <3>2
    <3> QED
      BY <2>2, <3>2, <3>3, FirstFacts
  <2>5. CASE k # 1
    <3>1. k - 1 \in 1..Len(ranges) /\ k - 1 # Len(ranges) /\ (k - 1) + 1 = k /\ k - 1 < k
      BY <1>1, <2>2, <2>5
    <3>2. free_block[ranges[k - 1].from].next = ranges[k].from
      BY <3>1 DEF Chained
    <3>3. ranges[k - 1].from \in Heads
      BY <2>3, <3>1
    <3>4. free_block[ranges[k - 1].from].next # 0
      BY <1>1, <2>2, <3>2
    <3>5. ranges[k].from \in After(ranges[k - 1].from)
      BY <3>2, <3>3, <3>4, AfterFacts
    <3> QED
      BY <2>2, <3>5 DEF After
  <2> QED
    BY <2>4, <2>5
<1>3. \A i \in 1..Len(ranges) : ranges[i].from \in Heads
  BY <1>2
<1>4. ASSUME NEW i \in 1..Len(ranges) PROVE ranges[i].end = EndOf(ranges[i].from)
  <2>1. ranges[i].end = ranges[i].from + free_block[ranges[i].from].size
    BY DEF Chained, SoundRange
  <2>2. ranges[i].from \in Nat /\ EndOf(ranges[i].from) \in Nat
        /\ free_block[ranges[i].from].size = EndOf(ranges[i].from) - ranges[i].from
    BY <1>1, <1>3, HeadFacts
  <2> QED
    BY <2>1, <2>2
<1> QED
  BY <1>3, <1>4

(* Where the chain leads to, if anywhere, is a run behind all it passed.   *)
LEMMA NextIsHead ==
  ASSUME Formed, WellLaidOut, NEW pos, Chained(pos), pos # 0
  PROVE  /\ pos \in Heads
         /\ \A i \in 1..Len(ranges) : ranges[i].end <= pos
<1>1. /\ Len(ranges) \in Nat
      /\ \A i \in 1..Len(ranges) : ranges[i].from \in Nat /\ ranges[i].end \in Nat /\ ranges[i].from < ranges[i].end
  BY RangeNumbers
<1>2. CASE ranges = <<>>
  BY <1>2, FirstFacts DEF Chained
<1>3. CASE ranges # <<>>
  <2> DEFINE n == Len(ranges)
  <2>1. n \in 1..Len(ranges)
    BY <1>1, <1>3 DEF Chained
  <2>2. ranges[n].from \in Heads /\ ranges[n].end = EndOf(ranges[n].from)
    BY <2>1, RangesAreHeads
  <2>3. free_block[ranges[n].from].next = pos
    BY <2>1 DEF Chained
  <2>4. pos \in After(ranges[n].from)
    BY <2>2, <2>3, AfterFacts
  <2>5. pos \in Heads /\ ranges[n].from < pos
    BY <2>4 DEF After
  <2>6. ranges[n].end <= pos
    <3>1. Start <= Size
      BY LayoutParts
    <3>2. ranges[n].from \in Free /\ pos \in Free /\ pos - 1 \notin Free
      BY <2>2, <2>5 DEF Heads
    <3> QED
      BY <2>2, <2>5, <3>1, <3>2, RunsApart
  <2>7. pos \in Nat
    BY <2>5, HeadFacts
  <2>8. \A i \in 1..Len(ranges) : i < n => ranges[i].end <= ranges[n].from
    BY <2>1 DEF Chained
  <2> QED
    BY <1>1, <2>1, <2>5, <2>6, <2>7, <2>8
<1> QED
  BY <1>2, <1>3

(* A chain that ends passed every run.                                     *)
LEMMA ChainPassesAll ==
  ASSUME Formed, WellLaidOut, Chained(0), NEW h \in Heads
  PROVE  \E i \in 1..Len(ranges) : ranges[i].from = h
<1>1. /\ Len(ranges) \in Nat /\ h \in Nat
      /\ \A i \in 1..Len(ranges) : ranges[i].from \in Nat /\ ranges[i].from \in Heads
  BY RangeNumbers, RangesAreHeads, HeadFacts
<1> DEFINE n == Len(ranges)
           S == {i \in 1..n : h <= ranges[i].from}
           k == Min(S)
<1>2. ranges # <<>>
  BY FirstFacts DEF Chained
<1>3. n \in S
  <2>1. n \in 1..n
    BY <1>1, <1>2 DEF Chained
  <2>2. free_block[ranges[n].from].next = 0
    BY <2>1 DEF Chained
  <2>3. After(ranges[n].from) = {}
    BY <1>1, <2>1, <2>2, AfterFacts
  <2>4. ~(h > ranges[n].from)
    BY <2>3 DEF After
  <2> QED
    BY <1>1, <2>1, <2>4
<1>4. k \in S /\ \A i \in S : k <= i
  <2>1. S \in SUBSET Nat
    BY <1>1
  <2> HIDE DEF S
  <2> QED BY <1>3, <2>1, MinOf
<1>5. k \in 1..n /\ h <= ranges[k].from
  BY <1>4
<1>6. \A i \in 1..n : i < k => ranges[i].from < h
  <2> SUFFICES ASSUME NEW i \in 1..n, i < k, ~(ranges[i].from < h) PROVE FALSE
    OBVIOUS
  <2>1. i \in S
    BY <1>1
  <2> HIDE DEF S, k
  <2> QED BY <1>1, <1>4, <1>5, <2>1
<1> HIDE DEF S, k
<1>7. CASE k = 1
  <2>1. header.first = ranges[k].from
    BY <1>2, <1>7 DEF Chained
  <2> QED
    BY <1>1, <1>5, <2>1, FirstFacts
<1>8. CASE k # 1
  <2>1. k - 1 \in 1..n /\ k - 1 # n /\ (k - 1) + 1 = k /\ k - 1 < k
    BY <1>1, <1>5, <1>8
  <2>2. free_block[ranges[k - 1].from].next = ranges[k].from
    BY <2>1 DEF Chained
  <2>3. h \in After(ranges[k - 1].from) /\ ranges[k - 1].from \in Heads
    BY <1>1, <1>6, <2>1 DEF After
  <2>4. ranges[k].from <= h
    BY <2>2, <2>3, AfterFacts
  <2> QED
    BY <1>1, <1>5, <2>4
<1> QED
  BY <1>7, <1>8

(* The bytes of the blocks read lie in runs.                               *)
LEMMA FreedIsFree ==
  ASSUME Formed, WellLaidOut, NEW pos, Chained(pos)
  PROVE  \A o \in Freed : o \in Free
<1> TAKE o \in Freed
<1>1. PICK i \in 1..Len(ranges) : ranges[i].from <= o /\ o < ranges[i].end
  BY DEF Freed
<1>2. o \in Nat
  BY FormedNumbers DEF Freed, Offsets
<1>3. /\ ranges[i].from \in Nat /\ ranges[i].end \in Nat
      /\ ranges[i].from \in Heads /\ ranges[i].end = EndOf(ranges[i].from)
  BY RangeNumbers, RangesAreHeads
<1>4. o \in ranges[i].from..EndOf(ranges[i].from) - 1
  BY <1>1, <1>2, <1>3
<1> QED
  BY <1>3, <1>4, HeadFacts

(* A refusal by the header, by a block, by the list of cells or by a cell  *)
(* shows that the page is not well laid out.                               *)
LEMMA NextBlockFits ==
  ASSUME Formed, WellLaidOut, ReadingBlocks, at # 0
  PROVE  Len(ranges) < Size \div MinFree /\ BlockFits(at, free_block[at])
<1> DEFINE b == free_block[at]
<1>1. /\ Start \in Nat /\ Size \in Nat /\ MinFree \in Nat \ {0} /\ PointerEnd \in Nat
      /\ PointerEnd <= Start /\ Start <= Size
  BY FormedNumbers, LayoutParts
<1>2. Chained(at)
  BY DEF ReadingBlocks
<1>3. at \in Heads /\ \A i \in 1..Len(ranges) : ranges[i].end <= at
  BY <1>2, NextIsHead
<1>4. /\ at \in Nat /\ at >= Start /\ at \in Free /\ at - 1 \notin Free
      /\ EndOf(at) \in Nat /\ EndOf(at) <= Size /\ EndOf(at) - at >= MinFree
      /\ b.size = EndOf(at) - at
      /\ \A q \in at..EndOf(at) - 1 : q \in Free
  BY <1>3, HeadFacts
<1>5. Len(ranges) < Size \div MinFree
  <2> DEFINE n == Len(ranges)
  <2>1. n \in Nat
    BY <1>2, RangeNumbers
  <2>2. MinFree * n <= at
    <3>1. CASE n = 0
      BY <1>1, <1>4, <3>1
    <3>2. CASE n # 0
      <4>1. n \in 1..n
        BY <2>1, <3>2
      <4>2. MinFree * n <= ranges[n].end /\ ranges[n].end <= at /\ ranges[n].end \in Nat
        BY <1>2, <1>3, <4>1, RangeNumbers DEF Chained
      <4>3. MinFree * n \in Nat
        BY <1>1, <2>1
      <4> QED
        BY <1>4, <4>2, <4>3
    <3> QED
      BY <3>1, <3>2
  <2>3. MinFree * (n + 1) = MinFree * n + MinFree /\ MinFree * n \in Nat
    BY <1>1, <2>1
  <2>4. MinFree * (n + 1) <= Size
    BY <1>1, <1>4, <2>2, <2>3
  <2> HIDE DEF n
  <2>5. n < Size \div MinFree
    BY <1>1, <2>1, <2>4, RoomForOneMore
  <2> QED
    BY <2>5 DEF n
<1>6. at + b.size = EndOf(at)
  BY <1>4
<1>7. Span(at, at + b.size) \cap used = {}
  <2>1. \A o \in at..EndOf(at) - 1 : o \notin Span(0, PointerEnd)
    BY <1>1, <1>4 DEF Span
  <2>2. \A o \in at..EndOf(at) - 1 : o \notin Freed
    <3> SUFFICES ASSUME NEW o \in at..EndOf(at) - 1, o \in Freed PROVE FALSE
      OBVIOUS
    <3>1. PICK i \in 1..Len(ranges) : ranges[i].from <= o /\ o < ranges[i].end
      BY DEF Freed
    <3>2. ranges[i].end \in Nat /\ ranges[i].end <= at
      BY <1>2, <1>3, RangeNumbers
    <3> QED
      BY <1>4, <3>1, <3>2
  <2> QED
    BY <1>6, <2>1, <2>2 DEF ReadingBlocks, Span
<1>8. Span(at + MinFree, at + b.size) \cap dirty = {}
  <2> SUFFICES ASSUME NEW o \in dirty, o \in Span(at + MinFree, at + b.size) PROVE FALSE
    OBVIOUS
  <2>1. o \in Nat /\ at + MinFree <= o /\ o < EndOf(at)
    BY <1>1, <1>4, <1>6 DEF Span
  <2>2. o \in Free
    BY <1>1, <1>4, <2>1
  <2>3. o \notin Taken /\ o >= Start
    BY <1>1, <2>1, <2>2 DEF Free
  <2>4. o \notin Span(0, PointerEnd)
    BY <1>1, <2>3 DEF Span
  <2>5. PICK h \in Heads : o \in h..h + MinFree - 1
    BY <2>3, <2>4, LayoutParts DEF DirtFits
  <2>6. /\ h \in Nat /\ h \in Free /\ h - 1 \notin Free /\ EndOf(h) \in Nat /\ EndOf(h) - h >= MinFree
    BY HeadFacts
  <2>7. h < at => EndOf(h) <= at
    BY <1>1, <1>4, <2>6, RunsApart
  <2>8. at < h => EndOf(at) <= h
    BY <1>1, <1>4, <2>6, RunsApart
  <2> QED
    BY <1>1, <1>4, <2>1, <2>5, <2>6, <2>7, <2>8
<1>9. b.next # 0 => b.next >= at + b.size
  <2> SUFFICES ASSUME b.next # 0 PROVE b.next >= EndOf(at)
    BY <1>6
  <2>1. b.next \in After(at)
    BY <1>3, AfterFacts
  <2>2. b.next \in Heads /\ at < b.next
    BY <2>1 DEF After
  <2>3. b.next \in Nat /\ b.next \in Free /\ b.next - 1 \notin Free
    BY <2>2, HeadFacts
  <2>4. EndOf(at) <= b.next
    BY <1>1, <1>4, <2>2, <2>3, RunsApart
  <2> QED
    BY <1>4, <2>3, <2>4
<1>10. Start <= at /\ at <= Size - MinFree /\ b.size >= MinFree /\ at + b.size <= Size
  BY <1>1, <1>4, <1>6
<1> QED
  BY <1>5, <1>7, <1>8, <1>9, <1>10 DEF BlockFits

LEMMA NoTwoCellsAlike ==
  ASSUME Formed, WellLaidOut
  PROVE  \A i, j \in DOMAIN cells : cells[i].at = cells[j].at => i = j
<1> SUFFICES ASSUME NEW i \in DOMAIN cells, NEW j \in DOMAIN cells, cells[i].at = cells[j].at, i # j
             PROVE  FALSE
  OBVIOUS
<1>1. /\ cells[i].at \in Nat /\ cells[i].length \in Nat \ {0}
      /\ cells[j].at \in Nat /\ cells[j].length \in Nat \ {0}
  BY FormedNumbers
<1>2. cells[i].at \in CellBytes(cells[i]) /\ cells[i].at \in CellBytes(cells[j])
  BY <1>1 DEF CellBytes, Span
<1> QED
  BY <1>2, LayoutParts DEF Disjoint

LEMMA FilledIsTaken ==
  ASSUME Formed, NEW n \in Nat, n <= Len(cells), NEW o \in Filled(n)
  PROVE  o \in Taken
<1>1. PICK i \in 1..n : o \in CellBytes(cells[i])
  BY DEF Filled
<1>2. i \in DOMAIN cells
  BY FormedNumbers
<1> QED
  BY <1>1, <1>2 DEF Taken

LEMMA CellNumbers ==
  ASSUME Formed, ReadingCells
  PROVE  /\ at \in Nat /\ at >= 1 /\ at <= Len(cells) + 1 /\ at - 1 \in Nat /\ at - 1 <= Len(cells)
         /\ CellsFit(at - 1)
BY FormedNumbers DEF ReadingCells

LEMMA NextCellFits ==
  ASSUME Formed, WellLaidOut, ReadingCells, at <= Len(cells)
  PROVE  CellFits(cells[at])
<1> DEFINE c == cells[at]
<1>1. at \in DOMAIN cells /\ at \in Nat /\ at - 1 \in Nat /\ at - 1 <= Len(cells)
  BY FormedNumbers, CellNumbers
<1>2. /\ Start \in Nat /\ Size \in Nat /\ PointerEnd \in Nat /\ PointerEnd <= Start
      /\ c.at \in Nat /\ c.length \in Nat \ {0}
  BY <1>1, FormedNumbers, LayoutParts
<1>3. Start <= c.at /\ c.at + c.length <= Size
  BY <1>1, LayoutParts DEF InBounds
<1>4. ASSUME NEW o \in CellBytes(c), o \in used PROVE FALSE
  <2>1. o \in Taken /\ o >= Start /\ o \in Nat
    BY <1>1, <1>2, <1>3 DEF Taken, CellBytes, Span
  <2>2. o \notin Span(0, PointerEnd)
    BY <1>2, <2>1 DEF Span
  <2>3. o \notin Freed
    <3>1. \A f \in Freed : f \in Free
      BY FreedIsFree DEF ReadingCells
    <3> QED
      BY <2>1, <3>1 DEF Free
  <2>4. o \in Filled(at - 1)
    BY <1>4, <2>2, <2>3 DEF ReadingCells
  <2>5. PICK i \in 1..at - 1 : o \in CellBytes(cells[i])
    BY <2>4 DEF Filled
  <2>6. i \in DOMAIN cells /\ i # at
    BY <1>1, FormedNumbers
  <2> QED
    BY <1>1, <1>4, <2>5, <2>6, LayoutParts DEF Disjoint
<1>5. c.at < Size
  BY <1>2, <1>3
<1> QED
  BY <1>3, <1>4, <1>5 DEF CellFits, CellBytes

LEMMA AllLiveTaken ==
  ASSUME Formed, ReadingCells, at > Len(cells), PointerEnd <= Start
  PROVE  LiveIsTaken /\ at - 1 = Len(cells)
<1>1. at - 1 = Len(cells) /\ Len(cells) \in Nat
  BY FormedNumbers, CellNumbers
<1>2. Start \in Nat /\ Size \in Nat /\ PointerEnd \in Nat
  BY FormedNumbers
<1>3. ASSUME NEW o \in Start..Size - 1 PROVE o \in live <=> o \in Taken
  <2>1. o \notin Span(0, PointerEnd) /\ o \in Offsets
    BY <1>2 DEF Span, Offsets
  <2>2. live = Span(0, PointerEnd) \cup Filled(Len(cells))
    BY <1>1 DEF ReadingCells
  <2>3. o \in Filled(Len(cells)) <=> o \in Taken
    <3>1. o \in Filled(Len(cells)) <=> \E i \in 1..Len(cells) : o \in CellBytes(cells[i])
      BY <2>1 DEF Filled
    <3>2. o \in Taken <=> \E i \in 1..Len(cells) : o \in CellBytes(cells[i])
      BY FormedNumbers DEF Taken
    <3> QED
      BY <3>1, <3>2
  <2> QED
    BY <2>1, <2>2, <2>3
<1> QED
  BY <1>1, <1>3 DEF LiveIsTaken

(* A page that is well laid out passes the account of its free space.      *)
LEMMA LaidOutIsAccepted ==
  ASSUME Formed, WellLaidOut, ReadingCells, at > Len(cells)
  PROVE  IsListOf(ranges, Wide) /\ Cardinality(Fragments) = header.fragments /\ dirty \subseteq used
<1>1. /\ Start \in Nat /\ Size \in Nat /\ MinFree \in Nat \ {0} /\ PointerEnd \in Nat
      /\ PointerEnd <= Start /\ Start <= Size
  BY FormedNumbers, LayoutParts
<1>2. LiveIsTaken /\ at - 1 = Len(cells)
  BY <1>1, AllLiveTaken
<1>3. Chained(0)
  BY DEF ReadingCells
<1>4. /\ Len(ranges) \in Nat /\ DOMAIN ranges = 1..Len(ranges)
      /\ \A i \in 1..Len(ranges) :
           /\ ranges[i] = [from |-> ranges[i].from, end |-> ranges[i].end]
           /\ ranges[i].from \in Nat /\ ranges[i].end \in Nat /\ ranges[i].from < ranges[i].end
           /\ ranges[i].from \in Heads /\ ranges[i].end = EndOf(ranges[i].from)
  BY <1>3, RangeNumbers, RangesAreHeads
<1>5. \A i, j \in 1..Len(ranges) : i < j => ranges[i].end <= ranges[j].from
  BY <1>3 DEF Chained
<1>6. Ascending(ranges)
  BY <1>4, <1>5 DEF Ascending
<1>7. {ranges[i] : i \in DOMAIN ranges} = Wide
  <2>1. Wide = {[from |-> h, end |-> EndOf(h)] : h \in Heads}
    BY <1>1, <1>2, WideAreHeads
  <2>2. \A i \in 1..Len(ranges) : ranges[i] \in Wide
    BY <1>4, <2>1
  <2>3. ASSUME NEW g \in Wide PROVE \E i \in 1..Len(ranges) : ranges[i] = g
    <3>1. PICK h \in Heads : g = [from |-> h, end |-> EndOf(h)]
      BY <2>1
    <3>2. PICK i \in 1..Len(ranges) : ranges[i].from = h
      BY <1>3, ChainPassesAll
    <3> QED
      BY <1>4, <3>1, <3>2
  <2> QED
    BY <1>4, <2>2, <2>3
<1>8. Len(ranges) = Cardinality(Wide)
  <2>1. \A i, j \in 1..Len(ranges) : ranges[i] = ranges[j] => i = j
    <3> SUFFICES ASSUME NEW i \in 1..Len(ranges), NEW j \in 1..Len(ranges), ranges[i] = ranges[j], i < j
                 PROVE  FALSE
      BY <1>4
    <3> QED
      BY <1>4, <1>5
  <2> DEFINE place == [i \in 1..Len(ranges) |-> ranges[i]]
  <2>2. place \in Bijection(1..Len(ranges), Wide)
    <3>1. place \in [1..Len(ranges) -> Wide]
      BY <1>4, <1>7
    <3>2. \A i, j \in 1..Len(ranges) : place[i] = place[j] => i = j
      BY <2>1
    <3>3. \A g \in Wide : \E i \in 1..Len(ranges) : place[i] = g
      BY <1>4, <1>7
    <3> HIDE DEF place
    <3>4. place \in Injection(1..Len(ranges), Wide)
      BY <3>1, <3>2, Fun_IsInj
    <3>5. place \in Surjection(1..Len(ranges), Wide)
      BY <3>1, <3>3, Fun_IsSurj
    <3> QED
      BY <3>4, <3>5 DEF Bijection
  <2> HIDE DEF place
  <2>3. ExistsBijection(1..Len(ranges), Wide)
    BY <2>2 DEF ExistsBijection
  <2> QED
    BY <1>4, <2>3, FS_CountingElements
<1>9. Cardinality(Fragments) = header.fragments
  BY <1>1, <1>2, FragmentsAreScraps, LayoutParts
<1>10. ASSUME NEW o \in dirty PROVE o \in used
  <2>1. used = Span(0, PointerEnd) \cup Filled(Len(cells)) \cup Freed
    BY <1>2 DEF ReadingCells
  <2>2. CASE o \in Taken
    <3>1. PICK i \in DOMAIN cells : o \in CellBytes(cells[i])
      BY <2>2 DEF Taken
    <3>2. /\ cells[i].at \in Nat /\ cells[i].length \in Nat /\ i \in 1..Len(cells)
          /\ Start <= cells[i].at /\ cells[i].at + cells[i].length <= Size
      BY FormedNumbers, LayoutParts DEF InBounds
    <3>3. o \in Offsets
      BY <1>1, <3>1, <3>2 DEF CellBytes, Span, Offsets
    <3> QED
      BY <2>1, <3>1, <3>2, <3>3 DEF Filled
  <2>3. ASSUME NEW h \in Heads, o \in h..h + MinFree - 1 PROVE o \in Freed
    <3>1. PICK i \in 1..Len(ranges) : ranges[i].from = h
      BY <1>3, ChainPassesAll
    <3>2. /\ h \in Nat /\ EndOf(h) \in Nat /\ EndOf(h) <= Size /\ EndOf(h) - h >= MinFree
      BY HeadFacts
    <3>3. ranges[i].end = EndOf(h)
      BY <1>4, <3>1
    <3>4. o \in Offsets /\ h <= o /\ o < EndOf(h)
      BY <1>1, <2>3, <3>2 DEF Offsets
    <3> QED
      BY <3>1, <3>3, <3>4 DEF Freed
  <2> QED
    BY <2>1, <2>2, <2>3, LayoutParts DEF DirtFits
<1> QED
  BY <1>6, <1>7, <1>8, <1>9, <1>10 DEF IsListOf

(* A page that passes the account is well laid out.                        *)
LEMMA MinIs ==
  ASSUME NEW S \in SUBSET Nat, NEW x \in S, \A p \in S : x <= p
  PROVE  Min(S) = x
<1>1. Min(S) \in S /\ Min(S) <= x
  BY MinOf
<1>2. Min(S) \in Nat /\ x \in Nat /\ x <= Min(S)
  BY <1>1
<1> QED
  BY <1>1, <1>2

LEMMA AcceptedChain ==
  ASSUME Formed, Start <= Size, LiveIsTaken, Chained(0), {ranges[i] : i \in DOMAIN ranges} = Wide
  PROVE  ChainFits
<1>1. /\ Len(ranges) \in Nat /\ DOMAIN ranges = 1..Len(ranges)
      /\ \A i \in 1..Len(ranges) :
           /\ ranges[i] = [from |-> ranges[i].from, end |-> ranges[i].end]
           /\ ranges[i].from \in Nat /\ ranges[i].end \in Nat /\ ranges[i].from < ranges[i].end
  BY RangeNumbers
<1>2. Wide = {[from |-> h, end |-> EndOf(h)] : h \in Heads}
  BY WideAreHeads
<1>3. ASSUME NEW i \in 1..Len(ranges) PROVE ranges[i].from \in Heads /\ ranges[i].end = EndOf(ranges[i].from)
  <2>1. ranges[i] \in Wide
    BY <1>1
  <2>2. PICK h \in Heads : ranges[i] = [from |-> h, end |-> EndOf(h)]
    BY <1>2, <2>1
  <2> QED
    BY <2>2
<1>4. ASSUME NEW h \in Heads PROVE \E i \in 1..Len(ranges) : ranges[i].from = h
  <2>1. [from |-> h, end |-> EndOf(h)] \in Wide
    BY <1>2
  <2>2. PICK i \in DOMAIN ranges : ranges[i] = [from |-> h, end |-> EndOf(h)]
    BY <2>1
  <2> QED
    BY <1>1, <2>2
<1>5. \A i, j \in 1..Len(ranges) : i < j => ranges[i].from < ranges[j].from
  <2>1. \A i, j \in 1..Len(ranges) : i < j => ranges[i].end <= ranges[j].from
    BY DEF Chained
  <2> QED
    BY <1>1, <2>1
<1>6. Heads \in SUBSET Nat
  BY EndFacts DEF Heads
<1>7. header.first = IF Heads = {} THEN 0 ELSE Min(Heads)
  <2>1. CASE ranges = <<>>
    BY <1>4, <2>1 DEF Chained
  <2>2. CASE ranges # <<>>
    <3>1. 1 \in 1..Len(ranges) /\ header.first = ranges[1].from
      <4>1. header.first = ranges[1].from /\ ranges \in Seq([from : Nat, end : Nat])
        BY <2>2 DEF Chained
      <4> QED
        BY <2>2, <4>1
    <3>2. ranges[1].from \in Heads
      BY <1>3, <3>1
    <3>3. \A h \in Heads : ranges[1].from <= h
      BY <1>1, <1>4, <1>5, <3>1
    <3> QED
      BY <1>6, <3>1, <3>2, <3>3, MinIs
  <2> QED
    BY <2>1, <2>2
<1>8. ASSUME NEW h \in Heads
      PROVE  /\ h \in DOMAIN free_block
             /\ free_block[h] = [next |-> IF After(h) = {} THEN 0 ELSE Min(After(h)), size |-> EndOf(h) - h]
  <2>1. PICK i \in 1..Len(ranges) : ranges[i].from = h
    BY <1>4
  <2>2. h \in DOMAIN free_block /\ ranges[i].end = h + free_block[h].size
    BY <2>1 DEF Chained, SoundRange
  <2>3. free_block[h].next = IF i = Len(ranges) THEN 0 ELSE ranges[i + 1].from
    BY <2>1 DEF Chained
  <2>4. free_block[h] = [next |-> free_block[h].next, size |-> free_block[h].size]
        /\ free_block[h].size \in Nat /\ h \in Nat
    BY <2>2 DEF Formed
  <2>5. free_block[h].size = EndOf(h) - h
    BY <1>1, <1>3, <2>1, <2>2, <2>4
  <2>6. free_block[h].next = IF After(h) = {} THEN 0 ELSE Min(After(h))
    <3>1. CASE i = Len(ranges)
      <4>1. After(h) = {}
        <5> SUFFICES ASSUME NEW g \in Heads, g > h PROVE FALSE
          BY DEF After
        <5>1. PICK j \in 1..Len(ranges) : ranges[j].from = g
          BY <1>4
        <5>2. j = i \/ j < i
          BY ONLY j \in 1..Len(ranges), i = Len(ranges), Len(ranges) \in Nat, <1>1, <3>1
        <5> QED
          BY <1>1, <1>5, <2>1, <5>1, <5>2
      <4> QED
        BY <2>3, <3>1, <4>1
    <3>2. CASE i # Len(ranges)
      <4>1. i + 1 \in 1..Len(ranges) /\ i < i + 1
        <5>1. Len(ranges) \in Nat /\ i \in 1..Len(ranges)
          BY <1>1
        <5> QED BY ONLY <3>2, <5>1
      <4>2. ranges[i + 1].from \in After(h)
        BY <1>1, <1>3, <1>5, <2>1, <4>1 DEF After
      <4>3. ASSUME NEW g \in After(h) PROVE ranges[i + 1].from <= g
        <5>1. g \in Heads /\ g > h
          BY DEF After
        <5>2. PICK j \in 1..Len(ranges) : ranges[j].from = g
          BY <1>4, <5>1
        <5>3. ~(j <= i)
          BY <1>1, <1>5, <2>1, <5>1, <5>2
        <5>4. j = i + 1 \/ i + 1 < j
          BY <1>1, <5>3
        <5>5. ranges[i + 1].from \in Nat /\ ranges[j].from \in Nat
          BY <1>1, <4>1
        <5>6. i + 1 < j => ranges[i + 1].from < ranges[j].from
          BY <1>5, <4>1
        <5> QED
          BY <5>2, <5>4, <5>5, <5>6
      <4>4. After(h) \in SUBSET Nat
        BY <1>6 DEF After
      <4>5. Min(After(h)) = ranges[i + 1].from
        BY <4>2, <4>3, <4>4, MinIs
      <4> QED
        BY <2>3, <3>2, <4>2, <4>5
    <3> QED
      BY <3>1, <3>2
  <2> QED
    BY <2>2, <2>4, <2>5, <2>6
<1> QED
  BY <1>7, <1>8, Zenon DEF ChainFits

LEMMA AcceptedIsLaidOut ==
  ASSUME Formed, ReadingCells, at > Len(cells), PointerEnd <= Start, Start <= Size,
         IsListOf(ranges, Wide), Cardinality(Fragments) = header.fragments, dirty \subseteq used
  PROVE  WellLaidOut
<1>1. LiveIsTaken /\ at - 1 = Len(cells) /\ Chained(0) /\ CellsFit(Len(cells))
  BY AllLiveTaken DEF ReadingCells
<1>2. DOMAIN cells = 1..Len(cells)
  BY FormedNumbers
<1>3. InBounds /\ Disjoint
  BY <1>1, <1>2 DEF InBounds, Disjoint, CellsFit
<1>4. ChainFits
  BY <1>1, AcceptedChain DEF IsListOf
<1>5. header.fragments = Cardinality(Scraps)
  BY <1>1, FragmentsAreScraps
<1>6. ASSUME NEW o \in dirty
      PROVE  o \in Span(0, PointerEnd) \cup Taken \cup UNION {h..h + MinFree - 1 : h \in Heads}
  <2>1. o \in Span(0, PointerEnd) \/ o \in Filled(Len(cells)) \/ o \in Freed
    BY <1>1 DEF ReadingCells
  <2>2. o \in Filled(Len(cells)) => o \in Taken
    BY FormedNumbers, FilledIsTaken
  <2>3. ASSUME o \in Freed PROVE \E h \in Heads : o \in h..h + MinFree - 1
    <3>1. PICK i \in 1..Len(ranges) : ranges[i].from <= o /\ o < ranges[i].end
      BY <2>3 DEF Freed
    <3>2. o \in Nat /\ MinFree \in Nat
      BY <2>3, FormedNumbers DEF Freed, Offsets
    <3>3. ranges[i].from \in Nat /\ ranges[i].end \in Nat /\ i \in DOMAIN ranges
      BY <1>1, RangeNumbers
    <3>4. Span(ranges[i].from + MinFree, ranges[i].end) \cap dirty = {}
      BY <1>1 DEF Chained, SoundRange
    <3>5. o < ranges[i].from + MinFree
      BY <3>1, <3>2, <3>3, <3>4 DEF Span
    <3>6. ranges[i].from \in Heads
      <4>1. ranges[i] \in Wide
        BY <3>3 DEF IsListOf
      <4>2. PICK h \in Heads : ranges[i] = [from |-> h, end |-> EndOf(h)]
        BY <1>1, <4>1, WideAreHeads
      <4> QED
        BY <4>2
    <3> QED
      BY <3>1, <3>2, <3>3, <3>5, <3>6
  <2> QED
    BY <2>1, <2>2, <2>3
<1> QED
  BY <1>3, <1>4, <1>5, <1>6, LayoutParts DEF DirtFits

-----------------------------------------------------------------------------
(* The page itself never changes, and so neither does its verdict.         *)
LEMMA PageStays ==
  ASSUME UNCHANGED page
  PROVE  /\ Formed' <=> Formed
         /\ WellLaidOut' <=> WellLaidOut
         /\ Start' = Start /\ PointerEnd' = PointerEnd
         /\ header' = header /\ free_block' = free_block /\ cells' = cells /\ dirty' = dirty
<1>1. header' = header /\ free_block' = free_block /\ cells' = cells /\ dirty' = dirty
  BY DEF page
<1>2. Start' = Start /\ PointerEnd' = PointerEnd
  BY <1>1 DEF Start, PointerEnd
<1>3. Formed' <=> Formed
  BY <1>1, Zenon DEF Formed
<1>4. WellLaidOut' <=> WellLaidOut
  <2>1. Taken' = Taken
    BY <1>1 DEF Taken, CellBytes, Span
  <2>2. Free' = Free
    BY <1>2, <2>1 DEF Free
  <2>3. \A o : EndOf(o)' = EndOf(o)
    BY <2>2, Zenon DEF EndOf
  <2>4. Heads' = Heads
    BY <2>2, <2>3, Zenon DEF Heads
  <2>5. \A o : After(o)' = After(o)
    BY <2>4, Zenon DEF After
  <2>6. Scraps' = Scraps
    BY <2>2, <2>3, <2>4, Zenon DEF Scraps
  <2>7. InBounds' <=> InBounds
    BY <1>1, <1>2, Zenon DEF InBounds
  <2>8. Disjoint' <=> Disjoint
    BY <1>1, Zenon DEF Disjoint, CellBytes, Span
  <2>9. ChainFits' <=> ChainFits
    BY <1>1, <2>3, <2>4, <2>5, Zenon DEF ChainFits
  <2>10. DirtFits' <=> DirtFits
    BY <1>1, <1>2, <2>1, <2>4, Zenon DEF DirtFits, Span
  <2>11. WellLaidOut' <=> /\ PointerEnd' <= Start' /\ Start' <= Size
                          /\ InBounds' /\ Disjoint' /\ ChainFits'
                          /\ header'.fragments = Cardinality(Scraps')
                          /\ DirtFits'
    BY DEF WellLaidOut, InBounds, Disjoint, ChainFits, Scraps, DirtFits, Taken, Free, EndOf, Heads, After, Min
  <2> QED
    BY <1>1, <1>2, <2>6, <2>7, <2>8, <2>9, <2>10, <2>11, LayoutParts, Zenon
<1> QED
  BY <1>1, <1>2, <1>3, <1>4

LEMMA PageInvInit == PageInit => PageInv
<1> SUFFICES ASSUME PageInit PROVE PageInv
  OBVIOUS
<1>1. header \in Headers /\ free_block \in BlockSets /\ cells \in CellLists
  BY DEF PageInit
<1>2. Formed
  BY <1>1, PageForm DEF Formed
<1>3. PageTypeOK
  BY DEF PageInit, PageTypeOK
<1> QED
  BY <1>2, <1>3 DEF PageInit, PageInv, LayoutExact

(* A refusal keeps what was accounted for, and must be deserved.           *)
LEMMA RefusalStep ==
  ASSUME PageInv, RefusePage, UNCHANGED page, ~WellLaidOut
  PROVE  PageInv'
<1>1. Formed' /\ ~WellLaidOut'
  BY PageStays DEF PageInv
<1>2. page_phase' = "refused" /\ used' = used /\ live' = live
  BY DEF RefusePage
<1>3. PageTypeOK'
  BY <1>2 DEF PageInv, PageTypeOK, Offsets
<1> QED
  BY <1>1, <1>2, <1>3 DEF PageInv, LayoutExact

LEMMA HeaderStep ==
  ASSUME PageInv, Header, UNCHANGED page
  PROVE  PageInv'
<1>1. CASE ~(PointerEnd <= Start /\ Start <= Size)
  BY <1>1, LayoutParts, RefusalStep DEF Header
<1>2. CASE PointerEnd <= Start /\ Start <= Size
  <2>1. /\ used' = Span(0, PointerEnd) /\ live' = Span(0, PointerEnd)
        /\ at' = header.first /\ page_phase' = "blocks" /\ ranges' = ranges
    BY <1>2 DEF Header
  <2>2. ranges = <<>> /\ Formed
    BY DEF PageInv, Header
  <2>3. /\ Formed' /\ Start' = Start /\ PointerEnd' = PointerEnd
        /\ header' = header /\ free_block' = free_block /\ cells' = cells /\ dirty' = dirty
    BY <2>2, PageStays
  <2>4. PageTypeOK'
    <3>1. Span(0, PointerEnd) \subseteq Offsets
      BY <1>2, <2>2, FormedNumbers DEF Span, Offsets
    <3> QED
      BY <2>1, <3>1 DEF PageTypeOK, Offsets
  <2>5. Freed' = {}
    BY <2>1, <2>2 DEF Freed
  <2>6. Chained(at)'
    BY <2>1, <2>2, <2>3 DEF Chained
  <2>7. ReadingBlocks'
    BY <2>1, <2>2, <2>3, <2>5, <2>6 DEF ReadingBlocks, Formed, Span
  <2> QED
    BY <1>2, <2>1, <2>3, <2>4, <2>7 DEF PageInv, LayoutExact
<1> QED
  BY <1>1, <1>2

LEMMA FreeBlockStep ==
  ASSUME PageInv, FreeBlock, UNCHANGED page
  PROVE  PageInv'
<1> DEFINE b == free_block[at]
           n == Len(ranges)
           new == [from |-> at, end |-> at + b.size]
<1>1. page_phase = "blocks" /\ at # 0 /\ Formed /\ ReadingBlocks /\ PointerEnd <= Start /\ Start <= Size
  BY DEF PageInv, FreeBlock
<1>2. CASE ~(n < Size \div MinFree /\ BlockFits(at, b))
  <2>1. ~WellLaidOut
    BY <1>1, <1>2, NextBlockFits
  <2> QED
    BY <1>2, <2>1, RefusalStep DEF FreeBlock
<1>3. CASE n < Size \div MinFree /\ BlockFits(at, b)
  <2>1. /\ used' = used \cup Span(at, at + b.size) /\ ranges' = Append(ranges, new)
        /\ at' = b.next /\ live' = live /\ page_phase' = "blocks"
    BY <1>1, <1>3 DEF FreeBlock
  <2>2. /\ Formed' /\ Start' = Start /\ PointerEnd' = PointerEnd
        /\ header' = header /\ free_block' = free_block /\ cells' = cells /\ dirty' = dirty
    BY <1>1, PageStays
  <2>3. /\ Start \in Nat /\ Size \in Nat /\ MinFree \in Nat \ {0} /\ PointerEnd \in Nat
        /\ at \in DOMAIN free_block /\ at \in Nat /\ b.size \in Nat /\ b.next \in Nat
        /\ b.next \in DOMAIN free_block \cup {0}
    BY <1>1, FormedNumbers DEF ReadingBlocks, Formed
  <2>4. /\ Start <= at /\ b.size >= MinFree /\ at + b.size <= Size
        /\ Span(at + MinFree, at + b.size) \cap dirty = {}
        /\ b.next # 0 => b.next >= at + b.size
    BY <1>3 DEF BlockFits
  <2>5. /\ n \in Nat /\ ranges \in Seq([from : Nat, end : Nat])
        /\ \A i \in 1..n : ranges[i].from \in Nat /\ ranges[i].end \in Nat /\ ranges[i].end <= at
    BY <1>1, RangeNumbers DEF ReadingBlocks, Chained
  <2>6. new \in [from : Nat, end : Nat]
    BY <2>3
  <2>7. /\ ranges' \in Seq([from : Nat, end : Nat]) /\ Len(ranges') = n + 1
        /\ \A i \in 1..n : ranges'[i] = ranges[i]
        /\ ranges'[n + 1] = new
    <3> HIDE DEF new
    <3> QED
      BY <2>1, <2>5, <2>6
  <2> HIDE DEF n
  <2>8. Chained(at)'
    <3>1. \A i \in 1..n : SoundRange(ranges[i]) /\ MinFree * i <= ranges[i].end
      BY <1>1 DEF ReadingBlocks, Chained, n
    <3>2. \A i \in 1..n + 1 : (SoundRange(ranges[i]))' <=> SoundRange(ranges'[i])
      BY <2>2, Zenon DEF SoundRange, Span
    <3>3. SoundRange(new)
      BY <1>1, <2>3, <2>4 DEF SoundRange
    <3>4. MinFree * (n + 1) <= new.end
      <4>1. MinFree * n <= at
        <5>1. CASE n = 0
          BY <2>3, <5>1
        <5>2. CASE n # 0
          <6>1. MinFree * n <= ranges[n].end /\ ranges[n].end <= at /\ ranges[n].end \in Nat
            BY <2>5, <3>1, <5>2
          <6>2. MinFree * n \in Nat
            BY <2>3, <2>5
          <6> QED
            BY <2>3, <6>1, <6>2
        <5> QED
          BY <5>1, <5>2
      <4>2. MinFree * (n + 1) = MinFree * n + MinFree /\ MinFree * n \in Nat
        BY <2>3, <2>5
      <4> QED
        BY <2>3, <2>4, <4>1, <4>2
    <3>5. \A i \in 1..n + 1 : (SoundRange(ranges[i]))' /\ MinFree * i <= ranges'[i].end
      <4> SUFFICES ASSUME NEW i \in 1..n + 1
                   PROVE  SoundRange(ranges'[i]) /\ MinFree * i <= ranges'[i].end
        BY <3>2
      <4>1. CASE i = n + 1
        BY <2>7, <3>3, <3>4, <4>1
      <4>2. CASE i # n + 1
        <5>1. i \in 1..n
          BY <2>5, <4>2
        <5> QED
          BY <2>7, <3>1, <5>1
      <4> QED
        BY <4>1, <4>2
    <3>6. \A i, j \in 1..n + 1 : i < j => ranges'[i].end <= ranges'[j].from
      <4> SUFFICES ASSUME NEW i \in 1..n + 1, NEW j \in 1..n + 1, i < j
                   PROVE  ranges'[i].end <= ranges'[j].from
        OBVIOUS
      <4>1. i \in 1..n /\ ranges'[i] = ranges[i]
        BY <2>5, <2>7
      <4>2. CASE j = n + 1
        BY <2>5, <2>7, <4>1, <4>2
      <4>3. CASE j # n + 1
        <5>1. j \in 1..n
          BY <2>5, <4>3
        <5>2. ranges'[j] = ranges[j]
          BY <2>7, <5>1
        <5> QED
          BY <1>1, <4>1, <5>1, <5>2 DEF ReadingBlocks, Chained, n
      <4> QED
        BY <4>2, <4>3
    <3>7. ranges' # <<>>
      BY <2>5, <2>7
    <3>8. header.first = ranges'[1].from
      <4>1. CASE ranges = <<>>
        <5>1. n = 0 /\ header.first = at
          BY <1>1, <4>1 DEF ReadingBlocks, Chained, n
        <5> QED
          BY <2>7, <5>1
      <4>2. CASE ranges # <<>>
        <5>1. header.first = ranges[1].from
          BY <1>1, <4>2 DEF ReadingBlocks, Chained
        <5>2. 1 \in 1..n
          BY <2>5, <4>2 DEF n
        <5> QED
          BY <2>7, <5>1, <5>2
      <4> QED
        BY <4>1, <4>2
    <3>9. \A i \in 1..n + 1 :
            free_block[ranges'[i].from].next = IF i = n + 1 THEN b.next ELSE ranges'[i + 1].from
      <4> SUFFICES ASSUME NEW i \in 1..n + 1
                   PROVE  free_block[ranges'[i].from].next = IF i = n + 1 THEN b.next ELSE ranges'[i + 1].from
        OBVIOUS
      <4>1. CASE i = n + 1
        BY <2>7, <4>1
      <4>2. CASE i # n + 1
        <5>1. i \in 1..n /\ ranges'[i] = ranges[i]
          <6>1. i \in 1..n
            BY ONLY <2>5, <4>2, i \in 1..n + 1
          <6> QED BY <2>7, <6>1
        <5>2. free_block[ranges[i].from].next = IF i = n THEN at ELSE ranges[i + 1].from
          BY <1>1, <5>1 DEF ReadingBlocks, Chained, n
        <5>3. i # n => i + 1 \in 1..n
          BY <2>5, <5>1
        <5> QED
          BY <2>7, <4>2, <5>1, <5>2, <5>3
      <4> QED
        BY <4>1, <4>2
    <3> HIDE DEF new
    <3> QED
      BY <2>1, <2>2, <2>7, <3>5, <3>6, <3>7, <3>8, <3>9, Zenon DEF Chained
  <2>9. Freed' = Freed \cup Span(at, at + b.size)
    <3>1. \A o \in Offsets : (\E i \in 1..n + 1 : ranges'[i].from <= o /\ o < ranges'[i].end)
                               <=> \/ \E i \in 1..n : ranges[i].from <= o /\ o < ranges[i].end
                                   \/ at <= o /\ o < at + b.size
      <4> SUFFICES ASSUME NEW o \in Offsets
                   PROVE  (\E i \in 1..n + 1 : ranges'[i].from <= o /\ o < ranges'[i].end)
                            <=> \/ \E i \in 1..n : ranges[i].from <= o /\ o < ranges[i].end
                                \/ at <= o /\ o < at + b.size
        OBVIOUS
      <4>1. \A i \in 1..n + 1 : i \in 1..n \/ i = n + 1
        BY <2>5
      <4>2. \A i \in 1..n : i \in 1..n + 1
        BY <2>5
      <4>3. n + 1 \in 1..n + 1
        BY <2>5
      <4> QED
        BY <2>7, <4>1, <4>2, <4>3
    <3>2. Span(at, at + b.size) = {o \in Offsets : at <= o /\ o < at + b.size}
      BY <2>3, <2>4 DEF Span, Offsets
    <3>3. Freed' = {o \in Offsets : \E i \in 1..n + 1 : ranges'[i].from <= o /\ o < ranges'[i].end}
      BY <2>7 DEF Freed, Offsets
    <3>4. Freed = {o \in Offsets : \E i \in 1..n : ranges[i].from <= o /\ o < ranges[i].end}
      BY DEF Freed, n
    <3> QED
      BY <3>1, <3>2, <3>3, <3>4
  <2>10. at' # 0 => \A i \in 1..n + 1 : ranges'[i].end <= at'
    <3> SUFFICES ASSUME b.next # 0, NEW i \in 1..n + 1 PROVE ranges'[i].end <= b.next
      BY <2>1
    <3>1. b.next >= at + b.size /\ b.next >= at
      BY <2>3, <2>4
    <3>2. CASE i = n + 1
      BY <2>7, <3>1, <3>2
    <3>3. CASE i # n + 1
      <4>1. i \in 1..n /\ ranges'[i] = ranges[i]
        <5>1. i \in 1..n
          BY ONLY <2>5, <3>3, i \in 1..n + 1
        <5> QED BY <2>7, <5>1
      <4> QED
        BY <2>3, <2>5, <3>1, <4>1
    <3> QED
      BY <3>2, <3>3
  <2>11. ReadingBlocks'
    <3>1. live' = Span(0, PointerEnd)' /\ used' = live' \cup Freed'
      BY <1>1, <2>1, <2>2, <2>9 DEF ReadingBlocks, Span
    <3>2. at' \in (DOMAIN free_block \cup {0})'
      BY <2>1, <2>2, <2>3
    <3> QED
      BY <2>7, <2>8, <2>10, <3>1, <3>2 DEF ReadingBlocks
  <2>12. PageTypeOK'
    <3>1. Span(at, at + b.size) \subseteq Offsets
      BY <2>3, <2>4 DEF Span, Offsets
    <3> QED
      BY <2>1, <3>1 DEF PageInv, PageTypeOK, Offsets
  <2> QED
    BY <1>1, <2>1, <2>2, <2>11, <2>12 DEF PageInv, LayoutExact
<1> QED
  BY <1>2, <1>3

(* What does not change with the cells: the chain and what it freed.       *)
LEMMA ChainStays ==
  ASSUME UNCHANGED page, UNCHANGED ranges, Chained(0)
  PROVE  Chained(0)' /\ Freed' = Freed
<1>1. /\ Start' = Start /\ header' = header /\ free_block' = free_block /\ dirty' = dirty /\ ranges' = ranges
  BY PageStays
<1>2. \A i \in 1..Len(ranges) : (SoundRange(ranges[i]))' <=> SoundRange(ranges[i])
  BY <1>1, Zenon DEF SoundRange, Span
<1>3. Chained(0)'
  BY <1>1, <1>2, Zenon DEF Chained
<1>4. Freed' = Freed
  BY <1>1 DEF Freed, Offsets
<1> QED
  BY <1>3, <1>4

LEMMA BlocksEndStep ==
  ASSUME PageInv, BlocksEnd, UNCHANGED page
  PROVE  PageInv'
<1>1. page_phase = "blocks" /\ at = 0 /\ Formed /\ ReadingBlocks /\ PointerEnd <= Start /\ Start <= Size
  BY DEF PageInv, BlocksEnd
<1>2. CASE ~\A i, j \in DOMAIN cells : cells[i].at = cells[j].at => i = j
  <2>1. ~WellLaidOut
    BY <1>1, <1>2, NoTwoCellsAlike
  <2> QED
    BY <1>2, <2>1, RefusalStep DEF BlocksEnd
<1>3. CASE \A i, j \in DOMAIN cells : cells[i].at = cells[j].at => i = j
  <2>1. page_phase' = "cells" /\ at' = 1 /\ used' = used /\ live' = live /\ ranges' = ranges
    BY <1>3 DEF BlocksEnd
  <2>2. /\ Formed' /\ Start' = Start /\ PointerEnd' = PointerEnd /\ cells' = cells
    BY <1>1, PageStays
  <2>3. Chained(0)' /\ Freed' = Freed
    BY <1>1, <2>1, ChainStays DEF ReadingBlocks
  <2>4. 1 \in 1..Len(cells) + 1 /\ 1 - 1 = 0
    BY <1>1, FormedNumbers
  <2>5. Filled(0) = {} /\ \A i \in 1..0 : FALSE
    BY DEF Filled
  <2>6. Filled(at - 1)' = {}
    BY <2>1, <2>4, <2>5 DEF Filled
  <2>7. CellsFit(at - 1)'
    BY <2>1, <2>4, <2>5 DEF CellsFit
  <2>8. live' = Span(0, PointerEnd)' /\ used' = live' \cup Freed'
    BY <1>1, <2>1, <2>2, <2>3 DEF ReadingBlocks, Span
  <2>9. at' \in (1..Len(cells) + 1)'
    BY <2>1, <2>2, <2>4
  <2>10. ReadingCells'
    BY <2>3, <2>6, <2>7, <2>8, <2>9 DEF ReadingCells
  <2>11. PageTypeOK'
    BY <2>1 DEF PageInv, PageTypeOK, Offsets
  <2> QED
    BY <1>1, <2>1, <2>2, <2>10, <2>11 DEF PageInv, LayoutExact
<1> QED
  BY <1>2, <1>3

LEMMA CellStep ==
  ASSUME PageInv, Cell, UNCHANGED page
  PROVE  PageInv'
<1> DEFINE c == cells[at]
<1>1. page_phase = "cells" /\ at <= Len(cells) /\ Formed /\ ReadingCells /\ PointerEnd <= Start /\ Start <= Size
  BY DEF PageInv, Cell
<1>2. CASE ~CellFits(c)
  <2>1. ~WellLaidOut
    BY <1>1, <1>2, NextCellFits
  <2> QED
    BY <1>2, <2>1, RefusalStep DEF Cell
<1>3. CASE CellFits(c)
  <2>1. /\ used' = used \cup CellBytes(c) /\ live' = live \cup CellBytes(c)
        /\ at' = at + 1 /\ ranges' = ranges /\ page_phase' = "cells"
    BY <1>1, <1>3 DEF Cell, CellBytes
  <2>2. /\ Formed' /\ Start' = Start /\ PointerEnd' = PointerEnd /\ cells' = cells
    BY <1>1, PageStays
  <2>3. Chained(0)' /\ Freed' = Freed
    BY <1>1, <2>1, ChainStays DEF ReadingCells
  <2>4. /\ at \in Nat /\ at >= 1 /\ at - 1 \in Nat /\ Len(cells) \in Nat /\ at \in 1..Len(cells)
        /\ c.at \in Nat /\ c.length \in Nat /\ Start \in Nat /\ Size \in Nat
    BY <1>1, CellNumbers, FormedNumbers
  <2>5. Start <= c.at /\ c.at + c.length <= Size /\ CellBytes(c) \cap used = {}
    BY <1>3 DEF CellFits, CellBytes
  <2>6. CellBytes(c) \subseteq Offsets
    BY <2>4, <2>5 DEF CellBytes, Span, Offsets
  <2>7. at' - 1 = at /\ \A i \in 1..at : i \in 1..at - 1 \/ i = at
    BY <2>1, <2>4
  <2>8. at \in 1..at /\ \A i \in 1..at - 1 : i \in 1..at
    BY <2>4
  <2>9. \A i : CellBytes(cells[i])' = CellBytes(cells[i])
    BY <2>2, Zenon DEF CellBytes, Span
  <2>10. Filled(at - 1)' = Filled(at - 1) \cup CellBytes(c)
    <3>1. Filled(at - 1)' = {o \in Offsets : \E i \in 1..at : o \in CellBytes(cells[i])}
      BY <2>2, <2>7 DEF Filled, Offsets, CellBytes, Span
    <3>2. \A o \in Offsets : (\E i \in 1..at : o \in CellBytes(cells[i]))
                               <=> (\E i \in 1..at - 1 : o \in CellBytes(cells[i])) \/ o \in CellBytes(c)
      BY <2>7, <2>8, Zenon
    <3> QED
      BY <2>6, <3>1, <3>2, Zenon DEF Filled
  <2>11. CellsFit(at)
    <3>1. CellsFit(at - 1) /\ used = live \cup Freed /\ live = Span(0, PointerEnd) \cup Filled(at - 1)
      BY <1>1 DEF ReadingCells
    <3>2. CellBytes(c) \cap Freed = {} /\ CellBytes(c) \cap Filled(at - 1) = {}
      BY <2>5, <3>1
    <3>3. \A i \in 1..at - 1 : CellBytes(cells[i]) \cap CellBytes(c) = {}
      <4> SUFFICES ASSUME NEW i \in 1..at - 1, NEW o \in CellBytes(c), o \in CellBytes(cells[i]) PROVE FALSE
        OBVIOUS
      <4>1. o \in Filled(at - 1)
        BY <2>6, Zenon DEF Filled
      <4> QED
        BY <3>2, <4>1
    <3>4. \A i \in 1..at : /\ Start <= cells[i].at /\ cells[i].at + cells[i].length <= Size
                           /\ CellBytes(cells[i]) \cap Freed = {}
      <4>1. \A i \in 1..at - 1 : /\ Start <= cells[i].at /\ cells[i].at + cells[i].length <= Size
                                 /\ CellBytes(cells[i]) \cap Freed = {}
        BY <3>1 DEF CellsFit
      <4> QED
        BY <2>5, <2>7, <3>2, <4>1, Zenon
    <3>5. \A i, j \in 1..at : i # j => CellBytes(cells[i]) \cap CellBytes(cells[j]) = {}
      <4>1. \A i, j \in 1..at - 1 : i # j => CellBytes(cells[i]) \cap CellBytes(cells[j]) = {}
        BY <3>1 DEF CellsFit
      <4>2. \A i \in 1..at - 1 : CellBytes(c) \cap CellBytes(cells[i]) = {}
        BY <3>3
      <4> QED
        BY <2>7, <3>3, <4>1, <4>2, Zenon
    <3> QED
      BY <3>4, <3>5, Zenon DEF CellsFit
  <2>12. CellsFit(at - 1)'
    BY <2>2, <2>3, <2>7, <2>9, <2>11, Zenon DEF CellsFit
  <2>13. live' = Span(0, PointerEnd)' \cup Filled(at - 1)' /\ used' = live' \cup Freed'
    BY <1>1, <2>1, <2>2, <2>3, <2>10 DEF ReadingCells, Span
  <2>14. at' \in (1..Len(cells) + 1)'
    BY <2>1, <2>2, <2>4
  <2>15. ReadingCells'
    BY <2>3, <2>12, <2>13, <2>14 DEF ReadingCells
  <2>16. PageTypeOK'
    BY <2>1, <2>6 DEF PageInv, PageTypeOK, Offsets
  <2> QED
    BY <1>1, <2>1, <2>2, <2>15, <2>16 DEF PageInv, LayoutExact
<1> QED
  BY <1>2, <1>3

LEMMA AccountStep ==
  ASSUME PageInv, Account, UNCHANGED page
  PROVE  PageInv'
<1>1. page_phase = "cells" /\ at > Len(cells) /\ Formed /\ ReadingCells /\ PointerEnd <= Start /\ Start <= Size
  BY DEF PageInv, Account
<1> DEFINE Passes == IsListOf(ranges, Wide) /\ Cardinality(Fragments) = header.fragments /\ dirty \subseteq used
<1>2. Passes <=> WellLaidOut
  BY <1>1, LaidOutIsAccepted, AcceptedIsLaidOut
<1>3. /\ page_phase' = IF Passes THEN "accepted" ELSE "refused"
      /\ used' = used /\ live' = live
  BY DEF Account
<1>4. Formed' /\ (WellLaidOut' <=> WellLaidOut)
  BY <1>1, PageStays
<1>5. PageTypeOK'
  BY <1>3 DEF PageInv, PageTypeOK, Offsets
<1> HIDE DEF Passes
<1> QED
  BY <1>2, <1>3, <1>4, <1>5 DEF PageInv, LayoutExact

LEMMA PageInvStep == PageInv /\ [PageNext]_page_vars => PageInv'
<1> SUFFICES ASSUME PageInv, [PageNext]_page_vars PROVE PageInv'
  OBVIOUS
<1>1. CASE UNCHANGED page_vars
  <2>1. /\ UNCHANGED page /\ UNCHANGED ranges
        /\ used' = used /\ live' = live /\ at' = at /\ page_phase' = page_phase
    BY <1>1 DEF page_vars, page
  <2>2. /\ Formed' /\ (WellLaidOut' <=> WellLaidOut) /\ Start' = Start /\ PointerEnd' = PointerEnd
        /\ header' = header /\ free_block' = free_block /\ cells' = cells /\ dirty' = dirty
    BY <2>1, PageStays DEF PageInv
  <2>3. \A i \in 1..Len(ranges) : (SoundRange(ranges[i]))' <=> SoundRange(ranges[i])
    BY <2>1, <2>2, Zenon DEF SoundRange, Span
  <2>4. ReadingBlocks' <=> ReadingBlocks
    <3>1. Chained(at)' <=> Chained(at)
      BY <2>1, <2>2, <2>3, Zenon DEF Chained
    <3>2. Freed' = Freed
      BY <2>1 DEF Freed, Offsets
    <3> QED
      BY <2>1, <2>2, <3>1, <3>2, Zenon DEF ReadingBlocks, Span
  <2>5. ReadingCells => ReadingCells'
    <3> SUFFICES ASSUME ReadingCells PROVE ReadingCells'
      OBVIOUS
    <3>1. Chained(0)' /\ Freed' = Freed
      BY <2>1, ChainStays DEF ReadingCells
    <3>2. CellsFit(at - 1)' /\ Filled(at - 1)' = Filled(at - 1)
      <4>1. \A i : CellBytes(cells[i])' = CellBytes(cells[i])
        BY <2>2, Zenon DEF CellBytes, Span
      <4>2. CellsFit(at - 1)'
        BY <2>1, <2>2, <3>1, <4>1, Zenon DEF ReadingCells, CellsFit
      <4>3. Filled(at - 1)' = Filled(at - 1)
        BY <2>1, <2>2, Zenon DEF Filled, CellBytes, Span
      <4> QED
        BY <4>2, <4>3
    <3> QED
      BY <2>1, <2>2, <3>1, <3>2, Zenon DEF ReadingCells, Span
  <2>6. PageTypeOK'
    BY <2>1 DEF PageInv, PageTypeOK, Offsets
  <2> QED
    BY <2>1, <2>2, <2>4, <2>5, <2>6 DEF PageInv, LayoutExact
<1> QED
  BY <1>1, HeaderStep, FreeBlockStep, BlocksEndStep, CellStep, AccountStep DEF PageNext

(* SqlitePage's verdict, for pages of any size with any number of free     *)
(* blocks and cells: a page is accepted exactly when it is the one layout  *)
(* of its cells, and no byte outside the page is ever accounted for.       *)
THEOREM PageAlwaysExact == PageSpec => []PageExact
<1>1. PageInv => PageExact
  BY DEF PageInv, PageExact
<1> QED
  BY <1>1, PageInvInit, PageInvStep, PTL DEF PageSpec

-----------------------------------------------------------------------------
(* The running sums of a sequence, from 0 to the sum of all of it.  That   *)
(* the recursive definition of SumOf has a solution is shown by the least  *)
(* prefix for which it had none.                                           *)
IsRunning(f, s) == f = [i \in 0..Len(s) |-> IF i = 0 THEN 0 ELSE f[i - 1] + s[i]]
Running(s) == CHOOSE f : IsRunning(f, s)

LEMMA RunningExists ==
  ASSUME NEW s, s \in Seq(Nat)
  PROVE  \E f : IsRunning(f, s)
<1> DEFINE n == Len(s)
           Partial(f, m) == f = [i \in 0..m |-> IF i = 0 THEN 0 ELSE f[i - 1] + s[i]]
           S == {m \in 0..n : ~\E f : Partial(f, m)}
<1>1. n \in Nat
  OBVIOUS
<1>2. S = {}
  <2> SUFFICES ASSUME S # {} PROVE FALSE
    OBVIOUS
  <2> DEFINE k == Min(S)
  <2>1. k \in S /\ \A m \in S : k <= m
    <3>1. S \in SUBSET Nat
      BY <1>1
    <3> HIDE DEF S
    <3> QED BY <3>1, MinOf
  <2>2. k \in 0..n /\ ~\E f : Partial(f, k)
    BY <2>1
  <2>3. k # 0
    <3> DEFINE g == [i \in 0..0 |-> 0]
    <3>1. Partial(g, 0)
      <4>1. g = [i \in 0..0 |-> IF i = 0 THEN 0 ELSE g[i - 1] + s[i]]
        <5>1. \A i \in 0..0 : i = 0
          OBVIOUS
        <5> QED BY <5>1, Zenon
      <4> QED BY <4>1
    <3> HIDE DEF Partial, g, S, k
    <3> QED BY <2>2, <3>1
  <2> HIDE DEF k
  <2>4. k - 1 \in 0..n /\ k - 1 \notin S
    <3>1. k - 1 \in 0..n /\ ~(k <= k - 1)
      BY <1>1, <2>2, <2>3
    <3> HIDE DEF S
    <3> QED BY <2>1, <3>1
  <2>5. PICK g : Partial(g, k - 1)
    BY <2>4
  <2> DEFINE h == [i \in 0..k |-> IF i = k THEN g[k - 1] + s[k] ELSE g[i]]
  <2>6. Partial(h, k)
    <3>1. \A i \in 0..k : h[i] = IF i = k THEN g[k - 1] + s[k] ELSE g[i]
      OBVIOUS
    <3>2. \A i \in 0..k - 1 : g[i] = IF i = 0 THEN 0 ELSE g[i - 1] + s[i]
      <4>1. g = [i \in 0..k - 1 |-> IF i = 0 THEN 0 ELSE g[i - 1] + s[i]]
        BY <2>5
      <4> QED BY <4>1
    <3>3. \A i \in 0..k : h[i] = IF i = 0 THEN 0 ELSE h[i - 1] + s[i]
      <4> SUFFICES ASSUME NEW i \in 0..k PROVE h[i] = IF i = 0 THEN 0 ELSE h[i - 1] + s[i]
        OBVIOUS
      <4>1. CASE i = k
        <5>1. i # 0 /\ k - 1 \in 0..k /\ k - 1 # k
          BY <2>2, <2>3, <4>1
        <5>2. h[k] = g[k - 1] + s[k] /\ h[k - 1] = g[k - 1]
          <6> HIDE DEF h
          <6> QED BY <3>1, <4>1, <5>1
        <5> HIDE DEF h
        <5> QED BY <4>1, <5>1, <5>2
      <4>2. CASE i # k
        <5>1. i \in 0..k - 1 /\ (i # 0 => i - 1 \in 0..k /\ i - 1 # k)
          BY <2>2, <4>2
        <5>2. h[i] = g[i] /\ (i # 0 => h[i - 1] = g[i - 1])
          <6> HIDE DEF h
          <6> QED BY <3>1, <4>2, <5>1
        <5> HIDE DEF h
        <5> QED BY <3>2, <5>1, <5>2
      <4> QED BY <4>1, <4>2
    <3> DEFINE e == [i \in 0..k |-> IF i = 0 THEN 0 ELSE h[i - 1] + s[i]]
    <3>4. DOMAIN h = 0..k /\ h = [i \in DOMAIN h |-> h[i]]
      OBVIOUS
    <3> HIDE DEF h
    <3>5. h = e
      BY <3>3, <3>4, Zenon
    <3> QED BY <3>5
  <2> HIDE DEF Partial, h
  <2> QED
    BY <2>2, <2>6
<1>3. n \in 0..n
  BY <1>1
<1>4. \E f : Partial(f, n)
  <2> HIDE DEF Partial
  <2> QED BY <1>2, <1>3
<1> QED
  BY <1>4 DEF IsRunning

LEMMA RunningFacts ==
  ASSUME NEW s, s \in Seq(Nat)
  PROVE  /\ Running(s)[0] = 0
         /\ \A i \in 1..Len(s) : Running(s)[i] = Running(s)[i - 1] + s[i]
         /\ \A i \in 0..Len(s) : Running(s)[i] \in Nat
         /\ SumOf(s) = Running(s)[Len(s)]
<1> DEFINE f == Running(s)
           n == Len(s)
<1>1. IsRunning(f, s)
  BY RunningExists DEF Running
<1>2. n \in Nat /\ \A i \in 1..n : s[i] \in Nat
  BY ElementOfSeq
<1>3. f = [i \in 0..n |-> IF i = 0 THEN 0 ELSE f[i - 1] + s[i]]
  BY <1>1 DEF IsRunning
<1> HIDE DEF f
<1>4. f[0] = 0 /\ \A i \in 1..n : f[i] = f[i - 1] + s[i]
  <2>1. \A i \in 0..n : f[i] = IF i = 0 THEN 0 ELSE f[i - 1] + s[i]
    BY <1>3
  <2>2. 0 \in 0..n /\ \A i \in 1..n : i \in 0..n /\ i # 0
    BY <1>2
  <2> QED BY <2>1, <2>2
<1> DEFINE S == {i \in 0..n : f[i] \notin Nat}
<1>5. S = {}
  <2> SUFFICES ASSUME S # {} PROVE FALSE
    OBVIOUS
  <2> DEFINE k == Min(S)
  <2>1. k \in S /\ \A m \in S : k <= m
    <3>1. S \in SUBSET Nat
      BY <1>2
    <3> HIDE DEF S
    <3> QED BY <3>1, MinOf
  <2>2. k \in 0..n /\ f[k] \notin Nat
    BY <2>1
  <2> HIDE DEF k
  <2>3. k # 0
    BY <1>4, <2>2
  <2>4. k \in 1..n /\ k - 1 \in 0..n /\ ~(k <= k - 1)
    BY <1>2, <2>2, <2>3
  <2>5. f[k - 1] \in Nat
    BY <2>1, <2>4
  <2>6. f[k] = f[k - 1] + s[k] /\ s[k] \in Nat
    BY <1>2, <1>4, <2>4
  <2> QED
    BY <2>2, <2>5, <2>6
<1>6. SumOf(s) = f[n]
  BY DEF SumOf, Running, IsRunning, f
<1> QED
  BY <1>4, <1>5, <1>6 DEF f

(* The sum of a prefix is the running sum there.                           *)
LEMMA PrefixSum ==
  ASSUME NEW s, s \in Seq(Nat), NEW n \in 0..Len(s)
  PROVE  SumOf([i \in 1..n |-> s[i]]) = Running(s)[n]
<1> DEFINE t == [i \in 1..n |-> s[i]]
<1>1. Len(s) \in Nat /\ n \in Nat /\ \A i \in 1..Len(s) : s[i] \in Nat
  BY ElementOfSeq
<1>2. t \in Seq(Nat) /\ Len(t) = n /\ \A i \in 1..n : t[i] = s[i]
  <2>1. \A i \in 1..n : s[i] \in Nat
    BY <1>1
  <2> QED BY <1>1, <2>1
<1> HIDE DEF t
<1> DEFINE S == {i \in 0..n : Running(t)[i] # Running(s)[i]}
<1>3. S = {}
  <2> SUFFICES ASSUME S # {} PROVE FALSE
    OBVIOUS
  <2> DEFINE k == Min(S)
  <2>1. k \in S /\ \A m \in S : k <= m
    <3>1. S \in SUBSET Nat
      BY <1>1
    <3> HIDE DEF S
    <3> QED BY <3>1, MinOf
  <2>2. k \in 0..n /\ Running(t)[k] # Running(s)[k]
    BY <2>1
  <2> HIDE DEF k
  <2>3. k # 0
    BY <1>2, <2>2, RunningFacts
  <2>4. k \in 1..n /\ k \in 1..Len(s) /\ k - 1 \in 0..n /\ ~(k <= k - 1)
    BY <1>1, <2>2, <2>3
  <2>5. Running(t)[k - 1] = Running(s)[k - 1]
    BY <2>1, <2>4
  <2>6. Running(t)[k] = Running(t)[k - 1] + t[k] /\ Running(s)[k] = Running(s)[k - 1] + s[k]
    BY <1>2, <2>4, RunningFacts
  <2> QED
    BY <1>2, <2>2, <2>4, <2>5, <2>6
<1>4. n \in 0..n
  BY <1>1
<1>5. SumOf(t) = Running(t)[n]
  BY <1>2, RunningFacts
<1> QED
  BY <1>3, <1>4, <1>5 DEF t

(* Running sums never descend, and ascend by what stands in between.       *)
LEMMA RunningAscends ==
  ASSUME NEW s, s \in Seq(Nat), NEW m \in 0..Len(s), NEW n \in 0..Len(s), m <= n
  PROVE  /\ Running(s)[m] <= Running(s)[n]
         /\ (\A i \in 1..Len(s) : s[i] # 0) /\ m < n => Running(s)[m] < Running(s)[n]
         /\ (\A i \in m + 1..Len(s) : s[i] = 0) => Running(s)[m] = Running(s)[n]
<1>1. Len(s) \in Nat /\ m \in Nat /\ n \in Nat /\ \A i \in 1..Len(s) : s[i] \in Nat
  BY ElementOfSeq
<1> DEFINE f == Running(s)
           Over(k) == /\ f[m] <= f[k]
                      /\ (\A i \in 1..Len(s) : s[i] # 0) /\ m < k => f[m] < f[k]
                      /\ (\A i \in m + 1..Len(s) : s[i] = 0) => f[m] = f[k]
           S == {k \in m..Len(s) : ~Over(k)}
<1>2. /\ \A i \in 0..Len(s) : f[i] \in Nat
      /\ \A i \in 1..Len(s) : f[i] = f[i - 1] + s[i]
  BY RunningFacts
<1> HIDE DEF f
<1>3. S = {}
  <2> SUFFICES ASSUME S # {} PROVE FALSE
    OBVIOUS
  <2> DEFINE k == Min(S)
  <2>1. k \in S /\ \A i \in S : k <= i
    <3>1. S \in SUBSET Nat
      BY <1>1
    <3> HIDE DEF S
    <3> QED BY <3>1, MinOf
  <2>2. k \in m..Len(s) /\ ~Over(k)
    BY <2>1
  <2> HIDE DEF k
  <2>3. k # m
    BY <1>1, <1>2, <2>2
  <2>4. /\ k \in Nat /\ k - 1 \in m..Len(s) /\ k - 1 \in 0..Len(s) /\ k \in 0..Len(s) /\ k \in 1..Len(s)
        /\ ~(k <= k - 1)
    BY <1>1, <2>2, <2>3
  <2>5. Over(k - 1)
    <3> HIDE DEF Over
    <3> QED BY <2>1, <2>4
  <2>6. f[k] = f[k - 1] + s[k] /\ f[m] \in Nat /\ f[k - 1] \in Nat /\ f[k] \in Nat /\ s[k] \in Nat
    BY <1>1, <1>2, <2>4
  <2>7. f[m] <= f[k - 1]
    BY <2>5
  <2>8. f[m] <= f[k]
    BY <2>6, <2>7
  <2>9. s[k] # 0 => f[m] < f[k]
    BY ONLY <2>6, <2>7
  <2>10. (\A i \in m + 1..Len(s) : s[i] = 0) => f[m] = f[k]
    <3>1. k \in m + 1..Len(s)
      BY <1>1, <2>2, <2>3
    <3>2. (\A i \in m + 1..Len(s) : s[i] = 0) => f[m] = f[k - 1]
      BY <2>5
    <3> QED BY <2>6, <3>1, <3>2
  <2> QED
    BY <2>2, <2>4, <2>8, <2>9, <2>10
<1>4. n \in m..Len(s)
  BY <1>1
<1>5. Over(n)
  <2> HIDE DEF Over
  <2> QED BY <1>3, <1>4
<1> QED
  BY <1>5 DEF f

-----------------------------------------------------------------------------
(* What PackStream assumes of its inputs, said of the pack in hand.        *)
FrameSet == [kind : {"standard", "skippable", "other"}, header : Nat \ {0},
             content : Nat \cup {-1}, checksum : BOOLEAN,
             blocks : Seq([type : Nat, size : Nat, out : Nat])]
FrameFormed(f) ==
  /\ f \in FrameSet
  /\ f.kind = "standard" => f.header >= 4 /\ f.blocks # <<>>
  /\ f.kind = "skippable" => f.header >= 8 /\ f.content = -1 /\ f.blocks = <<>>
StreamFormed ==
  /\ frames \in Seq(FrameSet) /\ \A i \in 1..Len(frames) : FrameFormed(frames[i])
  /\ cut \in Nat /\ cut <= LengthUpTo(Len(frames)) /\ expected \in Nat

BlockLengths(f) == [i \in 1..Len(f.blocks) |-> BlockLength(f.blocks[i])]
BlockOutputs(f) == [i \in 1..Len(f.blocks) |-> f.blocks[i].out]
BlocksUpTo(f, n) == Running(BlockLengths(f))[n]
Tail4(f) == IF f.checksum THEN 4 ELSE 0

LEMMA BlockNumbers ==
  ASSUME NEW f \in FrameSet
  PROVE  /\ Len(f.blocks) \in Nat /\ DOMAIN f.blocks = 1..Len(f.blocks)
         /\ \A i \in 1..Len(f.blocks) :
              /\ f.blocks[i].type \in Nat /\ f.blocks[i].size \in Nat /\ f.blocks[i].out \in Nat
              /\ BlockLength(f.blocks[i]) \in Nat /\ BlockLength(f.blocks[i]) >= 3
         /\ BlockLengths(f) \in Seq(Nat) /\ Len(BlockLengths(f)) = Len(f.blocks)
         /\ \A i \in 1..Len(f.blocks) : BlockLengths(f)[i] = BlockLength(f.blocks[i])
         /\ BlockOutputs(f) \in Seq(Nat)
<1>1. f.blocks \in Seq([type : Nat, size : Nat, out : Nat])
  BY DEF FrameSet
<1>2. Len(f.blocks) \in Nat /\ DOMAIN f.blocks = 1..Len(f.blocks)
  BY <1>1
<1>3. \A i \in 1..Len(f.blocks) : f.blocks[i] \in [type : Nat, size : Nat, out : Nat]
  BY <1>1, ElementOfSeq
<1>4. \A i \in 1..Len(f.blocks) : f.blocks[i].type \in Nat /\ f.blocks[i].size \in Nat /\ f.blocks[i].out \in Nat
  BY <1>3
<1>5. \A i \in 1..Len(f.blocks) : BlockLength(f.blocks[i]) \in Nat /\ BlockLength(f.blocks[i]) >= 3
  BY <1>4 DEF BlockLength
<1>6. BlockLengths(f) \in Seq(Nat) /\ Len(BlockLengths(f)) = Len(f.blocks)
      /\ \A i \in 1..Len(f.blocks) : BlockLengths(f)[i] = BlockLength(f.blocks[i])
  BY <1>2, <1>5 DEF BlockLengths
<1>7. BlockOutputs(f) \in Seq(Nat)
  BY <1>2, <1>4 DEF BlockOutputs
<1> QED
  BY <1>2, <1>4, <1>5, <1>6, <1>7

LEMMA BlockPlaces ==
  ASSUME NEW f \in FrameSet
  PROVE  /\ BlocksUpTo(f, 0) = 0
         /\ \A n \in 1..Len(f.blocks) : BlocksUpTo(f, n) = BlocksUpTo(f, n - 1) + BlockLength(f.blocks[n])
         /\ \A n \in 0..Len(f.blocks) : BlocksUpTo(f, n) \in Nat
         /\ \A m, n \in 0..Len(f.blocks) : m <= n => BlocksUpTo(f, m) <= BlocksUpTo(f, n)
<1>1. /\ BlockLengths(f) \in Seq(Nat) /\ Len(BlockLengths(f)) = Len(f.blocks)
      /\ \A i \in 1..Len(f.blocks) : BlockLengths(f)[i] = BlockLength(f.blocks[i])
  BY BlockNumbers
<1>2. \A m, n \in 0..Len(f.blocks) : m <= n => BlocksUpTo(f, m) <= BlocksUpTo(f, n)
  BY <1>1, RunningAscends DEF BlocksUpTo
<1>3. /\ BlocksUpTo(f, 0) = 0
      /\ \A n \in 1..Len(f.blocks) : BlocksUpTo(f, n) = BlocksUpTo(f, n - 1) + BlockLength(f.blocks[n])
      /\ \A n \in 0..Len(f.blocks) : BlocksUpTo(f, n) \in Nat
  BY <1>1, RunningFacts DEF BlocksUpTo
<1> QED
  BY <1>2, <1>3

LEMMA FrameSizes ==
  ASSUME NEW f \in FrameSet
  PROVE  /\ FrameLength(f) = IF f.kind = "standard"
                             THEN f.header + BlocksUpTo(f, Len(f.blocks)) + Tail4(f) ELSE f.header
         /\ FrameLength(f) \in Nat /\ FrameLength(f) # 0 /\ FrameLength(f) >= f.header
         /\ f.header \in Nat /\ f.header # 0 /\ Tail4(f) \in Nat
         /\ Output(f) \in Nat
         /\ f.content = -1 \/ f.content \in Nat
<1>1. f.header \in Nat /\ f.header # 0 /\ (f.content = -1 \/ f.content \in Nat) /\ Tail4(f) \in Nat
  BY DEF FrameSet, Tail4
<1>2. /\ BlockLengths(f) \in Seq(Nat) /\ Len(BlockLengths(f)) = Len(f.blocks)
      /\ BlockOutputs(f) \in Seq(Nat) /\ DOMAIN f.blocks = 1..Len(f.blocks) /\ Len(f.blocks) \in Nat
  BY BlockNumbers
<1>3. SumOf([i \in DOMAIN f.blocks |-> BlockLength(f.blocks[i])]) = BlocksUpTo(f, Len(f.blocks))
  <2>1. [i \in DOMAIN f.blocks |-> BlockLength(f.blocks[i])] = BlockLengths(f)
    BY <1>2 DEF BlockLengths
  <2>2. SumOf(BlockLengths(f)) = Running(BlockLengths(f))[Len(BlockLengths(f))]
    BY <1>2, RunningFacts
  <2> QED
    BY <1>2, <2>1, <2>2 DEF BlocksUpTo
<1>4. BlocksUpTo(f, Len(f.blocks)) \in Nat
  BY <1>2, BlockPlaces
<1>5. Output(f) \in Nat
  <2>1. [i \in DOMAIN f.blocks |-> f.blocks[i].out] = BlockOutputs(f)
    BY <1>2 DEF BlockOutputs
  <2>2. Len(BlockOutputs(f)) \in 0..Len(BlockOutputs(f))
    BY <1>2
  <2>3. SumOf(BlockOutputs(f)) \in Nat
    BY <1>2, <2>2, RunningFacts
  <2> QED
    BY <2>1, <2>3 DEF Output
<1>6. FrameLength(f) = IF f.kind = "standard"
                       THEN f.header + BlocksUpTo(f, Len(f.blocks)) + Tail4(f) ELSE f.header
  BY <1>3 DEF FrameLength, Tail4
<1> QED
  BY <1>1, <1>4, <1>5, <1>6

Lengths == [i \in 1..Len(frames) |-> FrameLength(frames[i])]
Outputs == [i \in 1..Len(frames) |-> Output(frames[i])]
OutputUpTo(n) == SumOf([i \in 1..n |-> Output(frames[i])])

LEMMA FrameNumbers ==
  ASSUME StreamFormed
  PROVE  /\ Len(frames) \in Nat /\ DOMAIN frames = 1..Len(frames)
         /\ \A i \in 1..Len(frames) : frames[i] \in FrameSet /\ FrameFormed(frames[i])
         /\ cut \in Nat /\ expected \in Nat /\ cut <= LengthUpTo(Len(frames))
         /\ Lengths \in Seq(Nat) /\ Len(Lengths) = Len(frames)
         /\ \A i \in 1..Len(frames) : Lengths[i] = FrameLength(frames[i]) /\ Lengths[i] # 0
         /\ Outputs \in Seq(Nat) /\ Len(Outputs) = Len(frames)
         /\ \A i \in 1..Len(frames) : Outputs[i] = Output(frames[i])
<1>1. frames \in Seq(FrameSet)
  BY DEF StreamFormed
<1>2. Len(frames) \in Nat /\ DOMAIN frames = 1..Len(frames)
  BY <1>1
<1>3. \A i \in 1..Len(frames) : frames[i] \in FrameSet /\ FrameFormed(frames[i])
  BY <1>1, ElementOfSeq DEF StreamFormed
<1>4. \A i \in 1..Len(frames) : FrameLength(frames[i]) \in Nat /\ FrameLength(frames[i]) # 0 /\ Output(frames[i]) \in Nat
  BY <1>3, FrameSizes
<1>5. Lengths \in Seq(Nat) /\ Len(Lengths) = Len(frames) /\ \A i \in 1..Len(frames) : Lengths[i] = FrameLength(frames[i])
  BY <1>2, <1>4 DEF Lengths
<1>6. Outputs \in Seq(Nat) /\ Len(Outputs) = Len(frames) /\ \A i \in 1..Len(frames) : Outputs[i] = Output(frames[i])
  BY <1>2, <1>4 DEF Outputs
<1>7. cut \in Nat /\ expected \in Nat /\ cut <= LengthUpTo(Len(frames))
  BY DEF StreamFormed
<1> QED
  BY <1>2, <1>3, <1>4, <1>5, <1>6, <1>7

(* Where the frames begin: each behind the one before, no two at one place. *)
LEMMA FramePlaces ==
  ASSUME StreamFormed
  PROVE  /\ LengthUpTo(0) = 0
         /\ \A n \in 0..Len(frames) : LengthUpTo(n) \in Nat
         /\ \A n \in 1..Len(frames) : LengthUpTo(n) = LengthUpTo(n - 1) + FrameLength(frames[n])
         /\ \A m, n \in 0..Len(frames) : m < n => LengthUpTo(m) < LengthUpTo(n)
<1>1. /\ Len(frames) \in Nat /\ Lengths \in Seq(Nat) /\ Len(Lengths) = Len(frames)
      /\ \A i \in 1..Len(frames) : Lengths[i] = FrameLength(frames[i]) /\ Lengths[i] # 0
  BY FrameNumbers
<1>2. ASSUME NEW n \in 0..Len(frames) PROVE LengthUpTo(n) = Running(Lengths)[n]
  <2>1. \A i \in 1..n : i \in 1..Len(frames)
    BY <1>1
  <2>2. [i \in 1..n |-> FrameLength(frames[i])] = [i \in 1..n |-> Lengths[i]]
    BY <1>1, <2>1
  <2>3. SumOf([i \in 1..n |-> Lengths[i]]) = Running(Lengths)[n]
    BY <1>1, PrefixSum
  <2> QED
    BY <2>2, <2>3 DEF LengthUpTo
<1>3. /\ Running(Lengths)[0] = 0
      /\ \A i \in 1..Len(frames) : Running(Lengths)[i] = Running(Lengths)[i - 1] + Lengths[i]
      /\ \A i \in 0..Len(frames) : Running(Lengths)[i] \in Nat
  BY <1>1, RunningFacts
<1>4. \A m, n \in 0..Len(frames) : m < n => Running(Lengths)[m] < Running(Lengths)[n]
  BY <1>1, RunningAscends
<1>5. \A n \in 1..Len(frames) : n \in 0..Len(frames) /\ n - 1 \in 0..Len(frames)
  BY <1>1
<1>6. 0 \in 0..Len(frames)
  BY <1>1
<1> QED
  BY <1>1, <1>2, <1>3, <1>4, <1>5, <1>6

LEMMA OutputPlaces ==
  ASSUME StreamFormed
  PROVE  /\ OutputUpTo(0) = 0
         /\ \A n \in 0..Len(frames) : OutputUpTo(n) \in Nat
         /\ \A n \in 1..Len(frames) : OutputUpTo(n) = OutputUpTo(n - 1) + Output(frames[n])
         /\ \A m, n \in 0..Len(frames) : m <= n => OutputUpTo(m) <= OutputUpTo(n)
<1>1. /\ Len(frames) \in Nat /\ Outputs \in Seq(Nat) /\ Len(Outputs) = Len(frames)
      /\ \A i \in 1..Len(frames) : Outputs[i] = Output(frames[i])
  BY FrameNumbers
<1>2. ASSUME NEW n \in 0..Len(frames) PROVE OutputUpTo(n) = Running(Outputs)[n]
  <2>1. \A i \in 1..n : i \in 1..Len(frames)
    BY <1>1
  <2>2. [i \in 1..n |-> Output(frames[i])] = [i \in 1..n |-> Outputs[i]]
    BY <1>1, <2>1
  <2>3. SumOf([i \in 1..n |-> Outputs[i]]) = Running(Outputs)[n]
    BY <1>1, PrefixSum
  <2> QED
    BY <2>2, <2>3 DEF OutputUpTo
<1>3. /\ Running(Outputs)[0] = 0
      /\ \A i \in 1..Len(frames) : Running(Outputs)[i] = Running(Outputs)[i - 1] + Outputs[i]
      /\ \A i \in 0..Len(frames) : Running(Outputs)[i] \in Nat
  BY <1>1, RunningFacts
<1>4. \A m, n \in 0..Len(frames) : m <= n => Running(Outputs)[m] <= Running(Outputs)[n]
  BY <1>1, RunningAscends
<1>5. \A n \in 1..Len(frames) : n \in 0..Len(frames) /\ n - 1 \in 0..Len(frames)
  BY <1>1
<1>6. 0 \in 0..Len(frames)
  BY <1>1
<1> QED
  BY <1>1, <1>2, <1>3, <1>4, <1>5, <1>6

LEMMA FrameAtPlace ==
  ASSUME StreamFormed, NEW k \in Nat, k < Len(frames)
  PROVE  FrameAt(LengthUpTo(k)) = frames[k + 1] /\ k \in 0..Len(frames) /\ k + 1 \in 1..Len(frames)
<1>1. Len(frames) \in Nat /\ DOMAIN frames = 1..Len(frames) /\ k \in 0..Len(frames) /\ k + 1 \in 1..Len(frames) /\ (k + 1) - 1 = k
  <2>1. Len(frames) \in Nat /\ DOMAIN frames = 1..Len(frames)
    BY FrameNumbers
  <2> QED
    BY <2>1
<1> DEFINE here == {i \in DOMAIN frames : LengthUpTo(i - 1) = LengthUpTo(k)}
<1>2. \A i \in here : i = k + 1
  <2> SUFFICES ASSUME NEW i \in 1..Len(frames), LengthUpTo(i - 1) = LengthUpTo(k), i # k + 1 PROVE FALSE
    BY <1>1
  <2>1. i - 1 \in 0..Len(frames) /\ (i - 1 < k \/ k < i - 1)
    BY <1>1
  <2>2. LengthUpTo(i - 1) \in Nat /\ LengthUpTo(k) \in Nat
    BY <2>1, FramePlaces
  <2>3. LengthUpTo(i - 1) < LengthUpTo(k) \/ LengthUpTo(k) < LengthUpTo(i - 1)
    BY <2>1, FramePlaces
  <2> QED
    BY <2>2, <2>3
<1>3. here = {k + 1}
  BY <1>1, <1>2
<1>4. Min({k + 1}) = k + 1
  <2> DEFINE x == k + 1
  <2>1. x \in Int
    OBVIOUS
  <2> HIDE DEF x
  <2>2. x <= x
    BY <2>1
  <2>3. Min({x}) = x
    BY <2>2, Zenon DEF Min
  <2> QED
    BY <2>3 DEF x
<1> QED
  BY <1>1, <1>3, <1>4 DEF FrameAt

(* A byte is in the first n frames if it lies before the next one.         *)
LEMMA PlaceOrder ==
  ASSUME StreamFormed, NEW m \in 0..Len(frames), NEW n \in 0..Len(frames)
  PROVE  /\ LengthUpTo(m) < LengthUpTo(n) => m < n
         /\ LengthUpTo(m) = LengthUpTo(n) => m = n
         /\ m <= n => LengthUpTo(m) <= LengthUpTo(n)
<1>1. LengthUpTo(m) \in Nat /\ LengthUpTo(n) \in Nat
  BY FramePlaces
<1>2. m < n \/ m = n \/ n < m
  BY FrameNumbers
<1>3. m < n => LengthUpTo(m) < LengthUpTo(n)
  BY FramePlaces
<1>4. n < m => LengthUpTo(n) < LengthUpTo(m)
  BY FramePlaces
<1>5. m \in Nat /\ n \in Nat
  BY FrameNumbers
<1> QED
  BY ONLY <1>1, <1>2, <1>3, <1>4, <1>5

-----------------------------------------------------------------------------
(* The invariant of the decompression.  The first k frames were stepped    *)
(* over; if what they announce is true, no more was announced than they    *)
(* decode to.                                                              *)
NoReserved(f, n) == \A j \in 1..n : f.blocks[j].type # Reserved
SteppedOver(k) ==
  \A i \in 1..k : \/ frames[i].kind = "skippable"
                  \/ frames[i].kind = "standard" /\ NoReserved(frames[i], Len(frames[i].blocks))
Honest(k) == \A i \in 1..k : frames[i].content \in {-1, Output(frames[i])}
Announced(k) == known \in Nat /\ (Honest(k) => known <= OutputUpTo(k))

AtFrame(k) ==
  /\ k \in 0..Len(frames) /\ stream_offset = LengthUpTo(k)
  /\ SteppedOver(k) /\ Announced(k)
AtBlock(k) ==
  /\ k \in Nat /\ k < Len(frames) /\ begun = LengthUpTo(k)
  /\ SteppedOver(k) /\ frames[k + 1].kind = "standard" /\ Announced(k + 1)
  /\ block \in 1..Len(frames[k + 1].blocks) /\ NoReserved(frames[k + 1], block - 1)
  /\ stream_offset = LengthUpTo(k) + frames[k + 1].header + BlocksUpTo(frames[k + 1], block - 1)

StreamInv ==
  /\ StreamFormed
  /\ stream_phase \in {"start", "frames", "blocks", "decode", "accepted", "refused"}
  /\ stream_offset \in Nat /\ stream_offset <= cut
  /\ total \in Nat /\ OutputBounded
  /\ stream_phase \in {"start", "frames", "blocks"} => total = 0
  /\ stream_phase = "start" => stream_offset = 0 /\ known = 0
  /\ stream_phase \in {"frames", "blocks", "decode"} => expected <= MaxOutput
  /\ stream_phase = "frames" => \E k \in Nat : AtFrame(k)
  /\ stream_phase = "blocks" => \E k \in Nat : AtBlock(k)
  /\ stream_phase = "decode" => /\ stream_offset = cut /\ \E k \in Nat : AtFrame(k)
                                /\ total <= expected /\ total <= Decoded
  /\ PackExact

(* What is left of a whole pack when the reader is at frame k.             *)
WholeAt(n) ==
  /\ n \in 0..Len(frames) /\ cut = LengthUpTo(n) /\ expected = OutputUpTo(n)
  /\ \A i \in 1..n : SoundFrame(frames[i])

LEMMA WholePackAt ==
  ASSUME StreamFormed, WholePack
  PROVE  \E n \in Nat : WholeAt(n)
<1>1. \A n \in 0..Len(frames) : n \in Nat
  BY FrameNumbers
<1> QED
  BY <1>1 DEF WholePack, WholeAt, OutputUpTo

LEMMA SoundIsHonest ==
  ASSUME StreamFormed, NEW n \in Nat, WholeAt(n), NEW k \in Nat, k <= n
  PROVE  Honest(k) /\ OutputUpTo(k) <= expected
<1>1. n \in 0..Len(frames) /\ Len(frames) \in Nat /\ k \in 0..Len(frames)
  <2>1. n \in 0..Len(frames) /\ Len(frames) \in Nat
    BY FrameNumbers DEF WholeAt
  <2> QED BY <2>1
<1>2. ASSUME NEW i \in 1..k PROVE frames[i].content \in {-1, Output(frames[i])}
  <2>1. i \in 1..n /\ i \in 1..Len(frames)
    BY <1>1
  <2>2. SoundFrame(frames[i]) /\ FrameFormed(frames[i])
    BY <2>1, FrameNumbers DEF WholeAt
  <2> QED
    BY <2>2 DEF SoundFrame, FrameFormed
<1>3. OutputUpTo(k) <= OutputUpTo(n)
  BY <1>1, OutputPlaces
<1> QED
  BY <1>2, <1>3 DEF Honest, WholeAt

(* A whole pack that goes on behind frame k holds frame k + 1 in full.     *)
LEMMA NextFrameWhole ==
  ASSUME StreamFormed, NEW n \in Nat, WholeAt(n), NEW k \in Nat, k < Len(frames), LengthUpTo(k) < cut
  PROVE  /\ k + 1 <= n /\ SoundFrame(frames[k + 1])
         /\ LengthUpTo(k) + FrameLength(frames[k + 1]) <= cut
<1>1. n \in 0..Len(frames) /\ cut = LengthUpTo(n) /\ Len(frames) \in Nat /\ k \in 0..Len(frames)
  <2>1. n \in 0..Len(frames) /\ cut = LengthUpTo(n) /\ Len(frames) \in Nat
    BY FrameNumbers DEF WholeAt
  <2> QED BY <2>1
<1>2. k < n
  BY <1>1, PlaceOrder
<1>3. k + 1 \in 1..n /\ k + 1 \in 1..Len(frames) /\ k + 1 \in 0..Len(frames) /\ (k + 1) - 1 = k /\ k + 1 <= n
  BY <1>1, <1>2
<1>4. LengthUpTo(k + 1) <= LengthUpTo(n)
  BY <1>1, <1>3, PlaceOrder
<1>5. LengthUpTo(k + 1) = LengthUpTo(k) + FrameLength(frames[k + 1])
  BY <1>3, FramePlaces
<1> QED
  BY <1>1, <1>3, <1>4, <1>5 DEF WholeAt

LEMMA InFrames ==
  ASSUME StreamFormed, NEW k \in Nat, AtFrame(k), stream_offset < cut
  PROVE  /\ k < Len(frames) /\ k + 1 \in 1..Len(frames) /\ k \in 0..Len(frames)
         /\ FrameAt(stream_offset) = frames[k + 1] /\ stream_offset = LengthUpTo(k)
         /\ frames[k + 1] \in FrameSet /\ FrameFormed(frames[k + 1])
<1>1. k \in 0..Len(frames) /\ stream_offset = LengthUpTo(k)
  BY DEF AtFrame
<1>2. Len(frames) \in Nat /\ cut \in Nat /\ cut <= LengthUpTo(Len(frames))
  BY FrameNumbers
<1>3. Len(frames) \in 0..Len(frames) /\ LengthUpTo(k) \in Nat /\ LengthUpTo(Len(frames)) \in Nat
  BY <1>1, <1>2, FramePlaces
<1>4. LengthUpTo(k) < LengthUpTo(Len(frames))
  BY <1>1, <1>2, <1>3
<1>5. k < Len(frames)
  BY <1>1, <1>3, <1>4, PlaceOrder
<1>6. k + 1 \in 1..Len(frames)
  BY <1>2, <1>5
<1> QED
  BY <1>1, <1>5, <1>6, FrameAtPlace, FrameNumbers

-----------------------------------------------------------------------------
(* The pack never changes, and what was said of its frames stays true.     *)
Pack == <<frames, cut, expected>>

LEMMA PackStays ==
  ASSUME UNCHANGED Pack
  PROVE  /\ frames' = frames /\ cut' = cut /\ expected' = expected
         /\ StreamFormed' <=> StreamFormed
         /\ WholePack' <=> WholePack
         /\ Decoded' = Decoded
         /\ \A n : LengthUpTo(n)' = LengthUpTo(n) /\ OutputUpTo(n)' = OutputUpTo(n)
         /\ \A n : SteppedOver(n)' <=> SteppedOver(n)
         /\ \A n : Honest(n)' <=> Honest(n)
<1>1. frames' = frames /\ cut' = cut /\ expected' = expected
  BY DEF Pack
<1>2. \A n : LengthUpTo(n)' = LengthUpTo(n) /\ OutputUpTo(n)' = OutputUpTo(n)
  BY <1>1, Zenon DEF LengthUpTo, OutputUpTo
<1>3. StreamFormed' <=> StreamFormed
  BY <1>1, <1>2, Zenon DEF StreamFormed
<1>4. WholePack' <=> WholePack
  BY <1>1, <1>2, Zenon DEF WholePack
<1>5. Decoded' = Decoded
  BY <1>1, <1>2, Zenon DEF Decoded, Complete
<1>6. \A n : SteppedOver(n)' <=> SteppedOver(n)
  BY <1>1, Zenon DEF SteppedOver
<1>7. \A n : Honest(n)' <=> Honest(n)
  BY <1>1, Zenon DEF Honest
<1> QED
  BY <1>1, <1>2, <1>3, <1>4, <1>5, <1>6, <1>7

LEMMA StreamRefusal ==
  ASSUME StreamInv, RefuseStream, UNCHANGED Pack, ~WholePack
  PROVE  StreamInv'
<1>1. StreamFormed' /\ ~WholePack' /\ cut' = cut /\ expected' = expected
  BY PackStays DEF StreamInv
<1>2. stream_phase' = "refused" /\ stream_offset' = stream_offset /\ total' = total
  BY DEF RefuseStream
<1>3. OutputBounded'
  BY <1>1, <1>2 DEF StreamInv, OutputBounded
<1> QED
  BY <1>1, <1>2, <1>3 DEF StreamInv, PackExact

LEMMA StreamInvInit == StreamInit => StreamInv
<1> SUFFICES ASSUME StreamInit PROVE StreamInv
  OBVIOUS
<1>1. frames \in FrameLists /\ expected \in Expected /\ cut \in 0..LengthUpTo(Len(frames))
  BY DEF StreamInit
<1>2. frames \in Seq(FrameSet) /\ expected \in Nat
  BY <1>1, StreamForm DEF FrameSet
<1>3. Len(frames) \in Nat /\ DOMAIN frames = 1..Len(frames) /\ \A i \in 1..Len(frames) : frames[i] \in FrameSet
  BY <1>2, ElementOfSeq
<1>4. \A i \in 1..Len(frames) : FrameFormed(frames[i])
  BY <1>1, <1>3, StreamForm DEF FrameFormed
<1>5. cut \in Nat /\ cut <= LengthUpTo(Len(frames))
  <2>1. LengthUpTo(Len(frames)) \in Nat
    <3>1. [i \in 1..Len(frames) |-> FrameLength(frames[i])] \in Seq(Nat)
      BY <1>3, FrameSizes
    <3> DEFINE s == [i \in 1..Len(frames) |-> FrameLength(frames[i])]
    <3> HIDE DEF s
    <3>2. SumOf(s) \in Nat
      BY <3>1, RunningFacts DEF s
    <3> QED BY <3>2 DEF s, LengthUpTo
  <2> QED
    BY <1>1, <2>1
<1>6. StreamFormed
  BY <1>2, <1>4, <1>5 DEF StreamFormed
<1>7. /\ stream_phase = "start" /\ stream_offset = 0 /\ known = 0 /\ total = 0
  BY DEF StreamInit
<1>8. OutputBounded
  BY <1>2, <1>7 DEF OutputBounded
<1> QED
  BY <1>5, <1>6, <1>7, <1>8 DEF StreamInv, PackExact

LEMMA BeginStep ==
  ASSUME StreamInv, Begin, UNCHANGED Pack
  PROVE  StreamInv'
<1>1. stream_phase = "start" /\ StreamFormed /\ stream_offset = 0 /\ known = 0 /\ total = 0
  BY DEF StreamInv, Begin
<1>2. CASE expected > MaxOutput
  <2>1. ~WholePack
    BY <1>1, <1>2, FrameNumbers, StreamAssumption DEF WholePack
  <2> QED
    BY <1>2, <2>1, StreamRefusal DEF Begin
<1>3. CASE ~(expected > MaxOutput)
  <2>1. stream_phase' = "frames" /\ UNCHANGED <<stream_offset, begun, block, known, total>>
    BY <1>3 DEF Begin
  <2>2. /\ frames' = frames /\ cut' = cut /\ expected' = expected /\ StreamFormed'
        /\ \A n : LengthUpTo(n)' = LengthUpTo(n) /\ OutputUpTo(n)' = OutputUpTo(n)
    BY <1>1, PackStays
  <2>3. 0 \in 0..Len(frames) /\ LengthUpTo(0) = 0 /\ OutputUpTo(0) = 0
    BY <1>1, FrameNumbers, FramePlaces, OutputPlaces
  <2>4. SteppedOver(0)'
    BY DEF SteppedOver
  <2>5. Announced(0)'
    <3>1. known' = 0 /\ OutputUpTo(0)' = 0
      BY <1>1, <2>1, <2>2, <2>3
    <3> QED BY <3>1 DEF Announced
  <2>6. AtFrame(0)'
    <3>1. stream_offset' = LengthUpTo(0)' /\ 0 \in (0..Len(frames))'
      BY <1>1, <2>1, <2>2, <2>3
    <3> QED BY <2>4, <2>5, <3>1, Zenon DEF AtFrame
  <2>7. \E k \in Nat : AtFrame(k)'
    BY <2>6
  <2>8. expected' <= MaxOutput
    BY <1>1, <1>3, <2>2, FrameNumbers, StreamAssumption
  <2>9. OutputBounded' /\ stream_offset' \in Nat /\ stream_offset' <= cut' /\ total' = 0
    BY <1>1, <2>1, <2>2 DEF StreamInv, OutputBounded
  <2> QED
    BY <2>1, <2>2, <2>7, <2>8, <2>9 DEF StreamInv, PackExact
<1> QED
  BY <1>2, <1>3

(* What stepping over frame k + 1 takes.                                   *)
LEMMA OneMoreAnnounced ==
  ASSUME StreamFormed, NEW k \in Nat, k < Len(frames), Announced(k),
         frames[k + 1].kind \in {"standard", "skippable"}
  PROVE  LET c == frames[k + 1].content IN
         /\ known + (IF c = -1 THEN 0 ELSE c) \in Nat
         /\ Honest(k + 1) => known + (IF c = -1 THEN 0 ELSE c) <= OutputUpTo(k + 1)
<1> DEFINE c == frames[k + 1].content
<1>1. Len(frames) \in Nat /\ k + 1 \in 1..Len(frames) /\ (k + 1) - 1 = k /\ k \in 0..Len(frames) /\ k + 1 \in 0..Len(frames)
  <2>1. Len(frames) \in Nat
    BY FrameNumbers
  <2> QED BY <2>1
<1>2. (c = -1 \/ c \in Nat) /\ Output(frames[k + 1]) \in Nat /\ known \in Nat
  BY <1>1, FrameNumbers, FrameSizes DEF Announced
<1>3. OutputUpTo(k + 1) = OutputUpTo(k) + Output(frames[k + 1]) /\ OutputUpTo(k) \in Nat
  BY <1>1, OutputPlaces
<1>4. ASSUME Honest(k + 1) PROVE known + (IF c = -1 THEN 0 ELSE c) <= OutputUpTo(k + 1)
  <2>1. Honest(k)
    <3>1. \A i \in 1..k : i \in 1..k + 1
      OBVIOUS
    <3> QED BY <1>4, <3>1 DEF Honest
  <2>2. known <= OutputUpTo(k)
    BY <2>1 DEF Announced
  <2>3. k + 1 \in 1..k + 1
    OBVIOUS
  <2>4. c \in {-1, Output(frames[k + 1])}
    BY <1>4, <2>3 DEF Honest
  <2> HIDE DEF c
  <2> QED
    BY <1>2, <1>3, <2>2, <2>4
<1> QED
  BY <1>2, <1>4

LEMMA ReadFrameStep ==
  ASSUME StreamInv, ReadFrame, UNCHANGED Pack
  PROVE  StreamInv'
<1>1. /\ stream_phase = "frames" /\ stream_offset < cut /\ StreamFormed
      /\ stream_offset \in Nat /\ cut \in Nat /\ expected \in Nat /\ total = 0
  BY FrameNumbers DEF StreamInv, ReadFrame
<1>2. PICK k \in Nat : AtFrame(k)
  BY <1>1 DEF StreamInv
<1> DEFINE f == frames[k + 1]
           announced == known + (IF f.content = -1 THEN 0 ELSE f.content)
<1>3. /\ k < Len(frames) /\ k + 1 \in 1..Len(frames) /\ k \in 0..Len(frames)
      /\ FrameAt(stream_offset) = f /\ stream_offset = LengthUpTo(k)
      /\ f \in FrameSet /\ FrameFormed(f) /\ SteppedOver(k) /\ Announced(k)
  BY <1>1, <1>2, InFrames DEF AtFrame
<1>4. /\ f.header \in Nat /\ f.header # 0 /\ FrameLength(f) \in Nat /\ FrameLength(f) >= f.header
      /\ f.kind = "skippable" => FrameLength(f) = f.header /\ f.header >= 8
      /\ f.kind = "standard" => f.header >= 4 /\ f.blocks # <<>>
      /\ f.kind \in {"standard", "skippable", "other"}
  <2>1. f.kind \in {"standard", "skippable", "other"}
    BY <1>3 DEF FrameSet
  <2> QED
    BY <1>3, <2>1, FrameSizes DEF FrameFormed
<1>5. /\ frames' = frames /\ cut' = cut /\ expected' = expected /\ StreamFormed'
      /\ \A n : LengthUpTo(n)' = LengthUpTo(n) /\ OutputUpTo(n)' = OutputUpTo(n)
      /\ \A n : SteppedOver(n)' <=> SteppedOver(n)
      /\ \A n : Honest(n)' <=> Honest(n)
  BY <1>1, PackStays
<1> HIDE DEF f
<1>6. ASSUME WholePack
      PROVE  /\ f.kind # "other" /\ HeaderKnown(f) /\ announced <= expected
             /\ stream_offset + FrameLength(f) <= cut
  <2>1. PICK n \in Nat : WholeAt(n)
    BY <1>1, <1>6, WholePackAt
  <2>2. k + 1 <= n /\ SoundFrame(f) /\ stream_offset + FrameLength(f) <= cut
    BY <1>1, <1>3, <2>1, NextFrameWhole DEF f
  <2>3. f.kind # "other"
    BY <2>2 DEF SoundFrame
  <2>4. HeaderKnown(f)
    <3>1. Remaining >= f.header
      BY <1>1, <1>4, <2>2 DEF Remaining
    <3>2. Remaining \in Int
      BY <1>1 DEF Remaining
    <3> QED
      BY <1>4, <2>3, <3>1, <3>2 DEF HeaderKnown
  <2>5. Honest(k + 1) /\ OutputUpTo(k + 1) <= expected
    BY <1>1, <2>1, <2>2, SoundIsHonest
  <2>6. announced \in Nat /\ announced <= OutputUpTo(k + 1)
    BY <1>1, <1>3, <1>4, <2>3, <2>5, OneMoreAnnounced DEF f
  <2>7. OutputUpTo(k + 1) \in Nat
    <3>1. k + 1 \in 0..Len(frames)
      BY <1>3
    <3> QED BY <1>1, <3>1, OutputPlaces
  <2> HIDE DEF announced
  <2> QED
    BY <1>1, <2>2, <2>3, <2>4, <2>5, <2>6, <2>7
<1>7. CASE RefuseStream /\ (\/ ~HeaderKnown(f) \/ f.kind = "other"
                            \/ f.kind = "skippable" /\ ~EndsInside(stream_offset + Skip(f))
                            \/ announced > expected)
  <2>1. announced \in Int
    BY <1>3, FrameSizes DEF Announced
  <2>2. ~WholePack
    <3> SUFFICES ASSUME WholePack PROVE FALSE
      OBVIOUS
    <3>1. announced <= expected /\ ~(announced > expected)
      <4> HIDE DEF announced
      <4> QED BY <1>1, <1>6, <2>1
    <3> QED
      BY <1>4, <1>6, <1>7, <3>1 DEF EndsInside, Skip
  <2> QED
    BY <1>7, <2>2, StreamRefusal
<1>8. CASE /\ f.kind = "skippable" /\ EndsInside(stream_offset + Skip(f))
           /\ stream_offset' = stream_offset + Skip(f) /\ UNCHANGED <<stream_phase, begun, block, known, total>>
  <2>1. /\ k + 1 \in Nat /\ (k + 1) - 1 = k /\ k + 1 \in 0..Len(frames)
        /\ \A i \in 1..k + 1 : i \in 1..k \/ i = k + 1
    BY <1>3
  <2>2. stream_offset' = LengthUpTo(k + 1)
    <3>1. LengthUpTo(k + 1) = LengthUpTo(k) + FrameLength(f)
      BY <1>1, <1>3, <2>1, FramePlaces DEF f
    <3> QED
      BY <1>3, <1>4, <1>8, <3>1 DEF Skip
  <2>3. SteppedOver(k + 1)
    BY <1>3, <1>8, <2>1 DEF SteppedOver, f
  <2>4. Announced(k + 1)'
    <3>1. f.content = -1
      BY <1>3, <1>8 DEF FrameFormed
    <3>2. announced = known /\ known \in Nat
      BY <1>3, <3>1 DEF Announced
    <3>3. Honest(k + 1) => known <= OutputUpTo(k + 1)
      BY <1>1, <1>3, <1>8, <3>1, <3>2, OneMoreAnnounced DEF f
    <3>4. known' = known
      BY <1>8
    <3> QED
      BY <1>5, <3>2, <3>3, <3>4, Zenon DEF Announced
  <2>5. AtFrame(k + 1)'
    BY <1>5, <2>1, <2>2, <2>3, <2>4, Zenon DEF AtFrame
  <2>6. \E j \in Nat : AtFrame(j)'
    BY <2>1, <2>5
  <2>7. stream_offset' \in Nat /\ stream_offset' <= cut' /\ total' = 0 /\ stream_phase' = "frames"
    BY <1>1, <1>4, <1>5, <1>8 DEF EndsInside, Skip
  <2>8. OutputBounded' /\ expected' <= MaxOutput
    BY <1>1, <1>5, <2>7 DEF OutputBounded, StreamInv
  <2> QED
    BY <1>5, <2>6, <2>7, <2>8 DEF StreamInv, PackExact
<1>9. CASE /\ f.kind = "standard" /\ HeaderKnown(f) /\ ~(announced > expected)
           /\ known' = announced /\ stream_offset' = stream_offset + f.header
           /\ begun' = stream_offset /\ stream_phase' = "blocks" /\ block' = 1 /\ UNCHANGED total
  <2>1. k + 1 \in Nat
    OBVIOUS
  <2>2. Announced(k + 1)'
    <3>1. announced \in Nat /\ (Honest(k + 1) => announced <= OutputUpTo(k + 1))
      BY <1>1, <1>3, <1>9, OneMoreAnnounced DEF f
    <3> HIDE DEF announced
    <3> QED
      BY <1>5, <1>9, <3>1, Zenon DEF Announced
  <2>3. 1 \in 1..Len(f.blocks) /\ NoReserved(f, 0) /\ BlocksUpTo(f, 0) = 0
    <3>1. f.blocks \in Seq([type : Nat, size : Nat, out : Nat]) /\ f.blocks # <<>>
      BY <1>3, <1>4, <1>9 DEF FrameSet
    <3>2. 1 \in 1..Len(f.blocks)
      BY <3>1
    <3> QED
      BY <1>3, <3>2, BlockPlaces DEF NoReserved
  <2>4. stream_offset' = LengthUpTo(k) + f.header + BlocksUpTo(f, 0)
    BY <1>1, <1>3, <1>4, <1>9, <2>3
  <2>5. block' - 1 = 0 /\ begun' = LengthUpTo(k)' /\ block' \in 1..Len(f.blocks)
    BY <1>3, <1>5, <1>9, <2>3
  <2>6. AtBlock(k)'
    <3>1. frames'[k + 1] = f
      BY <1>5 DEF f
    <3> QED
      BY <1>3, <1>5, <1>9, <2>2, <2>3, <2>4, <2>5, <3>1, Zenon DEF AtBlock, NoReserved, BlocksUpTo, BlockLengths
  <2>7. \E j \in Nat : AtBlock(j)'
    BY <2>6
  <2>8. stream_offset' \in Nat /\ stream_offset' <= cut' /\ total' = 0
    BY <1>1, <1>4, <1>5, <1>9 DEF HeaderKnown, Remaining
  <2>9. OutputBounded' /\ expected' <= MaxOutput
    BY <1>1, <1>5, <2>8 DEF OutputBounded, StreamInv
  <2> QED
    BY <1>5, <1>9, <2>7, <2>8, <2>9 DEF StreamInv, PackExact
<1>10. \/ RefuseStream /\ (\/ ~HeaderKnown(f) \/ f.kind = "other"
                           \/ f.kind = "skippable" /\ ~EndsInside(stream_offset + Skip(f))
                           \/ announced > expected)
       \/ /\ f.kind = "skippable" /\ EndsInside(stream_offset + Skip(f))
          /\ stream_offset' = stream_offset + Skip(f) /\ UNCHANGED <<stream_phase, begun, block, known, total>>
       \/ /\ f.kind = "standard" /\ HeaderKnown(f) /\ ~(announced > expected)
          /\ known' = announced /\ stream_offset' = stream_offset + f.header
          /\ begun' = stream_offset /\ stream_phase' = "blocks" /\ block' = 1 /\ UNCHANGED total
  <2> HIDE DEF announced
  <2>1. FrameAt(stream_offset) = f
    BY <1>3
  <2>2. announced = known + (IF f.content = -1 THEN 0 ELSE f.content)
    BY DEF announced
  <2> QED
    BY <1>4, <2>1, <2>2 DEF ReadFrame
<1> QED
  BY <1>7, <1>8, <1>9, <1>10

LEMMA ReadBlockStep ==
  ASSUME StreamInv, ReadBlock, UNCHANGED Pack
  PROVE  StreamInv'
<1>1. /\ stream_phase = "blocks" /\ StreamFormed /\ stream_offset \in Nat /\ stream_offset <= cut
      /\ cut \in Nat /\ expected \in Nat /\ total = 0
  BY FrameNumbers DEF StreamInv, ReadBlock
<1>2. PICK k \in Nat : AtBlock(k)
  BY <1>1 DEF StreamInv
<1> DEFINE f == frames[k + 1]
           b == f.blocks[block]
           n == Len(f.blocks)
           end == stream_offset + BlockLength(b)
           tail == end + Tail4(f)
<1>3. /\ k < Len(frames) /\ begun = LengthUpTo(k) /\ SteppedOver(k) /\ f.kind = "standard" /\ Announced(k + 1)
      /\ block \in 1..n /\ NoReserved(f, block - 1)
      /\ stream_offset = LengthUpTo(k) + f.header + BlocksUpTo(f, block - 1)
  BY <1>2 DEF AtBlock
<1>4. /\ k + 1 \in 1..Len(frames) /\ k \in 0..Len(frames) /\ FrameAt(begun) = f /\ f \in FrameSet
      /\ LengthUpTo(k) \in Nat /\ k + 1 \in Nat /\ (k + 1) - 1 = k /\ k + 1 \in 0..Len(frames)
  <2>1. k + 1 \in 1..Len(frames) /\ k \in 0..Len(frames) /\ FrameAt(begun) = f
    BY <1>1, <1>3, FrameAtPlace
  <2>2. f \in FrameSet /\ LengthUpTo(k) \in Nat
    BY <1>1, <2>1, FrameNumbers, FramePlaces
  <2> QED
    BY <2>1, <2>2
<1>5. /\ frames' = frames /\ cut' = cut /\ expected' = expected /\ StreamFormed'
      /\ \A i : LengthUpTo(i)' = LengthUpTo(i) /\ OutputUpTo(i)' = OutputUpTo(i)
      /\ \A i : SteppedOver(i)' <=> SteppedOver(i)
      /\ \A i : Honest(i)' <=> Honest(i)
  BY <1>1, PackStays
<1> HIDE DEF f
<1>6. /\ n \in Nat /\ block \in Nat /\ block >= 1 /\ block <= n
      /\ block \in 0..n /\ block - 1 \in 0..n /\ n \in 0..n
  <2>1. n \in Nat
    BY <1>4, BlockNumbers
  <2> QED
    BY <1>3, <2>1
<1>7. /\ BlockLength(b) \in Nat /\ BlockLength(b) >= 3
      /\ f.header \in Nat /\ f.header # 0 /\ Tail4(f) \in Nat
      /\ BlocksUpTo(f, block - 1) \in Nat /\ BlocksUpTo(f, block) \in Nat /\ BlocksUpTo(f, n) \in Nat
      /\ BlocksUpTo(f, block) = BlocksUpTo(f, block - 1) + BlockLength(b)
      /\ BlocksUpTo(f, block) <= BlocksUpTo(f, n)
      /\ FrameLength(f) = f.header + BlocksUpTo(f, n) + Tail4(f)
  <2>1. BlockLength(b) \in Nat /\ BlockLength(b) >= 3
    BY <1>3, <1>4, BlockNumbers
  <2>2. /\ BlocksUpTo(f, block - 1) \in Nat /\ BlocksUpTo(f, block) \in Nat /\ BlocksUpTo(f, n) \in Nat
        /\ BlocksUpTo(f, block) <= BlocksUpTo(f, n)
    BY <1>4, <1>6, BlockPlaces
  <2>3. BlocksUpTo(f, block) = BlocksUpTo(f, block - 1) + BlockLength(b)
    BY <1>3, <1>4, BlockPlaces
  <2>4. /\ f.header \in Nat /\ f.header # 0 /\ Tail4(f) \in Nat
        /\ FrameLength(f) = f.header + BlocksUpTo(f, n) + Tail4(f)
    BY <1>3, <1>4, FrameSizes
  <2> QED
    BY <2>1, <2>2, <2>3, <2>4
<1> HIDE DEF b, n
<1>8. end = LengthUpTo(k) + f.header + BlocksUpTo(f, block) /\ end \in Nat /\ tail \in Nat
  <2>1. stream_offset = LengthUpTo(k) + f.header + BlocksUpTo(f, block - 1)
    BY <1>3
  <2>2. /\ BlockLength(b) \in Nat /\ f.header \in Nat /\ Tail4(f) \in Nat
        /\ BlocksUpTo(f, block - 1) \in Nat /\ BlocksUpTo(f, block) \in Nat /\ LengthUpTo(k) \in Nat
        /\ BlocksUpTo(f, block) = BlocksUpTo(f, block - 1) + BlockLength(b)
    BY <1>4, <1>7
  <2> QED
    BY ONLY <2>1, <2>2
<1>9. ASSUME WholePack
      PROVE  /\ ~(Remaining < 3) /\ b.type # Reserved /\ end <= cut
             /\ block = n => tail <= cut
  <2>1. PICK m \in Nat : WholeAt(m)
    BY <1>1, <1>9, WholePackAt
  <2>2. LengthUpTo(k) < cut
    <3>1. /\ stream_offset = LengthUpTo(k) + f.header + BlocksUpTo(f, block - 1)
          /\ f.header \in Nat /\ f.header # 0 /\ BlocksUpTo(f, block - 1) \in Nat
          /\ LengthUpTo(k) \in Nat /\ stream_offset <= cut /\ cut \in Nat
      BY <1>1, <1>3, <1>4, <1>7
    <3> QED
      BY ONLY <3>1
  <2>3. SoundFrame(f) /\ LengthUpTo(k) + FrameLength(f) <= cut
    BY <1>1, <1>3, <2>1, <2>2, NextFrameWhole DEF f
  <2>4. block \in DOMAIN f.blocks
    BY <1>3, <1>4, BlockNumbers DEF n
  <2>5. b.type # Reserved
    BY <1>3, <2>3, <2>4 DEF SoundFrame, b
  <2> DEFINE Arithmetic ==
        /\ end = LengthUpTo(k) + f.header + BlocksUpTo(f, block) /\ end \in Nat
        /\ FrameLength(f) = f.header + BlocksUpTo(f, n) + Tail4(f)
        /\ LengthUpTo(k) + FrameLength(f) <= cut
        /\ BlocksUpTo(f, block) <= BlocksUpTo(f, n)
        /\ BlocksUpTo(f, block) \in Nat /\ BlocksUpTo(f, n) \in Nat
        /\ f.header \in Nat /\ Tail4(f) \in Nat /\ LengthUpTo(k) \in Nat /\ cut \in Nat
  <2>0. Arithmetic
    BY <1>1, <1>4, <1>7, <1>8, <2>3
  <2>6. end <= cut
    BY ONLY <2>0
  <2>7. ~(Remaining < 3)
    BY <1>1, <1>7, <2>6 DEF Remaining
  <2>8. block = n => tail <= cut
    BY ONLY <2>0
  <2> QED
    BY <2>5, <2>6, <2>7, <2>8
<1>10. CASE RefuseStream /\ (Remaining < 3 \/ b.type = Reserved \/ end > cut \/ (block = n /\ tail > cut))
  <2>1. ~WholePack
    <3> HIDE DEF end, tail
    <3> QED
      BY <1>1, <1>8, <1>9, <1>10
  <2> QED
    BY <1>10, <2>1, StreamRefusal
<1>11. CASE /\ b.type # Reserved /\ end <= cut /\ block < n
            /\ stream_offset' = end /\ block' = block + 1 /\ UNCHANGED <<stream_phase, begun, known, total>>
  <2>1. NoReserved(f, block)
    <3>1. \A j \in 1..block : j \in 1..block - 1 \/ j = block
      BY <1>6
    <3> QED
      BY <1>3, <1>11, <3>1 DEF NoReserved, b
  <2>2. block' - 1 = block /\ block' \in 1..n
    BY <1>6, <1>11
  <2>3. AtBlock(k)'
    <3>1. frames'[k + 1] = f
      BY <1>5 DEF f
    <3>2. Announced(k + 1)'
      BY <1>3, <1>5, <1>11, Zenon DEF Announced
    <3>3. stream_offset' = LengthUpTo(k) + f.header + BlocksUpTo(f, block)
      BY <1>8, <1>11
    <3>4. begun' = begun
      BY <1>11
    <3> QED
      BY <1>3, <1>5, <2>1, <2>2, <3>1, <3>2, <3>3, <3>4, Zenon DEF AtBlock, NoReserved, BlocksUpTo, BlockLengths, n
  <2>4. \E j \in Nat : AtBlock(j)'
    BY <2>3
  <2>5. stream_offset' \in Nat /\ stream_offset' <= cut' /\ total' = 0 /\ stream_phase' = "blocks"
    BY <1>1, <1>5, <1>8, <1>11
  <2>6. OutputBounded' /\ expected' <= MaxOutput
    BY <1>1, <1>5, <2>5 DEF OutputBounded, StreamInv
  <2> QED
    BY <1>5, <2>4, <2>5, <2>6 DEF StreamInv, PackExact
<1>12. CASE /\ b.type # Reserved /\ end <= cut /\ block = n /\ tail <= cut
            /\ stream_offset' = tail /\ stream_phase' = "frames" /\ UNCHANGED <<begun, block, known, total>>
  <2>1. NoReserved(f, n)
    <3>1. \A j \in 1..n : j \in 1..block - 1 \/ j = block
      BY <1>6, <1>12
    <3> QED
      BY <1>3, <1>12, <3>1 DEF NoReserved, b
  <2>2. SteppedOver(k + 1)
    <3>1. \A i \in 1..k + 1 : i \in 1..k \/ i = k + 1
      OBVIOUS
    <3> QED
      BY <1>3, <2>1, <3>1 DEF SteppedOver, f, n
  <2>3. stream_offset' = LengthUpTo(k + 1)
    <3>1. LengthUpTo(k + 1) = LengthUpTo(k) + FrameLength(f)
      BY <1>1, <1>4, FramePlaces DEF f
    <3>2. stream_offset' = tail /\ block = n
      BY <1>12
    <3>3. tail = end + Tail4(f)
      BY Zenon
    <3>4. /\ end = LengthUpTo(k) + f.header + BlocksUpTo(f, block) /\ FrameLength(f) = f.header + BlocksUpTo(f, n) + Tail4(f)
          /\ LengthUpTo(k) \in Nat /\ f.header \in Nat /\ BlocksUpTo(f, n) \in Nat /\ Tail4(f) \in Nat
      BY <1>4, <1>7, <1>8
    <3> HIDE DEF end, tail
    <3> QED
      BY ONLY <3>1, <3>2, <3>3, <3>4
  <2>4. Announced(k + 1)'
    BY <1>3, <1>5, <1>12, Zenon DEF Announced
  <2>5. AtFrame(k + 1)'
    BY <1>4, <1>5, <2>2, <2>3, <2>4, Zenon DEF AtFrame
  <2>6. \E j \in Nat : AtFrame(j)'
    BY <1>4, <2>5
  <2>7. stream_offset' \in Nat /\ stream_offset' <= cut' /\ total' = 0
    BY <1>1, <1>5, <1>8, <1>12
  <2>8. OutputBounded' /\ expected' <= MaxOutput
    BY <1>1, <1>5, <2>7 DEF OutputBounded, StreamInv
  <2> QED
    BY <1>5, <1>12, <2>6, <2>7, <2>8 DEF StreamInv, PackExact
<1>13. \/ RefuseStream /\ (Remaining < 3 \/ b.type = Reserved \/ end > cut \/ (block = n /\ tail > cut))
       \/ /\ b.type # Reserved /\ end <= cut /\ block < n
          /\ stream_offset' = end /\ block' = block + 1 /\ UNCHANGED <<stream_phase, begun, known, total>>
       \/ /\ b.type # Reserved /\ end <= cut /\ block = n /\ tail <= cut
          /\ stream_offset' = tail /\ stream_phase' = "frames" /\ UNCHANGED <<begun, block, known, total>>
  <2>1. FrameAt(begun) = f /\ b = f.blocks[block] /\ n = Len(f.blocks)
    BY <1>4 DEF b, n
  <2>2. end = stream_offset + BlockLength(b) /\ tail = end + (IF f.checksum THEN 4 ELSE 0)
    BY DEF Tail4
  <2> HIDE DEF end, tail
  <2>3. end <= cut <=> ~(end > cut)
    BY <1>1, <1>8
  <2>4. tail <= cut <=> ~(tail > cut)
    BY <1>1, <1>8
  <2>5. ~(block < n) <=> block = n
    BY <1>6
  <2> QED
    BY <2>1, <2>2, <2>3, <2>4, <2>5 DEF ReadBlock, EndsInside
<1> QED
  BY <1>10, <1>11, <1>12, <1>13

LEMMA WalkedStep ==
  ASSUME StreamInv, Walked, UNCHANGED Pack
  PROVE  StreamInv'
<1>1. /\ stream_phase = "frames" /\ StreamFormed /\ stream_offset \in Nat /\ stream_offset <= cut
      /\ stream_offset >= cut /\ cut \in Nat /\ expected \in Nat /\ total = 0
  BY FrameNumbers DEF StreamInv, Walked
<1>2. PICK k \in Nat : AtFrame(k)
  BY <1>1 DEF StreamInv
<1>3. /\ stream_phase' = "decode" /\ UNCHANGED <<stream_offset, begun, block, known, total>>
  BY DEF Walked
<1>4. /\ frames' = frames /\ cut' = cut /\ expected' = expected /\ StreamFormed' /\ Decoded' = Decoded
      /\ \A i : LengthUpTo(i)' = LengthUpTo(i) /\ OutputUpTo(i)' = OutputUpTo(i)
      /\ \A i : SteppedOver(i)' <=> SteppedOver(i)
      /\ \A i : Honest(i)' <=> Honest(i)
  BY <1>1, PackStays
<1>5. AtFrame(k)'
  BY <1>2, <1>3, <1>4, Zenon DEF AtFrame, Announced
<1>6. \E j \in Nat : AtFrame(j)'
  BY <1>5
<1>7. stream_offset' = cut' /\ stream_offset' \in Nat /\ stream_offset' <= cut' /\ total' = 0
  BY <1>1, <1>3, <1>4
<1>8. OutputBounded' /\ expected' <= MaxOutput /\ total' <= expected'
  BY <1>1, <1>4, <1>7 DEF OutputBounded, StreamInv
<1>9. total' <= Decoded'
  <2>1. Decoded \in Nat
    <3> DEFINE s == [i \in DOMAIN frames |-> IF Complete(i) THEN Output(frames[i]) ELSE 0]
    <3>1. s \in Seq(Nat)
      <4>1. /\ Len(frames) \in Nat /\ DOMAIN frames = 1..Len(frames)
            /\ \A i \in 1..Len(frames) : Output(frames[i]) \in Nat
        BY <1>1, FrameNumbers, FrameSizes
      <4> QED
        BY <4>1
    <3> HIDE DEF s
    <3>2. SumOf(s) \in Nat
      BY <3>1, RunningFacts
    <3> QED
      BY <3>2 DEF s, Decoded
  <2> QED
    BY <1>4, <1>7, <2>1
<1> QED
  BY <1>3, <1>4, <1>6, <1>7, <1>8, <1>9 DEF StreamInv, PackExact

-----------------------------------------------------------------------------
(* The decoder gives what the frames in front of the cut decode to.        *)
LEMMA DecodedIs ==
  ASSUME StreamFormed, NEW k \in 0..Len(frames), cut = LengthUpTo(k)
  PROVE  Decoded = OutputUpTo(k) /\ OutputUpTo(k) \in Nat /\ \A i \in 1..Len(frames) : Complete(i) <=> i <= k
<1> DEFINE t == [i \in DOMAIN frames |-> IF Complete(i) THEN Output(frames[i]) ELSE 0]
<1>1. /\ Len(frames) \in Nat /\ DOMAIN frames = 1..Len(frames) /\ k \in Nat
      /\ \A i \in 1..Len(frames) : Output(frames[i]) \in Nat
  BY FrameNumbers, FrameSizes
<1>2. ASSUME NEW i \in 1..Len(frames) PROVE Complete(i) <=> i <= k
  <2>1. i \in 0..Len(frames) /\ i \in Nat
    BY <1>1
  <2>2. LengthUpTo(i) \in Nat /\ LengthUpTo(k) \in Nat
    BY <2>1, FramePlaces
  <2>3. (i <= k => LengthUpTo(i) <= LengthUpTo(k)) /\ (k < i => LengthUpTo(k) < LengthUpTo(i))
    BY <2>1, PlaceOrder, FramePlaces
  <2>4. Complete(i) <=> LengthUpTo(i) <= LengthUpTo(k)
    BY DEF Complete
  <2> QED
    BY ONLY <1>1, <2>1, <2>2, <2>3, <2>4
<1>3. t \in Seq(Nat) /\ Len(t) = Len(frames) /\ \A i \in 1..Len(frames) : t[i] = IF i <= k THEN Output(frames[i]) ELSE 0
  <2>1. \A i \in 1..Len(frames) : (IF Complete(i) THEN Output(frames[i]) ELSE 0) \in Nat
    BY <1>1
  <2>2. t \in Seq(Nat) /\ Len(t) = Len(frames) /\ \A i \in 1..Len(frames) : t[i] = IF Complete(i) THEN Output(frames[i]) ELSE 0
    BY <1>1, <2>1
  <2> QED
    BY <1>2, <2>2
<1>4. Decoded = SumOf(t)
  BY DEF Decoded
<1> HIDE DEF t
<1>5. k \in 0..Len(t) /\ Len(t) \in 0..Len(t) /\ k <= Len(t)
  BY <1>1, <1>3
<1>6. Running(t)[k] = Running(t)[Len(t)]
  <2>1. \A i \in k + 1..Len(t) : t[i] = 0
    <3>1. \A i \in k + 1..Len(t) : i \in 1..Len(frames) /\ ~(i <= k)
      BY <1>1, <1>3
    <3> QED BY <1>3, <3>1
  <2> QED
    BY <1>3, <1>5, <2>1, RunningAscends
<1>7. SumOf(t) = SumOf([i \in 1..k |-> t[i]])
  BY <1>3, <1>5, <1>6, RunningFacts, PrefixSum
<1>8. [i \in 1..k |-> t[i]] = [i \in 1..k |-> Output(frames[i])]
  <2>1. \A i \in 1..k : i \in 1..Len(frames) /\ i <= k
    BY <1>1
  <2> QED BY <1>3, <2>1
<1>9. Decoded = OutputUpTo(k)
  BY <1>4, <1>7, <1>8 DEF OutputUpTo
<1> QED
  BY <1>2, <1>9, OutputPlaces

(* A whole pack ends where the reader stopped, and decodes to what the     *)
(* receipt announced.                                                      *)
LEMMA WholeEndsHere ==
  ASSUME StreamFormed, NEW k \in 0..Len(frames), cut = LengthUpTo(k), WholePack
  PROVE  WholeAt(k) /\ expected = Decoded /\ Honest(k)
<1>1. PICK n \in Nat : WholeAt(n)
  BY WholePackAt
<1>2. n \in 0..Len(frames) /\ LengthUpTo(n) = LengthUpTo(k)
  BY <1>1 DEF WholeAt
<1>3. n = k
  BY <1>2, PlaceOrder
<1>4. k \in Nat /\ k <= k
  BY FrameNumbers
<1>5. WholeAt(k)
  BY <1>1, <1>3
<1>6. Honest(k)
  BY <1>4, <1>5, SoundIsHonest
<1> QED
  BY <1>5, <1>6, DecodedIs DEF WholeAt

LEMMA DecodeStep ==
  ASSUME StreamInv, Decode, UNCHANGED Pack
  PROVE  StreamInv'
<1>1. /\ stream_phase = "decode" /\ StreamFormed /\ stream_offset = cut /\ cut \in Nat /\ expected \in Nat
      /\ total \in Nat /\ total <= expected /\ total <= Decoded /\ expected <= MaxOutput
  BY FrameNumbers DEF StreamInv, Decode
<1>2. PICK k \in Nat : AtFrame(k)
  BY <1>1 DEF StreamInv
<1>3. k \in 0..Len(frames) /\ cut = LengthUpTo(k)
  BY <1>1, <1>2 DEF AtFrame
<1>4. Decoded = OutputUpTo(k) /\ Decoded \in Nat /\ \A i \in 1..Len(frames) : Complete(i) <=> i <= k
  BY <1>1, <1>3, DecodedIs
<1>5. WholePack => expected = Decoded /\ Honest(k)
  BY <1>1, <1>3, WholeEndsHere
<1>6. Len(frames) \in Nat /\ DOMAIN frames = 1..Len(frames)
  BY <1>1, FrameNumbers
<1>7. CASE Wrong
  <2>1. PICK i \in 1..Len(frames) : Complete(i) /\ frames[i].content # -1 /\ frames[i].content # Output(frames[i])
    BY <1>6, <1>7 DEF Wrong
  <2>2. i \in 1..k
    BY <1>4, <2>1
  <2>3. ~Honest(k)
    BY <2>1, <2>2 DEF Honest
  <2>4. RefuseStream
    BY <1>7 DEF Decode
  <2> QED
    BY <1>5, <2>3, <2>4, StreamRefusal
<1> DEFINE got == IF Decoded - total < RequestSize THEN Decoded - total ELSE RequestSize
<1>8. got \in Nat /\ total + got <= Decoded /\ total + got <= expected + 1 /\ (got = 0 => total = Decoded)
  BY <1>1, <1>4, StreamAssumption DEF RequestSize
<1>9. CASE ~Wrong /\ got = 0
  <2>1. /\ stream_phase' = (IF total = expected THEN "accepted" ELSE "refused")
        /\ UNCHANGED <<stream_offset, begun, block, known, total>>
    BY <1>9 DEF Decode
  <2>2. CASE total = expected
    <3>1. ASSUME NEW i \in 1..k PROVE SoundFrame(frames[i])
      <4>1. i \in 1..Len(frames) /\ i <= k
        BY <1>3, <1>6
      <4>2. frames[i].content = -1 \/ frames[i].content = Output(frames[i])
        BY <1>4, <1>6, <1>9, <4>1 DEF Wrong
      <4>3. \/ frames[i].kind = "skippable"
            \/ frames[i].kind = "standard" /\ NoReserved(frames[i], Len(frames[i].blocks))
        BY <1>2 DEF AtFrame, SteppedOver
      <4>4. DOMAIN frames[i].blocks = 1..Len(frames[i].blocks)
        BY <1>1, <4>1, FrameNumbers DEF FrameSet
      <4> QED
        BY <4>2, <4>3, <4>4 DEF SoundFrame, NoReserved
    <3>2. expected = OutputUpTo(k)
      BY <1>4, <1>8, <1>9, <2>2
    <3>3. WholePack
      BY <1>1, <1>3, <3>1, <3>2 DEF WholePack, OutputUpTo
    <3>4. /\ WholePack' /\ StreamFormed' /\ cut' = cut /\ expected' = expected
      BY <1>1, <3>3, PackStays
    <3>5. OutputBounded'
      BY <2>1, <3>4 DEF StreamInv, OutputBounded
    <3>6. stream_phase' = "accepted"
      BY <2>1, <2>2
    <3> QED
      BY <2>1, <3>4, <3>5, <3>6 DEF StreamInv, PackExact
  <2>3. CASE total # expected
    <3>1. ~WholePack
      BY <1>5, <1>8, <1>9, <2>3
    <3>2. RefuseStream
      BY <2>1, <2>3 DEF RefuseStream
    <3> QED
      BY <3>1, <3>2, StreamRefusal
  <2> QED
    BY <2>2, <2>3
<1>10. CASE ~Wrong /\ got # 0
  <2>1. /\ total' = total + got
        /\ stream_phase' = IF total' > expected THEN "refused" ELSE stream_phase
        /\ UNCHANGED <<stream_offset, begun, block, known>>
    BY <1>10 DEF Decode
  <2>2. /\ frames' = frames /\ cut' = cut /\ expected' = expected /\ StreamFormed' /\ Decoded' = Decoded
        /\ (WholePack' <=> WholePack)
        /\ \A i : LengthUpTo(i)' = LengthUpTo(i) /\ OutputUpTo(i)' = OutputUpTo(i)
        /\ \A i : SteppedOver(i)' <=> SteppedOver(i)
        /\ \A i : Honest(i)' <=> Honest(i)
    BY <1>1, PackStays
  <2>3. total' \in Nat /\ OutputBounded' /\ total' <= Decoded'
    <3> HIDE DEF got
    <3> QED BY <1>1, <1>8, <2>1, <2>2 DEF OutputBounded
  <2>4. AtFrame(k)'
    BY <1>2, <2>1, <2>2, Zenon DEF AtFrame, Announced
  <2>5. \E j \in Nat : AtFrame(j)'
    BY <2>4
  <2>6. stream_offset' = cut' /\ stream_offset' \in Nat /\ stream_offset' <= cut' /\ expected' <= MaxOutput
    BY <1>1, <2>1, <2>2
  <2>7. CASE total' > expected
    <3>1. expected # Decoded
      BY <1>1, <1>4, <2>2, <2>3, <2>7
    <3>2. ~WholePack'
      BY <1>5, <2>2, <3>1
    <3>3. stream_phase' = "refused"
      BY <2>1, <2>7
    <3> QED
      BY <2>2, <2>3, <2>6, <3>2, <3>3 DEF StreamInv, PackExact
  <2>8. CASE ~(total' > expected)
    <3>1. stream_phase' = "decode"
      BY <1>1, <2>1, <2>8
    <3>2. total' <= expected'
      BY <1>1, <2>2, <2>3, <2>8
    <3> QED
      BY <2>2, <2>3, <2>5, <2>6, <3>1, <3>2 DEF StreamInv, PackExact
  <2> QED
    BY <2>7, <2>8
<1> QED
  BY <1>7, <1>9, <1>10

LEMMA StreamInvStep == StreamInv /\ [StreamNext]_stream_vars => StreamInv'
<1> SUFFICES ASSUME StreamInv, [StreamNext]_stream_vars PROVE StreamInv'
  OBVIOUS
<1>1. CASE StreamNext
  <2>1. UNCHANGED Pack
    BY <1>1 DEF StreamNext, Pack
  <2> QED
    BY <1>1, <2>1, BeginStep, ReadFrameStep, ReadBlockStep, WalkedStep, DecodeStep DEF StreamNext
<1>2. CASE UNCHANGED stream_vars
  <2>1. UNCHANGED Pack
    BY <1>2 DEF stream_vars, Pack
  <2>2. /\ frames' = frames /\ cut' = cut /\ expected' = expected
        /\ StreamFormed' <=> StreamFormed
        /\ WholePack' <=> WholePack
        /\ Decoded' = Decoded
        /\ \A n : LengthUpTo(n)' = LengthUpTo(n) /\ OutputUpTo(n)' = OutputUpTo(n)
        /\ \A n : SteppedOver(n)' <=> SteppedOver(n)
        /\ \A n : Honest(n)' <=> Honest(n)
    BY <2>1, PackStays
  <2>3. /\ stream_phase' = stream_phase /\ stream_offset' = stream_offset /\ begun' = begun
        /\ block' = block /\ known' = known /\ total' = total
    BY <1>2 DEF stream_vars
  <2>4. /\ PackExact' <=> PackExact
        /\ OutputBounded' <=> OutputBounded
    BY <2>2, <2>3, Zenon DEF PackExact, OutputBounded
  <2>5. \A k : (Announced(k)' <=> Announced(k))
    BY <2>2, <2>3, Zenon DEF Announced
  <2>6. \A k : (AtFrame(k)' <=> AtFrame(k))
    BY <2>2, <2>3, <2>5, Zenon DEF AtFrame
  <2>7. \A k : (AtBlock(k)' <=> AtBlock(k))
    BY <2>2, <2>3, <2>5, Zenon DEF AtBlock
  <2> QED
    BY <2>2, <2>3, <2>4, <2>6, <2>7, Zenon DEF StreamInv
<1> QED
  BY <1>1, <1>2 DEF StreamNext

(* FramesExact for every list of frames, every cut and every receipt: a    *)
(* pack is taken exactly when it ends between two frames, each of them     *)
(* sound, that decode to what the receipt announced, and the file never    *)
(* holds more than one byte beyond that (hub_sync_14.py:225-284).          *)
THEOREM FramesAlwaysExact == StreamSpec => []FramesExact
<1>1. StreamInv => FramesExact
  BY DEF StreamInv, FramesExact
<1> QED
  BY <1>1, StreamInvInit, StreamInvStep, PTL DEF StreamSpec

-----------------------------------------------------------------------------
(* A function on 0..n may be defined step by step: the least k for which   *)
(* there is none up to k would have one.                                   *)
Recursion(S, base, n, step) ==
  \E f \in [0..n -> S] : f[0] = base /\ \A i \in 1..n : f[i] = step[<<i, f[i - 1]>>]

LEMMA RecursionExists ==
  ASSUME NEW S, NEW base \in S, NEW n \in Nat, NEW step \in [(1..n) \X S -> S]
  PROVE  Recursion(S, base, n, step)
<1> DEFINE Defined(k) == \E f \in [0..k -> S] : f[0] = base /\ \A i \in 1..k : f[i] = step[<<i, f[i - 1]>>]
           Bad == {k \in 0..n : ~Defined(k)}
<1>1. Bad = {}
  <2> SUFFICES ASSUME Bad # {} PROVE FALSE
    OBVIOUS
  <2> DEFINE k == Min(Bad)
  <2>1. k \in Bad /\ \A i \in Bad : k <= i
    <3>1. Bad \in SUBSET Nat
      OBVIOUS
    <3> HIDE DEF Bad
    <3> QED BY <3>1, MinOf
  <2>2. k \in 0..n /\ ~Defined(k)
    BY <2>1
  <2> HIDE DEF k
  <2>3. k # 0
    <3> SUFFICES ASSUME k = 0 PROVE FALSE
      OBVIOUS
    <3> DEFINE f == [i \in 0..0 |-> base]
    <3>1. f \in [0..0 -> S] /\ f[0] = base /\ \A i \in 1..0 : f[i] = step[<<i, f[i - 1]>>]
      OBVIOUS
    <3>2. Defined(0)
      BY <3>1
    <3> QED
      BY <2>2, <3>2
  <2>4. k \in Nat /\ k - 1 \in 0..n /\ k \in 1..n /\ ~(k <= k - 1)
    BY <2>2, <2>3
  <2>5. Defined(k - 1)
    <3> HIDE DEF Defined
    <3> QED BY <2>1, <2>4
  <2>6. PICK f \in [0..k - 1 -> S] : f[0] = base /\ \A i \in 1..k - 1 : f[i] = step[<<i, f[i - 1]>>]
    BY <2>5
  <2> DEFINE g == [i \in 0..k |-> IF i = k THEN step[<<k, f[k - 1]>>] ELSE f[i]]
  <2>7. k - 1 \in 0..k - 1 /\ f[k - 1] \in S
    BY <2>4, <2>6
  <2>8. step[<<k, f[k - 1]>>] \in S
    BY <2>4, <2>7
  <2>9. g \in [0..k -> S]
    <3>1. \A i \in 0..k : i # k => i \in 0..k - 1
      BY <2>4
    <3> QED
      BY <2>6, <2>8, <3>1
  <2>10. g[0] = base
    BY <2>4, <2>6
  <2>11. ASSUME NEW i \in 1..k PROVE g[i] = step[<<i, g[i - 1]>>]
    <3>1. i \in 0..k /\ i - 1 \in 0..k /\ i - 1 # k /\ (i # k => i \in 1..k - 1)
      BY <2>4
    <3>2. g[i - 1] = f[i - 1]
      BY <3>1
    <3>3. CASE i = k
      BY <3>1, <3>2, <3>3
    <3>4. CASE i # k
      BY <2>6, <3>1, <3>2, <3>4
    <3> QED
      BY <3>3, <3>4
  <2>12. Defined(k)
    <3> HIDE DEF g
    <3> QED BY <2>9, <2>10, <2>11
  <2> QED
    BY <2>2, <2>12
<1>2. Defined(n)
  <2> HIDE DEF Defined
  <2> QED BY <1>1
<1> QED
  BY <1>2 DEF Recursion

-----------------------------------------------------------------------------
(* What SqliteWalk assumes of its inputs, said of the image in hand.       *)
CellSet == [left : Nat, over : Nat, span : Nat]
TreeContent == [type : {"table", "index"}, inner : BOOLEAN, right : Nat, cells : Seq(CellSet)]
DataContent == [type : {"data"}, next : Nat]
ImageFormed ==
  /\ roots \in Seq(Nat)
  /\ \A p \in Pages : image[p] \in TreeContent \cup DataContent
TreePage(p) == p \in Pages /\ image[p] \in TreeContent
InnerPages(S) == {q \in S \cap Pages : image[q].type # "data" /\ image[q].inner}

LEMMA ContentFacts ==
  ASSUME ImageFormed, NEW p \in Pages
  PROVE  /\ image[p].type # "data" => TreePage(p)
         /\ TreePage(p) => /\ image[p].type \in {"table", "index"} /\ image[p].type # "data"
                           /\ image[p].inner \in BOOLEAN /\ image[p].right \in Nat
                           /\ image[p].cells \in Seq(CellSet) /\ Len(image[p].cells) \in Nat
                           /\ DOMAIN image[p].cells = 1..Len(image[p].cells)
                           /\ \A i \in 1..Len(image[p].cells) :
                                /\ image[p].cells[i] \in CellSet
                                /\ image[p].cells[i].left \in Nat
                                /\ image[p].cells[i].over \in Nat
                                /\ image[p].cells[i].span \in Nat
         /\ NextOf(p) \in Nat
<1>1. image[p] \in TreeContent \cup DataContent
  BY DEF ImageFormed
<1>2. image[p].type # "data" => TreePage(p)
  BY <1>1 DEF DataContent, TreePage
<1>3. ASSUME TreePage(p)
      PROVE  /\ image[p].type \in {"table", "index"} /\ image[p].type # "data"
             /\ image[p].inner \in BOOLEAN /\ image[p].right \in Nat
             /\ image[p].cells \in Seq(CellSet) /\ Len(image[p].cells) \in Nat
             /\ DOMAIN image[p].cells = 1..Len(image[p].cells)
             /\ \A i \in 1..Len(image[p].cells) :
                  /\ image[p].cells[i] \in CellSet
                  /\ image[p].cells[i].left \in Nat
                  /\ image[p].cells[i].over \in Nat
                  /\ image[p].cells[i].span \in Nat
  <2>1. /\ image[p].type \in {"table", "index"} /\ image[p].inner \in BOOLEAN /\ image[p].right \in Nat
        /\ image[p].cells \in Seq(CellSet)
    BY <1>3 DEF TreePage, TreeContent
  <2> DEFINE s == image[p].cells
  <2>2. s \in Seq(CellSet)
    BY <2>1
  <2>3. Len(s) \in Nat /\ DOMAIN s = 1..Len(s) /\ \A i \in 1..Len(s) : s[i] \in CellSet
    <3> HIDE DEF s
    <3> QED BY <2>2, ElementOfSeq
  <2>4. \A c \in CellSet : c.left \in Nat /\ c.over \in Nat /\ c.span \in Nat
    BY DEF CellSet
  <2> QED
    BY <2>1, <2>3, <2>4
<1>4. NextOf(p) \in Nat
  BY <1>1, WalkAssumption DEF NextOf, Beyond, TreeContent, DataContent
<1> QED
  BY <1>2, <1>3, <1>4

LEMMA LevelFacts ==
  ASSUME ImageFormed, NEW root \in Nat
  PROVE  /\ Level(root)[0] = {root}
         /\ \A d \in 1..MaxDepth + 1 :
              Level(root)[d] = UNION {Children(p) : p \in InnerPages(Level(root)[d - 1])}
<1> DEFINE Below(S) == UNION {Children(p) : p \in InnerPages(S)}
           step == [x \in (1..MaxDepth + 1) \X SUBSET Nat |-> Below(x[2])]
<1>1. MaxDepth + 1 \in Nat
  BY WalkAssumption
<1>2. \A S : Below(S) \in SUBSET Nat
  <2>1. ASSUME NEW S, NEW p \in InnerPages(S) PROVE Children(p) \subseteq Nat
    <3>1. TreePage(p) /\ p \in Pages
      BY ContentFacts DEF InnerPages
    <3> QED
      BY <3>1, ContentFacts DEF Children
  <2> QED
    BY <2>1
<1>3. step \in [(1..MaxDepth + 1) \X SUBSET Nat -> SUBSET Nat]
  <2> HIDE DEF Below
  <2> QED BY <1>2
<1>4. {root} \in SUBSET Nat
  OBVIOUS
<1>5. PICK f \in [0..MaxDepth + 1 -> SUBSET Nat] :
        f[0] = {root} /\ \A i \in 1..MaxDepth + 1 : f[i] = step[<<i, f[i - 1]>>]
  <2> HIDE DEF step
  <2>1. Recursion(SUBSET Nat, {root}, MaxDepth + 1, step)
    BY <1>1, <1>3, <1>4, RecursionExists
  <2> QED BY <2>1 DEF Recursion
<1>6. \A i \in 1..MaxDepth + 1 : f[i] = Below(f[i - 1])
  <2> SUFFICES ASSUME NEW i \in 1..MaxDepth + 1 PROVE f[i] = Below(f[i - 1])
    OBVIOUS
  <2>1. i - 1 \in 0..MaxDepth + 1
    BY <1>1
  <2>2. <<i, f[i - 1]>> \in (1..MaxDepth + 1) \X SUBSET Nat
    BY <1>5, <2>1
  <2>3. step[<<i, f[i - 1]>>] = Below(f[i - 1])
    <3> HIDE DEF Below
    <3> QED BY <2>2
  <2> QED
    BY <1>5, <2>3
<1> DEFINE IsLevel(g) == g = [d \in 0..MaxDepth + 1 |-> IF d = 0 THEN {root} ELSE Below(g[d - 1])]
<1>7. IsLevel(f)
  <2>1. f = [d \in 0..MaxDepth + 1 |-> f[d]]
    BY <1>5
  <2>2. \A d \in 0..MaxDepth + 1 : f[d] = IF d = 0 THEN {root} ELSE Below(f[d - 1])
    <3> HIDE DEF Below
    <3>1. \A d \in 0..MaxDepth + 1 : d # 0 => d \in 1..MaxDepth + 1
      BY <1>1
    <3> QED BY <1>5, <1>6, <3>1
  <2> HIDE DEF Below
  <2> QED BY <2>1, <2>2
<1>8. Level(root) = CHOOSE g : IsLevel(g)
  BY Zenon DEF Level, InnerPages
<1>9. IsLevel(Level(root))
  <2> HIDE DEF IsLevel
  <2> QED BY <1>7, <1>8
<1> DEFINE L == Level(root)
<1>10. L = [d \in 0..MaxDepth + 1 |-> IF d = 0 THEN {root} ELSE Below(L[d - 1])]
  BY <1>9
<1> HIDE DEF L, Below
<1>11. L[0] = {root} /\ \A d \in 1..MaxDepth + 1 : L[d] = Below(L[d - 1])
  <2>1. \A d \in 0..MaxDepth + 1 : L[d] = IF d = 0 THEN {root} ELSE Below(L[d - 1])
    BY <1>10
  <2>2. 0 \in 0..MaxDepth + 1 /\ \A d \in 1..MaxDepth + 1 : d \in 0..MaxDepth + 1 /\ d # 0
    BY <1>1
  <2> QED BY <2>1, <2>2
<1> QED
  BY <1>11 DEF L, Below

LEMMA ChildLevel ==
  ASSUME ImageFormed, NEW root \in Nat, NEW d \in Nat, d <= MaxDepth,
         NEW p \in Pages, p \in Level(root)[d], TreePage(p), image[p].inner, NEW c \in Children(p)
  PROVE  c \in Level(root)[d + 1]
<1>1. d + 1 \in 1..MaxDepth + 1 /\ (d + 1) - 1 = d
  BY WalkAssumption
<1>2. p \in InnerPages(Level(root)[d])
  BY ContentFacts DEF InnerPages
<1> QED
  BY <1>1, <1>2, LevelFacts

LEMMA ChainFacts ==
  ASSUME ImageFormed, NEW cell \in CellSet
  PROVE  /\ cell.span >= 1 => OverflowPages(cell)[1] = cell.over
         /\ \A k \in 1..cell.span : OverflowPages(cell)[k] \in Nat
         /\ \A k \in 1..cell.span : k + 1 <= cell.span =>
              OverflowPages(cell)[k + 1] =
                IF OverflowPages(cell)[k] \in Pages THEN NextOf(OverflowPages(cell)[k]) ELSE Beyond
<1>1. cell.span \in Nat /\ cell.over \in Nat
  BY DEF CellSet
<1>2. CASE cell.span = 0
  BY <1>2
<1>3. CASE cell.span # 0
  <2> DEFINE n == cell.span - 1
             Later(p) == IF p \in Pages THEN NextOf(p) ELSE Beyond
             step == [x \in (1..n) \X Nat |-> Later(x[2])]
  <2>1. n \in Nat
    BY <1>1, <1>3
  <2>2. \A p \in Nat : Later(p) \in Nat
    BY ContentFacts, WalkAssumption DEF Beyond
  <2>3. step \in [(1..n) \X Nat -> Nat]
    <3> HIDE DEF Later, n
    <3> QED BY <2>2
  <2>4. PICK f \in [0..n -> Nat] : f[0] = cell.over /\ \A i \in 1..n : f[i] = step[<<i, f[i - 1]>>]
    <3> HIDE DEF step, n
    <3>1. Recursion(Nat, cell.over, n, step)
      BY <1>1, <2>1, <2>3, RecursionExists
    <3> QED BY <3>1 DEF Recursion
  <2>5. \A i \in 1..n : f[i] = Later(f[i - 1])
    <3> SUFFICES ASSUME NEW i \in 1..n PROVE f[i] = Later(f[i - 1])
      OBVIOUS
    <3>1. i - 1 \in 0..n
      BY <2>1
    <3>2. <<i, f[i - 1]>> \in (1..n) \X Nat
      BY <2>4, <3>1
    <3>3. step[<<i, f[i - 1]>>] = Later(f[i - 1])
      <4> HIDE DEF Later, n
      <4> QED BY <3>2
    <3> QED
      BY <2>4, <3>3
  <2> DEFINE g == [i \in 1..cell.span |-> f[i - 1]]
             IsChain(h) == h = [i \in 1..cell.span |-> IF i = 1 THEN cell.over ELSE Later(h[i - 1])]
  <2>6. IsChain(g)
    <3>1. ASSUME NEW i \in 1..cell.span PROVE f[i - 1] = IF i = 1 THEN cell.over ELSE Later(g[i - 1])
      <4>1. CASE i = 1
        BY <2>4, <4>1
      <4>2. CASE i # 1
        <5>1. i - 1 \in 1..n /\ i - 1 \in 1..cell.span
          BY <1>1, <2>1, <4>2
        <5> HIDE DEF Later
        <5> QED BY <2>5, <4>2, <5>1
      <4> QED
        BY <4>1, <4>2
    <3>2. g = [i \in 1..cell.span |-> IF i = 1 THEN cell.over ELSE Later(g[i - 1])]
      <4> HIDE DEF Later
      <4> QED BY <3>1
    <3> QED BY <3>2
  <2>7. OverflowPages(cell) = CHOOSE h : IsChain(h)
    BY Zenon DEF OverflowPages
  <2>8. IsChain(OverflowPages(cell))
    <3> HIDE DEF IsChain
    <3> QED BY <2>6, <2>7
  <2> DEFINE h == OverflowPages(cell)
  <2>9. h = [i \in 1..cell.span |-> IF i = 1 THEN cell.over ELSE Later(h[i - 1])]
    BY <2>8
  <2> HIDE DEF h, Later
  <2>10. \A i \in 1..cell.span : h[i] = IF i = 1 THEN cell.over ELSE Later(h[i - 1])
    BY <2>9
  <2>11. h[1] = cell.over
    BY <1>1, <1>3, <2>10
  <2>12. \A k \in 1..cell.span : k + 1 <= cell.span => h[k + 1] = Later(h[k])
    <3> SUFFICES ASSUME NEW k \in 1..cell.span, k + 1 <= cell.span PROVE h[k + 1] = Later(h[k])
      OBVIOUS
    <3>1. k + 1 \in 1..cell.span /\ k + 1 # 1 /\ (k + 1) - 1 = k
      BY <1>1
    <3> QED BY <2>10, <3>1
  <2>13. \A k \in 1..cell.span : h[k] \in Nat
    <3> DEFINE Bad == {k \in 1..cell.span : h[k] \notin Nat}
    <3> SUFFICES ASSUME Bad # {} PROVE FALSE
      OBVIOUS
    <3> DEFINE k == Min(Bad)
    <3>1. k \in Bad /\ \A i \in Bad : k <= i
      <4>1. Bad \in SUBSET Nat
        BY <1>1
      <4> HIDE DEF Bad
      <4> QED BY <4>1, MinOf
    <3>2. k \in 1..cell.span /\ h[k] \notin Nat
      BY <3>1
    <3> HIDE DEF k
    <3>3. k # 1
      BY <1>1, <2>11, <3>2
    <3>4. k - 1 \in 1..cell.span /\ ~(k <= k - 1) /\ (k - 1) + 1 = k /\ k <= cell.span
      BY <1>1, <3>2, <3>3
    <3>5. h[k - 1] \in Nat
      BY <3>1, <3>4
    <3>6. h[k] = Later(h[k - 1])
      BY <2>12, <3>4
    <3> QED
      BY <2>2, <3>2, <3>5, <3>6
  <2> QED
    BY <2>11, <2>12, <2>13 DEF h, Later
<1> QED
  BY <1>2, <1>3

-----------------------------------------------------------------------------
(* The references of a tree page, one by one.                              *)
IsReference(ref, q) ==
  LET cs == image[q].cells IN
  \/ image[q].inner /\ ref = Reference("right", q, 0, 0)
  \/ image[q].inner /\ \E i \in 1..Len(cs) : ref = Reference("left", q, i, 0)
  \/ \E i \in 1..Len(cs) : \E k \in 1..cs[i].span : ref = Reference("chain", q, i, k)

LEMMA ReferenceParts ==
  \A kind, of, cell, nth :
    LET r == Reference(kind, of, cell, nth) IN
    r.kind = kind /\ r.of = of /\ r.cell = cell /\ r.nth = nth
BY DEF Reference

LEMMA PageReferences ==
  ASSUME ImageFormed, NEW q, TreePage(q), NEW ref
  PROVE  ref \in ReferencesIn(q) <=> IsReference(ref, q)
<1>1. DOMAIN image[q].cells = 1..Len(image[q].cells)
  BY ContentFacts DEF TreePage
<1> QED
  BY <1>1 DEF ReferencesIn, IsReference

(* The page that a reference of each kind names.                           *)
LEMMA Targets ==
  ASSUME NEW q, NEW i, NEW k
  PROVE  /\ Target(Reference("root", i, 0, 0)) = IF i = 0 THEN 1 ELSE roots[i]
         /\ Target(Reference("right", q, 0, 0)) = image[q].right
         /\ Target(Reference("left", q, i, 0)) = image[q].cells[i].left
         /\ Target(Reference("chain", q, i, k)) = OverflowPages(image[q].cells[i])[k]
BY ReferenceParts DEF Target

SeenFrom(V) == RootReferences \cup UNION {ReferencesIn(q) : q \in V}

(* The link by which the walk follows a reference.                         *)
LinkOf(ref, depth, tree) ==
  CASE ref.kind = "root" -> TreeLink(Target(ref), 0, Target(ref))
    [] ref.kind \in {"right", "left"} -> TreeLink(Target(ref), depth[ref.of] + 1, tree[ref.of])
    [] ref.kind = "chain" -> ChainLink(Target(ref), image[ref.of].cells[ref.cell].span - ref.nth + 1)

(* The pages of a chain are followed one behind the other.                 *)
SameThread(m, n) == n.kind = m.kind /\ n.of = m.of /\ n.cell = m.cell
Behind(m, n) == SameThread(m, n) /\ m.nth <= n.nth

LEMMA LinkParts ==
  /\ \A p, d, r : LET l == TreeLink(p, d, r) IN
       l.kind = "btree" /\ l.page = p /\ l.depth = d /\ l.owner = r
  /\ \A p, n : LET l == ChainLink(p, n) IN l.kind = "overflow" /\ l.page = p /\ l.span = n
  /\ \A p, d, r, s, e, t : TreeLink(p, d, r) = TreeLink(s, e, t) => p = s /\ d = e /\ r = t
BY DEF TreeLink, ChainLink

LEMMA LinkFacts ==
  ASSUME NEW ref, NEW depth, NEW tree
  PROVE  LET l == LinkOf(ref, depth, tree) IN
         /\ ref.kind = "root" => l = TreeLink(Target(ref), 0, Target(ref))
         /\ ref.kind \in {"right", "left"} => l = TreeLink(Target(ref), depth[ref.of] + 1, tree[ref.of])
         /\ ref.kind = "chain" => l = ChainLink(Target(ref), image[ref.of].cells[ref.cell].span - ref.nth + 1)
         /\ ref.kind \in {"root", "right", "left", "chain"} =>
              l.page = Target(ref) /\ l.kind = IF ref.kind = "chain" THEN "overflow" ELSE "btree"
<1> DEFINE l == LinkOf(ref, depth, tree)
<1>1. ref.kind = "root" => l = TreeLink(Target(ref), 0, Target(ref))
  BY DEF LinkOf
<1>2. ref.kind \in {"right", "left"} => l = TreeLink(Target(ref), depth[ref.of] + 1, tree[ref.of])
  BY DEF LinkOf
<1>3. ref.kind = "chain" => l = ChainLink(Target(ref), image[ref.of].cells[ref.cell].span - ref.nth + 1)
  BY DEF LinkOf
<1> HIDE DEF l
<1>4. ref.kind \in {"root", "right", "left", "chain"} =>
        l.page = Target(ref) /\ l.kind = IF ref.kind = "chain" THEN "overflow" ELSE "btree"
  BY <1>1, <1>2, <1>3, LinkParts
<1> QED
  BY <1>1, <1>2, <1>3, <1>4 DEF l

(* Every reference is of one of the four kinds.                            *)
LEMMA SeenCases ==
  ASSUME ImageFormed, NEW V, \A q \in V : TreePage(q), NEW ref \in SeenFrom(V)
  PROVE  \/ /\ ref.kind = "root" /\ ref.of \in 0..Len(roots) /\ ref.cell = 0 /\ ref.nth = 0
            /\ ref = Reference("root", ref.of, 0, 0)
         \/ /\ ref.kind = "right" /\ ref.of \in V /\ image[ref.of].inner /\ ref.cell = 0 /\ ref.nth = 0
            /\ ref = Reference("right", ref.of, 0, 0)
         \/ /\ ref.kind = "left" /\ ref.of \in V /\ image[ref.of].inner
            /\ ref.cell \in 1..Len(image[ref.of].cells) /\ ref.nth = 0
            /\ ref = Reference("left", ref.of, ref.cell, 0)
         \/ /\ ref.kind = "chain" /\ ref.of \in V
            /\ ref.cell \in 1..Len(image[ref.of].cells) /\ ref.nth \in 1..image[ref.of].cells[ref.cell].span
            /\ ref = Reference("chain", ref.of, ref.cell, ref.nth)
<1>1. CASE ref \in RootReferences
  BY <1>1, ReferenceParts DEF RootReferences
<1>2. CASE ref \notin RootReferences
  <2>1. PICK q \in V : ref \in ReferencesIn(q)
    BY <1>2 DEF SeenFrom
  <2>2. IsReference(ref, q)
    BY <2>1, PageReferences
  <2>3. CASE image[q].inner /\ ref = Reference("right", q, 0, 0)
    BY <2>3, ReferenceParts
  <2>4. CASE image[q].inner /\ \E i \in 1..Len(image[q].cells) : ref = Reference("left", q, i, 0)
    BY <2>4, ReferenceParts
  <2>5. CASE \E i \in 1..Len(image[q].cells) : \E k \in 1..image[q].cells[i].span : ref = Reference("chain", q, i, k)
    BY <2>5, ReferenceParts
  <2> QED
    BY <2>2, <2>3, <2>4, <2>5 DEF IsReference
<1> QED
  BY <1>1, <1>2

(* What a tree page's reference names is a child of it, or in a chain.     *)
LEMMA SeenTargets ==
  ASSUME ImageFormed, NEW V, \A q \in V : TreePage(q), NEW ref \in SeenFrom(V)
  PROVE  /\ Target(ref) \in Nat
         /\ ref.kind = "root" => Target(ref) \in RootPages
         /\ ref.kind \in {"right", "left"} => Target(ref) \in Children(ref.of)
<1> DEFINE q == ref.of
<1>1. /\ Len(roots) \in Nat /\ DOMAIN roots = 1..Len(roots) /\ \A i \in 1..Len(roots) : roots[i] \in Nat
  BY ElementOfSeq DEF ImageFormed
<1>2. CASE ref.kind = "root"
  <2>1. q \in 0..Len(roots) /\ Target(ref) = IF q = 0 THEN 1 ELSE roots[q]
    BY <1>2, SeenCases DEF Target
  <2>2. q # 0 => q \in 1..Len(roots)
    BY <1>1, <2>1
  <2> QED
    BY <1>1, <1>2, <2>1, <2>2 DEF RootPages
<1>3. CASE ref.kind = "right"
  <2>1. q \in V /\ Target(ref) = image[q].right
    BY <1>3, SeenCases DEF Target
  <2>2. image[q].right \in Nat
    BY <2>1, ContentFacts DEF TreePage
  <2> QED
    BY <1>3, <2>1, <2>2 DEF Children
<1>4. CASE ref.kind = "left"
  <2>1. q \in V /\ ref.cell \in 1..Len(image[q].cells) /\ Target(ref) = image[q].cells[ref.cell].left
    BY <1>4, SeenCases DEF Target
  <2>2. image[q].cells[ref.cell].left \in Nat /\ ref.cell \in DOMAIN image[q].cells
    BY <2>1, ContentFacts DEF TreePage
  <2> QED
    BY <1>4, <2>1, <2>2 DEF Children
<1>5. CASE ref.kind = "chain"
  <2>1. /\ q \in V /\ ref.cell \in 1..Len(image[q].cells) /\ ref.nth \in 1..image[q].cells[ref.cell].span
        /\ Target(ref) = OverflowPages(image[q].cells[ref.cell])[ref.nth]
    BY <1>5, SeenCases DEF Target
  <2>2. image[q].cells[ref.cell] \in CellSet
    BY <2>1, ContentFacts DEF TreePage
  <2> QED
    BY <1>5, <2>1, <2>2, ChainFacts
<1> QED
  BY <1>2, <1>3, <1>4, <1>5, SeenCases

(* A page that two references name is in no forest.                        *)
LEMMA NamedTwice ==
  ASSUME NEW p \in Pages, NEW m \in References, NEW n \in References, m # n, Target(m) = p, Target(n) = p
  PROVE  ~ForestOfThePages
<1> SUFFICES ASSUME NEW ref \in References, {r \in References : Target(r) = p} = {ref} PROVE FALSE
  BY DEF ForestOfThePages
<1>1. m \in {r \in References : Target(r) = p} /\ n \in {r \in References : Target(r) = p}
  OBVIOUS
<1> QED
  BY <1>1

-----------------------------------------------------------------------------
(* The links of a page follow its references, the first of every thread.   *)
LinkSet == [kind : {"btree"}, page : Nat, depth : Nat, owner : Nat]
             \cup [kind : {"overflow"}, page : Nat, span : Nat]
In(refs, ref) == \E j \in 1..Len(refs) : refs[j] = ref
Tagged(list, refs, S, depth, tree) ==
  /\ list \in Seq(LinkSet) /\ refs \in Seq(S) /\ Len(refs) = Len(list)
  /\ \A j \in 1..Len(list) : list[j] = LinkOf(refs[j], depth, tree)
  /\ \A j, k \in 1..Len(refs) : j # k => ~SameThread(refs[j], refs[k])

LEMMA TaggedAppend ==
  ASSUME NEW list, NEW refs, NEW S, NEW depth, NEW tree, Tagged(list, refs, S, depth, tree),
         NEW ref \in S, NEW link \in LinkSet, link = LinkOf(ref, depth, tree),
         \A m : In(refs, m) => ~SameThread(m, ref)
  PROVE  /\ Tagged(list \o <<link>>, Append(refs, ref), S, depth, tree)
         /\ \A m : In(Append(refs, ref), m) <=> In(refs, m) \/ m = ref
<1> DEFINE L == list \o <<link>>
           R == Append(refs, ref)
           n == Len(refs)
<1>1. /\ n \in Nat /\ Len(list) = n /\ list \in Seq(LinkSet) /\ refs \in Seq(S)
      /\ L \in Seq(LinkSet) /\ R \in Seq(S) /\ Len(L) = n + 1 /\ Len(R) = n + 1
      /\ \A j \in 1..n : L[j] = list[j] /\ R[j] = refs[j]
      /\ L[n + 1] = link /\ R[n + 1] = ref
  <2>1. list \in Seq(LinkSet) /\ refs \in Seq(S) /\ Len(list) = n
    BY DEF Tagged
  <2> QED
    BY <2>1
<1> HIDE DEF L, R, n
<1>2. \A j \in 1..n + 1 : j = n + 1 \/ j \in 1..n
  BY <1>1
<1>3. \A j \in 1..n : list[j] = LinkOf(refs[j], depth, tree)
  BY <1>1 DEF Tagged, n
<1>4. \A j \in 1..n + 1 : L[j] = LinkOf(R[j], depth, tree)
  BY <1>1, <1>2, <1>3
<1>5. \A j \in 1..n : In(refs, refs[j])
  BY <1>1 DEF In, n
<1>6. \A j \in 1..n : ~SameThread(refs[j], ref) /\ ~SameThread(ref, refs[j])
  BY <1>5 DEF SameThread
<1>7. \A j, k \in 1..n : j # k => ~SameThread(refs[j], refs[k])
  BY DEF Tagged, n
<1>8. ASSUME NEW j \in 1..n + 1, NEW k \in 1..n + 1, j # k PROVE ~SameThread(R[j], R[k])
  <2>1. CASE j = n + 1
    <3>1. k \in 1..n
      BY <1>2, <1>8, <2>1
    <3> QED BY <1>1, <1>6, <2>1, <3>1
  <2>2. CASE k = n + 1
    <3>1. j \in 1..n
      BY <1>2, <1>8, <2>2
    <3> QED BY <1>1, <1>6, <2>2, <3>1
  <2>3. CASE j \in 1..n /\ k \in 1..n
    BY <1>1, <1>7, <1>8, <2>3
  <2> QED
    BY <1>2, <2>1, <2>2, <2>3
<1>9. Tagged(L, R, S, depth, tree)
  BY <1>1, <1>4, <1>8 DEF Tagged
<1>10. ASSUME NEW m PROVE In(R, m) <=> In(refs, m) \/ m = ref
  <2>1. n + 1 \in 1..n + 1 /\ \A j \in 1..n : j \in 1..n + 1
    BY <1>1
  <2>2. In(refs, m) <=> \E j \in 1..n : refs[j] = m
    BY DEF In, n
  <2>3. In(R, m) <=> \E j \in 1..n + 1 : R[j] = m
    BY <1>1 DEF In
  <2> QED
    BY <1>1, <1>2, <2>1, <2>2, <2>3
<1> QED
  BY <1>9, <1>10 DEF L, R

(* The first i cells of page q are listed.                                 *)
Listed(list, refs, q, i, depth, tree) ==
  /\ Tagged(list, refs, ReferencesIn(q), depth, tree)
  /\ \A m : In(refs, m) => m.cell <= i /\ m.nth <= 1
  /\ \A n \in ReferencesIn(q) : n.cell <= i => \E m : In(refs, m) /\ Behind(m, n)

LEMMA FirstListed ==
  ASSUME ImageFormed, NEW q, TreePage(q), NEW depth, NEW tree, depth[q] \in Nat, tree[q] \in Nat
  PROVE  \E refs : Listed(IF image[q].inner THEN <<TreeLink(image[q].right, depth[q] + 1, tree[q])>> ELSE <<>>,
                          refs, q, 0, depth, tree)
<1>1. q \in Pages /\ image[q].inner \in BOOLEAN /\ image[q].right \in Nat
  BY ContentFacts DEF TreePage
<1>2. CASE image[q].inner
  <2> DEFINE r == Reference("right", q, 0, 0)
             l == TreeLink(image[q].right, depth[q] + 1, tree[q])
  <2>1. r.kind = "right" /\ r.of = q /\ r.cell = 0 /\ r.nth = 0 /\ Target(r) = image[q].right
    <3>1. r.kind = "right" /\ r.of = q /\ r.cell = 0 /\ r.nth = 0
      BY ReferenceParts
    <3> HIDE DEF r
    <3> QED BY <3>1 DEF Target
  <2>2. r \in ReferencesIn(q)
    BY <1>2, PageReferences DEF IsReference
  <2>3. l = LinkOf(r, depth, tree)
    BY <2>1, LinkFacts
  <2>4. l \in LinkSet
    BY <1>1 DEF TreeLink, LinkSet
  <2> HIDE DEF r, l
  <2>5. Tagged(<<l>>, <<r>>, ReferencesIn(q), depth, tree)
    BY <2>2, <2>3, <2>4 DEF Tagged
  <2>6. \A m : In(<<r>>, m) <=> m = r
    BY DEF In
  <2>7. ASSUME NEW n \in ReferencesIn(q), n.cell <= 0 PROVE n = r
    <3>1. IsReference(n, q)
      BY PageReferences
    <3>2. \A i \in 1..Len(image[q].cells) : ~(i <= 0)
      BY <1>1, ContentFacts
    <3>3. n = Reference("right", q, 0, 0)
      BY <2>7, <3>1, <3>2, ReferenceParts DEF IsReference
    <3> QED
      BY <3>3 DEF r
  <2>8. Behind(r, r)
    BY <2>1 DEF Behind, SameThread
  <2>9. Listed(<<l>>, <<r>>, q, 0, depth, tree)
    BY <2>1, <2>5, <2>6, <2>7, <2>8 DEF Listed
  <2> QED
    BY <1>2, <2>9 DEF l
<1>3. CASE ~image[q].inner
  <2>1. Tagged(<<>>, <<>>, ReferencesIn(q), depth, tree)
    BY DEF Tagged
  <2>2. \A m : ~In(<<>>, m)
    BY DEF In
  <2>3. ASSUME NEW n \in ReferencesIn(q), n.cell <= 0 PROVE FALSE
    <3>1. IsReference(n, q)
      BY PageReferences
    <3>2. \A i \in 1..Len(image[q].cells) : ~(i <= 0)
      BY <1>1, ContentFacts
    <3> QED
      BY <1>3, <2>3, <3>1, <3>2, ReferenceParts DEF IsReference
  <2>4. Listed(<<>>, <<>>, q, 0, depth, tree)
    BY <2>1, <2>2, <2>3 DEF Listed
  <2> QED
    BY <1>3, <2>4
<1> QED
  BY <1>1, <1>2, <1>3

LEMMA NextListed ==
  ASSUME ImageFormed, NEW q, TreePage(q), NEW depth, NEW tree, depth[q] \in Nat, tree[q] \in Nat,
         NEW i \in 1..Len(image[q].cells), NEW list, NEW refs, Listed(list, refs, q, i - 1, depth, tree)
  PROVE  \E more : Listed(list \o CellLinks(image[q], image[q].cells[i], depth[q], tree[q]),
                          more, q, i, depth, tree)
<1> DEFINE cell == image[q].cells[i]
           left == Reference("left", q, i, 0)
           chain == Reference("chain", q, i, 1)
           toLeft == TreeLink(cell.left, depth[q] + 1, tree[q])
           toChain == ChainLink(cell.over, cell.span)
           refs1 == IF image[q].inner THEN Append(refs, left) ELSE refs
           list1 == IF image[q].inner THEN list \o <<toLeft>> ELSE list
           refs2 == IF cell.span > 0 THEN Append(refs1, chain) ELSE refs1
           list2 == IF cell.span > 0 THEN list1 \o <<toChain>> ELSE list1
<1>1. /\ q \in Pages /\ image[q].inner \in BOOLEAN /\ i \in Nat
      /\ cell \in CellSet /\ cell.left \in Nat /\ cell.over \in Nat /\ cell.span \in Nat
  BY ContentFacts DEF TreePage
<1>2. /\ left.kind = "left" /\ left.of = q /\ left.cell = i /\ left.nth = 0 /\ Target(left) = cell.left
      /\ chain.kind = "chain" /\ chain.of = q /\ chain.cell = i /\ chain.nth = 1
      /\ Target(chain) = OverflowPages(cell)[1]
  BY ReferenceParts, Targets
<1>3. image[q].inner => left \in ReferencesIn(q)
  BY PageReferences DEF IsReference
<1>4. cell.span > 0 => chain \in ReferencesIn(q) /\ Target(chain) = cell.over
  <2>1. cell.span > 0 => 1 \in 1..cell.span
    BY <1>1
  <2> QED
    BY <1>1, <1>2, <2>1, PageReferences, ChainFacts DEF IsReference
<1>5. toLeft = LinkOf(left, depth, tree) /\ toLeft \in LinkSet
  <2>1. toLeft = LinkOf(left, depth, tree)
    BY <1>2, LinkFacts
  <2>2. toLeft \in LinkSet
    BY <1>1 DEF TreeLink, LinkSet
  <2> QED BY <2>1, <2>2
<1>6. cell.span > 0 => toChain = LinkOf(chain, depth, tree) /\ toChain \in LinkSet
  <2>1. toChain \in LinkSet
    BY <1>1 DEF ChainLink, LinkSet
  <2>2. cell.span - 1 + 1 = cell.span
    BY <1>1
  <2>3. cell.span > 0 => toChain = LinkOf(chain, depth, tree)
    BY <1>2, <1>4, <2>2, LinkFacts
  <2> QED BY <2>1, <2>3
<1>7. list2 = list \o CellLinks(image[q], cell, depth[q], tree[q])
  <2>1. list \in Seq(LinkSet)
    BY DEF Listed, Tagged
  <2>2. CellLinks(image[q], cell, depth[q], tree[q])
          = (IF image[q].inner THEN <<toLeft>> ELSE <<>>) \o (IF cell.span > 0 THEN <<toChain>> ELSE <<>>)
    BY DEF CellLinks
  <2> HIDE DEF toLeft, toChain, cell
  <2>3. CASE image[q].inner /\ cell.span > 0
    BY <2>1, <2>2, <2>3, <1>5, <1>6
  <2>4. CASE image[q].inner /\ ~(cell.span > 0)
    BY <2>1, <2>2, <2>4, <1>5
  <2>5. CASE ~image[q].inner /\ cell.span > 0
    BY <2>1, <2>2, <2>5, <1>6
  <2>6. CASE ~image[q].inner /\ ~(cell.span > 0)
    BY <2>1, <2>2, <2>6
  <2> QED
    BY <1>1, <2>3, <2>4, <2>5, <2>6
<1> HIDE DEF left, chain, toLeft, toChain, cell
<1>8. /\ Tagged(list, refs, ReferencesIn(q), depth, tree)
      /\ \A m : In(refs, m) => m.cell <= i - 1 /\ m.nth <= 1
      /\ \A n \in ReferencesIn(q) : n.cell <= i - 1 => \E m : In(refs, m) /\ Behind(m, n)
  BY DEF Listed
<1>9. \A m : In(refs, m) => m.cell # i
  <2>1. ~(i <= i - 1)
    BY <1>1
  <2> QED
    BY <1>8, <2>1
<1>10. /\ Tagged(list1, refs1, ReferencesIn(q), depth, tree)
       /\ \A m : In(refs1, m) <=> In(refs, m) \/ (image[q].inner /\ m = left)
  <2>1. CASE image[q].inner
    <3>1. \A m : In(refs, m) => ~SameThread(m, left)
      BY <1>2, <1>9 DEF SameThread
    <3>2. /\ Tagged(list \o <<toLeft>>, Append(refs, left), ReferencesIn(q), depth, tree)
          /\ \A m : In(Append(refs, left), m) <=> In(refs, m) \/ m = left
      BY <1>3, <1>5, <1>8, <2>1, <3>1, TaggedAppend
    <3> QED
      BY <2>1, <3>2
  <2>2. CASE ~image[q].inner
    BY <1>8, <2>2
  <2> QED
    BY <1>1, <2>1, <2>2
<1> HIDE DEF refs1, list1
<1>11. /\ Tagged(list2, refs2, ReferencesIn(q), depth, tree)
       /\ \A m : In(refs2, m) <=> In(refs1, m) \/ (cell.span > 0 /\ m = chain)
  <2>1. CASE cell.span > 0
    <3>1. \A m : In(refs1, m) => ~SameThread(m, chain)
      BY <1>2, <1>9, <1>10 DEF SameThread
    <3>2. /\ Tagged(list1 \o <<toChain>>, Append(refs1, chain), ReferencesIn(q), depth, tree)
          /\ \A m : In(Append(refs1, chain), m) <=> In(refs1, m) \/ m = chain
      BY <1>4, <1>6, <1>10, <2>1, <3>1, TaggedAppend
    <3> QED
      BY <2>1, <3>2
  <2>2. CASE ~(cell.span > 0)
    BY <1>10, <2>2
  <2> QED
    BY <2>1, <2>2
<1> HIDE DEF refs2, list2
<1>12. \A m : In(refs2, m) <=> \/ In(refs, m)
                               \/ image[q].inner /\ m = left
                               \/ cell.span > 0 /\ m = chain
  BY <1>10, <1>11
<1>13. ASSUME NEW m, In(refs2, m) PROVE m.cell <= i /\ m.nth <= 1
  <2>1. CASE In(refs, m)
    <3>1. m \in ReferencesIn(q)
      <4>1. refs \in Seq(ReferencesIn(q))
        BY <1>8 DEF Tagged
      <4> QED BY <2>1, <4>1, ElementOfSeq DEF In
    <3>2. m.cell \in Int
      <4>1. IsReference(m, q)
        BY <3>1, PageReferences
      <4> QED
        BY <1>1, <4>1, ContentFacts, ReferenceParts DEF IsReference
    <3> QED
      BY <1>1, <1>8, <2>1, <3>2
  <2>2. CASE m = left \/ m = chain
    BY <1>1, <1>2, <2>2
  <2> QED
    BY <1>12, <1>13, <2>1, <2>2
<1>14. ASSUME NEW n \in ReferencesIn(q), n.cell <= i PROVE \E m : In(refs2, m) /\ Behind(m, n)
  <2>1. IsReference(n, q)
    BY PageReferences
  <2>2. n.cell \in Int
    BY <1>1, <2>1, ContentFacts, ReferenceParts DEF IsReference
  <2>3. CASE n.cell <= i - 1
    BY <1>8, <1>12, <2>3
  <2>4. CASE n.cell = i
    <3>1. i # 0
      BY <1>1
    <3>2. CASE image[q].inner /\ n = Reference("left", q, i, 0)
      <4>1. n = left
        BY <3>2 DEF left
      <4>2. Behind(left, left)
        BY <1>2 DEF Behind, SameThread
      <4> QED
        BY <1>12, <3>2, <4>1, <4>2
    <3>3. CASE \E k \in 1..cell.span : n = Reference("chain", q, i, k)
      <4>1. PICK k \in 1..cell.span : n = Reference("chain", q, i, k)
        BY <3>3
      <4>2. n.kind = "chain" /\ n.of = q /\ n.cell = i /\ n.nth = k
        BY <4>1, ReferenceParts
      <4>3. cell.span > 0 /\ 1 <= k
        BY <1>1
      <4>4. Behind(chain, n)
        BY <1>2, <4>2, <4>3 DEF Behind, SameThread
      <4> QED
        BY <1>12, <4>3, <4>4
    <3>4. \/ image[q].inner /\ n = Reference("left", q, i, 0)
          \/ \E k \in 1..cell.span : n = Reference("chain", q, i, k)
      BY <2>1, <2>4, <3>1, ReferenceParts DEF IsReference, cell
    <3> QED
      BY <3>2, <3>3, <3>4
  <2> QED
    BY <1>1, <1>14, <2>2, <2>3, <2>4
<1>15. Listed(list2, refs2, q, i, depth, tree)
  BY <1>11, <1>13, <1>14 DEF Listed
<1> QED
  BY <1>7, <1>15 DEF cell

LEMMA PageListed ==
  ASSUME ImageFormed, NEW q, TreePage(q), NEW depth, NEW tree, depth[q] \in Nat, tree[q] \in Nat
  PROVE  \E refs : Listed(PageLinks(image[q], depth[q], tree[q]), refs, q, Len(image[q].cells), depth, tree)
<1> DEFINE n == Len(image[q].cells)
           first == IF image[q].inner THEN <<TreeLink(image[q].right, depth[q] + 1, tree[q])>> ELSE <<>>
           more(i) == CellLinks(image[q], image[q].cells[i], depth[q], tree[q])
           step == [x \in (1..n) \X Seq(LinkSet) |-> x[2] \o more(x[1])]
<1>1. /\ q \in Pages /\ image[q].inner \in BOOLEAN /\ image[q].right \in Nat /\ n \in Nat
      /\ \A i \in 1..n : image[q].cells[i] \in CellSet /\ image[q].cells[i].left \in Nat
                         /\ image[q].cells[i].over \in Nat /\ image[q].cells[i].span \in Nat
  BY ContentFacts DEF TreePage
<1>2. \A p \in Nat : TreeLink(p, depth[q] + 1, tree[q]) \in LinkSet
  BY DEF TreeLink, LinkSet
<1>3. \A p, k \in Nat : ChainLink(p, k) \in LinkSet
  BY DEF ChainLink, LinkSet
<1>4. first \in Seq(LinkSet)
  BY <1>1, <1>2
<1>5. ASSUME NEW i \in 1..n PROVE more(i) \in Seq(LinkSet)
  <2> DEFINE cell == image[q].cells[i]
  <2>1. TreeLink(cell.left, depth[q] + 1, tree[q]) \in LinkSet /\ ChainLink(cell.over, cell.span) \in LinkSet
    BY <1>1, <1>2, <1>3
  <2>2. (IF image[q].inner THEN <<TreeLink(cell.left, depth[q] + 1, tree[q])>> ELSE <<>>) \in Seq(LinkSet)
    BY <2>1
  <2>3. (IF cell.span > 0 THEN <<ChainLink(cell.over, cell.span)>> ELSE <<>>) \in Seq(LinkSet)
    BY <2>1
  <2> HIDE DEF cell
  <2> QED
    BY <2>2, <2>3 DEF CellLinks, cell
<1> HIDE DEF more, first
<1>6. step \in [(1..n) \X Seq(LinkSet) -> Seq(LinkSet)]
  <2> HIDE DEF n
  <2>1. \A i \in 1..n, s \in Seq(LinkSet) : s \o more(i) \in Seq(LinkSet)
    BY <1>5
  <2> QED BY <2>1
<1>7. PICK f \in [0..n -> Seq(LinkSet)] : f[0] = first /\ \A i \in 1..n : f[i] = step[<<i, f[i - 1]>>]
  <2> HIDE DEF step, n
  <2>1. Recursion(Seq(LinkSet), first, n, step)
    BY <1>1, <1>4, <1>6, RecursionExists
  <2> QED BY <2>1 DEF Recursion
<1>8. \A i \in 1..n : f[i] = f[i - 1] \o more(i)
  <2> SUFFICES ASSUME NEW i \in 1..n PROVE f[i] = f[i - 1] \o more(i)
    OBVIOUS
  <2> HIDE DEF n
  <2>1. i - 1 \in 0..n
    BY <1>1
  <2>2. <<i, f[i - 1]>> \in (1..n) \X Seq(LinkSet)
    BY <1>7, <2>1
  <2>3. step[<<i, f[i - 1]>>] = f[i - 1] \o more(i)
    BY <2>2
  <2> QED
    BY <1>7, <2>3
<1> DEFINE IsBefore(g) == g = [i \in 0..n |-> IF i = 0 THEN first ELSE g[i - 1] \o more(i)]
<1>9. IsBefore(f)
  <2> HIDE DEF n
  <2>1. f = [i \in 0..n |-> f[i]]
    BY <1>7
  <2>2. \A i \in 0..n : i # 0 => i \in 1..n
    BY <1>1
  <2>3. \A i \in 0..n : f[i] = IF i = 0 THEN first ELSE f[i - 1] \o more(i)
    BY <1>7, <1>8, <2>2
  <2> QED BY <2>1, <2>3
<1> DEFINE h == CHOOSE g : IsBefore(g)
<1>10. PageLinks(image[q], depth[q], tree[q]) = h[n]
  BY Zenon DEF PageLinks, first, more
<1>11. IsBefore(h)
  <2> HIDE DEF IsBefore
  <2> QED BY <1>9
<1> HIDE DEF h
<1>12. h[0] = first /\ \A i \in 1..n : h[i] = h[i - 1] \o more(i)
  <2> HIDE DEF n
  <2>1. h = [i \in 0..n |-> IF i = 0 THEN first ELSE h[i - 1] \o more(i)]
    BY <1>11
  <2>2. \A i \in 0..n : h[i] = IF i = 0 THEN first ELSE h[i - 1] \o more(i)
    BY <2>1
  <2>3. 0 \in 0..n /\ \A i \in 1..n : i \in 0..n /\ i # 0
    BY <1>1
  <2> QED BY <2>2, <2>3
<1> DEFINE Bad == {i \in 0..n : ~\E refs : Listed(h[i], refs, q, i, depth, tree)}
<1>13. Bad = {}
  <2> SUFFICES ASSUME Bad # {} PROVE FALSE
    OBVIOUS
  <2> DEFINE k == Min(Bad)
  <2>1. k \in Bad /\ \A i \in Bad : k <= i
    <3>1. Bad \in SUBSET Nat
      BY <1>1
    <3> HIDE DEF Bad
    <3> QED BY <3>1, MinOf
  <2>2. k \in 0..n /\ ~\E refs : Listed(h[k], refs, q, k, depth, tree)
    BY <2>1
  <2> HIDE DEF k
  <2>3. k # 0
    BY <1>12, <2>2, FirstListed DEF first
  <2>4. k \in 1..n /\ k - 1 \in 0..n /\ ~(k <= k - 1)
    BY <1>1, <2>2, <2>3
  <2>5. PICK refs : Listed(h[k - 1], refs, q, k - 1, depth, tree)
    BY <2>1, <2>4
  <2>6. \E new : Listed(h[k - 1] \o more(k), new, q, k, depth, tree)
    BY <2>4, <2>5, NextListed DEF more
  <2> QED
    BY <1>12, <2>2, <2>4, <2>6
<1>14. n \in 0..n
  BY <1>1
<1> QED
  BY <1>10, <1>13, <1>14

-----------------------------------------------------------------------------
(* The books of the walk: by names for every page in hand the reference    *)
(* that led to it, depth and tree its place in the forest, ahead the       *)
(* references behind the links still to be followed.  What a walk is about *)
(* to do with an image, and nothing that it does not, is in them.          *)
VisitedIn(R) == {p \in DOMAIN R : R[p] = "btree"}
Placed(p, by, depth, tree) ==
  /\ by[p].kind # "chain" /\ LinkOf(by[p], depth, tree) = TreeLink(p, depth[p], tree[p])
  /\ depth[p] <= MaxDepth + 1 /\ tree[p] \in RootPages /\ p \in Level(tree[p])[depth[p]]
Sound(p, depth, tree) == TreePage(p) /\ depth[p] <= MaxDepth /\ image[p].type = TypeFor(tree[p])
InChain(p, by) ==
  /\ by[p].kind = "chain"
  /\ NextOf(p) = 0 <=> by[p].nth = image[by[p].of].cells[by[p].cell].span

Books(R, S, P, L, by, depth, tree, ahead) ==
  /\ by \in [DOMAIN R \cup S -> SeenFrom(VisitedIn(R))] /\ depth \in [Pages -> Nat] /\ tree \in [Pages -> Nat]
  /\ \A p \in DOMAIN R \cup S : Target(by[p]) = p
  /\ \A p \in VisitedIn(R) \cup S : Placed(p, by, depth, tree)
  /\ \A p \in VisitedIn(R) : Sound(p, depth, tree)
  /\ \A p \in DOMAIN R \ VisitedIn(R) : InChain(p, by)
  /\ \A i \in 1..Len(P) : P[i] = TreeLink(P[i].page, depth[P[i].page], tree[P[i].page])
  /\ Tagged(L, ahead, SeenFrom(VisitedIn(R)), depth, tree)
  /\ \A p \in DOMAIN R \cup S : \A m : In(ahead, m) => ~Behind(m, by[p])
  /\ \A n \in SeenFrom(VisitedIn(R)) :
       (\E p \in DOMAIN R \cup S : by[p] = n) \/ (\E m : In(ahead, m) /\ Behind(m, n))

LEMMA SeenIs ==
  ASSUME ImageFormed, NEW V, \A q \in V : TreePage(q), NEW ref \in SeenFrom(V)
  PROVE  /\ ref = Reference(ref.kind, ref.of, ref.cell, ref.nth)
         /\ ref.kind \in {"root", "right", "left", "chain"}
         /\ ref.nth \in Nat /\ (ref.kind # "chain" => ref.nth = 0)
         /\ ref.kind # "root" => ref.of \in V
<1>1. CASE ref.kind = "chain"
  <2>1. /\ ref.of \in V /\ ref.cell \in 1..Len(image[ref.of].cells) /\ ref.nth \in 1..image[ref.of].cells[ref.cell].span
        /\ ref = Reference("chain", ref.of, ref.cell, ref.nth)
    BY <1>1, SeenCases
  <2>2. image[ref.of].cells[ref.cell].span \in Nat
    BY <2>1, ContentFacts DEF TreePage
  <2> QED
    BY <1>1, <2>1, <2>2
<1>2. CASE ref.kind # "chain"
  BY <1>2, SeenCases
<1> QED
  BY <1>1, <1>2

LEMMA TaggedTail ==
  ASSUME NEW list, NEW refs, NEW S, NEW depth, NEW tree, Tagged(list, refs, S, depth, tree), list # <<>>
  PROVE  /\ Tagged(Tail(list), Tail(refs), S, depth, tree)
         /\ refs[1] \in S /\ Head(list) = LinkOf(refs[1], depth, tree) /\ In(refs, refs[1])
         /\ \A m : In(Tail(refs), m) => ~SameThread(refs[1], m) /\ ~SameThread(m, refs[1])
         /\ \A m : In(refs, m) <=> m = refs[1] \/ In(Tail(refs), m)
<1> DEFINE n == Len(list)
           L == Tail(list)
           R == Tail(refs)
<1>1. /\ list \in Seq(LinkSet) /\ refs \in Seq(S) /\ Len(refs) = Len(list)
      /\ \A j \in 1..n : list[j] = LinkOf(refs[j], depth, tree)
      /\ \A j, k \in 1..n : j # k => ~SameThread(refs[j], refs[k])
  BY DEF Tagged
<1>2. n \in Nat /\ n >= 1
  BY <1>1
<1>3. /\ L \in Seq(LinkSet) /\ R \in Seq(S) /\ Len(L) = n - 1 /\ Len(R) = n - 1
      /\ \A j \in 1..n - 1 : L[j] = list[j + 1] /\ R[j] = refs[j + 1]
      /\ Head(list) = list[1] /\ refs[1] \in S
  BY <1>1, <1>2
<1> HIDE DEF L, R
<1>4. Len(refs) = n
  BY <1>1
<1> HIDE DEF n
<1>5. 1 \in 1..n /\ \A j \in 1..n - 1 : j + 1 \in 1..n /\ j + 1 # 1
  BY <1>2
<1>6. Tagged(L, R, S, depth, tree)
  <2>1. \A j \in 1..Len(L) : L[j] = LinkOf(R[j], depth, tree)
    BY <1>1, <1>3, <1>5
  <2>2. \A j, k \in 1..Len(R) : j # k => ~SameThread(R[j], R[k])
    <3> SUFFICES ASSUME NEW j \in 1..n - 1, NEW k \in 1..n - 1, j # k PROVE ~SameThread(R[j], R[k])
      BY <1>3
    <3>1. j + 1 \in 1..n /\ k + 1 \in 1..n /\ j + 1 # k + 1
      BY <1>2
    <3> QED
      BY <1>1, <1>3, <3>1
  <2> QED
    BY <1>3, <2>1, <2>2 DEF Tagged
<1>7. \A m : In(R, m) => ~SameThread(refs[1], m) /\ ~SameThread(m, refs[1])
  <2> SUFFICES ASSUME NEW j \in 1..n - 1 PROVE ~SameThread(refs[1], R[j]) /\ ~SameThread(R[j], refs[1])
    BY <1>3 DEF In
  <2> QED
    BY <1>1, <1>3, <1>5
<1>8. ASSUME NEW m PROVE In(refs, m) <=> m = refs[1] \/ In(R, m)
  <2>1. \A j \in 1..n : j = 1 \/ (j - 1 \in 1..n - 1 /\ (j - 1) + 1 = j)
    BY <1>2
  <2>2. In(refs, m) <=> \E j \in 1..n : refs[j] = m
    BY <1>4 DEF In
  <2>3. In(R, m) <=> \E j \in 1..n - 1 : refs[j + 1] = m
    BY <1>3 DEF In
  <2> QED
    BY <1>5, <2>1, <2>2, <2>3
<1>9. Head(list) = LinkOf(refs[1], depth, tree)
  BY <1>1, <1>3, <1>5
<1> QED
  BY <1>3, <1>6, <1>7, <1>8, <1>9 DEF L, R

LEMMA TaggedInFront ==
  ASSUME NEW list, NEW refs, NEW S, NEW depth, NEW tree, Tagged(list, refs, S, depth, tree),
         NEW ref \in S, NEW link \in LinkSet, link = LinkOf(ref, depth, tree),
         \A m : In(refs, m) => ~SameThread(m, ref)
  PROVE  /\ Tagged(<<link>> \o list, <<ref>> \o refs, S, depth, tree)
         /\ \A m : In(<<ref>> \o refs, m) <=> In(refs, m) \/ m = ref
<1> DEFINE L == <<link>> \o list
           R == <<ref>> \o refs
           n == Len(refs)
<1>1. /\ n \in Nat /\ Len(list) = n /\ list \in Seq(LinkSet) /\ refs \in Seq(S)
      /\ L \in Seq(LinkSet) /\ R \in Seq(S) /\ Len(L) = n + 1 /\ Len(R) = n + 1
      /\ \A j \in 1..n : L[j + 1] = list[j] /\ R[j + 1] = refs[j]
      /\ L[1] = link /\ R[1] = ref
  <2>1. list \in Seq(LinkSet) /\ refs \in Seq(S) /\ Len(list) = n
    BY DEF Tagged
  <2> QED
    BY <2>1
<1> HIDE DEF L, R, n
<1>2. \A j \in 1..n + 1 : j = 1 \/ (j - 1 \in 1..n /\ L[j] = list[j - 1] /\ R[j] = refs[j - 1])
  <2>1. \A j \in 1..n + 1 : j = 1 \/ (j - 1 \in 1..n /\ (j - 1) + 1 = j)
    BY <1>1
  <2> QED BY <1>1, <2>1
<1>3. \A j \in 1..n : list[j] = LinkOf(refs[j], depth, tree)
  BY <1>1 DEF Tagged, n
<1>4. \A j \in 1..n + 1 : L[j] = LinkOf(R[j], depth, tree)
  BY <1>1, <1>2, <1>3
<1>5. \A j \in 1..n : In(refs, refs[j])
  BY <1>1 DEF In, n
<1>6. \A j \in 1..n : ~SameThread(refs[j], ref) /\ ~SameThread(ref, refs[j])
  BY <1>5 DEF SameThread
<1>7. \A j, k \in 1..n : j # k => ~SameThread(refs[j], refs[k])
  BY DEF Tagged, n
<1>8. ASSUME NEW j \in 1..n + 1, NEW k \in 1..n + 1, j # k PROVE ~SameThread(R[j], R[k])
  <2>1. CASE j = 1
    <3>1. k - 1 \in 1..n /\ R[k] = refs[k - 1]
      BY <1>1, <1>2, <1>8, <2>1
    <3> QED BY <1>1, <1>6, <2>1, <3>1
  <2>2. CASE k = 1
    <3>1. j - 1 \in 1..n /\ R[j] = refs[j - 1]
      BY <1>1, <1>2, <1>8, <2>2
    <3> QED BY <1>1, <1>6, <2>2, <3>1
  <2>3. CASE j # 1 /\ k # 1
    <3>1. j - 1 \in 1..n /\ R[j] = refs[j - 1] /\ k - 1 \in 1..n /\ R[k] = refs[k - 1]
      BY <1>1, <1>2, <2>3
    <3>2. j - 1 # k - 1
      BY <1>8
    <3> QED
      BY <1>7, <3>1, <3>2
  <2> QED
    BY <2>1, <2>2, <2>3
<1>9. Tagged(L, R, S, depth, tree)
  BY <1>1, <1>4, <1>8 DEF Tagged
<1>10. ASSUME NEW m PROVE In(R, m) <=> In(refs, m) \/ m = ref
  <2>1. 1 \in 1..n + 1 /\ \A j \in 1..n : j + 1 \in 1..n + 1
    BY <1>1
  <2>2. In(refs, m) <=> \E j \in 1..n : refs[j] = m
    BY DEF In, n
  <2>3. In(R, m) <=> \E j \in 1..n + 1 : R[j] = m
    BY <1>1 DEF In
  <2>4. In(R, m) => In(refs, m) \/ m = ref
    BY <1>1, <1>2, <2>2, <2>3
  <2>5. In(refs, m) \/ m = ref => In(R, m)
    BY <1>1, <2>1, <2>2, <2>3
  <2> QED
    BY <2>4, <2>5
<1> QED
  BY <1>9, <1>10 DEF L, R

(* Links stay what they are while the places of their pages do.            *)
LEMMA TaggedSame ==
  ASSUME NEW list, NEW refs, NEW S, NEW depth, NEW tree, NEW depth1, NEW tree1, NEW S1,
         Tagged(list, refs, S, depth, tree), S \subseteq S1,
         \A ref \in S : LinkOf(ref, depth1, tree1) = LinkOf(ref, depth, tree)
  PROVE  Tagged(list, refs, S1, depth1, tree1)
<1>1. /\ list \in Seq(LinkSet) /\ refs \in Seq(S) /\ Len(refs) = Len(list)
      /\ \A j \in 1..Len(list) : list[j] = LinkOf(refs[j], depth, tree)
      /\ \A j, k \in 1..Len(refs) : j # k => ~SameThread(refs[j], refs[k])
  BY DEF Tagged
<1>2. \A j \in 1..Len(list) : refs[j] \in S
  BY <1>1, ElementOfSeq
<1>3. refs \in Seq(S1)
  BY <1>1
<1> QED
  BY <1>1, <1>2, <1>3 DEF Tagged

LEMMA LinkSame ==
  ASSUME NEW ref, NEW depth, NEW tree, NEW depth1, NEW tree1, ref.kind \in {"root", "right", "left", "chain"},
         ref.kind \in {"right", "left"} => depth1[ref.of] = depth[ref.of] /\ tree1[ref.of] = tree[ref.of]
  PROVE  LinkOf(ref, depth1, tree1) = LinkOf(ref, depth, tree)
<1>1. CASE ref.kind = "root"
  BY <1>1, LinkFacts
<1>2. CASE ref.kind \in {"right", "left"}
  BY <1>2, LinkFacts
<1>3. CASE ref.kind = "chain"
  BY <1>3, LinkFacts
<1> QED
  BY <1>1, <1>2, <1>3

(* Whatever the walk holds is in the trees of the image.                   *)
LEMMA BooksInTrees ==
  ASSUME ImageFormed, NEW R, NEW S, NEW P, NEW L, NEW by, NEW depth, NEW tree, NEW ahead,
         Books(R, S, P, L, by, depth, tree, ahead)
  PROVE  /\ \A q \in VisitedIn(R) : TreePage(q) /\ q \in AllTreePages /\ depth[q] \in Nat /\ tree[q] \in Nat
         /\ SeenFrom(VisitedIn(R)) \subseteq References
         /\ \A r \in RootPages : r \in Nat
<1>1. MaxDepth \in Nat
  BY WalkAssumption
<1>2. \A r \in RootPages : r \in Nat
  <2>1. \A i \in DOMAIN roots : roots[i] \in Nat
    BY ElementOfSeq DEF ImageFormed
  <2> QED BY <2>1 DEF RootPages
<1>3. ASSUME NEW q \in VisitedIn(R) PROVE TreePage(q) /\ q \in AllTreePages /\ depth[q] \in Nat /\ tree[q] \in Nat
  <2>1. Sound(q, depth, tree) /\ Placed(q, by, depth, tree)
    BY DEF Books
  <2>2. q \in Pages
    BY <2>1 DEF Sound, TreePage
  <2>3. depth[q] \in Nat /\ tree[q] \in Nat
    BY <2>2 DEF Books
  <2>4. depth[q] \in 0..MaxDepth /\ tree[q] \in RootPages /\ q \in Level(tree[q])[depth[q]]
    BY <1>1, <2>1, <2>3 DEF Sound, Placed
  <2>5. q \in TreePages(tree[q])
    BY <2>4 DEF TreePages
  <2>6. q \in AllTreePages
    BY <2>4, <2>5 DEF AllTreePages
  <2> QED
    BY <2>1, <2>3, <2>6 DEF Sound
<1>4. SeenFrom(VisitedIn(R)) \subseteq References
  BY <1>3 DEF SeenFrom, References
<1> QED
  BY <1>2, <1>3, <1>4

(* A page that a reference names is a page of its tree, one level down.    *)
LEMMA ReferencePlaced ==
  ASSUME ImageFormed, NEW R, NEW S, NEW P, NEW L, NEW by, NEW depth, NEW tree, NEW ahead,
         Books(R, S, P, L, by, depth, tree, ahead),
         NEW ref \in SeenFrom(VisitedIn(R)), ref.kind # "chain"
  PROVE  \E d \in Nat : \E r \in RootPages :
           /\ d <= MaxDepth + 1 /\ LinkOf(ref, depth, tree) = TreeLink(Target(ref), d, r)
           /\ Target(ref) \in Level(r)[d]
<1>1. MaxDepth \in Nat /\ \A q \in VisitedIn(R) : TreePage(q)
  BY WalkAssumption, BooksInTrees
<1>2. CASE ref.kind = "root"
  <2>1. Target(ref) \in RootPages /\ Target(ref) \in Nat
    BY <1>1, <1>2, SeenTargets
  <2>2. LinkOf(ref, depth, tree) = TreeLink(Target(ref), 0, Target(ref))
    BY <1>2, LinkFacts
  <2>3. Target(ref) \in Level(Target(ref))[0]
    BY <2>1, LevelFacts
  <2>4. 0 <= MaxDepth + 1
    BY <1>1
  <2> QED
    BY <2>1, <2>2, <2>3, <2>4
<1>3. CASE ref.kind \in {"right", "left"}
  <2> DEFINE q == ref.of
  <2>1. q \in VisitedIn(R) /\ image[q].inner /\ Target(ref) \in Children(q)
    BY <1>1, <1>3, SeenCases, SeenTargets
  <2>2. TreePage(q) /\ depth[q] \in Nat /\ tree[q] \in Nat /\ q \in Pages
    BY <2>1, BooksInTrees DEF TreePage
  <2>3. depth[q] <= MaxDepth /\ tree[q] \in RootPages /\ q \in Level(tree[q])[depth[q]]
    BY <2>1 DEF Books, Sound, Placed
  <2>4. Target(ref) \in Level(tree[q])[depth[q] + 1]
    BY <2>1, <2>2, <2>3, ChildLevel
  <2>5. LinkOf(ref, depth, tree) = TreeLink(Target(ref), depth[q] + 1, tree[q])
    BY <1>3, LinkFacts
  <2>6. depth[q] + 1 \in Nat /\ depth[q] + 1 <= MaxDepth + 1
    BY <1>1, <2>2, <2>3
  <2> QED
    BY <2>3, <2>4, <2>5, <2>6
<1>4. ref.kind \in {"root", "right", "left", "chain"}
  BY <1>1, SeenIs
<1> QED
  BY <1>2, <1>3, <1>4

(* A tree that leaves the image, or goes deeper than it may, is in no      *)
(* forest.                                                                 *)
LEMMA OutsideOrTooDeep ==
  ASSUME NEW r \in RootPages, NEW d \in Nat, d <= MaxDepth + 1, NEW p \in Level(r)[d],
         p \notin Pages \/ d > MaxDepth \/ image[p].type # TypeFor(r)
  PROVE  ~ForestOfThePages
<1>1. MaxDepth \in Nat
  BY WalkAssumption
<1>2. CASE d > MaxDepth
  <2>1. d = MaxDepth + 1
    BY <1>1, <1>2
  <2> QED
    BY <2>1 DEF ForestOfThePages
<1>3. CASE d <= MaxDepth
  <2>1. d \in 0..MaxDepth
    BY <1>1, <1>3
  <2>2. p \in TreePages(r)
    BY <2>1 DEF TreePages
  <2>3. p \in AllTreePages
    BY <2>2 DEF AllTreePages
  <2>4. ~(d > MaxDepth)
    BY <1>1, <1>3
  <2> QED
    BY <2>2, <2>3, <2>4 DEF ForestOfThePages
<1> QED
  BY <1>1, <1>2, <1>3

(* A page that was met before is named twice.                              *)
LEMMA MetBefore ==
  ASSUME ImageFormed, NEW R, NEW S, NEW P, NEW L, NEW by, NEW depth, NEW tree, NEW ahead,
         Books(R, S, P, L, by, depth, tree, ahead), DOMAIN R \cup S \subseteq Pages,
         NEW ref, In(ahead, ref), ref \in SeenFrom(VisitedIn(R)), Target(ref) \in DOMAIN R \cup S
  PROVE  ~ForestOfThePages
<1> DEFINE p == Target(ref)
           m == by[p]
<1>1. m \in SeenFrom(VisitedIn(R)) /\ Target(m) = p /\ ~Behind(ref, m)
  BY DEF Books
<1>2. ref.nth \in Nat
  BY BooksInTrees, SeenIs
<1>3. Behind(ref, ref)
  BY <1>2 DEF Behind, SameThread
<1>4. m # ref
  BY <1>1, <1>3
<1>5. m \in References /\ ref \in References
  BY <1>1, BooksInTrees
<1> QED
  BY <1>1, <1>4, <1>5, NamedTwice

LEMMA ScheduleBooks ==
  ASSUME ImageFormed, NEW R, NEW S, NEW P, NEW L, NEW by, NEW depth, NEW tree, NEW ahead,
         Books(R, S, P, L, by, depth, tree, ahead), DOMAIN R \cup S \subseteq Pages,
         P \in Seq(LinkSet), \A i \in 1..Len(P) : P[i].page \in S,
         L # <<>>, Head(L).kind = "btree", Head(L).page \in Pages, Head(L).page \notin DOMAIN R \cup S
  PROVE  \E by1, depth1, tree1, ahead1 :
           Books(R, S \cup {Head(L).page}, Append(P, Head(L)), Tail(L), by1, depth1, tree1, ahead1)
<1> DEFINE V == VisitedIn(R)
           ref == ahead[1]
           target == Head(L).page
           rest == Tail(ahead)
<1>1. Tagged(L, ahead, SeenFrom(V), depth, tree)
  BY DEF Books
<1>2. /\ Tagged(Tail(L), rest, SeenFrom(V), depth, tree)
      /\ ref \in SeenFrom(V) /\ Head(L) = LinkOf(ref, depth, tree) /\ In(ahead, ref)
      /\ \A m : In(rest, m) => ~SameThread(ref, m) /\ ~SameThread(m, ref)
      /\ \A m : In(ahead, m) <=> m = ref \/ In(rest, m)
  BY <1>1, TaggedTail
<1>3. \A q \in V : TreePage(q)
  BY BooksInTrees
<1>4. \A m \in SeenFrom(V) :
        /\ m = Reference(m.kind, m.of, m.cell, m.nth) /\ m.kind \in {"root", "right", "left", "chain"}
        /\ m.nth \in Nat /\ (m.kind # "chain" => m.nth = 0) /\ (m.kind # "root" => m.of \in V)
  BY <1>3, SeenIs
<1>5. ref.kind # "chain" /\ target = Target(ref)
  BY <1>2, <1>4, LinkFacts
<1>6. PICK d \in Nat, r \in RootPages :
        d <= MaxDepth + 1 /\ Head(L) = TreeLink(target, d, r) /\ target \in Level(r)[d]
  BY <1>2, <1>5, ReferencePlaced
<1>7. /\ by \in [DOMAIN R \cup S -> SeenFrom(V)] /\ depth \in [Pages -> Nat] /\ tree \in [Pages -> Nat]
      /\ \A p \in DOMAIN R \cup S : Target(by[p]) = p
      /\ \A p \in V \cup S : Placed(p, by, depth, tree)
      /\ \A p \in V : Sound(p, depth, tree)
      /\ \A p \in DOMAIN R \ V : InChain(p, by)
      /\ \A i \in 1..Len(P) : P[i] = TreeLink(P[i].page, depth[P[i].page], tree[P[i].page])
      /\ \A p \in DOMAIN R \cup S : \A m : In(ahead, m) => ~Behind(m, by[p])
      /\ \A n \in SeenFrom(V) :
           (\E p \in DOMAIN R \cup S : by[p] = n) \/ (\E m : In(ahead, m) /\ Behind(m, n))
  BY DEF Books
<1> DEFINE S1 == S \cup {target}
           by1 == [p \in DOMAIN R \cup S1 |-> IF p = target THEN ref ELSE by[p]]
           depth1 == [depth EXCEPT ![target] = d]
           tree1 == [tree EXCEPT ![target] = r]
<1>8. r \in Nat /\ V \subseteq DOMAIN R
  BY BooksInTrees DEF VisitedIn
<1> HIDE DEF V, ref, target, rest
<1>9. target \in Pages /\ target \notin DOMAIN R \cup S
  BY DEF target
<1>10. /\ by1 \in [DOMAIN R \cup S1 -> SeenFrom(V)] /\ depth1 \in [Pages -> Nat] /\ tree1 \in [Pages -> Nat]
       /\ by1[target] = ref /\ depth1[target] = d /\ tree1[target] = r
       /\ \A p \in DOMAIN R \cup S : p # target /\ by1[p] = by[p] /\ depth1[p] = depth[p] /\ tree1[p] = tree[p]
  BY <1>2, <1>7, <1>8, <1>9
<1> HIDE DEF by1, depth1, tree1
<1>11. \A m \in SeenFrom(V) : LinkOf(m, depth1, tree1) = LinkOf(m, depth, tree)
  <2> SUFFICES ASSUME NEW m \in SeenFrom(V) PROVE LinkOf(m, depth1, tree1) = LinkOf(m, depth, tree)
    OBVIOUS
  <2>1. m.kind \in {"right", "left"} => m.of \in V
    BY <1>4
  <2>2. m.kind \in {"right", "left"} => depth1[m.of] = depth[m.of] /\ tree1[m.of] = tree[m.of]
    BY <1>8, <1>10, <2>1
  <2> QED
    BY <1>4, <2>2, LinkSame
<1>12. \A p \in DOMAIN R \cup S1 : Target(by1[p]) = p
  BY <1>5, <1>7, <1>10
<1>13. ASSUME NEW p \in V \cup S1 PROVE Placed(p, by1, depth1, tree1)
  <2>1. CASE p = target
    <3>1. LinkOf(ref, depth1, tree1) = TreeLink(target, d, r)
      BY <1>2, <1>6, <1>11
    <3> QED
      BY <1>5, <1>6, <1>10, <2>1, <3>1 DEF Placed
  <2>2. CASE p # target
    <3>1. p \in V \cup S /\ p \in DOMAIN R \cup S
      BY <1>8, <2>2
    <3>2. /\ by[p].kind # "chain" /\ LinkOf(by[p], depth, tree) = TreeLink(p, depth[p], tree[p])
          /\ depth[p] <= MaxDepth + 1 /\ tree[p] \in RootPages /\ p \in Level(tree[p])[depth[p]]
      BY <1>7, <3>1 DEF Placed
    <3>3. by1[p] = by[p] /\ by[p] \in SeenFrom(V) /\ depth1[p] = depth[p] /\ tree1[p] = tree[p]
      BY <1>7, <1>10, <3>1
    <3>4. LinkOf(by[p], depth1, tree1) = LinkOf(by[p], depth, tree)
      BY <1>11, <3>3
    <3> QED
      BY <3>2, <3>3, <3>4 DEF Placed
  <2> QED
    BY <2>1, <2>2
<1>14. \A p \in V : Sound(p, depth1, tree1)
  BY <1>7, <1>8, <1>10 DEF Sound
<1>15. \A p \in DOMAIN R \ V : InChain(p, by1)
  BY <1>7, <1>10 DEF InChain
<1>16. ASSUME NEW i \in 1..Len(Append(P, Head(L)))
       PROVE  LET l == Append(P, Head(L))[i] IN l = TreeLink(l.page, depth1[l.page], tree1[l.page])
  <2> DEFINE n == Len(P)
             l == Append(P, Head(L))[i]
  <2>1. n \in Nat /\ Len(Append(P, Head(L))) = n + 1
    OBVIOUS
  <2>2. CASE i = n + 1
    <3>1. l = Head(L)
      BY <2>1, <2>2
    <3>2. l = TreeLink(target, d, r) /\ l.page = target
      BY <1>6, <3>1 DEF target
    <3> HIDE DEF l
    <3>3. l = TreeLink(l.page, depth1[l.page], tree1[l.page])
      BY <1>10, <3>2
    <3> QED
      BY <3>3 DEF l
  <2>3. CASE i # n + 1
    <3>1. i \in 1..n
      BY <2>1, <2>3
    <3>2. l = P[i]
      BY <3>1
    <3>3. P[i].page \in S /\ P[i] = TreeLink(P[i].page, depth[P[i].page], tree[P[i].page])
      BY <1>7, <3>1
    <3>4. depth1[P[i].page] = depth[P[i].page] /\ tree1[P[i].page] = tree[P[i].page]
      BY <1>10, <3>3
    <3> HIDE DEF l
    <3>5. l = TreeLink(l.page, depth1[l.page], tree1[l.page])
      BY <3>2, <3>3, <3>4
    <3> QED
      BY <3>5 DEF l
  <2> QED
    BY <2>2, <2>3
<1>17. Tagged(Tail(L), rest, SeenFrom(V), depth1, tree1)
  BY <1>2, <1>11, TaggedSame
<1>18. \A p \in DOMAIN R \cup S1 : \A m : In(rest, m) => ~Behind(m, by1[p])
  BY <1>2, <1>7, <1>10 DEF Behind
<1>19. ASSUME NEW n \in SeenFrom(V)
       PROVE  (\E p \in DOMAIN R \cup S1 : by1[p] = n) \/ (\E m : In(rest, m) /\ Behind(m, n))
  <2>1. CASE \E p \in DOMAIN R \cup S : by[p] = n
    BY <1>10, <2>1
  <2>2. CASE \E m : In(rest, m) /\ Behind(m, n)
    BY <2>2
  <2>3. CASE Behind(ref, n)
    <3>1. n.kind = ref.kind /\ n.of = ref.of /\ n.cell = ref.cell /\ n.nth = ref.nth
      BY <1>2, <1>4, <1>5, <2>3 DEF Behind, SameThread
    <3>2. n = ref
      BY <1>2, <1>4, <3>1
    <3> QED
      BY <1>10, <3>2
  <2> QED
    BY <1>2, <1>7, <2>1, <2>2, <2>3
<1>20. Books(R, S1, Append(P, Head(L)), Tail(L), by1, depth1, tree1, rest)
  BY <1>10, <1>12, <1>13, <1>14, <1>15, <1>16, <1>17, <1>18, <1>19 DEF Books, V
<1> QED
  BY <1>20 DEF S1, target

(* A page of a chain: what ref names, and where the chain goes on.         *)
LEMMA ChainPage ==
  ASSUME ImageFormed, NEW V, \A q \in V : TreePage(q), NEW ref \in SeenFrom(V), ref.kind = "chain",
         NEW depth, NEW tree
  PROVE  LET cell == image[ref.of].cells[ref.cell]
             next == Reference("chain", ref.of, ref.cell, ref.nth + 1)
         IN  /\ ref.of \in V /\ ref.cell \in 1..Len(image[ref.of].cells) /\ cell \in CellSet /\ cell.span \in Nat
             /\ ref.nth \in 1..cell.span /\ Target(ref) = OverflowPages(cell)[ref.nth]
             /\ LinkOf(ref, depth, tree) = ChainLink(Target(ref), cell.span - ref.nth + 1)
             /\ ref.nth < cell.span /\ Target(ref) \in Pages =>
                  /\ next \in SeenFrom(V) /\ Target(next) = NextOf(Target(ref))
                  /\ LinkOf(next, depth, tree) = ChainLink(NextOf(Target(ref)), cell.span - ref.nth)
<1> DEFINE q == ref.of
           cell == image[q].cells[ref.cell]
           next == Reference("chain", q, ref.cell, ref.nth + 1)
<1>1. /\ q \in V /\ ref.cell \in 1..Len(image[q].cells) /\ ref.nth \in 1..cell.span
      /\ Target(ref) = OverflowPages(cell)[ref.nth]
  BY SeenCases DEF Target
<1>2. TreePage(q) /\ cell \in CellSet /\ cell.span \in Nat
  BY <1>1, ContentFacts DEF TreePage
<1>3. LinkOf(ref, depth, tree) = ChainLink(Target(ref), cell.span - ref.nth + 1)
  BY LinkFacts
<1>4. next.kind = "chain" /\ next.of = q /\ next.cell = ref.cell /\ next.nth = ref.nth + 1
  BY ReferenceParts
<1>5. ASSUME ref.nth < cell.span, Target(ref) \in Pages
      PROVE  /\ next \in SeenFrom(V) /\ Target(next) = NextOf(Target(ref))
             /\ LinkOf(next, depth, tree) = ChainLink(NextOf(Target(ref)), cell.span - ref.nth)
  <2>1. ref.nth + 1 \in 1..cell.span /\ ref.nth + 1 <= cell.span /\ cell.span - (ref.nth + 1) + 1 = cell.span - ref.nth
    BY <1>1, <1>2, <1>5
  <2>2. next \in ReferencesIn(q)
    <3>1. IsReference(next, q)
      BY <1>1, <2>1 DEF IsReference
    <3> QED BY <1>2, <3>1, PageReferences
  <2>3. next \in SeenFrom(V)
    BY <1>1, <2>2 DEF SeenFrom
  <2>4. Target(next) = OverflowPages(cell)[ref.nth + 1]
    <3> HIDE DEF next
    <3> QED BY <1>4 DEF Target
  <2>5. OverflowPages(cell)[ref.nth + 1] = NextOf(Target(ref))
    BY <1>1, <1>2, <1>5, <2>1, ChainFacts
  <2>6. LinkOf(next, depth, tree) = ChainLink(Target(next), cell.span - (ref.nth + 1) + 1)
    <3> HIDE DEF next
    <3> QED BY <1>4, LinkFacts
  <2> QED
    BY <2>1, <2>3, <2>4, <2>5, <2>6
<1> QED
  BY <1>1, <1>2, <1>3, <1>5

(* A page is claimed, and the stack may lose what is on its top.           *)
Claims(R, R1, target, role) ==
  DOMAIN R1 = DOMAIN R \cup {target} /\ \A p \in DOMAIN R1 : R1[p] = IF p = target THEN role ELSE R[p]
Shortened(P, P1) == \A i \in 1..Len(P1) : i \in 1..Len(P) /\ P1[i] = P[i]

LEMMA FollowBooks ==
  ASSUME ImageFormed, NEW R, NEW S, NEW P, NEW L, NEW by, NEW depth, NEW tree, NEW ahead,
         Books(R, S, P, L, by, depth, tree, ahead), DOMAIN R \cup S \subseteq Pages,
         NEW R1, NEW target, target = Head(L).page, Claims(R, R1, target, "overflow"),
         L # <<>>, Head(L).kind = "overflow", target \in Pages, target \notin DOMAIN R \cup S,
         (Head(L).span > 1) = (NextOf(target) # 0)
  PROVE  \E by1, ahead1 :
           Books(R1, S, P, IF Head(L).span > 1 THEN <<ChainLink(NextOf(target), Head(L).span - 1)>> \o Tail(L)
                                               ELSE Tail(L), by1, depth, tree, ahead1)
<1> DEFINE V == VisitedIn(R)
           ref == ahead[1]
           rest == Tail(ahead)
           cell == image[ref.of].cells[ref.cell]
           next == Reference("chain", ref.of, ref.cell, ref.nth + 1)
           span == Head(L).span
           L1 == IF span > 1 THEN <<ChainLink(NextOf(target), span - 1)>> \o Tail(L) ELSE Tail(L)
           ahead1 == IF span > 1 THEN <<next>> \o rest ELSE rest
           by1 == [p \in DOMAIN R1 \cup S |-> IF p = target THEN ref ELSE by[p]]
<1>0. DOMAIN R1 = DOMAIN R \cup {target} /\ \A p \in DOMAIN R1 : R1[p] = IF p = target THEN "overflow" ELSE R[p]
  BY DEF Claims
<1>1. Tagged(L, ahead, SeenFrom(V), depth, tree)
  BY DEF Books
<1>2. /\ Tagged(Tail(L), rest, SeenFrom(V), depth, tree)
      /\ ref \in SeenFrom(V) /\ Head(L) = LinkOf(ref, depth, tree) /\ In(ahead, ref)
      /\ \A m : In(rest, m) => ~SameThread(ref, m) /\ ~SameThread(m, ref)
      /\ \A m : In(ahead, m) <=> m = ref \/ In(rest, m)
  BY <1>1, TaggedTail
<1>3. \A q \in V : TreePage(q)
  BY BooksInTrees
<1>4. \A m \in SeenFrom(V) :
        /\ m = Reference(m.kind, m.of, m.cell, m.nth) /\ m.kind \in {"root", "right", "left", "chain"}
        /\ m.nth \in Nat
  BY <1>3, SeenIs
<1>5. ref.kind = "chain" /\ target = Target(ref)
  BY <1>2, <1>4, LinkFacts
<1>6. /\ cell.span \in Nat /\ ref.nth \in 1..cell.span
      /\ Head(L) = ChainLink(target, cell.span - ref.nth + 1)
      /\ ref.nth < cell.span =>
           /\ next \in SeenFrom(V) /\ Target(next) = NextOf(target)
           /\ LinkOf(next, depth, tree) = ChainLink(NextOf(target), cell.span - ref.nth)
  <2>1. ref \in SeenFrom(V) /\ Head(L) = LinkOf(ref, depth, tree)
    BY <1>2
  <2>2. ImageFormed
    OBVIOUS
  <2> HIDE DEF V, ref
  <2>3. /\ cell.span \in Nat /\ ref.nth \in 1..cell.span
        /\ LinkOf(ref, depth, tree) = ChainLink(Target(ref), cell.span - ref.nth + 1)
        /\ ref.nth < cell.span /\ Target(ref) \in Pages =>
             /\ next \in SeenFrom(V) /\ Target(next) = NextOf(Target(ref))
             /\ LinkOf(next, depth, tree) = ChainLink(NextOf(Target(ref)), cell.span - ref.nth)
    BY ONLY <1>3, <1>5, <2>1, <2>2, ChainPage
  <2> HIDE DEF next, cell
  <2> QED BY <1>5, <2>1, <2>3
<1>7. span = cell.span - ref.nth + 1 /\ span \in Nat /\ span - 1 = cell.span - ref.nth
      /\ (span > 1 <=> ref.nth < cell.span) /\ (span > 1 <=> ref.nth # cell.span)
  <2>1. span = cell.span - ref.nth + 1
    BY <1>6, LinkParts
  <2> QED
    BY <1>6, <2>1
<1>8. /\ by \in [DOMAIN R \cup S -> SeenFrom(V)] /\ depth \in [Pages -> Nat] /\ tree \in [Pages -> Nat]
      /\ \A p \in DOMAIN R \cup S : Target(by[p]) = p
      /\ \A p \in V \cup S : Placed(p, by, depth, tree)
      /\ \A p \in V : Sound(p, depth, tree)
      /\ \A p \in DOMAIN R \ V : InChain(p, by)
      /\ \A i \in 1..Len(P) : P[i] = TreeLink(P[i].page, depth[P[i].page], tree[P[i].page])
      /\ \A p \in DOMAIN R \cup S : \A m : In(ahead, m) => ~Behind(m, by[p])
      /\ \A n \in SeenFrom(V) :
           (\E p \in DOMAIN R \cup S : by[p] = n) \/ (\E m : In(ahead, m) /\ Behind(m, n))
  BY DEF Books
<1>9. VisitedIn(R1) = V /\ V \subseteq DOMAIN R
  BY <1>0 DEF VisitedIn
<1> HIDE DEF V, ref, rest
<1>10. next.kind = "chain" /\ next.of = ref.of /\ next.cell = ref.cell /\ next.nth = ref.nth + 1
  BY ReferenceParts
<1> HIDE DEF next
<1>11. (span > 1) = (NextOf(target) # 0)
  OBVIOUS
<1>12. /\ by1 \in [DOMAIN R1 \cup S -> SeenFrom(V)] /\ by1[target] = ref
       /\ \A p \in DOMAIN R \cup S : p # target /\ by1[p] = by[p] /\ p \in DOMAIN R1 \cup S
       /\ \A p \in DOMAIN R1 \cup S : p = target \/ p \in DOMAIN R \cup S
       /\ target \in DOMAIN R1
  BY <1>0, <1>2, <1>8
<1> HIDE DEF by1
<1>13. \A p \in DOMAIN R1 \cup S : Target(by1[p]) = p
  BY <1>5, <1>8, <1>12
<1>14. \A p \in V \cup S : Placed(p, by1, depth, tree)
  <2> SUFFICES ASSUME NEW p \in V \cup S PROVE Placed(p, by1, depth, tree)
    OBVIOUS
  <2>1. Placed(p, by, depth, tree) /\ by1[p] = by[p]
    BY <1>8, <1>9, <1>12
  <2> QED
    BY <2>1 DEF Placed
<1>15. ASSUME NEW p \in DOMAIN R1 \ V PROVE InChain(p, by1)
  <2>1. CASE p = target
    <3>1. NextOf(target) = 0 <=> ref.nth = cell.span
      BY <1>7, <1>11
    <3> QED
      BY <1>5, <1>12, <2>1, <3>1 DEF InChain
  <2>2. CASE p # target
    <3>1. p \in DOMAIN R \ V
      BY <1>0, <2>2
    <3>2. InChain(p, by) /\ by1[p] = by[p]
      BY <1>8, <1>12, <3>1
    <3> QED
      BY <3>2 DEF InChain
  <2> QED
    BY <2>1, <2>2
<1>16. /\ Tagged(L1, ahead1, SeenFrom(V), depth, tree)
       /\ \A m : In(ahead1, m) <=> In(rest, m) \/ (span > 1 /\ m = next)
  <2>1. CASE span > 1
    <3>1. \A m : In(rest, m) => ~SameThread(m, next)
      BY <1>2, <1>5, <1>10 DEF SameThread
    <3>2. next \in SeenFrom(V) /\ ChainLink(NextOf(target), span - 1) = LinkOf(next, depth, tree)
      BY <1>6, <1>7, <2>1
    <3>3. ChainLink(NextOf(target), span - 1) \in LinkSet
      <4>1. NextOf(target) \in Nat /\ span - 1 \in Nat
        BY <1>7, <2>1, ContentFacts
      <4> HIDE DEF span
      <4> QED BY <4>1 DEF ChainLink, LinkSet
    <3>4. /\ Tagged(<<ChainLink(NextOf(target), span - 1)>> \o Tail(L), <<next>> \o rest, SeenFrom(V), depth, tree)
          /\ \A m : In(<<next>> \o rest, m) <=> In(rest, m) \/ m = next
      BY <1>2, <3>1, <3>2, <3>3, TaggedInFront
    <3> QED
      BY <2>1, <3>4
  <2>2. CASE ~(span > 1)
    BY <1>2, <2>2
  <2> QED
    BY <2>1, <2>2
<1> HIDE DEF ahead1, L1
<1>17. ASSUME NEW p \in DOMAIN R1 \cup S, NEW m, In(ahead1, m) PROVE ~Behind(m, by1[p])
  <2>1. CASE p = target
    <3>1. ~Behind(next, ref)
      BY <1>6, <1>10 DEF Behind
    <3>2. In(rest, m) => ~Behind(m, ref)
      BY <1>2 DEF Behind
    <3> QED
      BY <1>12, <1>16, <1>17, <2>1, <3>1, <3>2
  <2>2. CASE p # target
    <3>1. by1[p] = by[p] /\ p \in DOMAIN R \cup S /\ by[p] \in SeenFrom(V)
      BY <1>8, <1>12, <2>2
    <3>2. ~Behind(ref, by[p]) /\ by[p].nth \in Nat
      BY <1>2, <1>4, <1>8, <3>1
    <3>3. ~Behind(next, by[p])
      BY <1>5, <1>6, <1>10, <3>2 DEF Behind, SameThread
    <3>4. In(rest, m) => ~Behind(m, by[p])
      BY <1>2, <1>8, <3>1
    <3> QED
      BY <1>16, <1>17, <3>1, <3>3, <3>4
  <2> QED
    BY <2>1, <2>2
<1>18. ASSUME NEW n \in SeenFrom(V)
       PROVE  (\E p \in DOMAIN R1 \cup S : by1[p] = n) \/ (\E m : In(ahead1, m) /\ Behind(m, n))
  <2>1. CASE \E p \in DOMAIN R \cup S : by[p] = n
    BY <1>12, <2>1
  <2>2. CASE \E m : In(rest, m) /\ Behind(m, n)
    BY <1>16, <2>2
  <2>3. CASE Behind(ref, n)
    <3>1. n.kind = ref.kind /\ n.of = ref.of /\ n.cell = ref.cell /\ ref.nth <= n.nth /\ n.nth \in Nat
      BY <1>4, <2>3 DEF Behind, SameThread
    <3>2. CASE n.nth = ref.nth
      <4>1. n = ref
        BY <1>2, <1>4, <3>1, <3>2
      <4> QED
        BY <1>12, <4>1
    <3>3. CASE n.nth # ref.nth
      <4>1. n.nth \in 1..cell.span
        BY <1>3, <1>5, <3>1, SeenCases
      <4>2. ref.nth < cell.span /\ ref.nth + 1 <= n.nth
        BY <1>6, <3>1, <3>3, <4>1
      <4>3. Behind(next, n)
        BY <1>5, <1>10, <3>1, <4>2 DEF Behind, SameThread
      <4> QED
        BY <1>7, <1>16, <4>2, <4>3
    <3> QED
      BY <3>2, <3>3
  <2> QED
    BY <1>2, <1>8, <2>1, <2>2, <2>3
<1>19. Books(R1, S, P, L1, by1, depth, tree, ahead1)
  BY <1>8, <1>9, <1>12, <1>13, <1>14, <1>15, <1>16, <1>17, <1>18 DEF Books
<1> QED
  BY <1>19 DEF L1

LEMMA VisitBooks ==
  ASSUME ImageFormed, NEW R, NEW S, NEW P, NEW L, NEW by, NEW depth, NEW tree, NEW ahead,
         Books(R, S, P, L, by, depth, tree, ahead), DOMAIN R \cup S \subseteq Pages, DOMAIN R \cap S = {},
         NEW q \in S, L = <<>>, depth[q] <= MaxDepth, image[q].type = TypeFor(tree[q]),
         NEW R1, Claims(R, R1, q, "btree"), NEW P1, Shortened(P, P1)
  PROVE  \E ahead1 : Books(R1, S \ {q}, P1, PageLinks(image[q], depth[q], tree[q]), by, depth, tree, ahead1)
<1> DEFINE V == VisitedIn(R)
           V1 == VisitedIn(R1)
           S1 == S \ {q}
<1>1. /\ by \in [DOMAIN R \cup S -> SeenFrom(V)] /\ depth \in [Pages -> Nat] /\ tree \in [Pages -> Nat]
      /\ \A p \in DOMAIN R \cup S : Target(by[p]) = p
      /\ \A p \in V \cup S : Placed(p, by, depth, tree)
      /\ \A p \in V : Sound(p, depth, tree)
      /\ \A p \in DOMAIN R \ V : InChain(p, by)
      /\ \A i \in 1..Len(P) : P[i] = TreeLink(P[i].page, depth[P[i].page], tree[P[i].page])
      /\ Tagged(L, ahead, SeenFrom(V), depth, tree)
      /\ \A n \in SeenFrom(V) :
           (\E p \in DOMAIN R \cup S : by[p] = n) \/ (\E m : In(ahead, m) /\ Behind(m, n))
  BY DEF Books
<1>0. /\ DOMAIN R1 = DOMAIN R \cup {q} /\ \A p \in DOMAIN R1 : R1[p] = IF p = q THEN "btree" ELSE R[p]
      /\ \A i \in 1..Len(P1) : i \in 1..Len(P) /\ P1[i] = P[i]
  BY DEF Claims, Shortened
<1>2. q \in Pages /\ depth[q] \in Nat /\ tree[q] \in Nat /\ q \notin DOMAIN R
  BY <1>1
<1>3. V1 = V \cup {q} /\ V \subseteq DOMAIN R /\ q \notin V
  BY <1>0, <1>2 DEF VisitedIn
<1>4. TreePage(q)
  <2>1. image[q].type # "data"
    BY DEF TypeFor
  <2> QED BY <1>2, <2>1, ContentFacts
<1>5. PICK refs : Listed(PageLinks(image[q], depth[q], tree[q]), refs, q, Len(image[q].cells), depth, tree)
  BY <1>2, <1>4, PageListed
<1>6. \A m : ~In(ahead, m)
  BY <1>1 DEF Tagged, In
<1>7. \A n \in SeenFrom(V) : \E p \in DOMAIN R \cup S : by[p] = n
  BY <1>1, <1>6
<1>8. \A p \in V : TreePage(p)
  BY <1>1 DEF Sound
<1> HIDE DEF V, V1
<1>9. SeenFrom(V) \subseteq SeenFrom(V1) /\ ReferencesIn(q) \subseteq SeenFrom(V1)
      /\ SeenFrom(V1) = SeenFrom(V) \cup ReferencesIn(q)
  BY <1>3 DEF SeenFrom
<1>10. DOMAIN R1 \cup S1 = DOMAIN R \cup S
  BY <1>0
<1>11. by \in [DOMAIN R1 \cup S1 -> SeenFrom(V1)]
  BY <1>1, <1>9, <1>10
<1>12. \A p \in V1 \cup S1 : Placed(p, by, depth, tree)
  BY <1>1, <1>3
<1>13. \A p \in V1 : Sound(p, depth, tree)
  BY <1>1, <1>3, <1>4 DEF Sound
<1>14. \A p \in DOMAIN R1 \ V1 : InChain(p, by)
  BY <1>0, <1>1, <1>3
<1>15. \A i \in 1..Len(P1) : P1[i] = TreeLink(P1[i].page, depth[P1[i].page], tree[P1[i].page])
  BY <1>0, <1>1
<1>16. /\ Tagged(PageLinks(image[q], depth[q], tree[q]), refs, ReferencesIn(q), depth, tree)
       /\ \A n \in ReferencesIn(q) : n.cell <= Len(image[q].cells) => \E m : In(refs, m) /\ Behind(m, n)
  BY <1>5 DEF Listed
<1>17. Tagged(PageLinks(image[q], depth[q], tree[q]), refs, SeenFrom(V1), depth, tree)
  BY <1>9, <1>16, TaggedSame
<1>18. \A m : In(refs, m) => m \in ReferencesIn(q)
  <2>1. refs \in Seq(ReferencesIn(q))
    BY <1>16 DEF Tagged
  <2> QED BY <2>1, ElementOfSeq DEF In
<1>19. \A m \in ReferencesIn(q) : m.of = q /\ m.kind # "root" /\ m.cell <= Len(image[q].cells)
  <2> SUFFICES ASSUME NEW m \in ReferencesIn(q) PROVE m.of = q /\ m.kind # "root" /\ m.cell <= Len(image[q].cells)
    OBVIOUS
  <2>1. IsReference(m, q) /\ Len(image[q].cells) \in Nat
    BY <1>2, <1>4, PageReferences, ContentFacts
  <2> QED
    BY <2>1, ReferenceParts DEF IsReference
<1>20. ASSUME NEW p \in DOMAIN R1 \cup S1, NEW m, In(refs, m) PROVE ~Behind(m, by[p])
  <2>1. by[p] \in SeenFrom(V)
    BY <1>1, <1>10
  <2>2. by[p].kind = "root" \/ by[p].of \in V
    BY <1>8, <2>1, SeenIs
  <2>3. m.of = q /\ m.kind # "root"
    BY <1>18, <1>19, <1>20
  <2> QED
    BY <1>3, <2>2, <2>3 DEF Behind, SameThread
<1>21. \A n \in SeenFrom(V1) :
         (\E p \in DOMAIN R1 \cup S1 : by[p] = n) \/ (\E m : In(refs, m) /\ Behind(m, n))
  BY <1>7, <1>9, <1>10, <1>16, <1>19
<1>22. \A p \in DOMAIN R1 \cup S1 : Target(by[p]) = p
  BY <1>1, <1>10
<1>23. Books(R1, S1, P1, PageLinks(image[q], depth[q], tree[q]), by, depth, tree, refs)
  BY <1>1, <1>11, <1>12, <1>13, <1>14, <1>15, <1>17, <1>20, <1>21, <1>22 DEF Books, V1
<1> QED
  BY <1>23

-----------------------------------------------------------------------------
(* When nothing is left to follow, every page of a tree was visited at its *)
(* depth, and every reference is the one by which its page was met.        *)
LEMMA AllVisited ==
  ASSUME ImageFormed, NEW R, NEW S, NEW P, NEW L, NEW by, NEW depth, NEW tree, NEW ahead,
         Books(R, S, P, L, by, depth, tree, ahead), L = <<>>, S = {},
         NEW r \in RootPages, NEW d \in Nat, d <= MaxDepth + 1, NEW p \in Level(r)[d]
  PROVE  p \in VisitedIn(R) /\ depth[p] = d /\ tree[p] = r
<1> DEFINE V == VisitedIn(R)
           Here(e) == \A x \in Level(r)[e] : x \in V /\ depth[x] = e /\ tree[x] = r
           Bad == {e \in 0..d : ~Here(e)}
<1>1. /\ by \in [DOMAIN R \cup S -> SeenFrom(V)]
      /\ \A x \in DOMAIN R \cup S : Target(by[x]) = x
      /\ \A x \in V : Placed(x, by, depth, tree)
      /\ \A x \in V : Sound(x, depth, tree)
      /\ \A x \in DOMAIN R \ V : InChain(x, by)
      /\ Tagged(L, ahead, SeenFrom(V), depth, tree)
      /\ \A n \in SeenFrom(V) :
           (\E x \in DOMAIN R \cup S : by[x] = n) \/ (\E m : In(ahead, m) /\ Behind(m, n))
  BY DEF Books
<1>2. \A m : ~In(ahead, m)
  BY <1>1 DEF Tagged, In
<1>3. \A n \in SeenFrom(V) : Target(n) \in DOMAIN R /\ by[Target(n)] = n
  BY <1>1, <1>2
<1>4. /\ \A x \in V : TreePage(x) /\ depth[x] \in Nat
      /\ r \in Nat
  BY BooksInTrees
<1>5. \A n \in SeenFrom(V) : n.kind # "chain" =>
        Target(n) \in V /\ LinkOf(n, depth, tree) = TreeLink(Target(n), depth[Target(n)], tree[Target(n)])
  BY <1>1, <1>3 DEF InChain, Placed
<1>6. Bad = {}
  <2> SUFFICES ASSUME Bad # {} PROVE FALSE
    OBVIOUS
  <2> DEFINE k == Min(Bad)
  <2>1. k \in Bad /\ \A i \in Bad : k <= i
    <3>1. Bad \in SUBSET Nat
      OBVIOUS
    <3> HIDE DEF Bad
    <3> QED BY <3>1, MinOf
  <2>2. k \in 0..d /\ ~Here(k)
    BY <2>1
  <2> HIDE DEF k
  <2>3. CASE k = 0
    <3>1. Level(r)[0] = {r}
      BY <1>4, LevelFacts
    <3>2. PICK i \in 0..Len(roots) : r = IF i = 0 THEN 1 ELSE roots[i]
      <4>1. Len(roots) \in Nat /\ DOMAIN roots = 1..Len(roots)
        BY DEF ImageFormed
      <4>2. CASE r = 1
        <5>1. 0 \in 0..Len(roots)
          BY <4>1
        <5> QED BY <4>2, <5>1
      <4>3. CASE r # 1
        <5>1. PICK j \in 1..Len(roots) : r = roots[j]
          BY <4>1, <4>3 DEF RootPages
        <5>2. j \in 0..Len(roots) /\ j # 0
          BY <4>1
        <5> QED BY <5>1, <5>2
      <4> QED BY <4>2, <4>3
    <3> DEFINE n == Reference("root", i, 0, 0)
    <3>3. n \in SeenFrom(V) /\ n.kind = "root" /\ Target(n) = r
      <4>1. n \in SeenFrom(V)
        BY DEF SeenFrom, RootReferences
      <4>2. n.kind = "root" /\ n.of = i
        BY ReferenceParts
      <4> HIDE DEF n
      <4>3. Target(n) = IF i = 0 THEN 1 ELSE roots[i]
        BY <4>2 DEF Target
      <4> QED BY <3>2, <4>1, <4>2, <4>3
    <3> HIDE DEF n
    <3>4. r \in V /\ LinkOf(n, depth, tree) = TreeLink(r, depth[r], tree[r])
      BY <1>5, <3>3
    <3>5. LinkOf(n, depth, tree) = TreeLink(r, 0, r)
      BY <3>3, LinkFacts
    <3>6. depth[r] = 0 /\ tree[r] = r
      <4>1. TreeLink(r, depth[r], tree[r]) = TreeLink(r, 0, r)
        BY <3>4, <3>5
      <4> QED BY ONLY <4>1 DEF TreeLink
    <3> QED
      BY <2>2, <2>3, <3>1, <3>4, <3>6
  <2>4. CASE k # 0
    <3>1. k \in Nat /\ k - 1 \in 0..d /\ ~(k <= k - 1) /\ k \in 1..MaxDepth + 1 /\ k - 1 \in Nat /\ (k - 1) + 1 = k
      BY <2>2, <2>4, WalkAssumption
    <3>2. Here(k - 1)
      <4> HIDE DEF Here
      <4> QED BY <2>1, <3>1
    <3>3. Level(r)[k] = UNION {Children(x) : x \in InnerPages(Level(r)[k - 1])}
      BY <1>4, <3>1, LevelFacts
    <3>4. ASSUME NEW x \in Level(r)[k] PROVE x \in V /\ depth[x] = k /\ tree[x] = r
      <4>1. PICK q \in InnerPages(Level(r)[k - 1]) : x \in Children(q)
        BY <3>3
      <4>2. q \in V /\ depth[q] = k - 1 /\ tree[q] = r /\ image[q].inner
        BY <3>2 DEF InnerPages
      <4>3. TreePage(q) /\ DOMAIN image[q].cells = 1..Len(image[q].cells)
        BY <1>4, <4>2, ContentFacts DEF TreePage
      <4>4. PICK n \in ReferencesIn(q) : n.kind \in {"right", "left"} /\ n.of = q /\ Target(n) = x
        <5>1. CASE x = image[q].right
          <6> DEFINE n == Reference("right", q, 0, 0)
          <6>1. n \in ReferencesIn(q)
            BY <4>2, <4>3, PageReferences DEF IsReference
          <6>2. n.kind = "right" /\ n.of = q
            BY ReferenceParts
          <6> HIDE DEF n
          <6>3. Target(n) = x
            BY <5>1, <6>2 DEF Target
          <6> QED
            BY <6>1, <6>2, <6>3
        <5>2. CASE \E j \in 1..Len(image[q].cells) : x = image[q].cells[j].left
          <6>1. PICK j \in 1..Len(image[q].cells) : x = image[q].cells[j].left
            BY <5>2
          <6> DEFINE n == Reference("left", q, j, 0)
          <6>2. n \in ReferencesIn(q)
            BY <4>2, <4>3, PageReferences DEF IsReference
          <6>3. n.kind = "left" /\ n.of = q /\ n.cell = j
            BY ReferenceParts
          <6> HIDE DEF n
          <6>4. Target(n) = x
            BY <6>1, <6>3 DEF Target
          <6> QED
            BY <6>2, <6>3, <6>4
        <5> QED
          BY <4>1, <4>3, <5>1, <5>2 DEF Children
      <4>5. n \in SeenFrom(V)
        BY <4>2 DEF SeenFrom
      <4>6. x \in V /\ LinkOf(n, depth, tree) = TreeLink(x, depth[x], tree[x])
        BY <1>5, <4>4, <4>5
      <4>7. LinkOf(n, depth, tree) = TreeLink(x, depth[q] + 1, tree[q])
        BY <4>4, LinkFacts
      <4>8. depth[x] = depth[q] + 1 /\ tree[x] = tree[q]
        <5>1. TreeLink(x, depth[x], tree[x]) = TreeLink(x, depth[q] + 1, tree[q])
          BY <4>6, <4>7
        <5> QED BY ONLY <5>1 DEF TreeLink
      <4> QED
        BY <3>1, <4>2, <4>6, <4>8
    <3> QED
      BY <2>2, <3>4
  <2> QED
    BY <2>3, <2>4
<1>7. d \in 0..d
  OBVIOUS
<1>8. Here(d)
  <2> HIDE DEF Here
  <2> QED BY <1>6, <1>7
<1> QED
  BY <1>8

(* So the image is a forest exactly when all of its pages were met.        *)
LEMMA ForestMet ==
  ASSUME ImageFormed, NEW R, NEW S, NEW P, NEW L, NEW by, NEW depth, NEW tree, NEW ahead,
         Books(R, S, P, L, by, depth, tree, ahead), L = <<>>, S = {}, DOMAIN R \subseteq Pages
  PROVE  ForestOfThePages <=> DOMAIN R = Pages
<1> DEFINE V == VisitedIn(R)
<1>1. /\ by \in [DOMAIN R \cup S -> SeenFrom(V)]
      /\ \A x \in DOMAIN R \cup S : Target(by[x]) = x
      /\ \A x \in V : Placed(x, by, depth, tree)
      /\ \A x \in V : Sound(x, depth, tree)
      /\ \A x \in DOMAIN R \ V : InChain(x, by)
      /\ Tagged(L, ahead, SeenFrom(V), depth, tree)
      /\ \A n \in SeenFrom(V) :
           (\E x \in DOMAIN R \cup S : by[x] = n) \/ (\E m : In(ahead, m) /\ Behind(m, n))
  BY DEF Books
<1>2. \A m : ~In(ahead, m)
  BY <1>1 DEF Tagged, In
<1>3. \A n \in SeenFrom(V) : Target(n) \in DOMAIN R /\ by[Target(n)] = n
  BY <1>1, <1>2
<1>4. /\ \A x \in V : TreePage(x) /\ x \in AllTreePages /\ depth[x] \in Nat
      /\ SeenFrom(V) \subseteq References
  BY BooksInTrees
<1>5. MaxDepth \in Nat
  BY WalkAssumption
<1>6. \A r \in RootPages : Level(r)[MaxDepth + 1] = {}
  <2> SUFFICES ASSUME NEW r \in RootPages, NEW x \in Level(r)[MaxDepth + 1] PROVE FALSE
    OBVIOUS
  <2>1. x \in V /\ depth[x] = MaxDepth + 1
    BY <1>5, AllVisited
  <2>2. depth[x] <= MaxDepth
    BY <1>1, <2>1 DEF Sound
  <2> QED
    BY <1>5, <2>1, <2>2
<1>7. \A r \in RootPages : \A x \in TreePages(r) : x \in V /\ tree[x] = r
  <2> SUFFICES ASSUME NEW r \in RootPages, NEW x \in TreePages(r) PROVE x \in V /\ tree[x] = r
    OBVIOUS
  <2>1. PICK d \in 0..MaxDepth : x \in Level(r)[d]
    BY DEF TreePages
  <2>2. d \in Nat /\ d <= MaxDepth + 1
    BY <1>5
  <2> QED
    BY <2>1, <2>2, AllVisited
<1>8. AllTreePages = V
  BY <1>4, <1>7 DEF AllTreePages
<1>9. AllTreePages \subseteq Pages
  BY <1>4, <1>8 DEF TreePage
<1>10. \A r \in RootPages : \A x \in TreePages(r) : image[x].type = TypeFor(r)
  BY <1>1, <1>7 DEF Sound
<1>11. ASSUME NEW q \in AllTreePages, NEW i \in DOMAIN image[q].cells PROVE ExactChain(image[q].cells[i])
  <2> DEFINE cell == image[q].cells[i]
  <2>1. q \in V /\ TreePage(q)
    BY <1>4, <1>8
  <2>2. i \in 1..Len(image[q].cells) /\ cell.span \in Nat
    BY <2>1, ContentFacts DEF TreePage
  <2>3. ASSUME NEW k \in 1..cell.span
        PROVE  /\ OverflowPages(cell)[k] \in Pages
               /\ k = cell.span => NextOf(OverflowPages(cell)[k]) = 0
    <3> DEFINE n == Reference("chain", q, i, k)
    <3>1. n \in ReferencesIn(q)
      BY <2>1, <2>2, PageReferences DEF IsReference
    <3>2. n.kind = "chain" /\ n.of = q /\ n.cell = i /\ n.nth = k
      BY ReferenceParts
    <3> HIDE DEF n
    <3>3. n \in SeenFrom(V)
      BY <2>1, <3>1 DEF SeenFrom
    <3>4. Target(n) = OverflowPages(cell)[k]
      BY <3>2 DEF Target
    <3> DEFINE x == Target(n)
    <3>5. x \in DOMAIN R /\ by[x] = n
      BY <1>3, <3>3
    <3> HIDE DEF x
    <3>6. x \notin V
      BY <1>1, <3>2, <3>5 DEF Placed
    <3>7. NextOf(x) = 0 <=> k = cell.span
      BY <1>1, <3>2, <3>5, <3>6 DEF InChain
    <3> QED
      BY <3>4, <3>5, <3>7 DEF x
  <2>4. cell.span > 0 => cell.span \in 1..cell.span
    BY <2>2
  <2> QED
    BY <2>3, <2>4 DEF ExactChain
<1>12. References \subseteq SeenFrom(V)
  BY <1>8 DEF References, SeenFrom
<1>13. ASSUME NEW p \in Pages
       PROVE  (\E ref \in References : {n \in References : Target(n) = p} = {ref}) <=> p \in DOMAIN R
  <2>1. ASSUME p \in DOMAIN R PROVE \E ref \in References : {n \in References : Target(n) = p} = {ref}
    <3>1. by[p] \in References /\ Target(by[p]) = p
      BY <1>1, <1>4, <2>1
    <3>2. \A n \in References : Target(n) = p => n = by[p]
      BY <1>3, <1>12
    <3> QED
      BY <3>1, <3>2
  <2>2. ASSUME NEW ref \in References, {n \in References : Target(n) = p} = {ref} PROVE p \in DOMAIN R
    <3>1. Target(ref) = p
      BY <2>2
    <3> QED
      BY <1>3, <1>12, <3>1
  <2> QED
    BY <2>1, <2>2
<1>14. (\A p \in Pages : p \in DOMAIN R) <=> DOMAIN R = Pages
  OBVIOUS
<1> QED
  BY <1>6, <1>9, <1>10, <1>11, <1>13, <1>14 DEF ForestOfThePages

-----------------------------------------------------------------------------
(* The image and the roots never change, and what was said of them stays.  *)
LEMMA ImageStays ==
  ASSUME image' = image, roots' = roots
  PROVE  /\ ImageFormed' <=> ImageFormed
         /\ RootPages' = RootPages
         /\ \A p : (TreePage(p)' <=> TreePage(p)) /\ Children(p)' = Children(p) /\ NextOf(p)' = NextOf(p)
         /\ \A r : Level(r)' = Level(r)
         /\ \A c : OverflowPages(c)' = OverflowPages(c)
         /\ \A n : Target(n)' = Target(n)
         /\ \A V : SeenFrom(V)' = SeenFrom(V)
         /\ ForestOfThePages' <=> ForestOfThePages
<1>1. \A p : (TreePage(p)' <=> TreePage(p)) /\ Children(p)' = Children(p) /\ NextOf(p)' = NextOf(p)
  BY Zenon DEF TreePage, Children, NextOf
<1>2. ImageFormed' <=> ImageFormed
  BY Zenon DEF ImageFormed
<1>3. RootPages' = RootPages
  BY Zenon DEF RootPages
<1>4. \A r : Level(r)' = Level(r)
  <2> DEFINE LevelIn(pages, inside, r) ==
               LET level[d \in 0..MaxDepth + 1] ==
                     IF d = 0 THEN {r}
                     ELSE UNION {{pages[p].right} \cup {pages[p].cells[i].left : i \in DOMAIN pages[p].cells} :
                                 p \in {q \in level[d - 1] \cap inside : pages[q].type # "data" /\ pages[q].inner}}
               IN  level
  <2>1. \A r : Level(r) = LevelIn(image, Pages, r)
    BY Zenon DEF Level, Children
  <2>2. \A r : Level(r)' = LevelIn(image', Pages, r)
    BY Zenon DEF Level, Children, Pages
  <2> HIDE DEF LevelIn
  <2> QED BY <2>1, <2>2, Zenon
<1>5. \A c : OverflowPages(c)' = OverflowPages(c)
  BY <1>1, Zenon DEF OverflowPages
<1>6. \A n : Target(n)' = Target(n)
  BY <1>5, Zenon DEF Target
<1>7. RootReferences' = RootReferences /\ \A q : ReferencesIn(q)' = ReferencesIn(q)
  <2> DEFINE RootsOf(list) == {Reference("root", i, 0, 0) : i \in 0..Len(list)}
             LinksOf(c, q) ==
               (IF c.inner THEN {Reference("right", q, 0, 0)} \cup {Reference("left", q, i, 0) : i \in DOMAIN c.cells}
                           ELSE {})
                 \cup UNION {{Reference("chain", q, i, k) : k \in 1..c.cells[i].span} : i \in DOMAIN c.cells}
  <2>1. RootReferences = RootsOf(roots) /\ RootReferences' = RootsOf(roots')
    BY Zenon DEF RootReferences
  <2>2. \A q : ReferencesIn(q) = LinksOf(image[q], q) /\ ReferencesIn(q)' = LinksOf(image'[q], q)
    BY Zenon DEF ReferencesIn
  <2> HIDE DEF RootsOf, LinksOf
  <2>3. RootReferences' = RootReferences
    BY <2>1, Zenon
  <2>4. \A q : ReferencesIn(q)' = ReferencesIn(q)
    BY <2>2, Zenon
  <2> QED BY <2>3, <2>4
<1>8. \A V : SeenFrom(V)' = SeenFrom(V)
  BY <1>7, Zenon DEF SeenFrom
<1>9. \A r : TreePages(r)' = TreePages(r)
  BY <1>4, Zenon DEF TreePages
<1>10. AllTreePages' = AllTreePages
  BY <1>3, <1>9, Zenon DEF AllTreePages
<1>11. References' = References
  BY <1>7, <1>10, Zenon DEF References
<1>12. \A c : ExactChain(c)' <=> ExactChain(c)
  BY <1>1, <1>5, Zenon DEF ExactChain
<1>13. ForestOfThePages' <=> ForestOfThePages
  BY <1>3, <1>4, <1>6, <1>9, <1>10, <1>11, <1>12, Zenon DEF ForestOfThePages
<1> QED
  BY <1>1, <1>2, <1>3, <1>4, <1>5, <1>6, <1>8, <1>13

LEMMA BooksStay ==
  ASSUME image' = image, roots' = roots, NEW by, NEW depth, NEW tree, NEW ahead,
         Books(roles', scheduled', pending', links', by, depth, tree, ahead)
  PROVE  Books(roles, scheduled, pending, links, by, depth, tree, ahead)'
<1>1. /\ RootPages' = RootPages
      /\ \A p : (TreePage(p)' <=> TreePage(p)) /\ NextOf(p)' = NextOf(p)
      /\ \A r : Level(r)' = Level(r)
      /\ \A n : Target(n)' = Target(n)
      /\ \A V : SeenFrom(V)' = SeenFrom(V)
  BY ImageStays
<1>2. \A ref, d, t : LinkOf(ref, d, t)' = LinkOf(ref, d, t)
  BY <1>1, Zenon DEF LinkOf
<1>3. \A p, b, d, t : Placed(p, b, d, t)' <=> Placed(p, b, d, t)
  <2>1. RootPages' = RootPages /\ \A r : Level(r)' = Level(r)
    BY <1>1
  <2> QED BY ONLY <1>2, <2>1, ZenonT(40) DEF Placed
<1>4. \A p, d, t : Sound(p, d, t)' <=> Sound(p, d, t)
  BY <1>1, Zenon DEF Sound
<1>5. \A p, b : InChain(p, b)' <=> InChain(p, b)
  BY <1>1, Zenon DEF InChain
<1>6. \A l, r, s, d, t : Tagged(l, r, s, d, t)' <=> Tagged(l, r, s, d, t)
  BY <1>2 DEF Tagged
<1> QED
  BY <1>1, <1>3, <1>4, <1>5, <1>6, Zenon DEF Books, VisitedIn

(* The invariant of the walk.                                              *)
WalkInv ==
  /\ ImageFormed /\ WalkTypeOK /\ verdict # "idle" /\ StackInStep /\ VerdictExact
  /\ pending \in Seq(LinkSet)
  /\ verdict = "walking" =>
       \E by, depth, tree, ahead : Books(roles, scheduled, pending, links, by, depth, tree, ahead)

LEMMA WalkInvInit == WalkInit => WalkInv
<1> SUFFICES ASSUME WalkInit PROVE WalkInv
  OBVIOUS
<1>1. /\ image \in Images /\ roots \in RootLists /\ pending = <<>> /\ scheduled = {} /\ roles = <<>>
      /\ verdict = "walking"
      /\ links = [i \in 1..Len(roots) |-> TreeLink(roots[Len(roots) + 1 - i], 0, roots[Len(roots) + 1 - i])]
                   \o <<TreeLink(1, 0, 1)>>
  BY DEF WalkInit
<1>2. ImageFormed
  BY <1>1, WalkForm DEF ImageFormed, Pages, TreeContent, DataContent, CellSet
<1>3. DOMAIN roles = {} /\ VisitedIn(roles) = {}
  BY <1>1 DEF VisitedIn
<1>4. WalkTypeOK /\ StackInStep /\ VerdictExact /\ pending \in Seq(LinkSet)
  BY <1>1, <1>3 DEF WalkTypeOK, StackInStep, VerdictExact
<1> DEFINE n == Len(roots)
           by == [p \in {} |-> p]
           zero == [p \in Pages |-> 0]
           ref(i) == Reference("root", n + 1 - i, 0, 0)
           ahead == [i \in 1..n + 1 |-> ref(i)]
<1>5. n \in Nat /\ \A i \in 1..n : roots[i] \in Nat
  BY <1>2, ElementOfSeq DEF ImageFormed
<1>6. \A i \in 1..n + 1 :
        /\ ref(i) \in SeenFrom({}) /\ ref(i).kind = "root" /\ ref(i).of = n + 1 - i
        /\ ref(i).cell = 0 /\ ref(i).nth = 0
        /\ Target(ref(i)) = IF i = n + 1 THEN 1 ELSE roots[n + 1 - i]
  <2> SUFFICES ASSUME NEW i \in 1..n + 1
               PROVE  /\ ref(i) \in SeenFrom({}) /\ ref(i).kind = "root" /\ ref(i).of = n + 1 - i
                      /\ ref(i).cell = 0 /\ ref(i).nth = 0
                      /\ Target(ref(i)) = IF i = n + 1 THEN 1 ELSE roots[n + 1 - i]
    OBVIOUS
  <2>1. n + 1 - i \in 0..n /\ (n + 1 - i = 0 <=> i = n + 1)
    BY <1>5
  <2>2. ref(i) \in SeenFrom({})
    BY <2>1 DEF SeenFrom, RootReferences
  <2> DEFINE x == ref(i)
  <2>3. x.kind = "root" /\ x.of = n + 1 - i /\ x.cell = 0 /\ x.nth = 0
    BY ReferenceParts
  <2> HIDE DEF x
  <2>4. Target(x) = IF n + 1 - i = 0 THEN 1 ELSE roots[n + 1 - i]
    BY <2>3 DEF Target
  <2> QED
    BY <2>1, <2>2, <2>3, <2>4 DEF x
<1> HIDE DEF ref
<1>7. \A m : In(ahead, m) <=> \E i \in 1..n + 1 : m = ref(i)
  <2>1. Len(ahead) = n + 1 /\ \A i \in 1..n + 1 : ahead[i] = ref(i)
    BY <1>5
  <2> HIDE DEF ahead
  <2> QED BY <2>1, Zenon DEF In
<1>8. Tagged(links, ahead, SeenFrom({}), zero, zero)
  <2> DEFINE first == [i \in 1..n |-> TreeLink(roots[n + 1 - i], 0, roots[n + 1 - i])]
             last == TreeLink(1, 0, 1)
  <2>1. \A p \in Nat : TreeLink(p, 0, p) \in LinkSet
    BY DEF TreeLink, LinkSet
  <2>2. \A i \in 1..n : n + 1 - i \in 1..n
    BY <1>5
  <2>3. first \in Seq(LinkSet) /\ Len(first) = n /\ \A i \in 1..n : first[i] = TreeLink(roots[n + 1 - i], 0, roots[n + 1 - i])
    BY <1>5, <2>1, <2>2
  <2>4. last \in LinkSet
    BY <2>1
  <2>5. links = first \o <<last>>
    BY <1>1
  <2> HIDE DEF first, last, n
  <2>6. /\ links \in Seq(LinkSet) /\ Len(links) = n + 1 /\ links[n + 1] = last
        /\ \A i \in 1..n : links[i] = first[i]
    <3>1. <<last>> \in Seq(LinkSet) /\ Len(<<last>>) = 1 /\ <<last>>[1] = last
      BY <2>4
    <3>2. first \in Seq(LinkSet) /\ Len(first) = n
      BY <2>3
    <3>3. links \in Seq(LinkSet)
      BY <2>5, <3>1, <3>2, ConcatProperties
    <3>4. Len(links) = n + 1
      BY ONLY <2>5, <3>1, <3>2
    <3>5. \A i \in 1..n : links[i] = first[i]
      BY ONLY <1>5, <2>5, <3>1, <3>2
    <3>6. links[n + 1] = last
      BY ONLY <1>5, <2>5, <3>1, <3>2
    <3> QED BY <3>3, <3>4, <3>5, <3>6
  <2>7. ahead \in Seq(SeenFrom({})) /\ Len(ahead) = n + 1 /\ \A i \in 1..n + 1 : ahead[i] = ref(i)
    BY <1>5, <1>6
  <2>8. ASSUME NEW i \in 1..n + 1 PROVE links[i] = LinkOf(ref(i), zero, zero)
    <3>1. LinkOf(ref(i), zero, zero) = TreeLink(Target(ref(i)), 0, Target(ref(i)))
      BY <1>6, LinkFacts
    <3>2. CASE i = n + 1
      BY <1>6, <2>6, <3>1, <3>2 DEF last
    <3>3. CASE i # n + 1
      <4>1. i \in 1..n
        BY <1>5, <3>3
      <4> QED
        BY <1>6, <2>3, <2>6, <3>1, <3>3, <4>1
    <3> QED
      BY <3>2, <3>3
  <2>9. ASSUME NEW i \in 1..n + 1, NEW j \in 1..n + 1, i # j PROVE ~SameThread(ref(i), ref(j))
    <3>1. n + 1 - i # n + 1 - j
      BY <1>5, <2>9
    <3> QED
      BY <1>6, <3>1 DEF SameThread
  <2> HIDE DEF ahead
  <2> QED
    BY <2>6, <2>7, <2>8, <2>9 DEF Tagged
<1>9. ASSUME NEW m \in SeenFrom({}) PROVE \E k : In(ahead, k) /\ Behind(k, m)
  <2>1. PICK i \in 0..n : m = Reference("root", i, 0, 0)
    BY DEF SeenFrom, RootReferences
  <2>2. n + 1 - i \in 1..n + 1 /\ n + 1 - (n + 1 - i) = i
    BY <1>5
  <2>3. m = ref(n + 1 - i)
    BY <2>1, <2>2 DEF ref
  <2>4. In(ahead, m)
    BY <1>7, <2>2, <2>3
  <2>5. m.nth = 0
    BY <2>1, ReferenceParts
  <2>6. Behind(m, m)
    BY <2>5 DEF Behind, SameThread
  <2> QED
    BY <2>4, <2>6
<1> HIDE DEF ahead
<1>10. by \in [{} -> SeenFrom({})] /\ zero \in [Pages -> Nat]
  OBVIOUS
<1> HIDE DEF by, zero
<1>11. Len(pending) = 0
  BY <1>1
<1>12. Books(roles, scheduled, pending, links, by, zero, zero, ahead)
  <2>1. DOMAIN roles \cup scheduled = {} /\ VisitedIn(roles) \cup scheduled = {} /\ DOMAIN roles \ VisitedIn(roles) = {}
    BY <1>1, <1>3
  <2>2. \A i \in 1..Len(pending) : FALSE
    BY <1>11
  <2> QED
    BY <1>3, <1>8, <1>9, <1>10, <2>1, <2>2, Zenon DEF Books
<1> QED
  BY <1>1, <1>2, <1>4, <1>12 DEF WalkInv

(* What WalkTypeOK, StackInStep and VerdictExact say one step later.       *)
LEMMA PartsStay ==
  /\ WalkTypeOK' <=> /\ verdict' \in {"idle", "walking", "canonical", "refused"}
                     /\ DOMAIN roles' \subseteq Pages
                     /\ \A p \in DOMAIN roles' : roles'[p] \in {"btree", "overflow"}
                     /\ scheduled' \subseteq Pages
  /\ StackInStep' <=> /\ scheduled' \cap DOMAIN roles' = {}
                      /\ scheduled' = {pending'[i].page : i \in 1..Len(pending')}
                      /\ \A i, j \in 1..Len(pending') : pending'[i].page = pending'[j].page => i = j
  /\ VerdictExact' <=> /\ verdict' = "canonical" => ForestOfThePages'
                       /\ verdict' = "refused" => ~ForestOfThePages'
<1>1. WalkTypeOK' <=> /\ verdict' \in {"idle", "walking", "canonical", "refused"}
                      /\ DOMAIN roles' \subseteq Pages
                      /\ \A p \in DOMAIN roles' : roles'[p] \in {"btree", "overflow"}
                      /\ scheduled' \subseteq Pages
  BY Zenon DEF WalkTypeOK, Pages
<1>2. StackInStep' <=> /\ scheduled' \cap DOMAIN roles' = {}
                       /\ scheduled' = {pending'[i].page : i \in 1..Len(pending')}
                       /\ \A i, j \in 1..Len(pending') : pending'[i].page = pending'[j].page => i = j
  BY Zenon DEF StackInStep
<1>3. VerdictExact' <=> /\ verdict' = "canonical" => ForestOfThePages'
                        /\ verdict' = "refused" => ~ForestOfThePages'
  BY Zenon DEF VerdictExact
<1> QED
  BY <1>1, <1>2, <1>3

(* A step that goes on walking keeps the invariant if it keeps the books.  *)
LEMMA WalkOn ==
  ASSUME WalkInv, image' = image, roots' = roots, verdict' = "walking",
         DOMAIN roles' \subseteq Pages, \A p \in DOMAIN roles' : roles'[p] \in {"btree", "overflow"},
         scheduled' \subseteq Pages, scheduled' \cap DOMAIN roles' = {},
         pending' \in Seq(LinkSet), scheduled' = {pending'[i].page : i \in 1..Len(pending')},
         \A i, j \in 1..Len(pending') : pending'[i].page = pending'[j].page => i = j,
         NEW by, NEW depth, NEW tree, NEW ahead,
         Books(roles', scheduled', pending', links', by, depth, tree, ahead)
  PROVE  WalkInv'
<1>1. ImageFormed'
  BY ImageStays DEF WalkInv
<1>2. WalkTypeOK' /\ StackInStep' /\ VerdictExact'
  BY PartsStay
<1>3. Books(roles, scheduled, pending, links, by, depth, tree, ahead)'
  BY BooksStay
<1>4. (\E b, d, t, a : Books(roles, scheduled, pending, links, b, d, t, a))'
  BY <1>3
<1> QED
  BY <1>1, <1>2, <1>4, Zenon DEF WalkInv, LinkSet

(* A step that ends the walk, with the verdict the image deserves.         *)
LEMMA WalkOver ==
  ASSUME WalkInv, UNCHANGED <<image, roots, links, pending, scheduled, roles>>,
         \/ verdict' = "refused" /\ ~ForestOfThePages
         \/ verdict' = "canonical" /\ ForestOfThePages
  PROVE  WalkInv'
<1>1. ImageFormed'
  BY ImageStays DEF WalkInv
<1>2. ForestOfThePages' <=> ForestOfThePages
  BY ImageStays
<1>3. VerdictExact' /\ verdict' # "idle" /\ verdict' # "walking"
  BY <1>2, PartsStay
<1>4. WalkTypeOK'
  BY PartsStay DEF WalkInv, WalkTypeOK
<1>5. StackInStep'
  BY PartsStay DEF WalkInv, StackInStep
<1>6. pending' \in Seq(LinkSet)
  BY DEF WalkInv
<1> QED
  BY <1>1, <1>3, <1>4, <1>5, <1>6, Zenon DEF WalkInv, LinkSet

(* While a page is neither claimed nor scheduled, the count of those that  *)
(* are is below the count of the pages.                                    *)
LEMMA RoomLeft ==
  ASSUME NEW A \in SUBSET Pages, NEW B \in SUBSET Pages, A \cap B = {}
  PROVE  /\ IsFiniteSet(A) /\ Cardinality(A) \in Nat
         /\ \A p \in Pages : p \notin A \cup B => Cardinality(A) + Cardinality(B) < PageCount
         /\ Cardinality(A) = PageCount <=> A = Pages
<1>1. PageCount \in Nat /\ PageCount >= 1
  BY WalkAssumption
<1>2. IsFiniteSet(Pages) /\ Cardinality(Pages) = PageCount
  <2>1. IsFiniteSet(1..PageCount) /\ Cardinality(1..PageCount) = IF 1 > PageCount THEN 0 ELSE PageCount - 1 + 1
    BY <1>1, FS_Interval
  <2> QED
    BY <1>1, <2>1 DEF Pages
<1> HIDE DEF Pages
<1>3. /\ IsFiniteSet(A) /\ IsFiniteSet(B) /\ IsFiniteSet(A \cup B)
      /\ Cardinality(A \cup B) = Cardinality(A) + Cardinality(B)
  <2>1. IsFiniteSet(A) /\ IsFiniteSet(B)
    BY <1>2, FS_Subset
  <2>2. IsFiniteSet(A \cup B) /\ Cardinality(A \cup B) = Cardinality(A) + Cardinality(B) - Cardinality(A \cap B)
    BY <2>1, FS_Union
  <2>3. Cardinality(A \cap B) = 0
    BY FS_EmptySet
  <2>4. Cardinality(A) \in Nat /\ Cardinality(B) \in Nat
    BY <2>1, FS_CardinalityType
  <2> QED
    BY <2>1, <2>2, <2>3, <2>4
<1>4. Cardinality(A) \in Nat /\ Cardinality(B) \in Nat
  BY <1>3, FS_CardinalityType
<1>5. ASSUME NEW p \in Pages, p \notin A \cup B PROVE Cardinality(A) + Cardinality(B) < PageCount
  <2>1. A \cup B \in SUBSET Pages
    OBVIOUS
  <2>2. Cardinality(A \cup B) <= Cardinality(Pages)
        /\ (Cardinality(Pages) = Cardinality(A \cup B) => Pages = A \cup B)
    BY <1>2, <2>1, FS_Subset
  <2>3. Pages # A \cup B
    BY <1>5
  <2> QED
    BY <1>1, <1>2, <1>3, <1>4, <2>2, <2>3
<1>6. Cardinality(A) = PageCount <=> A = Pages
  BY <1>2, FS_Subset
<1> QED
  BY <1>3, <1>4, <1>5, <1>6

LEMMA ScheduleStep == WalkInv /\ Schedule => WalkInv'
<1> SUFFICES ASSUME WalkInv, Schedule PROVE WalkInv'
  OBVIOUS
<1> DEFINE top == Head(links)
           target == top.page
<1>1. verdict = "walking" /\ links # <<>> /\ top.kind = "btree"
  BY DEF Schedule
<1>2. /\ ImageFormed /\ pending \in Seq(LinkSet)
      /\ DOMAIN roles \subseteq Pages /\ (\A p \in DOMAIN roles : roles[p] \in {"btree", "overflow"})
      /\ scheduled \subseteq Pages /\ scheduled \cap DOMAIN roles = {}
      /\ scheduled = {pending[i].page : i \in 1..Len(pending)}
      /\ \A i, j \in 1..Len(pending) : pending[i].page = pending[j].page => i = j
  BY DEF WalkInv, WalkTypeOK, StackInStep
<1>3. PICK by, depth, tree, ahead : Books(roles, scheduled, pending, links, by, depth, tree, ahead)
  BY <1>1 DEF WalkInv
<1> DEFINE V == VisitedIn(roles)
           ref == ahead[1]
<1>4. Tagged(links, ahead, SeenFrom(V), depth, tree)
  BY <1>3 DEF Books
<1>5. top \in LinkSet
  BY <1>1, <1>4, HeadTailProperties DEF Tagged
<1>6. ref \in SeenFrom(V) /\ top = LinkOf(ref, depth, tree) /\ In(ahead, ref)
  BY <1>1, <1>4, TaggedTail
<1>7. \A q \in V : TreePage(q)
  BY <1>2, <1>3, BooksInTrees
<1>8. ref.kind # "chain" /\ target = Target(ref)
  <2>1. ref.kind \in {"root", "right", "left", "chain"}
    BY <1>2, <1>6, <1>7, SeenIs
  <2> QED
    BY <1>1, <1>6, <2>1, LinkFacts
<1>9. target \in Nat
  BY <1>1, <1>5 DEF LinkSet
<1>10. CASE Schedulable(target)
  <2>1. /\ scheduled' = scheduled \cup {target} /\ pending' = Append(pending, top) /\ links' = Tail(links)
        /\ UNCHANGED <<image, roots, roles, verdict>>
    BY <1>10 DEF Schedule
  <2>2. target \in Pages /\ target \notin DOMAIN roles \cup scheduled
    BY <1>10 DEF Schedulable, Referenced
  <2>3. \A i \in 1..Len(pending) : pending[i].page \in scheduled
    BY <1>2
  <2>4. DOMAIN roles \cup scheduled \subseteq Pages
    BY <1>2
  <2>5. PICK by1, depth1, tree1, ahead1 :
          Books(roles, scheduled \cup {target}, Append(pending, top), Tail(links), by1, depth1, tree1, ahead1)
    BY <1>1, <1>2, <1>3, <2>2, <2>3, <2>4, ScheduleBooks
  <2>6. Books(roles', scheduled', pending', links', by1, depth1, tree1, ahead1)
    BY <2>1, <2>5
  <2> DEFINE n == Len(pending)
  <2>7. n \in Nat /\ pending' \in Seq(LinkSet) /\ Len(pending') = n + 1
        /\ pending'[n + 1] = top /\ \A i \in 1..n : pending'[i] = pending[i]
    BY <1>2, <1>5, <2>1
  <2> HIDE DEF n, top
  <2>8. scheduled' = {pending'[i].page : i \in 1..Len(pending')}
    <3>1. \A i \in 1..n + 1 : i \in 1..n \/ i = n + 1
      BY <2>7
    <3>2. \A p : p \in scheduled <=> \E i \in 1..n : p = pending[i].page
      BY <1>2 DEF n
    <3>3. \A p : p \in scheduled' <=> \E i \in 1..n + 1 : p = pending'[i].page
      <4>1. 1..n \subseteq 1..n + 1 /\ n + 1 \in 1..n + 1
        BY <2>7
      <4> QED BY <2>1, <2>7, <3>1, <3>2, <4>1
    <3> QED
      BY <2>7, <3>3
  <2>9. \A i, j \in 1..Len(pending') : pending'[i].page = pending'[j].page => i = j
    <3> SUFFICES ASSUME NEW i \in 1..n + 1, NEW j \in 1..n + 1, pending'[i].page = pending'[j].page PROVE i = j
      BY <2>7
    <3>1. \A k \in 1..n + 1 : k = n + 1 \/ k \in 1..n
      BY <2>7
    <3>2. \A k \in 1..n : pending'[k].page \in scheduled /\ pending'[k] = pending[k]
      BY <2>3, <2>7 DEF n
    <3>3. pending'[n + 1].page \notin scheduled
      BY <2>2, <2>7
    <3> QED
      BY <1>2, <3>1, <3>2, <3>3 DEF n
  <2>10. scheduled' \subseteq Pages /\ scheduled' \cap DOMAIN roles' = {} /\ roles' = roles /\ verdict' = "walking"
    BY <1>1, <1>2, <2>1, <2>2
  <2> QED
    BY <1>2, <2>1, <2>6, <2>7, <2>8, <2>9, <2>10, WalkOn
<1>11. CASE ~Schedulable(target)
  <2>1. RefuseImage
    BY <1>11 DEF Schedule
  <2>2. target \notin Pages \/ target \in DOMAIN roles \cup scheduled
    <3> SUFFICES ASSUME target \in Pages, target \notin DOMAIN roles \cup scheduled PROVE FALSE
      OBVIOUS
    <3>1. Cardinality(DOMAIN roles) + Cardinality(scheduled) < PageCount
      BY <1>2, RoomLeft
    <3> QED
      BY <1>11, <3>1 DEF Schedulable, Referenced
  <2>3. CASE target \notin Pages
    <3>1. PICK d \in Nat, r \in RootPages : d <= MaxDepth + 1 /\ target \in Level(r)[d]
      BY <1>2, <1>3, <1>6, <1>8, ReferencePlaced
    <3>2. ~ForestOfThePages
      BY <2>3, <3>1, OutsideOrTooDeep
    <3> QED
      BY <2>1, <3>2, WalkOver DEF RefuseImage
  <2>4. CASE target \in DOMAIN roles \cup scheduled
    <3>1. DOMAIN roles \cup scheduled \subseteq Pages
      BY <1>2
    <3>2. ~ForestOfThePages
      BY <1>2, <1>3, <1>6, <1>8, <2>4, <3>1, MetBefore
    <3> QED
      BY <2>1, <3>2, WalkOver DEF RefuseImage
  <2> QED
    BY <2>2, <2>3, <2>4
<1> QED
  BY <1>10, <1>11

LEMMA FollowStep == WalkInv /\ Follow => WalkInv'
<1> SUFFICES ASSUME WalkInv, Follow PROVE WalkInv'
  OBVIOUS
<1> DEFINE link == Head(links)
           target == link.page
<1>1. verdict = "walking" /\ links # <<>> /\ link.kind = "overflow"
  BY DEF Follow
<1>2. /\ ImageFormed /\ pending \in Seq(LinkSet)
      /\ DOMAIN roles \subseteq Pages /\ (\A p \in DOMAIN roles : roles[p] \in {"btree", "overflow"})
      /\ scheduled \subseteq Pages /\ scheduled \cap DOMAIN roles = {}
      /\ scheduled = {pending[i].page : i \in 1..Len(pending)}
      /\ \A i, j \in 1..Len(pending) : pending[i].page = pending[j].page => i = j
  BY DEF WalkInv, WalkTypeOK, StackInStep
<1>3. PICK by, depth, tree, ahead : Books(roles, scheduled, pending, links, by, depth, tree, ahead)
  BY <1>1 DEF WalkInv
<1> DEFINE V == VisitedIn(roles)
           ref == ahead[1]
           cell == image[ref.of].cells[ref.cell]
<1>4. Tagged(links, ahead, SeenFrom(V), depth, tree)
  BY <1>3 DEF Books
<1>5. ref \in SeenFrom(V) /\ link = LinkOf(ref, depth, tree) /\ In(ahead, ref)
  BY <1>1, <1>4, TaggedTail
<1>6. \A q \in V : TreePage(q) /\ q \in AllTreePages
  BY <1>2, <1>3, BooksInTrees
<1>7. ref.kind = "chain" /\ target = Target(ref)
  <2>1. ref.kind \in {"root", "right", "left", "chain"}
    BY <1>2, <1>5, <1>6, SeenIs
  <2> QED
    BY <1>1, <1>5, <2>1, LinkFacts
<1>8. DOMAIN roles \cup scheduled \subseteq Pages
  BY <1>2
<1>11. ImageFormed
  BY <1>2
<1>9. CASE Followable(link)
  <2>1. /\ Claimed(target, "overflow")
        /\ links' = IF link.span > 1 THEN <<ChainLink(NextOf(target), link.span - 1)>> \o Tail(links) ELSE Tail(links)
        /\ UNCHANGED <<image, roots, pending, scheduled, verdict>>
    BY <1>9 DEF Follow
  <2>2. target \in Pages /\ target \notin DOMAIN roles \cup scheduled /\ (link.span > 1) = (NextOf(target) # 0)
    BY <1>9 DEF Followable, Referenced
  <2>3. DOMAIN roles' = DOMAIN roles \cup {target}
        /\ \A p \in DOMAIN roles' : roles'[p] = IF p = target THEN "overflow" ELSE roles[p]
    BY <2>1 DEF Claimed
  <2>8. Claims(roles, roles', target, "overflow")
    BY <2>3 DEF Claims
  <2>4. PICK by1, ahead1 :
          Books(roles', scheduled, pending,
                IF link.span > 1 THEN <<ChainLink(NextOf(target), link.span - 1)>> \o Tail(links) ELSE Tail(links),
                by1, depth, tree, ahead1)
    <3>1. /\ target = Head(links).page /\ Head(links).kind = "overflow" /\ links # <<>>
          /\ (Head(links).span > 1) = (NextOf(target) # 0) /\ target \in Pages /\ target \notin DOMAIN roles \cup scheduled
      BY <1>1, <2>2
    <3> HIDE DEF target
    <3>2. \E by1, ahead1 :
            Books(roles', scheduled, pending,
                  IF Head(links).span > 1 THEN <<ChainLink(NextOf(target), Head(links).span - 1)>> \o Tail(links)
                                          ELSE Tail(links), by1, depth, tree, ahead1)
      BY ONLY <1>11, <1>3, <1>8, <2>8, <3>1, FollowBooks
    <3> QED BY <3>2
  <2>5. Books(roles', scheduled', pending', links', by1, depth, tree, ahead1)
    BY <2>1, <2>4
  <2>6. DOMAIN roles' \subseteq Pages /\ \A p \in DOMAIN roles' : roles'[p] \in {"btree", "overflow"}
    BY <1>2, <2>2, <2>3
  <2>7. scheduled' \cap DOMAIN roles' = {}
    BY <1>2, <2>1, <2>2, <2>3
  <2> HIDE DEF target, link
  <2> QED
    BY <1>1, <1>2, <2>1, <2>5, <2>6, <2>7, WalkOn
<1>10. CASE ~Followable(link)
  <2>1. RefuseImage
    BY <1>10 DEF Follow
  <2>2. CASE target \in DOMAIN roles \cup scheduled
    <3>1. ~ForestOfThePages
      BY <1>2, <1>3, <1>5, <1>7, <1>8, <2>2, MetBefore
    <3> QED
      BY <2>1, <3>1, WalkOver DEF RefuseImage
  <2>3. CASE target \notin DOMAIN roles \cup scheduled
    <3>1. target \notin Pages \/ (link.span > 1) # (NextOf(target) # 0)
      BY <1>10, <2>3 DEF Followable, Referenced
    <3>2. /\ ref.of \in V /\ ref.cell \in 1..Len(image[ref.of].cells) /\ cell \in CellSet /\ cell.span \in Nat
          /\ ref.nth \in 1..cell.span /\ target = OverflowPages(cell)[ref.nth]
          /\ link = ChainLink(target, cell.span - ref.nth + 1)
          /\ ref.nth < cell.span /\ target \in Pages =>
               Target(Reference("chain", ref.of, ref.cell, ref.nth + 1)) = NextOf(target)
        <4>1. \A x \in V : TreePage(x)
          BY <1>6
        <4> HIDE DEF V, ref, target, link
        <4> QED BY ONLY <1>5, <1>7, <1>11, <4>1, ChainPage
    <3>3. link.span = cell.span - ref.nth + 1
      BY <3>2, LinkParts
    <3>4. ref.cell \in DOMAIN image[ref.of].cells /\ ref.of \in AllTreePages
      BY <1>2, <1>6, <3>2, ContentFacts DEF TreePage
    <3> DEFINE pages == OverflowPages(cell)
    <3>5. ~ExactChain(cell)
      <4> SUFFICES ASSUME ExactChain(cell) PROVE FALSE
        OBVIOUS
      <4>1. cell.span \in Nat /\ ref.nth \in 1..cell.span /\ cell.span > 0 /\ cell.span \in 1..cell.span
        <5>1. cell.span \in Nat /\ ref.nth \in 1..cell.span
          BY <3>2
        <5> HIDE DEF cell, ref
        <5> QED BY <5>1
      <4> HIDE DEF target, cell, ref, link
      <4>6. target = pages[ref.nth] /\ link.span = cell.span - ref.nth + 1
        BY <3>2, <3>3
      <4> HIDE DEF pages
      <4>2. (\A k \in 1..cell.span : pages[k] \in Pages) /\ NextOf(pages[cell.span]) = 0
        BY <4>1 DEF ExactChain, pages
      <4>3. target \in Pages
        BY <4>1, <4>2, <4>6
      <4>4. CASE ref.nth = cell.span
        <5>1. ~(link.span > 1)
          BY <3>3, <4>1, <4>4
        <5> QED
          BY <3>1, <4>2, <4>3, <4>4, <4>6, <5>1
      <4>5. CASE ref.nth # cell.span
        <5>1. ref.nth + 1 \in 1..cell.span /\ ref.nth + 1 <= cell.span /\ link.span > 1
          BY <3>3, <4>1, <4>5
        <5>2. pages[ref.nth + 1] = NextOf(target)
          BY <1>2, <3>2, <4>3, <4>6, <5>1, ChainFacts DEF pages
        <5>3. NextOf(target) \in Pages
          BY <4>2, <5>1, <5>2
        <5>4. 0 \notin Pages
          BY DEF Pages
        <5> QED
          BY <3>1, <4>3, <5>1, <5>3, <5>4
      <4> QED
        BY <4>4, <4>5
    <3>6. ~ForestOfThePages
      BY <3>4, <3>5 DEF ForestOfThePages
    <3> QED
      BY <2>1, <3>6, WalkOver DEF RefuseImage
  <2> QED
    BY <2>2, <2>3
<1> QED
  BY <1>9, <1>10

LEMMA VisitStep == WalkInv /\ Visit => WalkInv'
<1> SUFFICES ASSUME WalkInv, Visit PROVE WalkInv'
  OBVIOUS
<1> DEFINE n == Len(pending)
           top == pending[n]
           q == top.page
<1>1. verdict = "walking" /\ links = <<>> /\ pending # <<>>
  BY DEF Visit
<1>2. /\ ImageFormed /\ pending \in Seq(LinkSet)
      /\ DOMAIN roles \subseteq Pages /\ (\A p \in DOMAIN roles : roles[p] \in {"btree", "overflow"})
      /\ scheduled \subseteq Pages /\ scheduled \cap DOMAIN roles = {}
      /\ scheduled = {pending[i].page : i \in 1..n}
      /\ \A i, j \in 1..n : pending[i].page = pending[j].page => i = j
  BY DEF WalkInv, WalkTypeOK, StackInStep
<1>3. PICK by, depth, tree, ahead : Books(roles, scheduled, pending, links, by, depth, tree, ahead)
  BY <1>1 DEF WalkInv
<1>4. n \in Nat /\ n >= 1 /\ n \in 1..n /\ n - 1 \in Nat
  BY <1>1, <1>2
<1>5. q \in scheduled /\ q \in Pages /\ q \notin DOMAIN roles
  BY <1>2, <1>4
<1>6. top = TreeLink(q, depth[q], tree[q])
  BY <1>3, <1>4 DEF Books
<1>7. top.depth = depth[q] /\ top.owner = tree[q]
  BY <1>6, LinkParts
<1>8. DOMAIN roles \cup scheduled \subseteq Pages /\ DOMAIN roles \cap scheduled = {}
  BY <1>2
<1>9. CASE top.depth <= MaxDepth /\ image[q].type = TypeFor(top.owner)
  <2>1. /\ pending' = Popped /\ scheduled' = scheduled \ {q} /\ Claimed(q, "btree")
        /\ links' = PageLinks(image[q], depth[q], tree[q])
        /\ UNCHANGED <<image, roots, verdict>>
    BY <1>7, <1>9 DEF Visit, Unmarked
  <2>2. DOMAIN roles' = DOMAIN roles \cup {q}
        /\ \A p \in DOMAIN roles' : roles'[p] = IF p = q THEN "btree" ELSE roles[p]
    BY <2>1 DEF Claimed
  <2>3. \A i \in 1..n - 1 : i \in 1..n
    BY <1>4
  <2>4. pending' \in Seq(LinkSet) /\ Len(pending') = n - 1 /\ \A i \in 1..n - 1 : pending'[i] = pending[i]
    <3>1. \A i \in 1..n - 1 : pending[i] \in LinkSet
      BY <1>2, <2>3, ElementOfSeq
    <3> HIDE DEF n
    <3>2. /\ SubSeq(pending, 1, n - 1) \in Seq(LinkSet)
          /\ Len(SubSeq(pending, 1, n - 1)) = IF 1 <= n - 1 THEN n - 1 - 1 + 1 ELSE 0
          /\ \A i \in 1..n - 1 - 1 + 1 : SubSeq(pending, 1, n - 1)[i] = pending[1 + i - 1]
      BY <1>4, <3>1, SubSeqProperties
    <3>3. pending' = SubSeq(pending, 1, n - 1)
      BY <2>1 DEF Popped, n
    <3> QED
      BY <1>4, <3>2, <3>3
  <2> HIDE DEF n
  <2>5. \A i \in 1..Len(pending') : i \in 1..Len(pending) /\ pending'[i] = pending[i]
    BY <2>3, <2>4 DEF n
  <2>6. depth[q] <= MaxDepth /\ image[q].type = TypeFor(tree[q])
    BY <1>7, <1>9
  <2>13. Claims(roles, roles', q, "btree") /\ Shortened(pending, pending')
    BY <2>2, <2>5 DEF Claims, Shortened
  <2>7. PICK ahead1 : Books(roles', scheduled \ {q}, pending', PageLinks(image[q], depth[q], tree[q]),
                            by, depth, tree, ahead1)
    <3> HIDE DEF q, top
    <3>1. ImageFormed
      BY <1>2
    <3> QED BY ONLY <1>1, <1>3, <1>5, <1>8, <2>6, <2>13, <3>1, VisitBooks
  <2>8. Books(roles', scheduled', pending', links', by, depth, tree, ahead1)
    BY <2>1, <2>7
  <2>9. DOMAIN roles' \subseteq Pages /\ \A p \in DOMAIN roles' : roles'[p] \in {"btree", "overflow"}
    BY <1>2, <1>5, <2>2
  <2>10. scheduled' \subseteq Pages /\ scheduled' \cap DOMAIN roles' = {}
    BY <1>2, <2>1, <2>2
  <2>11. \A i, j \in 1..Len(pending') : pending'[i].page = pending'[j].page => i = j
    BY <1>2, <2>3, <2>4
  <2>12. scheduled' = {pending'[i].page : i \in 1..Len(pending')}
    <3>1. \A i \in 1..n : i = n \/ i \in 1..n - 1
      BY <1>4
    <3>2. \A i \in 1..n - 1 : pending[i].page # q
      <4>1. \A i \in 1..n - 1 : i # n
        BY <1>4
      <4> QED BY <1>2, <1>4, <2>3, <4>1
    <3>3. \A p : p \in scheduled' <=> \E i \in 1..n - 1 : p = pending'[i].page
      BY <1>2, <2>1, <2>3, <2>4, <3>1, <3>2
    <3> QED
      BY <2>4, <3>3
  <2> HIDE DEF q, top
  <2> QED
    BY <1>1, <2>1, <2>4, <2>8, <2>9, <2>10, <2>11, <2>12, WalkOn
<1>10. CASE ~(top.depth <= MaxDepth /\ image[q].type = TypeFor(top.owner))
  <2>1. RefuseImage
    BY <1>10 DEF Visit
  <2>2. depth[q] \in Nat /\ depth[q] <= MaxDepth + 1 /\ tree[q] \in RootPages /\ q \in Level(tree[q])[depth[q]]
    BY <1>3, <1>5 DEF Books, Placed
  <2>3. depth[q] > MaxDepth \/ image[q].type # TypeFor(tree[q])
    BY <1>7, <1>10, <2>2, WalkAssumption
  <2>4. ~ForestOfThePages
    BY <2>2, <2>3, OutsideOrTooDeep
  <2> QED
    BY <2>1, <2>4, WalkOver DEF RefuseImage
<1> QED
  BY <1>9, <1>10

LEMMA ConcludeStep == WalkInv /\ Conclude => WalkInv'
<1> SUFFICES ASSUME WalkInv, Conclude PROVE WalkInv'
  OBVIOUS
<1>1. verdict = "walking" /\ links = <<>> /\ pending = <<>>
  BY DEF Conclude
<1>2. ImageFormed /\ DOMAIN roles \subseteq Pages /\ scheduled = {pending[i].page : i \in 1..Len(pending)}
  BY DEF WalkInv, WalkTypeOK, StackInStep
<1>3. scheduled = {}
  BY <1>1, <1>2
<1>4. PICK by, depth, tree, ahead : Books(roles, scheduled, pending, links, by, depth, tree, ahead)
  BY <1>1 DEF WalkInv
<1>5. ForestOfThePages <=> DOMAIN roles = Pages
  BY <1>1, <1>2, <1>3, <1>4, ForestMet
<1>6. Cardinality(DOMAIN roles) = PageCount <=> DOMAIN roles = Pages
  <2>1. DOMAIN roles \in SUBSET Pages /\ {} \in SUBSET Pages /\ DOMAIN roles \cap {} = {}
    BY <1>2
  <2> QED
    BY <2>1, RoomLeft
<1>7. CASE Cardinality(DOMAIN roles) = PageCount
  <2>1. verdict' = "canonical" /\ UNCHANGED <<image, roots, links, pending, scheduled, roles>>
    BY <1>7 DEF Conclude
  <2> QED
    BY <1>5, <1>6, <1>7, <2>1, WalkOver
<1>8. CASE Cardinality(DOMAIN roles) # PageCount
  <2>1. RefuseImage
    BY <1>8 DEF Conclude
  <2> QED
    BY <1>5, <1>6, <1>8, <2>1, WalkOver DEF RefuseImage
<1> QED
  BY <1>7, <1>8

(* Nothing else happens while the walk stands still.                       *)
LEMMA WalkStands == WalkInv /\ UNCHANGED walk_vars => WalkInv'
<1> SUFFICES ASSUME WalkInv, UNCHANGED walk_vars PROVE WalkInv'
  OBVIOUS
<1>1. /\ image' = image /\ roots' = roots /\ links' = links /\ pending' = pending
      /\ scheduled' = scheduled /\ roles' = roles /\ verdict' = verdict
  BY DEF walk_vars
<1>2. CASE verdict = "walking"
  <2>1. PICK by, depth, tree, ahead : Books(roles, scheduled, pending, links, by, depth, tree, ahead)
    BY <1>2 DEF WalkInv
  <2>2. Books(roles', scheduled', pending', links', by, depth, tree, ahead)
    BY <1>1, <2>1
  <2> QED
    BY <1>1, <1>2, <2>2, WalkOn DEF WalkInv, WalkTypeOK, StackInStep
<1>3. CASE verdict # "walking"
  <2>1. verdict \in {"canonical", "refused"}
    BY <1>3 DEF WalkInv, WalkTypeOK
  <2>2. \/ verdict' = "refused" /\ ~ForestOfThePages
        \/ verdict' = "canonical" /\ ForestOfThePages
    BY <1>1, <2>1 DEF WalkInv, VerdictExact
  <2> QED
    BY <1>1, <2>2, WalkOver
<1> QED
  BY <1>2, <1>3

(* For every image, however large, and every list of roots: the stack and  *)
(* the marks of the walk agree at every step, and it accepts exactly the   *)
(* images whose B-tree pages make one forest of all the pages, with exact  *)
(* overflow chains (hub_sync.py:683-774, 898-904).                         *)
THEOREM WalkAlwaysExact == WalkSpec => []WalkExact
<1>1. WalkInit => WalkInv
  BY WalkInvInit
<1>2. WalkInv /\ [WalkNext]_walk_vars => WalkInv'
  BY ScheduleStep, FollowStep, VisitStep, ConcludeStep, WalkStands DEF WalkNext
<1>3. WalkInv => WalkExact
  BY DEF WalkInv, WalkExact
<1> QED
  BY <1>1, <1>2, <1>3, PTL DEF WalkSpec

-----------------------------------------------------------------------------
(* A set with 0 that holds the successor of each of its numbers below n    *)
(* holds every number up to n.                                             *)
LEMMA CountUp ==
  ASSUME NEW n \in Nat, NEW S, 0 \in S, \A i \in 0..n - 1 : i \in S => i + 1 \in S
  PROVE  \A i \in 0..n : i \in S
<1> DEFINE Bad == {i \in 0..n : i \notin S}
<1>1. SUFFICES ASSUME Bad # {} PROVE FALSE
  OBVIOUS
<1> DEFINE k == Min(Bad)
<1>2. k \in Bad /\ \A i \in Bad : k <= i
  <2>1. Bad \in SUBSET Nat
    OBVIOUS
  <2> HIDE DEF Bad
  <2> QED BY <1>1, <2>1, MinOf
<1> HIDE DEF k
<1>3. k \in 0..n /\ k \notin S /\ k # 0
  BY <1>2
<1>4. k - 1 \in 0..n - 1 /\ k - 1 \in 0..n /\ ~(k <= k - 1) /\ (k - 1) + 1 = k
  BY <1>3
<1>5. k - 1 \in S
  BY <1>2, <1>4
<1> QED
  BY <1>3, <1>4, <1>5

(* Two recursions that start alike and go on alike agree.                  *)
Alike(f, g, n) == f[0] = g[0] /\ \A i \in 1..n : f[i - 1] = g[i - 1] => f[i] = g[i]

LEMMA Agree ==
  ASSUME NEW n \in Nat, NEW f, NEW g, Alike(f, g, n)
  PROVE  \A i \in 0..n : f[i] = g[i]
<1> DEFINE S == {i \in 0..n : f[i] = g[i]}
<1>1. 0 \in S
  BY DEF Alike
<1>2. ASSUME NEW i \in 0..n - 1, i \in S PROVE i + 1 \in S
  <2>1. i + 1 \in 1..n /\ i + 1 \in 0..n /\ (i + 1) - 1 = i
    OBVIOUS
  <2> QED BY <1>2, <2>1 DEF Alike
<1>3. \A i \in 0..n : i \in S
  <2> HIDE DEF S
  <2> QED BY <1>1, <1>2, CountUp
<1> QED
  BY <1>3

-----------------------------------------------------------------------------
(* Powers.                                                                 *)
IsPower(f, b, n) == f = [i \in 0..n |-> IF i = 0 THEN 1 ELSE b * f[i - 1]]
Positive == Nat \ {0}

LEMMA PowerRuns ==
  ASSUME NEW b \in Positive, NEW n \in Nat
  PROVE  \E f \in [0..n -> Positive] :
           f[0] = 1 /\ (\A i \in 1..n : f[i] = b * f[i - 1]) /\ Power(b, n) = f[n]
<1> DEFINE step == [x \in (1..n) \X Positive |-> b * x[2]]
<1>1. step \in [(1..n) \X Positive -> Positive]
  <2>1. \A x \in (1..n) \X Positive : b * x[2] \in Positive
    BY DEF Positive
  <2> QED BY <2>1
<1>2. \A i \in 1..n, y \in Positive : step[<<i, y>>] = b * y
  OBVIOUS
<1> HIDE DEF step
<1>3. Recursion(Positive, 1, n, step)
  BY <1>1, RecursionExists, 1 \in Positive DEF Positive
<1>4. PICK f \in [0..n -> Positive] : f[0] = 1 /\ \A i \in 1..n : f[i] = step[<<i, f[i - 1]>>]
  BY <1>3 DEF Recursion
<1>5. \A i \in 1..n : f[i] = b * f[i - 1]
  <2> SUFFICES ASSUME NEW i \in 1..n PROVE f[i] = b * f[i - 1]
    OBVIOUS
  <2>1. i - 1 \in 0..n
    OBVIOUS
  <2> QED BY <1>2, <1>4, <2>1
<1>6. IsPower(f, b, n)
  <2>1. \A i \in 0..n : f[i] = IF i = 0 THEN 1 ELSE b * f[i - 1]
    <3>1. \A i \in 0..n : i # 0 => i \in 1..n
      OBVIOUS
    <3> QED BY <1>4, <1>5, <3>1
  <2> DEFINE e == [i \in 0..n |-> IF i = 0 THEN 1 ELSE b * f[i - 1]]
  <2>2. DOMAIN f = 0..n /\ f = [i \in DOMAIN f |-> f[i]]
    BY <1>4
  <2>3. f = e
    BY <2>1, <2>2, Zenon
  <2> QED BY <2>3 DEF IsPower
<1> DEFINE p == CHOOSE g : IsPower(g, b, n)
<1>7. IsPower(p, b, n)
  BY <1>6
<1>8. Power(b, n) = p[n]
  BY DEF Power, IsPower
<1> HIDE DEF p
<1>9. p[0] = 1 /\ \A i \in 1..n : p[i] = b * p[i - 1]
  <2>1. \A i \in 0..n : p[i] = IF i = 0 THEN 1 ELSE b * p[i - 1]
    BY <1>7 DEF IsPower
  <2>2. 0 \in 0..n /\ \A i \in 1..n : i \in 0..n /\ i # 0
    OBVIOUS
  <2> QED BY <2>1, <2>2
<1>10. \A i \in 0..n : f[i] = p[i]
  <2>1. Alike(f, p, n)
    BY <1>4, <1>5, <1>9 DEF Alike
  <2> QED BY ONLY <2>1, n \in Nat, Agree
<1> QED
  BY <1>4, <1>5, <1>8, <1>10

LEMMA PowerFacts ==
  ASSUME NEW b \in Positive
  PROVE  /\ Power(b, 0) = 1
         /\ \A n \in Nat : Power(b, n) \in Positive /\ Power(b, n + 1) = b * Power(b, n)
<1>1. \A n \in Nat : Power(b, n) \in Positive
  <2> SUFFICES ASSUME NEW n \in Nat PROVE Power(b, n) \in Positive
    OBVIOUS
  <2> QED BY PowerRuns
<1>2. Power(b, 0) = 1
  <2>1. \E f \in [0..0 -> Positive] : f[0] = 1 /\ Power(b, 0) = f[0]
    BY PowerRuns, 0 \in Nat
  <2> QED BY <2>1
<1>3. ASSUME NEW n \in Nat PROVE Power(b, n + 1) = b * Power(b, n)
  <2>1. PICK f \in [0..n -> Positive] :
           f[0] = 1 /\ (\A i \in 1..n : f[i] = b * f[i - 1]) /\ Power(b, n) = f[n]
    BY PowerRuns
  <2>2. PICK g \in [0..n + 1 -> Positive] :
           g[0] = 1 /\ (\A i \in 1..n + 1 : g[i] = b * g[i - 1]) /\ Power(b, n + 1) = g[n + 1]
    BY PowerRuns, n + 1 \in Nat
  <2>3. \A i \in 1..n : g[i] = b * g[i - 1]
    BY <2>2
  <2>4. \A i \in 0..n : f[i] = g[i]
    <3>1. Alike(f, g, n)
      BY <2>1, <2>2, <2>3 DEF Alike
    <3> QED BY ONLY <3>1, n \in Nat, Agree
  <2>5. n \in 0..n /\ n + 1 \in 1..n + 1 /\ (n + 1) - 1 = n
    OBVIOUS
  <2> QED
    BY <2>1, <2>2, <2>4, <2>5
<1> QED
  BY <1>1, <1>2, <1>3

(* Powers ascend.                                                          *)
LEMMA PowerAscends ==
  ASSUME NEW b \in Positive, b >= 2, NEW m \in Nat, NEW n \in Nat, m <= n
  PROVE  Power(b, m) <= Power(b, n) /\ (m < n => Power(b, m) < Power(b, n))
<1>1. \A k \in Nat : Power(b, k) \in Positive /\ Power(b, k + 1) = b * Power(b, k)
  BY PowerFacts
<1> DEFINE d == n - m
           S == {i \in 0..d : Power(b, m) <= Power(b, m + i) /\ (i # 0 => Power(b, m) < Power(b, m + i))}
<1>2. d \in Nat /\ m + d = n /\ m + 0 = m
  OBVIOUS
<1>3. 0 \in S
  BY <1>1, <1>2 DEF Positive
<1>4. ASSUME NEW i \in 0..d - 1, i \in S PROVE i + 1 \in S
  <2>1. i + 1 \in 0..d /\ m + i \in Nat /\ (m + i) + 1 = m + (i + 1)
    BY <1>2
  <2> DEFINE p == Power(b, m + i)
             q == Power(b, m + (i + 1))
             o == Power(b, m)
  <2>2. p \in Positive /\ q = b * p /\ o \in Positive
    BY <1>1, <2>1
  <2>3. o <= p
    BY <1>4
  <2> HIDE DEF p, q, o
  <2>4. b * p >= 2 * p
    BY <2>2 DEF Positive
  <2>5. o < q /\ o <= q
    BY <2>2, <2>3, <2>4 DEF Positive
  <2> QED
    BY <2>1, <2>5 DEF o, q
<1>5. \A i \in 0..d : i \in S
  <2> HIDE DEF S, d
  <2> QED BY <1>2, <1>3, <1>4, CountUp
<1>6. d \in S
  BY <1>2, <1>5
<1>7. Power(b, m) <= Power(b, m + d) /\ (d # 0 => Power(b, m) < Power(b, m + d))
  BY <1>6
<1> HIDE DEF S
<1> QED
  BY <1>2, <1>7

-----------------------------------------------------------------------------
(* Division.                                                               *)
LEMMA DivIs ==
  ASSUME NEW p \in Positive, NEW a \in Nat, NEW r \in 0..p - 1
  PROVE  (a * p + r) \div p = a /\ (a * p + r) % p = r
BY DEF Positive

LEMMA DivMod ==
  ASSUME NEW v \in Nat, NEW p \in Positive
  PROVE  /\ v \div p \in Nat /\ v % p \in 0..p - 1
         /\ v = (v \div p) * p + (v % p)
<1>1. v \in Int /\ p \in Int /\ p > 0
  BY DEF Positive
<1>2. v \div p \in Nat /\ v % p \in 0..p - 1
  BY DEF Positive
<1>3. v = p * (v \div p) + (v % p)
  BY <1>1
<1>4. p * (v \div p) = (v \div p) * p
  BY <1>1, <1>2
<1> QED
  BY <1>2, <1>3, <1>4

LEMMA DivBelow ==
  ASSUME NEW v \in Nat, NEW p \in Positive, NEW q \in Nat, v < q * p
  PROVE  v \div p < q
<1> DEFINE a == v \div p
<1>1. a \in Nat /\ v >= a * p
  <2>1. a \in Nat /\ v % p \in 0..p - 1 /\ v = a * p + (v % p)
    BY DivMod
  <2> HIDE DEF a
  <2>2. a * p \in Nat
    BY <2>1 DEF Positive
  <2> QED BY <2>1, <2>2
<1> HIDE DEF a
<1>2. SUFFICES ASSUME a >= q PROVE FALSE
  BY <1>1 DEF a
<1>3. PICK d \in Nat : a = q + d
  <2>1. a - q \in Nat /\ a = q + (a - q)
    BY <1>1, <1>2
  <2> QED BY <2>1
<1>4. a * p = q * p + d * p
  BY <1>3 DEF Positive
<1>5. d * p \in Nat /\ q * p \in Nat
  BY <1>3 DEF Positive
<1> QED
  BY <1>1, <1>4, <1>5

(* Dividing once more splits off one more digit.                           *)
LEMMA DivStep ==
  ASSUME NEW v \in Nat, NEW b \in Positive, NEW p \in Positive
  PROVE  v \div p = (v \div (b * p)) * b + ((v \div p) % b)
<1> DEFINE a == v \div p
           r == v % p
           q == a \div b
           s == a % b
<1>1. a \in Nat /\ r \in 0..p - 1 /\ v = a * p + r
  BY DivMod
<1> HIDE DEF a, r
<1>2. q \in Nat /\ s \in 0..b - 1 /\ a = q * b + s
  BY <1>1, DivMod
<1> HIDE DEF q, s
<1> DEFINE bp == b * p
           t == s * p + r
<1>3. bp \in Positive
  BY DEF Positive
<1>4. a * p = q * bp + s * p
  <2>1. a * p = (q * b) * p + s * p
    BY <1>2 DEF Positive
  <2>2. (q * b) * p = q * (b * p)
    BY <1>2 DEF Positive
  <2> QED BY <2>1, <2>2
<1>5. t \in 0..bp - 1
  <2>1. s * p \in Nat
    BY <1>2 DEF Positive
  <2>2. PICK d \in Nat : b = s + 1 + d
    <3>1. b - (s + 1) \in Nat /\ b = s + 1 + (b - (s + 1))
      BY <1>2 DEF Positive
    <3> QED BY <3>1
  <2>3. bp = s * p + p + d * p
    BY <1>2, <2>2 DEF Positive
  <2>4. d * p \in Nat /\ p \in Nat
    BY <2>2 DEF Positive
  <2> HIDE DEF bp
  <2> QED BY <1>1, <2>1, <2>3, <2>4
<1> HIDE DEF bp
<1>6. v = q * bp + t
  <2>1. q * bp \in Nat /\ s * p \in Nat
    BY <1>2, <1>3 DEF Positive
  <2> QED BY <1>1, <1>4, <2>1
<1> HIDE DEF t
<1>7. v \div bp = q
  BY <1>2, <1>3, <1>5, <1>6, DivIs
<1> QED
  BY <1>2, <1>7 DEF a, s, bp

LEMMA DivDigit ==
  ASSUME NEW v \in Nat, NEW b \in Positive, NEW k \in Nat
  PROVE  /\ v \div Power(b, k) \in Nat
         /\ v \div Power(b, k) = (v \div Power(b, k + 1)) * b + ((v \div Power(b, k)) % b)
         /\ (v \div Power(b, k)) % b \in 0..b - 1
         /\ v < Power(b, k) => v \div Power(b, k) = 0
         /\ v \div Power(b, 0) = v
<1> DEFINE p == Power(b, k)
<1>1. p \in Positive /\ Power(b, k + 1) = b * p /\ Power(b, 0) = 1
  BY PowerFacts
<1> HIDE DEF p
<1>2. v \div p \in Nat /\ (v \div p) % b \in 0..b - 1
  BY <1>1, DivMod
<1>3. v \div p = (v \div (b * p)) * b + ((v \div p) % b)
  BY <1>1, DivStep
<1>4. v < p => v \div p = 0
  <2> SUFFICES ASSUME v < p PROVE v \div p = 0
    OBVIOUS
  <2>1. v < 1 * p
    BY <1>1 DEF Positive
  <2>2. v \div p < 1
    BY <1>1, <2>1, DivBelow
  <2> QED BY <1>2, <2>2
<1>5. v \div 1 = v
  OBVIOUS
<1> QED
  BY <1>1, <1>2, <1>3, <1>4, <1>5 DEF p

-----------------------------------------------------------------------------
(* Runs of bytes: a run is flagged up to its last byte, and f spells the   *)
(* number of its first i bytes.                                            *)
Byte == 0..ByteRange - 1
Digit(b, i) == IF i = MaxBytes THEN b ELSE b % Flag
Base(i) == IF i = MaxBytes THEN ByteRange ELSE Flag
Spells(f, d, o, n) ==
  f \in [0..n -> Nat] /\ f[0] = 0 /\ \A i \in 1..n : f[i] = f[i - 1] * Base(i) + Digit(d[o + i], i)
Run(d, o, n) ==
  /\ n \in 1..MaxBytes /\ \A i \in 1..n : d[o + i] \in Byte
  /\ \A i \in 1..n - 1 : d[o + i] >= Flag
  /\ n < MaxBytes => d[o + n] < Flag
Spelled(d, o, n, f) == Run(d, o, n) /\ Spells(f, d, o, n)
BytesTo(d, o, limit) == \A i \in 1..MaxBytes : o + i <= limit => d[o + i] \in Byte
Shortest(n, v) == n = 1 \/ v >= Power(Flag, n - 1)
Largest == Power(Flag, MaxBytes - 1) * ByteRange

LEMMA Bases ==
  /\ Flag \in Positive /\ Flag >= 2 /\ ByteRange = 2 * Flag /\ ByteRange \in Positive
  /\ MaxBytes \in Nat /\ MaxBytes >= 2 /\ Largest \in Positive
  /\ \A i \in Nat : Base(i) \in Positive /\ Base(i) >= 2
<1>1. 2 \in Positive
  BY DEF Positive
<1>2. GroupBits - 1 \in Nat /\ GroupBits = (GroupBits - 1) + 1
  BY WidthAssumption
<1>3. Power(2, GroupBits - 1) \in Positive /\ Flag = 2 * Power(2, GroupBits - 1)
  <2>1. Power(2, (GroupBits - 1) + 1) = 2 * Power(2, GroupBits - 1) /\ Power(2, GroupBits - 1) \in Positive
    BY <1>1, <1>2, PowerFacts
  <2> QED BY <1>2, <2>1 DEF Flag
<1>4. Flag \in Positive /\ Flag >= 2
  BY <1>3 DEF Positive
<1>5. ByteRange = 2 * Flag
  BY DEF ByteRange
<1>6. ByteRange \in Positive /\ ByteRange >= 2
  BY <1>4, <1>5 DEF Positive
<1>7. MaxBytes \in Nat /\ MaxBytes >= 2 /\ MaxBytes - 1 \in Nat
  BY WidthAssumption
<1>8. Largest \in Positive
  <2>1. Power(Flag, MaxBytes - 1) \in Positive
    BY <1>4, <1>7, PowerFacts
  <2> QED BY <1>6, <2>1 DEF Largest, Positive
<1> QED
  BY <1>4, <1>5, <1>6, <1>7, <1>8 DEF Base

LEMMA DigitBound ==
  ASSUME NEW b \in Byte, NEW i \in Nat
  PROVE  Digit(b, i) \in 0..Base(i) - 1 /\ Digit(b, i) \in Nat
<1>1. Flag \in Positive /\ ByteRange \in Positive
  BY Bases
<1>2. b \in Nat /\ b % Flag \in 0..Flag - 1
  BY <1>1 DEF Byte, Positive
<1> QED
  BY <1>1, <1>2 DEF Byte, Digit, Base, Positive

LEMMA SpellsExists ==
  ASSUME NEW d, NEW o \in Nat, NEW n \in Nat, \A i \in 1..n : d[o + i] \in Byte
  PROVE  \E f : Spells(f, d, o, n)
<1> DEFINE step == [x \in (1..n) \X Nat |-> x[2] * Base(x[1]) + Digit(d[o + x[1]], x[1])]
<1>1. step \in [(1..n) \X Nat -> Nat]
  <2>1. ASSUME NEW x \in (1..n) \X Nat PROVE x[2] * Base(x[1]) + Digit(d[o + x[1]], x[1]) \in Nat
    <3>1. x[1] \in 1..n /\ x[1] \in Nat /\ x[2] \in Nat
      OBVIOUS
    <3>2. Base(x[1]) \in Positive /\ Digit(d[o + x[1]], x[1]) \in Nat
      BY <3>1, Bases, DigitBound
    <3>3. x[2] * Base(x[1]) \in Nat
      BY <3>1, <3>2 DEF Positive
    <3> QED BY <3>2, <3>3
  <2> QED BY <2>1
<1>2. \A i \in 1..n, y \in Nat : step[<<i, y>>] = y * Base(i) + Digit(d[o + i], i)
  OBVIOUS
<1> HIDE DEF step
<1>3. Recursion(Nat, 0, n, step)
  BY <1>1, RecursionExists
<1>4. PICK f \in [0..n -> Nat] : f[0] = 0 /\ \A i \in 1..n : f[i] = step[<<i, f[i - 1]>>]
  BY <1>3 DEF Recursion
<1>5. \A i \in 1..n : f[i] = f[i - 1] * Base(i) + Digit(d[o + i], i)
  <2> SUFFICES ASSUME NEW i \in 1..n PROVE f[i] = f[i - 1] * Base(i) + Digit(d[o + i], i)
    OBVIOUS
  <2>1. i - 1 \in 0..n
    OBVIOUS
  <2> QED BY <1>2, <1>4, <2>1
<1> QED
  BY <1>4, <1>5 DEF Spells

(* What is spelled by i bytes fits the bits of i bytes.                    *)
Capacity(i) == IF i = MaxBytes THEN Largest ELSE Power(Flag, i)

LEMMA CapacityFacts ==
  /\ Capacity(0) = 1
  /\ \A i \in 1..MaxBytes : Capacity(i) \in Positive /\ Capacity(i) = Capacity(i - 1) * Base(i)
<1>1. /\ Flag \in Positive /\ MaxBytes \in Nat /\ MaxBytes >= 2 /\ Largest \in Positive
  BY Bases
<1>2. Power(Flag, 0) = 1 /\ \A k \in Nat : Power(Flag, k) \in Positive /\ Power(Flag, k + 1) = Flag * Power(Flag, k)
  BY <1>1, PowerFacts
<1>3. Capacity(0) = 1
  BY <1>1, <1>2 DEF Capacity
<1>4. ASSUME NEW i \in 1..MaxBytes PROVE Capacity(i) \in Positive /\ Capacity(i) = Capacity(i - 1) * Base(i)
  <2>1. i \in Nat /\ i - 1 \in Nat /\ (i - 1) + 1 = i /\ i - 1 # MaxBytes
    BY <1>1
  <2>2. Power(Flag, i) \in Positive /\ Power(Flag, i) = Flag * Power(Flag, i - 1) /\ Power(Flag, i - 1) \in Positive
    BY <1>2, <2>1
  <2>3. Capacity(i - 1) = Power(Flag, i - 1)
    BY <2>1 DEF Capacity
  <2>4. CASE i = MaxBytes
    BY <1>1, <2>3, <2>4 DEF Capacity, Base, Largest
  <2>5. CASE i # MaxBytes
    BY <1>1, <2>2, <2>3, <2>5 DEF Capacity, Base, Positive
  <2> QED BY <2>4, <2>5
<1> QED
  BY <1>3, <1>4

LEMMA SpellBound ==
  ASSUME NEW d, NEW o \in Nat, NEW n \in 0..MaxBytes, NEW f, Spells(f, d, o, n),
         \A i \in 1..n : d[o + i] \in Byte
  PROVE  \A i \in 0..n : f[i] \in Nat /\ f[i] < Capacity(i)
<1>1. MaxBytes \in Nat /\ n \in Nat
  BY Bases
<1>2. Capacity(0) = 1 /\ \A i \in 1..MaxBytes : Capacity(i) = Capacity(i - 1) * Base(i)
  BY CapacityFacts
<1> DEFINE S == {i \in 0..n : f[i] \in Nat /\ f[i] < Capacity(i)}
<1>3. 0 \in S
  BY <1>2 DEF Spells
<1>4. ASSUME NEW i \in 0..n - 1, i \in S PROVE i + 1 \in S
  <2> DEFINE j == i + 1
             r == Digit(d[o + j], j)
  <2>1. j \in 1..n /\ j \in 1..MaxBytes /\ j \in 0..n /\ j - 1 = i /\ i \in 0..MaxBytes /\ j \in Nat
    BY <1>1
  <2> HIDE DEF j
  <2>2. f[j] = f[i] * Base(j) + r /\ f[j] \in Nat
    BY <2>1 DEF Spells
  <2>3. r \in 0..Base(j) - 1 /\ Base(j) \in Positive
    BY <2>1, DigitBound, Bases
  <2>4. f[i] \in Nat /\ f[i] < Capacity(i) /\ Capacity(j) = Capacity(i) * Base(j)
    BY <1>2, <1>4, <2>1
  <2>5. Capacity(i) \in Nat
    <3>1. i = 0 \/ i \in 1..MaxBytes
      BY <2>1
    <3> QED BY <3>1, CapacityFacts, <1>2 DEF Positive
  <2> DEFINE b == Base(j)
             s == Capacity(i)
             v == f[i]
  <2> HIDE DEF r, b, s, v
  <2>6. PICK k \in Nat : s = v + 1 + k
    <3>1. s - (v + 1) \in Nat /\ s = v + 1 + (s - (v + 1))
      BY <2>4, <2>5 DEF s, v
    <3> QED BY <3>1
  <2>7. s * b = v * b + b + k * b /\ k * b \in Nat /\ v * b \in Nat
    BY <2>3, <2>4, <2>6 DEF Positive, b, v
  <2>8. v * b + r < s * b
    BY <2>3, <2>7 DEF Positive, b
  <2> QED
    BY <2>1, <2>2, <2>4, <2>8 DEF b, s, v, j
<1>5. \A i \in 0..n : i \in S
  <2> HIDE DEF S
  <2> QED BY <1>1, <1>3, <1>4, CountUp
<1> QED
  BY <1>5

-----------------------------------------------------------------------------
(* What _sqlite_varint reads from a run, and that it reads nothing else.   *)
Ends(d, o, limit) ==
  {n \in 1..MaxBytes : /\ o + n <= limit
                       /\ \A i \in 1..n - 1 : d[o + i] >= Flag
                       /\ n < MaxBytes => d[o + n] < Flag}

LEMMA OneEnd ==
  ASSUME NEW d, NEW o \in Nat, NEW limit \in Int, NEW m \in Ends(d, o, limit), NEW n \in Ends(d, o, limit),
         BytesTo(d, o, limit)
  PROVE  m = n
<1>1. MaxBytes \in Nat /\ Flag \in Nat
  BY Bases DEF Positive
<1>2. ASSUME NEW k \in Ends(d, o, limit), NEW l \in Ends(d, o, limit), k < l PROVE FALSE
  <2>1. k \in 1..MaxBytes /\ l \in 1..MaxBytes /\ k \in 1..l - 1 /\ k < MaxBytes /\ o + k <= limit
    BY <1>1, <1>2 DEF Ends
  <2>2. d[o + k] < Flag /\ d[o + k] >= Flag
    BY <2>1 DEF Ends
  <2>3. d[o + k] \in Byte
    BY <2>1 DEF BytesTo
  <2> QED BY <1>1, <2>2, <2>3, Bases DEF Byte, Positive
<1>3. m \in Nat /\ n \in Nat
  BY DEF Ends
<1>4. ~(m < n) /\ ~(n < m)
  BY <1>2
<1> QED
  BY <1>3, <1>4

IsRead(g, d, o, n) ==
  g = [i \in 0..n |-> IF i = 0 THEN 0
                      ELSE IF i = MaxBytes THEN (g[i - 1] * ByteRange) + d[o + i]
                      ELSE (g[i - 1] * Flag) + (d[o + i] % Flag)]

LEMMA ReadNothing ==
  ASSUME NEW d, NEW o, NEW limit, Ends(d, o, limit) = {}
  PROVE  Read(d, o, limit) = [end |-> 0, value |-> 0]
BY DEF Read, Ends

LEMMA SpelledIsRead ==
  ASSUME NEW d, NEW o, NEW n \in Nat, NEW f, Spells(f, d, o, n)
  PROVE  IsRead(f, d, o, n)
<1>1. \A i \in 0..n : f[i] = IF i = 0 THEN 0
                             ELSE IF i = MaxBytes THEN (f[i - 1] * ByteRange) + d[o + i]
                             ELSE (f[i - 1] * Flag) + (d[o + i] % Flag)
  <2>1. \A i \in 0..n : i # 0 => i \in 1..n
    OBVIOUS
  <2> QED BY <2>1 DEF Spells, Base, Digit
<1> DEFINE e == [i \in 0..n |-> IF i = 0 THEN 0
                      ELSE IF i = MaxBytes THEN (f[i - 1] * ByteRange) + d[o + i]
                      ELSE (f[i - 1] * Flag) + (d[o + i] % Flag)]
<1>2. DOMAIN f = 0..n /\ f = [i \in DOMAIN f |-> f[i]]
  BY DEF Spells
<1>3. f = e
  BY <1>1, <1>2, Zenon
<1> QED
  BY <1>3 DEF IsRead

LEMMA ReadsAlike ==
  ASSUME NEW d, NEW o, NEW n \in Nat, NEW f, IsRead(f, d, o, n), NEW g, IsRead(g, d, o, n)
  PROVE  g[n] = f[n]
<1>1. ASSUME NEW h, IsRead(h, d, o, n)
      PROVE  \A i \in 0..n : h[i] = IF i = 0 THEN 0
                             ELSE IF i = MaxBytes THEN (h[i - 1] * ByteRange) + d[o + i]
                             ELSE (h[i - 1] * Flag) + (d[o + i] % Flag)
  BY <1>1 DEF IsRead
<1>2. Alike(g, f, n)
  <2>1. g[0] = f[0]
    <3>1. f[0] = 0 /\ g[0] = 0
      BY <1>1
    <3> QED BY <3>1
  <2>2. ASSUME NEW i \in 1..n, g[i - 1] = f[i - 1] PROVE g[i] = f[i]
    <3>1. i \in 0..n /\ i # 0
      OBVIOUS
    <3>2. /\ f[i] = IF i = MaxBytes THEN (f[i - 1] * ByteRange) + d[o + i]
                    ELSE (f[i - 1] * Flag) + (d[o + i] % Flag)
          /\ g[i] = IF i = MaxBytes THEN (g[i - 1] * ByteRange) + d[o + i]
                    ELSE (g[i - 1] * Flag) + (d[o + i] % Flag)
      BY <1>1, <3>1
    <3> QED BY <2>2, <3>2, Zenon
  <2> QED BY <2>1, <2>2 DEF Alike
<1> QED
  <2>1. \A i \in 0..n : g[i] = f[i]
    BY <1>2, Agree
  <2> QED BY <2>1

LEMMA ReadIs ==
  ASSUME NEW d, NEW o \in Nat, NEW limit \in Int, NEW n, NEW f,
         Spelled(d, o, n, f), o + n <= limit,
         BytesTo(d, o, limit)
  PROVE  Read(d, o, limit) = [end |-> o + n, value |-> f[n]]
<1>1. n \in Ends(d, o, limit) /\ n \in Nat /\ Spells(f, d, o, n)
  BY DEF Spelled, Run, Ends
<1> DEFINE k == CHOOSE x \in Ends(d, o, limit) : TRUE
           g(x) == CHOOSE h : IsRead(h, d, o, x)
<1>2. k = n
  <2>1. k \in Ends(d, o, limit)
    BY <1>1
  <2> HIDE DEF k
  <2> QED BY ONLY <1>1, <2>1, OneEnd, o \in Nat, limit \in Int,
                  BytesTo(d, o, limit)
<1>3. Read(d, o, limit) = IF Ends(d, o, limit) = {} THEN [end |-> 0, value |-> 0]
                          ELSE [end |-> o + k, value |-> g(k)[k]]
  BY DEF Read, Ends, IsRead
<1> HIDE DEF k
<1>4. IsRead(g(n), d, o, n)
  <2>1. \E h : IsRead(h, d, o, n)
    BY <1>1, SpelledIsRead
  <2> QED BY <2>1
<1> HIDE DEF g
<1>5. g(n)[n] = f[n]
  BY <1>1, <1>4, SpelledIsRead, ReadsAlike
<1> QED
  BY <1>1, <1>2, <1>3, <1>5

-----------------------------------------------------------------------------
(* The digits of u to a base b, the highest of k first.                    *)
LEMMA DigitsOf ==
  ASSUME NEW b \in Positive, NEW u \in Nat, NEW k \in Nat, u < Power(b, k)
  PROVE  /\ u \div Power(b, k - 0) = 0 /\ u \div Power(b, k - k) = u
         /\ \A i \in 0..k : u \div Power(b, k - i) \in Nat
         /\ \A i \in 1..k : /\ (u \div Power(b, k - i)) % b \in 0..b - 1
                            /\ u \div Power(b, k - i)
                                 = (u \div Power(b, k - (i - 1))) * b + ((u \div Power(b, k - i)) % b)
<1>1. k - 0 = k /\ k - k = 0
  OBVIOUS
<1>2. u \div Power(b, k) = 0 /\ u \div Power(b, 0) = u
  BY DivDigit
<1>3. ASSUME NEW i \in 0..k PROVE u \div Power(b, k - i) \in Nat
  <2>1. k - i \in Nat
    OBVIOUS
  <2> QED BY <2>1, DivDigit
<1>4. ASSUME NEW i \in 1..k
      PROVE  /\ (u \div Power(b, k - i)) % b \in 0..b - 1
             /\ u \div Power(b, k - i)
                  = (u \div Power(b, k - (i - 1))) * b + ((u \div Power(b, k - i)) % b)
  <2>1. k - i \in Nat /\ (k - i) + 1 = k - (i - 1)
    OBVIOUS
  <2>2. /\ (u \div Power(b, k - i)) % b \in 0..b - 1
        /\ u \div Power(b, k - i)
             = (u \div Power(b, (k - i) + 1)) * b + ((u \div Power(b, k - i)) % b)
    BY <2>1, DivDigit
  <2> QED BY <2>1, <2>2
<1> QED
  BY <1>1, <1>2, <1>3, <1>4

LEMMA FlagDigit ==
  ASSUME NEW r \in 0..Flag - 1
  PROVE  /\ r \in Byte /\ r < Flag /\ r % Flag = r
         /\ r + Flag \in Byte /\ r + Flag >= Flag /\ (r + Flag) % Flag = r
<1>1. Flag \in Positive /\ Flag >= 2 /\ ByteRange = 2 * Flag
  BY Bases
<1>2. r \in Byte /\ r < Flag /\ r + Flag \in Byte /\ r + Flag >= Flag
  BY <1>1 DEF Positive, Byte
<1>3. (0 * Flag + r) % Flag = r /\ (1 * Flag + r) % Flag = r
  BY <1>1, DivIs, 0 \in Nat, 1 \in Nat
<1>4. 0 * Flag + r = r /\ 1 * Flag + r = r + Flag
  BY <1>1 DEF Positive
<1> QED
  BY <1>2, <1>3, <1>4

EncodedBy(e, n, f, v) ==
  e \in Seq(Byte) /\ Len(e) = n /\ Run(e, 0, n) /\ Spells(f, e, 0, n) /\ f[n] = v /\ Shortest(n, v)

(* A number of fewer bytes than the most: its groups, all but the last     *)
(* flagged.                                                                *)
LEMMA ShortEncode ==
  ASSUME NEW v \in Nat, v < Power(Flag, MaxBytes - 1)
  PROVE  \E n, f : EncodedBy(Encode(v), n, f, v)
<1> DEFINE Fit(g) == v < Power(Flag, g) /\ (g = 1 \/ v >= Power(Flag, g - 1))
           k == CHOOSE g \in 1..MaxBytes - 1 : Fit(g)
           e == [i \in 1..k |-> ((v \div Power(Flag, k - i)) % Flag) + (IF i < k THEN Flag ELSE 0)]
           f == [i \in 0..k |-> v \div Power(Flag, k - i)]
<1>1. Flag \in Positive /\ MaxBytes \in Nat /\ MaxBytes >= 2
  BY Bases
<1>2. \A i \in Nat : Power(Flag, i) \in Nat
  BY <1>1, PowerFacts DEF Positive
<1>3. \E g \in 1..MaxBytes - 1 : Fit(g)
  <2> DEFINE S == {g \in 1..MaxBytes - 1 : v < Power(Flag, g)}
             l == Min(S)
  <2>1. S \in SUBSET Nat /\ S # {}
    BY <1>1
  <2>2. l \in S /\ \A i \in S : l <= i
    <3> HIDE DEF S
    <3> QED BY <2>1, MinOf
  <2> HIDE DEF l
  <2>3. l \in 1..MaxBytes - 1 /\ v < Power(Flag, l)
    BY <2>2
  <2>4. l # 1 => v >= Power(Flag, l - 1)
    <3> SUFFICES ASSUME l # 1 PROVE v >= Power(Flag, l - 1)
      OBVIOUS
    <3>1. l - 1 \in 1..MaxBytes - 1 /\ ~(l <= l - 1) /\ l - 1 \in Nat
      BY <1>1, <2>3
    <3>2. ~(v < Power(Flag, l - 1))
      BY <2>2, <3>1
    <3> QED BY <1>2, <3>1, <3>2
  <2> QED BY <2>3, <2>4
<1>4. k \in 1..MaxBytes - 1 /\ Fit(k)
  <2> HIDE DEF Fit
  <2> QED BY <1>3
<1>5. Encode(v) = e
  <2>1. ~(v >= Power(Flag, MaxBytes - 1))
    <3>1. MaxBytes - 1 \in Nat
      BY <1>1
    <3> QED BY <1>2, <3>1
  <2> QED BY <2>1 DEF Encode
<1> HIDE DEF k
<1>6. k \in Nat /\ k \in 1..MaxBytes /\ k # MaxBytes /\ v < Power(Flag, k) /\ Shortest(k, v)
  BY <1>1, <1>4 DEF Shortest
<1>7. /\ v \div Power(Flag, k - 0) = 0 /\ v \div Power(Flag, k - k) = v
      /\ \A i \in 0..k : v \div Power(Flag, k - i) \in Nat
      /\ \A i \in 1..k : /\ (v \div Power(Flag, k - i)) % Flag \in 0..Flag - 1
                         /\ v \div Power(Flag, k - i)
                              = (v \div Power(Flag, k - (i - 1))) * Flag + ((v \div Power(Flag, k - i)) % Flag)
  BY <1>1, <1>6, DigitsOf
<1>8. f \in [0..k -> Nat] /\ f[0] = 0 /\ f[k] = v
  BY <1>6, <1>7
<1>9. ASSUME NEW i \in 1..k
      PROVE  /\ e[i] \in Byte /\ (i < k => e[i] >= Flag) /\ (i = k => e[i] < Flag)
             /\ e[i] % Flag = f[i] % Flag /\ f[i] = f[i - 1] * Flag + (f[i] % Flag)
  <2> DEFINE r == (v \div Power(Flag, k - i)) % Flag
  <2>1. r \in 0..Flag - 1
    BY <1>7
  <2>2. f[i] % Flag = r /\ f[i - 1] = v \div Power(Flag, k - (i - 1)) /\ f[i] = v \div Power(Flag, k - i)
    <3>1. i \in 0..k /\ i - 1 \in 0..k
      BY <1>6
    <3> QED BY <3>1
  <2>3. e[i] = r + (IF i < k THEN Flag ELSE 0)
    OBVIOUS
  <2>4. f[i] = f[i - 1] * Flag + r
    <3> HIDE DEF f
    <3> QED BY <1>7, <2>2
  <2> HIDE DEF e, f, r
  <2>5. CASE i < k
    <3>1. e[i] = r + Flag
      BY <2>3, <2>5
    <3> QED BY <1>6, <2>1, <2>2, <2>4, <2>5, <3>1, FlagDigit
  <2>6. CASE ~(i < k)
    <3>1. e[i] = r
      BY <2>1, <2>3, <2>6
    <3> QED BY <2>1, <2>2, <2>4, <2>6, <3>1, FlagDigit
  <2> QED BY <2>5, <2>6
<1>10. e \in Seq(Byte) /\ Len(e) = k
  <2>1. DOMAIN e = 1..k /\ e = [i \in 1..k |-> e[i]]
    OBVIOUS
  <2> HIDE DEF e
  <2>2. e \in [1..k -> Byte]
    BY <1>9, <2>1
  <2> QED BY <1>6, <2>1, <2>2
<1> HIDE DEF e, f
<1>11. Run(e, 0, k)
  <2>1. ASSUME NEW i \in 1..k PROVE 0 + i = i /\ (i \in 1..k - 1 <=> i < k)
    BY <1>6
  <2>2. k \in 1..k
    BY <1>6
  <2>3. \A i \in 1..k - 1 : i \in 1..k /\ i < k /\ 0 + i = i
    BY <1>6
  <2> QED BY <1>6, <1>9, <2>1, <2>2, <2>3 DEF Run
<1>12. Spells(f, e, 0, k)
  <2>1. ASSUME NEW i \in 1..k PROVE f[i] = f[i - 1] * Base(i) + Digit(e[0 + i], i)
    <3>1. 0 + i = i /\ i # MaxBytes
      BY <1>1, <1>4
    <3>2. Base(i) = Flag /\ Digit(e[0 + i], i) = e[i] % Flag
      BY <3>1 DEF Base, Digit
    <3> QED BY <1>9, <3>2
  <2> QED BY <1>8, <2>1 DEF Spells
<1> QED
  BY <1>5, <1>6, <1>8, <1>10, <1>11, <1>12 DEF EncodedBy

(* The longest form: all but the last byte flagged, and all bits of that.  *)
LEMMA LongEncode ==
  ASSUME NEW v \in Nat, v < Largest, v >= Power(Flag, MaxBytes - 1)
  PROVE  \E n, f : EncodedBy(Encode(v), n, f, v)
<1> DEFINE k == MaxBytes - 1
           high == v \div ByteRange
           e == [i \in 1..MaxBytes |-> IF i = MaxBytes THEN v % ByteRange
                                       ELSE ((high \div Power(Flag, MaxBytes - 1 - i)) % Flag) + Flag]
           f == [i \in 0..MaxBytes |-> IF i = MaxBytes THEN v ELSE high \div Power(Flag, k - i)]
<1>1. Flag \in Positive /\ MaxBytes \in Nat /\ MaxBytes >= 2 /\ ByteRange \in Positive
  BY Bases
<1>2. Encode(v) = e
  BY DEF Encode
<1>3. k \in Nat /\ k # 0 /\ k + 1 = MaxBytes
  BY <1>1
<1>4. high \in Nat /\ v % ByteRange \in 0..ByteRange - 1 /\ v = high * ByteRange + (v % ByteRange)
  BY <1>1, DivMod
<1>5. high < Power(Flag, k)
  <2>1. Power(Flag, k) \in Nat
    BY <1>1, <1>3, PowerFacts DEF Positive
  <2> QED BY <1>1, <2>1, DivBelow DEF Largest
<1> HIDE DEF high
<1>6. /\ high \div Power(Flag, k - 0) = 0 /\ high \div Power(Flag, k - k) = high
      /\ \A i \in 0..k : high \div Power(Flag, k - i) \in Nat
      /\ \A i \in 1..k : /\ (high \div Power(Flag, k - i)) % Flag \in 0..Flag - 1
                         /\ high \div Power(Flag, k - i)
                              = (high \div Power(Flag, k - (i - 1))) * Flag + ((high \div Power(Flag, k - i)) % Flag)
  BY <1>1, <1>3, <1>4, <1>5, DigitsOf
<1>7. f \in [0..MaxBytes -> Nat] /\ f[0] = 0 /\ f[MaxBytes] = v /\ f[k] = high
  <2>1. \A i \in 0..MaxBytes : i # MaxBytes => i \in 0..k
    BY <1>1
  <2>2. 0 \in 0..MaxBytes /\ 0 # MaxBytes /\ k \in 0..MaxBytes /\ k # MaxBytes /\ MaxBytes \in 0..MaxBytes
    BY <1>1
  <2>3. f \in [0..MaxBytes -> Nat]
    BY <1>6, <2>1
  <2> QED BY <1>6, <2>2, <2>3
<1>8. ASSUME NEW i \in 1..k
      PROVE  /\ e[i] \in Byte /\ e[i] >= Flag
             /\ f[i] = f[i - 1] * Flag + (e[i] % Flag)
  <2> DEFINE r == (high \div Power(Flag, k - i)) % Flag
  <2>1. r \in 0..Flag - 1
    BY <1>6
  <2>2. i \in 0..MaxBytes /\ i - 1 \in 0..MaxBytes /\ i # MaxBytes /\ i - 1 # MaxBytes /\ i \in 1..MaxBytes
    BY <1>1
  <2>3. f[i - 1] = high \div Power(Flag, k - (i - 1)) /\ f[i] = high \div Power(Flag, k - i)
    BY <2>2
  <2>4. e[i] = r + Flag
    BY <2>2
  <2>5. f[i] = f[i - 1] * Flag + r
    <3> HIDE DEF f, k
    <3> QED BY <1>6, <2>3
  <2> HIDE DEF e, f, r
  <2> QED BY <2>1, <2>4, <2>5, FlagDigit
<1>9. e[MaxBytes] = v % ByteRange /\ e[MaxBytes] \in Byte
  <2>1. MaxBytes \in 1..MaxBytes
    BY <1>1
  <2>2. e[MaxBytes] = v % ByteRange
    BY <2>1
  <2> QED BY <1>4, <2>2 DEF Byte
<1>10. e \in Seq(Byte) /\ Len(e) = MaxBytes
  <2>1. DOMAIN e = 1..MaxBytes /\ e = [i \in 1..MaxBytes |-> e[i]]
    OBVIOUS
  <2>2. \A i \in 1..MaxBytes : i = MaxBytes \/ i \in 1..k
    BY <1>1
  <2> HIDE DEF e
  <2>3. e \in [1..MaxBytes -> Byte]
    BY <1>8, <1>9, <2>1, <2>2
  <2> QED BY <1>1, <2>1, <2>3
<1> HIDE DEF e, f
<1>11. Run(e, 0, MaxBytes)
  <2>1. ASSUME NEW i \in 1..MaxBytes PROVE e[0 + i] \in Byte /\ (i \in 1..MaxBytes - 1 => e[0 + i] >= Flag)
    <3>1. 0 + i = i /\ (i = MaxBytes \/ i \in 1..k) /\ MaxBytes \notin 1..MaxBytes - 1
      BY <1>1
    <3> QED BY <1>8, <1>9, <3>1
  <2>2. \A i \in 1..MaxBytes - 1 : i \in 1..MaxBytes
    BY <1>1
  <2>3. MaxBytes \in 1..MaxBytes /\ ~(MaxBytes < MaxBytes)
    BY <1>1
  <2> QED BY <2>1, <2>2, <2>3 DEF Run
<1>12. Spells(f, e, 0, MaxBytes)
  <2>1. ASSUME NEW i \in 1..MaxBytes PROVE f[i] = f[i - 1] * Base(i) + Digit(e[0 + i], i)
    <3>1. 0 + i = i /\ (i = MaxBytes \/ (i \in 1..k /\ i # MaxBytes))
      BY <1>1
    <3>2. CASE i = MaxBytes
      <4>1. Base(i) = ByteRange /\ Digit(e[0 + i], i) = v % ByteRange
        BY <1>9, <3>1, <3>2 DEF Base, Digit
      <4>2. f[i] = v /\ f[i - 1] = high
        BY <1>7, <3>2
      <4> QED BY <1>4, <4>1, <4>2
    <3>3. CASE i \in 1..k /\ i # MaxBytes
      <4>1. Base(i) = Flag /\ Digit(e[0 + i], i) = e[i] % Flag
        BY <3>1, <3>3 DEF Base, Digit
      <4> QED BY <1>8, <3>3, <4>1
    <3> QED BY <3>1, <3>2, <3>3
  <2> QED BY <1>7, <2>1 DEF Spells
<1>13. Shortest(MaxBytes, v)
  BY DEF Shortest
<1> QED
  BY <1>2, <1>7, <1>10, <1>11, <1>12, <1>13 DEF EncodedBy

LEMMA EncodeIs ==
  ASSUME NEW v \in Nat, v < Largest
  PROVE  \E n, f : EncodedBy(Encode(v), n, f, v)
<1>1. Power(Flag, MaxBytes - 1) \in Nat
  <2>1. MaxBytes - 1 \in Nat /\ Flag \in Positive
    BY Bases
  <2> QED BY <2>1, PowerFacts DEF Positive
<1> QED
  BY <1>1, ShortEncode, LongEncode

-----------------------------------------------------------------------------
(* A number has one shortest run.                                          *)
LEMMA SpelledFacts ==
  ASSUME NEW d, NEW o \in Nat, NEW n, NEW f, Spelled(d, o, n, f)
  PROVE  /\ n \in 1..MaxBytes /\ n \in Nat
         /\ \A i \in 0..n : f[i] \in Nat /\ f[i] < Capacity(i)
         /\ f[n] \in Nat /\ f[n] < Largest
<1>1. n \in 1..MaxBytes /\ MaxBytes \in Nat
  BY Bases DEF Spelled, Run
<1>2. n \in Nat /\ n \in 0..MaxBytes /\ n \in 0..n
  BY <1>1
<1>3. \A i \in 1..n : d[o + i] \in Byte
  BY DEF Spelled, Run
<1>4. \A i \in 0..n : f[i] \in Nat /\ f[i] < Capacity(i)
  <2>1. Spells(f, d, o, n)
    BY DEF Spelled
  <2> QED BY <1>2, <1>3, <2>1, SpellBound
<1>5. f[n] < Largest
  <2>1. CASE n = MaxBytes
    BY <1>2, <1>4, <2>1 DEF Capacity
  <2>2. CASE n # MaxBytes
    <3>1. f[n] < Power(Flag, n) /\ n <= MaxBytes - 1 /\ MaxBytes - 1 \in Nat
      BY <1>1, <1>2, <1>4, <2>2 DEF Capacity
    <3>2. Power(Flag, n) <= Power(Flag, MaxBytes - 1)
      BY <1>2, <3>1, Bases, PowerAscends
    <3> DEFINE p == Power(Flag, MaxBytes - 1)
               q == Power(Flag, n)
    <3>3. p \in Positive /\ q \in Positive
      BY <1>2, <3>1, Bases, PowerFacts
    <3>4. Largest = p * ByteRange /\ ByteRange \in Nat /\ ByteRange >= 2
      BY Bases DEF Largest, Positive
    <3>5. f[n] \in Nat /\ f[n] < q /\ q <= p
      BY <1>2, <1>4, <3>1, <3>2
    <3> HIDE DEF p, q
    <3>6. p * ByteRange >= p
      BY <3>3, <3>4 DEF Positive
    <3> QED BY <3>3, <3>4, <3>5, <3>6 DEF Positive
  <2> QED BY <2>1, <2>2
<1> QED
  BY <1>1, <1>2, <1>4, <1>5

LEMMA NotShorter ==
  ASSUME NEW c, NEW o \in Nat, NEW m, NEW f, Spelled(c, o, m, f),
         NEW d, NEW q \in Nat, NEW n, NEW g, Spelled(d, q, n, g),
         f[m] = g[n], Shortest(n, g[n])
  PROVE  ~(m < n)
<1>1. SUFFICES ASSUME m < n PROVE FALSE
  OBVIOUS
<1>2. m \in 1..MaxBytes /\ f[m] \in Nat /\ f[m] < Capacity(m)
  <2>1. m \in 1..MaxBytes /\ m \in Nat /\ \A i \in 0..m : f[i] \in Nat /\ f[i] < Capacity(i)
    BY SpelledFacts
  <2>2. m \in 0..m
    BY <2>1
  <2> QED BY <2>1, <2>2
<1>3. n \in 1..MaxBytes
  BY SpelledFacts
<1>4. MaxBytes \in Nat
  BY Bases
<1>5. m # MaxBytes /\ n # 1 /\ m <= n - 1 /\ n - 1 \in Nat /\ m \in Nat
  BY <1>1, <1>2, <1>3, <1>4
<1>6. f[m] < Power(Flag, m) /\ f[m] >= Power(Flag, n - 1)
  BY <1>2, <1>5 DEF Capacity, Shortest
<1>7. Power(Flag, m) <= Power(Flag, n - 1) /\ Power(Flag, m) \in Nat /\ Power(Flag, n - 1) \in Nat
  BY <1>5, Bases, PowerAscends, PowerFacts DEF Positive
<1> QED
  BY <1>2, <1>6, <1>7

LEMMA SameByte ==
  ASSUME NEW a \in Byte, NEW b \in Byte, a % Flag = b % Flag, a >= Flag <=> b >= Flag
  PROVE  a = b
<1>1. Flag \in Positive /\ ByteRange = 2 * Flag /\ Flag \in Nat
  BY Bases DEF Positive
<1>2. ASSUME NEW c \in Byte PROVE c % Flag = IF c >= Flag THEN c - Flag ELSE c
  <2>1. CASE c >= Flag
    <3>1. c - Flag \in 0..Flag - 1 /\ c = 1 * Flag + (c - Flag)
      BY <1>1, <2>1 DEF Byte
    <3>2. (1 * Flag + (c - Flag)) % Flag = c - Flag
      BY <1>1, <3>1, DivIs, 1 \in Nat
    <3> QED BY <2>1, <3>1, <3>2
  <2>2. CASE ~(c >= Flag)
    <3>1. c \in 0..Flag - 1
      BY <1>1, <2>2 DEF Byte
    <3> QED BY <2>2, <3>1, FlagDigit
  <2> QED BY <2>1, <2>2
<1>3. a % Flag = (IF a >= Flag THEN a - Flag ELSE a) /\ b % Flag = (IF b >= Flag THEN b - Flag ELSE b)
  BY <1>2
<1>4. a \in Nat /\ b \in Nat
  BY <1>1 DEF Byte
<1> QED
  BY <1>1, <1>3, <1>4

LEMMA SplitSame ==
  ASSUME NEW p \in Positive, NEW a \in Nat, NEW b \in Nat, NEW r \in 0..p - 1, NEW s \in 0..p - 1,
         a * p + r = b * p + s
  PROVE  a = b /\ r = s
BY DivIs

LEMMA RunsAlike ==
  ASSUME NEW c, NEW o \in Nat, NEW m, NEW f, Spelled(c, o, m, f), Shortest(m, f[m]),
         NEW d, NEW q \in Nat, NEW n, NEW g, Spelled(d, q, n, g), Shortest(n, g[n]),
         f[m] = g[n]
  PROVE  m = n /\ \A i \in 1..n : c[o + i] = d[q + i]
<1>1. m \in Nat /\ n \in Nat /\ n \in 1..MaxBytes /\ MaxBytes \in Nat
  <2>1. m \in Nat /\ n \in Nat /\ n \in 1..MaxBytes
    BY SpelledFacts
  <2> QED BY <2>1, Bases
<1>2. ~(m < n)
  BY ONLY Spelled(c, o, m, f), Spelled(d, q, n, g), o \in Nat, q \in Nat, Shortest(n, g[n]), f[m] = g[n], NotShorter
<1>3. ~(n < m)
  BY ONLY Spelled(c, o, m, f), Spelled(d, q, n, g), o \in Nat, q \in Nat, Shortest(m, f[m]), f[m] = g[n], NotShorter
<1>4. m = n
  BY <1>1, <1>2, <1>3
<1>5. /\ \A i \in 0..n : f[i] \in Nat /\ g[i] \in Nat
      /\ \A i \in 1..n : c[o + i] \in Byte /\ d[q + i] \in Byte
      /\ \A i \in 1..n : f[i] = f[i - 1] * Base(i) + Digit(c[o + i], i)
      /\ \A i \in 1..n : g[i] = g[i - 1] * Base(i) + Digit(d[q + i], i)
  BY <1>4 DEF Spelled, Spells, Run
<1>6. ASSUME NEW i \in 1..n, f[i] = g[i]
      PROVE  f[i - 1] = g[i - 1] /\ Digit(c[o + i], i) = Digit(d[q + i], i)
  <2> DEFINE r == Digit(c[o + i], i)
             s == Digit(d[q + i], i)
             b == Base(i)
             x == f[i - 1]
             y == g[i - 1]
  <2>1. i \in Nat /\ i - 1 \in 0..n
    BY <1>1
  <2>2. b \in Positive /\ r \in 0..b - 1 /\ s \in 0..b - 1
    BY <1>5, <2>1, Bases, DigitBound
  <2>3. x \in Nat /\ y \in Nat /\ x * b + r = y * b + s
    BY <1>5, <1>6, <2>1
  <2> HIDE DEF r, s, b, x, y
  <2>4. x = y /\ r = s
    BY <2>2, <2>3, SplitSame
  <2> QED BY <2>4 DEF r, s, x, y
<1> DEFINE S == {i \in 0..n : f[n - i] = g[n - i]}
<1>7. 0 \in S
  <2>1. n - 0 = n
    BY <1>1
  <2> QED BY <1>1, <1>4, <2>1
<1>8. ASSUME NEW i \in 0..n - 1, i \in S PROVE i + 1 \in S
  <2>1. n - i \in 1..n /\ (n - i) - 1 = n - (i + 1) /\ i + 1 \in 0..n
    BY <1>1
  <2>2. f[(n - i) - 1] = g[(n - i) - 1]
    BY <1>6, <1>8, <2>1
  <2> QED BY <2>1, <2>2
<1>9. \A i \in 0..n : i \in S
  <2> HIDE DEF S
  <2> QED BY <1>1, <1>7, <1>8, CountUp
<1>10. ASSUME NEW i \in 1..n PROVE f[i] = g[i]
  <2>1. n - i \in 0..n /\ n - (n - i) = i
    BY <1>1
  <2> QED BY <1>9, <2>1
<1>11. ASSUME NEW i \in 1..n PROVE c[o + i] = d[q + i]
  <2>1. Digit(c[o + i], i) = Digit(d[q + i], i) /\ c[o + i] \in Byte /\ d[q + i] \in Byte
    BY <1>5, <1>6, <1>10
  <2>2. CASE i = MaxBytes
    BY <2>1, <2>2 DEF Digit
  <2>3. CASE i # MaxBytes
    <3>1. c[o + i] % Flag = d[q + i] % Flag
      BY <2>1, <2>3 DEF Digit
    <3>2. c[o + i] >= Flag <=> d[q + i] >= Flag
      <4>1. CASE i \in 1..n - 1
        BY <1>4, <4>1 DEF Spelled, Run
      <4>2. CASE i \notin 1..n - 1
        <5>1. i = n /\ n < MaxBytes
          BY <1>1, <2>3, <4>2
        <5>2. c[o + n] < Flag /\ d[q + n] < Flag
          BY <1>4, <5>1 DEF Spelled, Run
        <5>3. Flag \in Nat /\ c[o + n] \in Nat /\ d[q + n] \in Nat
          BY <2>1, <5>1, Bases DEF Positive, Byte
        <5> QED BY <5>1, <5>2, <5>3
      <4> QED BY <4>1, <4>2
    <3> QED BY <2>1, <3>1, <3>2, SameByte
  <2> QED BY <2>2, <2>3
<1> QED
  BY <1>4, <1>11

-----------------------------------------------------------------------------
(* A varint is taken exactly when it is the shortest run of its number.    *)
LEMMA EncodeFacts ==
  ASSUME NEW v \in Nat, v < Largest
  PROVE  Encode(v) \in Seq(Byte) /\ Len(Encode(v)) \in 1..MaxBytes
<1>1. PICK n, f : EncodedBy(Encode(v), n, f, v)
  BY EncodeIs
<1> QED
  BY <1>1 DEF EncodedBy, Run

LEMMA BytesInside ==
  ASSUME NEW d \in Seq(Byte), NEW o \in Nat, NEW limit \in 0..Len(d)
  PROVE  /\ \A i \in 1..MaxBytes : o + i <= limit => d[o + i] \in Byte
         /\ \A n \in Nat : o + n <= limit =>
              /\ SubSeq(d, o + 1, o + n) \in Seq(Byte) /\ Len(SubSeq(d, o + 1, o + n)) = n
              /\ \A i \in 1..n : SubSeq(d, o + 1, o + n)[i] = d[o + i] /\ d[o + i] \in Byte
<1>1. Len(d) \in Nat /\ \A i \in 1..Len(d) : d[i] \in Byte
  BY ElementOfSeq
<1>2. ASSUME NEW i \in 1..MaxBytes, o + i <= limit PROVE d[o + i] \in Byte
  <2>1. o + i \in 1..Len(d)
    BY <1>1, <1>2
  <2> QED BY <1>1, <2>1
<1>3. ASSUME NEW n \in Nat, o + n <= limit
      PROVE  /\ SubSeq(d, o + 1, o + n) \in Seq(Byte) /\ Len(SubSeq(d, o + 1, o + n)) = n
             /\ \A i \in 1..n : SubSeq(d, o + 1, o + n)[i] = d[o + i] /\ d[o + i] \in Byte
  <2>1. \A i \in o + 1..o + n : i \in 1..Len(d)
    BY <1>1, <1>3
  <2>2. o + 1 \in 1..Len(d) + 1 /\ o + n \in o..Len(d)
    BY <1>1, <1>3
  <2> DEFINE s == SubSeq(d, o + 1, o + n)
             t == [i \in 1..n |-> d[o + i]]
  <2>3. s = t
    <3>1. (o + n) - (o + 1) + 1 = n /\ \A i \in 1..n : i + (o + 1) - 1 = o + i
      OBVIOUS
    <3>2. s = [i \in 1..(o + n) - (o + 1) + 1 |-> d[i + (o + 1) - 1]]
      OBVIOUS
    <3> QED BY <3>1, <3>2
  <2>4. \A i \in 1..n : t[i] = d[o + i] /\ d[o + i] \in Byte
    <3>1. \A i \in 1..n : o + i \in 1..Len(d)
      BY <1>1, <1>3
    <3> QED BY <1>1, <3>1
  <2>5. t \in Seq(Byte) /\ Len(t) = n
    BY <2>4
  <2> HIDE DEF t, s
  <2>6. s \in Seq(Byte) /\ Len(s) = n /\ \A i \in 1..n : s[i] = d[o + i] /\ d[o + i] \in Byte
    BY <2>3, <2>4, <2>5
  <2> QED BY <2>6 DEF s
<1> QED
  BY <1>2, <1>3

LEMMA VarintParts ==
  ASSUME NEW d, NEW o, NEW limit
  PROVE  LET r == Read(d, o, limit) IN
         /\ Varint(d, o, limit).end = r.end /\ Varint(d, o, limit).value = r.value
         /\ Varint(d, o, limit).ok <=> (r.end > 0 /\ SubSeq(d, o + 1, r.end) = Encode(r.value))
<1> DEFINE r == Read(d, o, limit)
           q == (r.end > 0 /\ SubSeq(d, o + 1, r.end) = Encode(r.value))
<1>1. Varint(d, o, limit) = [ok |-> q, end |-> r.end, value |-> r.value]
  BY DEF Varint
<1> HIDE DEF q, r
<1>2. Varint(d, o, limit).ok = q
  BY <1>1
<1>3. Varint(d, o, limit).end = r.end /\ Varint(d, o, limit).value = r.value
  BY <1>1
<1>4. Varint(d, o, limit).ok <=> q
  BY <1>2, Zenon
<1> QED
  BY <1>3, <1>4, Zenon DEF q, r

LEMMA VarintIs ==
  ASSUME NEW d \in Seq(Byte), NEW o \in Nat, NEW limit \in 0..Len(d), NEW n, NEW f,
         Spelled(d, o, n, f), o + n <= limit
  PROVE  LET r == Varint(d, o, limit) IN
         r.end = o + n /\ r.value = f[n] /\ (r.ok <=> Shortest(n, f[n]))
<1> DEFINE v == f[n]
           s == SubSeq(d, o + 1, o + n)
           e == Encode(v)
<1>1. n \in Nat /\ n \in 1..MaxBytes /\ v \in Nat /\ v < Largest
  BY SpelledFacts
<1>2. Read(d, o, limit) = [end |-> o + n, value |-> v]
  <2>2. BytesTo(d, o, limit)
    BY BytesInside DEF BytesTo
  <2>3. limit \in Int
    OBVIOUS
  <2> HIDE DEF v
  <2>4. Read(d, o, limit) = [end |-> o + n, value |-> f[n]]
    BY ONLY <2>2, <2>3, Spelled(d, o, n, f), o \in Nat, o + n <= limit, ReadIs
  <2> QED BY <2>4 DEF v
<1>3. s \in Seq(Byte) /\ Len(s) = n /\ \A i \in 1..n : s[i] = d[o + i]
  BY <1>1, BytesInside
<1>4. PICK m, g : EncodedBy(e, m, g, v)
  BY <1>1, EncodeIs
<1>5. e \in Seq(Byte) /\ Len(e) = m /\ Spelled(e, 0, m, g) /\ g[m] = v /\ Shortest(m, g[m])
  BY <1>4 DEF EncodedBy, Spelled
<1> HIDE DEF s, e
<1>6. s = e => Shortest(n, v)
  BY <1>3, <1>5
<1>7. ASSUME Shortest(n, v) PROVE s = e
  <2>1. Shortest(n, f[n]) /\ f[n] = g[m]
    BY <1>5, <1>7
  <2>2. n = m /\ \A i \in 1..m : d[o + i] = e[0 + i]
    BY ONLY <1>5, <2>1, Spelled(d, o, n, f), o \in Nat, 0 \in Nat, RunsAlike
  <2>3. \A i \in 1..n : s[i] = e[i]
    <3>1. \A i \in 1..n : 0 + i = i
      BY <1>1
    <3> QED BY <1>3, <2>2, <3>1
  <2> QED BY <1>3, <1>5, <2>2, <2>3
<1>8. Varint(d, o, limit).ok <=> (o + n > 0 /\ s = e)
  BY <1>2, VarintParts DEF s, e
<1>9. Varint(d, o, limit).end = o + n /\ Varint(d, o, limit).value = v
  BY <1>2, VarintParts
<1>10. o + n > 0
  BY <1>1
<1> QED
  BY <1>6, <1>7, <1>8, <1>9, <1>10

LEMMA VarintRun ==
  ASSUME NEW d \in Seq(Byte), NEW o \in Nat, NEW limit \in 0..Len(d)
  PROVE  \/ ~Varint(d, o, limit).ok /\ Ends(d, o, limit) = {}
         \/ \E n, f : Spelled(d, o, n, f) /\ o + n <= limit
<1>1. CASE Ends(d, o, limit) = {}
  <2>1. Read(d, o, limit) = [end |-> 0, value |-> 0]
    BY <1>1, ReadNothing
  <2>2. ~Varint(d, o, limit).ok
    BY <2>1, VarintParts
  <2> QED BY <1>1, <2>2
<1>2. CASE Ends(d, o, limit) # {}
  <2>1. PICK n \in Ends(d, o, limit) : TRUE
    BY <1>2
  <2>2. n \in 1..MaxBytes /\ n \in Nat /\ o + n <= limit
    BY <2>1 DEF Ends
  <2>3. \A i \in 1..n : d[o + i] \in Byte
    BY <2>2, BytesInside
  <2>4. Run(d, o, n)
    BY <2>1, <2>3 DEF Ends, Run
  <2>5. PICK f : Spells(f, d, o, n)
    BY <2>2, <2>3, SpellsExists
  <2> QED BY <2>2, <2>4, <2>5 DEF Spelled
<1> QED
  BY <1>1, <1>2

HoldsAt(d, o, s) == \A i \in 1..Len(s) : d[o + i] = s[i]

LEMMA VarintTaken ==
  ASSUME NEW d \in Seq(Byte), NEW o \in Nat, NEW limit \in 0..Len(d), Varint(d, o, limit).ok
  PROVE  LET r == Varint(d, o, limit)
             e == Encode(r.value)
         IN  /\ r.value \in Nat /\ r.value < Largest /\ e \in Seq(Byte) /\ Len(e) \in 1..MaxBytes
             /\ r.end = o + Len(e) /\ r.end <= limit /\ HoldsAt(d, o, e)
<1> DEFINE r == Varint(d, o, limit)
           e == Encode(r.value)
<1>1. PICK n, f : Spelled(d, o, n, f) /\ o + n <= limit
  BY VarintRun
<1>2. r.end = o + n /\ r.value = f[n]
  BY <1>1, VarintIs
<1>3. n \in Nat /\ f[n] \in Nat /\ f[n] < Largest
  BY <1>1, SpelledFacts
<1>4. SubSeq(d, o + 1, r.end) = e
  BY VarintParts
<1>5. e \in Seq(Byte) /\ Len(e) \in 1..MaxBytes
  BY <1>2, <1>3, EncodeFacts
<1> DEFINE s == SubSeq(d, o + 1, o + n)
<1>6. Len(s) = n /\ \A i \in 1..n : s[i] = d[o + i]
  BY <1>1, <1>3, BytesInside
<1>7. s = e
  BY <1>2, <1>4
<1> HIDE DEF s, e, r
<1>8. Len(e) = n /\ HoldsAt(d, o, e)
  BY <1>6, <1>7 DEF HoldsAt
<1>9. r.value \in Nat /\ r.value < Largest /\ r.end = o + Len(e) /\ r.end <= limit
  BY <1>1, <1>2, <1>3, <1>8
<1> QED
  BY <1>5, <1>8, <1>9 DEF e, r

LEMMA VarintPlaced ==
  ASSUME NEW d \in Seq(Byte), NEW o \in Nat, NEW limit \in 0..Len(d), NEW v \in Nat, v < Largest,
         HoldsAt(d, o, Encode(v)), o + Len(Encode(v)) <= limit
  PROVE  LET r == Varint(d, o, limit) IN r.ok /\ r.value = v /\ r.end = o + Len(Encode(v))
<1> DEFINE e == Encode(v)
<1>1. PICK n, g : EncodedBy(e, n, g, v)
  BY EncodeIs
<1> HIDE DEF e
<1>2. Len(e) = n /\ Run(e, 0, n) /\ Spells(g, e, 0, n) /\ g[n] = v /\ Shortest(n, g[n])
  BY <1>1 DEF EncodedBy
<1>3. n \in Nat /\ n \in 1..n
  BY <1>2 DEF Run
<1>4. \A i \in 1..n : d[o + i] = e[0 + i]
  <2>1. \A i \in 1..n : 0 + i = i
    BY <1>3
  <2> QED BY <1>2, <2>1 DEF HoldsAt, e
<1>5. Run(d, o, n)
  <2>1. \A i \in 1..n - 1 : i \in 1..n
    BY <1>3
  <2> QED BY <1>2, <1>3, <1>4, <2>1 DEF Run
<1>6. Spells(g, d, o, n)
  BY <1>2, <1>4 DEF Spells
<1>7. Spelled(d, o, n, g) /\ o + n <= limit
  BY <1>2, <1>5, <1>6 DEF Spelled, e
<1>8. LET r == Varint(d, o, limit) IN r.end = o + n /\ r.value = g[n] /\ (r.ok <=> Shortest(n, g[n]))
  BY ONLY <1>7, d \in Seq(Byte), o \in Nat, limit \in 0..Len(d), VarintIs
<1> QED
  BY <1>2, <1>8 DEF e

-----------------------------------------------------------------------------
(* The number of a run is the sum of its digits by their weights.          *)
LEMMA Weights ==
  ASSUME NEW n \in 1..MaxBytes
  PROVE  /\ Weight(n, n) = 1
         /\ \A i \in 0..n : Weight(i, n) \in Positive
         /\ \A i \in 1..n : Weight(i - 1, n) = Base(i) * Weight(i, n)
<1>1. Flag \in Positive /\ ByteRange \in Positive /\ MaxBytes \in Nat /\ n \in Nat
  BY Bases
<1>2. /\ Power(Flag, 0) = 1
      /\ \A k \in Nat : Power(Flag, k) \in Positive /\ Power(Flag, k + 1) = Flag * Power(Flag, k)
  BY <1>1, PowerFacts
<1>3. CASE n < MaxBytes
  <2>1. \A i : Weight(i, n) = Power(Flag, n - i)
    BY <1>3 DEF Weight
  <2>2. ASSUME NEW i \in 1..n PROVE Weight(i - 1, n) = Base(i) * Weight(i, n)
    <3>1. n - i \in Nat /\ (n - i) + 1 = n - (i - 1) /\ i # MaxBytes
      BY <1>1, <1>3
    <3> QED BY <1>2, <2>1, <3>1 DEF Base
  <2>3. \A i \in 0..n : n - i \in Nat
    BY <1>1
  <2>4. n - n = 0
    BY <1>1
  <2> QED BY <1>2, <2>1, <2>2, <2>3, <2>4
<1>4. CASE ~(n < MaxBytes)
  <2>1. n = MaxBytes
    BY <1>1, <1>4
  <2>2. Weight(n, n) = 1 /\ \A i : i # n => Weight(i, n) = Power(Flag, n - 1 - i) * ByteRange
    BY <1>4 DEF Weight
  <2>3. ASSUME NEW i \in 1..n PROVE Weight(i - 1, n) = Base(i) * Weight(i, n)
    <3>1. i - 1 # n
      BY <1>1
    <3>2. CASE i = n
      <4>1. n - 1 - (i - 1) = 0
        BY <1>1, <3>2
      <4> QED BY <1>1, <1>2, <2>1, <2>2, <3>1, <3>2, <4>1 DEF Base, Positive
    <3>3. CASE i # n
      <4>1. n - 1 - i \in Nat /\ (n - 1 - i) + 1 = n - 1 - (i - 1)
        BY <1>1, <3>3
      <4> DEFINE p == Power(Flag, n - 1 - i)
      <4>2. Power(Flag, n - 1 - (i - 1)) = Flag * p /\ p \in Positive
        BY <1>2, <4>1
      <4>3. Weight(i - 1, n) = (Flag * p) * ByteRange /\ Weight(i, n) = p * ByteRange
        BY <2>2, <3>1, <3>3, <4>2
      <4>4. Base(i) = Flag
        BY <2>1, <3>3 DEF Base
      <4> HIDE DEF p
      <4>5. (Flag * p) * ByteRange = Flag * (p * ByteRange)
        BY <1>1, <4>2 DEF Positive
      <4> QED BY <4>3, <4>4, <4>5
    <3> QED BY <3>2, <3>3
  <2>4. ASSUME NEW i \in 0..n PROVE Weight(i, n) \in Positive
    <3>1. CASE i = n
      BY <2>2, <3>1 DEF Positive
    <3>2. CASE i # n
      <4>1. n - 1 - i \in Nat
        BY <1>1, <3>2
      <4>2. Power(Flag, n - 1 - i) \in Positive /\ Weight(i, n) = Power(Flag, n - 1 - i) * ByteRange
        BY <1>2, <2>2, <3>2, <4>1
      <4> QED BY <1>1, <4>2 DEF Positive
    <3> QED BY <3>1, <3>2
  <2> QED BY <2>2, <2>3, <2>4
<1> QED
  BY <1>3, <1>4

IsSum(g, n) ==
  g = [i \in 0..n |-> IF i = 0 THEN 0 ELSE g[i - 1] + Weight(i, n) * Digit(payload[i], i)]

LEMMA SumSteps ==
  ASSUME NEW n \in Nat, NEW h, IsSum(h, n)
  PROVE  h[0] = 0 /\ \A i \in 1..n : h[i] = h[i - 1] + Weight(i, n) * Digit(payload[i], i)
<1>1. \A i \in 0..n : h[i] = IF i = 0 THEN 0 ELSE h[i - 1] + Weight(i, n) * Digit(payload[i], i)
  BY DEF IsSum
<1>2. 0 \in 0..n /\ \A i \in 1..n : i \in 0..n /\ i # 0
  OBVIOUS
<1> QED
  BY <1>1, <1>2

LEMMA PlainIs ==
  ASSUME NEW n, NEW f, Spelled(payload, 0, n, f)
  PROVE  PlainValue(n) = f[n]
<1> DEFINE h == [i \in 0..n |-> f[i] * Weight(i, n)]
           g == CHOOSE x : IsSum(x, n)
<1>1. n \in 1..MaxBytes /\ n \in Nat /\ \A i \in 0..n : f[i] \in Nat
  BY SpelledFacts
<1>2. /\ Weight(n, n) = 1 /\ \A i \in 0..n : Weight(i, n) \in Positive
      /\ \A i \in 1..n : Weight(i - 1, n) = Base(i) * Weight(i, n)
  BY <1>1, Weights
<1>3. /\ f[0] = 0 /\ \A i \in 1..n : f[i] = f[i - 1] * Base(i) + Digit(payload[0 + i], i)
      /\ \A i \in 1..n : payload[0 + i] \in Byte
  BY DEF Spelled, Spells, Run
<1>4. h[0] = 0 /\ h[n] = f[n]
  <2>1. 0 \in 0..n /\ n \in 0..n
    BY <1>1
  <2>2. h[0] = f[0] * Weight(0, n) /\ h[n] = f[n] * Weight(n, n)
    BY <2>1
  <2>3. Weight(0, n) \in Nat
    BY <1>2, <2>1 DEF Positive
  <2> HIDE DEF h
  <2> QED BY <1>1, <1>2, <1>3, <2>1, <2>2, <2>3
<1>5. ASSUME NEW i \in 1..n PROVE h[i] = h[i - 1] + Weight(i, n) * Digit(payload[i], i)
  <2>1. i \in 0..n /\ i - 1 \in 0..n /\ 0 + i = i /\ i \in Nat
    BY <1>1
  <2> DEFINE w == Weight(i, n)
             b == Base(i)
             r == Digit(payload[i], i)
             x == f[i - 1]
  <2>2. h[i] = f[i] * w /\ h[i - 1] = x * Weight(i - 1, n)
    BY <2>1
  <2>3. w \in Nat /\ b \in Nat /\ r \in Nat /\ x \in Nat
    BY <1>1, <1>2, <1>3, <2>1, Bases, DigitBound DEF Positive
  <2>4. f[i] = x * b + r /\ Weight(i - 1, n) = b * w
    BY <1>2, <1>3, <2>1
  <2> HIDE DEF w, b, r, x, h
  <2>5. (x * b + r) * w = x * (b * w) + w * r
    <3>1. (x * b + r) * w = (x * b) * w + r * w
      BY <2>3
    <3>2. (x * b) * w = x * (b * w)
      BY <2>3
    <3>3. r * w = w * r
      BY <2>3
    <3> QED BY <3>1, <3>2, <3>3
  <2>6. h[i] = h[i - 1] + w * r
    BY <2>2, <2>4, <2>5
  <2> QED BY <2>6 DEF w, r
<1>6. IsSum(h, n)
  <2>1. \A i \in 0..n : h[i] = IF i = 0 THEN 0 ELSE h[i - 1] + Weight(i, n) * Digit(payload[i], i)
    <3>1. \A i \in 0..n : i # 0 => i \in 1..n
      BY <1>1
    <3> HIDE DEF h
    <3> QED BY <1>4, <1>5, <3>1
  <2> DEFINE e == [i \in 0..n |-> IF i = 0 THEN 0 ELSE h[i - 1] + Weight(i, n) * Digit(payload[i], i)]
  <2>2. DOMAIN h = 0..n /\ h = [i \in DOMAIN h |-> h[i]]
    OBVIOUS
  <2> HIDE DEF h
  <2>3. h = e
    BY <2>1, <2>2, Zenon
  <2> QED BY <2>3 DEF IsSum
<1>7. IsSum(g, n)
  <2> HIDE DEF h
  <2> QED BY <1>6
<1>8. PlainValue(n) = g[n]
  BY DEF PlainValue, IsSum, Digit
<1> HIDE DEF g, h
<1>9. Alike(g, h, n)
  <2>1. g[0] = 0 /\ \A i \in 1..n : g[i] = g[i - 1] + Weight(i, n) * Digit(payload[i], i)
    BY <1>1, <1>7, SumSteps
  <2> QED BY <1>4, <1>5, <2>1 DEF Alike
<1>10. g[n] = h[n]
  <2>1. \A i \in 0..n : g[i] = h[i]
    BY <1>1, <1>9, Agree
  <2> QED BY <1>1, <2>1
<1> QED
  BY <1>4, <1>8, <1>10

LEMMA VarintOfPayload ==
  ASSUME payload \in Seq(Byte)
  PROVE  VarintExact
<1> DEFINE r == Varint(payload, 0, Len(payload))
           Good(n) == /\ n <= MaxBytes
                      /\ \A i \in 1..n - 1 : payload[i] >= Flag
                      /\ n = MaxBytes \/ payload[n] < Flag
                      /\ n = 1 \/ PlainValue(n) >= Power(Flag, n - 1)
<1>1. Len(payload) \in Nat /\ Len(payload) \in 0..Len(payload) /\ MaxBytes \in Nat
  BY Bases
<1>2. ASSUME r.ok PROVE r.value = PlainValue(r.end) /\ \E n \in 1..Len(payload) : Good(n)
  <2>1. PICK n, f : Spelled(payload, 0, n, f) /\ 0 + n <= Len(payload)
    BY <1>1, <1>2, VarintRun
  <2>2. r.end = 0 + n /\ r.value = f[n] /\ Shortest(n, f[n])
    <3>1. LET q == Varint(payload, 0, Len(payload)) IN
          q.end = 0 + n /\ q.value = f[n] /\ (q.ok <=> Shortest(n, f[n]))
      BY ONLY <1>1, <2>1, payload \in Seq(Byte), 0 \in Nat, VarintIs
    <3> QED BY <1>2, <3>1
  <2>3. n \in 1..MaxBytes /\ n \in Nat
    BY <2>1, SpelledFacts
  <2>4. PlainValue(n) = f[n]
    BY <2>1, PlainIs
  <2>5. Good(n)
    <3>1. \A i \in 1..n - 1 : payload[0 + i] >= Flag /\ 0 + i = i
      BY <2>1, <2>3 DEF Spelled, Run
    <3>2. n = MaxBytes \/ payload[n] < Flag
      BY <1>1, <2>1, <2>3 DEF Spelled, Run
    <3> QED BY <1>1, <2>2, <2>3, <2>4, <3>1, <3>2 DEF Shortest
  <2>6. n \in 1..Len(payload) /\ r.end = n
    BY <1>1, <2>1, <2>2, <2>3
  <2> HIDE DEF Good, r
  <2> QED BY <2>2, <2>4, <2>5, <2>6
<1>3. ASSUME NEW n \in 1..Len(payload), Good(n) PROVE r.ok
  <2>1. n \in Nat /\ n \in 1..MaxBytes /\ 0 + n <= Len(payload)
    BY <1>1, <1>3
  <2>2. \A i \in 1..n : payload[0 + i] \in Byte /\ 0 + i = i
    BY <1>1, <2>1, BytesInside
  <2>3. Run(payload, 0, n)
    <3>1. \A i \in 1..n - 1 : payload[0 + i] >= Flag
      <4>1. \A i \in 1..n - 1 : i \in 1..n
        BY <2>1
      <4> QED BY <1>3, <2>2, <4>1
    <3>2. n < MaxBytes => payload[0 + n] < Flag
      BY <1>1, <1>3, <2>1
    <3> HIDE DEF Good
    <3> QED BY <2>1, <2>2, <3>1, <3>2 DEF Run
  <2>4. PICK f : Spelled(payload, 0, n, f)
    <3>1. \E f : Spells(f, payload, 0, n)
      BY <2>1, <2>2, SpellsExists
    <3> QED BY <2>3, <3>1 DEF Spelled
  <2>5. PlainValue(n) = f[n]
    BY <2>4, PlainIs
  <2>6. Shortest(n, f[n])
    BY <1>3, <2>5 DEF Shortest
  <2> HIDE DEF r
  <2>7. LET q == Varint(payload, 0, Len(payload)) IN
        q.end = 0 + n /\ q.value = f[n] /\ (q.ok <=> Shortest(n, f[n]))
    BY ONLY <1>1, <2>1, <2>4, payload \in Seq(Byte), 0 \in Nat, VarintIs
  <2> QED BY <2>6, <2>7 DEF r
<1>4. (r.ok <=> \E n \in 1..Len(payload) : Good(n)) /\ (r.ok => r.value = PlainValue(r.end))
  <2> HIDE DEF r, Good
  <2> QED BY <1>2, <1>3
<1> HIDE DEF r
<1> QED
  BY <1>4, Zenon DEF VarintExact, r

-----------------------------------------------------------------------------
(* Integers of a fixed width.                                              *)
IsUnsigned(g, s) == g = [i \in 0..Len(s) |-> IF i = 0 THEN 0 ELSE g[i - 1] * ByteRange + s[i]]

LEMMA UnsignedSteps ==
  ASSUME NEW s, Len(s) \in Nat, NEW h, IsUnsigned(h, s)
  PROVE  h[0] = 0 /\ \A i \in 1..Len(s) : h[i] = h[i - 1] * ByteRange + s[i]
<1>1. \A i \in 0..Len(s) : h[i] = IF i = 0 THEN 0 ELSE h[i - 1] * ByteRange + s[i]
  BY DEF IsUnsigned
<1>2. 0 \in 0..Len(s) /\ \A i \in 1..Len(s) : i \in 0..Len(s) /\ i # 0
  OBVIOUS
<1> QED
  BY <1>1, <1>2

LEMMA UnsignedIs ==
  ASSUME NEW s, Len(s) \in Nat, NEW f \in [0..Len(s) -> Nat], f[0] = 0,
         \A i \in 1..Len(s) : f[i] = f[i - 1] * ByteRange + s[i]
  PROVE  Unsigned(s) = f[Len(s)]
<1> DEFINE g == CHOOSE x : IsUnsigned(x, s)
<1>1. IsUnsigned(f, s)
  <2>1. \A i \in 0..Len(s) : f[i] = IF i = 0 THEN 0 ELSE f[i - 1] * ByteRange + s[i]
    <3>1. \A i \in 0..Len(s) : i # 0 => i \in 1..Len(s)
      OBVIOUS
    <3> QED BY <3>1
  <2> DEFINE e == [i \in 0..Len(s) |-> IF i = 0 THEN 0 ELSE f[i - 1] * ByteRange + s[i]]
  <2>2. DOMAIN f = 0..Len(s) /\ f = [i \in DOMAIN f |-> f[i]]
    OBVIOUS
  <2>3. f = e
    BY <2>1, <2>2, Zenon
  <2> QED BY <2>3 DEF IsUnsigned
<1>2. IsUnsigned(g, s)
  BY <1>1
<1>3. Unsigned(s) = g[Len(s)]
  BY DEF Unsigned, IsUnsigned
<1> HIDE DEF g
<1>4. Alike(g, f, Len(s))
  <2>1. g[0] = 0 /\ \A i \in 1..Len(s) : g[i] = g[i - 1] * ByteRange + s[i]
    BY <1>2, UnsignedSteps
  <2> QED BY <2>1 DEF Alike
<1>5. \A i \in 0..Len(s) : g[i] = f[i]
  BY <1>4, Agree
<1> QED
  BY <1>3, <1>5

LEMMA Halves ==
  ASSUME NEW w \in Positive
  PROVE  LET q == Power(ByteRange, w - 1) IN
         /\ q \in Positive /\ Power(ByteRange, w) = 2 * (Flag * q) /\ Power(ByteRange, w) = ByteRange * q
         /\ Power(ByteRange, w) \div 2 = Flag * q /\ Flag * q \in Positive
<1> DEFINE q == Power(ByteRange, w - 1)
<1>1. w - 1 \in Nat /\ (w - 1) + 1 = w
  BY DEF Positive
<1>2. ByteRange \in Positive /\ Flag \in Positive /\ ByteRange = 2 * Flag
  BY Bases
<1>3. q \in Positive /\ Power(ByteRange, w) = ByteRange * q
  <2>1. Power(ByteRange, (w - 1) + 1) = ByteRange * Power(ByteRange, w - 1) /\ Power(ByteRange, w - 1) \in Positive
    BY <1>1, <1>2, PowerFacts
  <2> QED BY <1>1, <2>1
<1> HIDE DEF q
<1>4. ByteRange * q = 2 * (Flag * q) /\ Flag * q \in Positive
  BY <1>2, <1>3 DEF Positive
<1>5. (2 * (Flag * q)) \div 2 = Flag * q
  <2> DEFINE h == Flag * q
  <2>1. h \in Nat
    BY <1>4 DEF Positive
  <2> HIDE DEF h
  <2>2. (2 * h) \div 2 = h
    BY <2>1
  <2> QED BY <2>2 DEF h
<1> QED
  BY <1>3, <1>4, <1>5 DEF q

LEMMA IntBack ==
  ASSUME NEW n \in Int, NEW w \in Positive, Fits(n, w)
  PROVE  /\ ToBytes(n, w) \in Seq(Byte) /\ Len(ToBytes(n, w)) = w
         /\ FromBytes(ToBytes(n, w)) = n
<1> DEFINE p == Power(ByteRange, w)
           q == Power(ByteRange, w - 1)
           half == Flag * q
           u == IF n < 0 THEN n + p ELSE n
           s == [i \in 1..w |-> (u \div Power(ByteRange, w - i)) % ByteRange]
           f == [i \in 0..w |-> u \div Power(ByteRange, w - i)]
<1>1. q \in Positive /\ p = 2 * half /\ p = ByteRange * q /\ half \in Positive /\ p \div 2 = half
  BY Halves
<1>2. ToBytes(n, w) = s
  BY DEF ToBytes
<1>3. -half <= n /\ n < half
  BY <1>1 DEF Fits
<1>4. w \in Nat /\ w >= 1 /\ ByteRange \in Positive /\ Flag \in Positive /\ ByteRange = 2 * Flag
  BY Bases DEF Positive
<1> HIDE DEF p, q, half
<1>5. u \in Nat /\ u < p /\ (n < 0 <=> u >= half) /\ n = IF u >= half THEN u - p ELSE u
  BY <1>1, <1>3 DEF Positive
<1> HIDE DEF u
<1>6. /\ u \div Power(ByteRange, w - 0) = 0 /\ u \div Power(ByteRange, w - w) = u
      /\ \A i \in 0..w : u \div Power(ByteRange, w - i) \in Nat
      /\ \A i \in 1..w : /\ (u \div Power(ByteRange, w - i)) % ByteRange \in 0..ByteRange - 1
                         /\ u \div Power(ByteRange, w - i)
                              = (u \div Power(ByteRange, w - (i - 1))) * ByteRange + ((u \div Power(ByteRange, w - i)) % ByteRange)
  <2>1. u < Power(ByteRange, w)
    BY <1>5 DEF p
  <2> QED BY <1>4, <1>5, <2>1, DigitsOf
<1>7. s \in Seq(Byte) /\ Len(s) = w
  <2>1. \A i \in 1..w : (u \div Power(ByteRange, w - i)) % ByteRange \in Byte
    BY <1>6 DEF Byte
  <2> QED BY <1>4, <2>1
<1>8. f \in [0..w -> Nat] /\ f[0] = 0 /\ f[w] = u
  BY <1>4, <1>6
<1>9. \A i \in 1..w : f[i] = f[i - 1] * ByteRange + s[i]
  <2> SUFFICES ASSUME NEW i \in 1..w PROVE f[i] = f[i - 1] * ByteRange + s[i]
    OBVIOUS
  <2>1. i \in 0..w /\ i - 1 \in 0..w
    BY <1>4
  <2>2. f[i] = u \div Power(ByteRange, w - i) /\ f[i - 1] = u \div Power(ByteRange, w - (i - 1))
    BY <2>1
  <2>3. s[i] = (u \div Power(ByteRange, w - i)) % ByteRange
    OBVIOUS
  <2> HIDE DEF f, s
  <2> QED BY <1>6, <2>2, <2>3
<1>10. s[1] = u \div q
  <2>1. 1 \in 1..w /\ 1 \in 0..w /\ 1 - 1 = 0
    BY <1>4
  <2>2. f[1] = 0 * ByteRange + s[1]
    <3> HIDE DEF f, s
    <3> QED BY <1>8, <1>9, <2>1
  <2>3. f[1] = u \div q
    BY <2>1 DEF q
  <2>4. s[1] \in Byte
    <3> HIDE DEF s
    <3> QED BY <1>7, <2>1, ElementOfSeq
  <2> HIDE DEF f, s
  <2> QED BY <1>4, <2>2, <2>3, <2>4 DEF Positive, Byte
<1> HIDE DEF s, f
<1>11. Unsigned(s) = u
  <2>1. Len(s) \in Nat /\ f \in [0..Len(s) -> Nat] /\ \A i \in 1..Len(s) : f[i] = f[i - 1] * ByteRange + s[i]
    BY <1>4, <1>7, <1>8, <1>9
  <2>2. Unsigned(s) = f[Len(s)]
    BY <1>8, <2>1, UnsignedIs
  <2> QED BY <1>7, <1>8, <2>2
<1>12. s[1] >= Flag <=> u >= half
  <2> DEFINE a == u \div q
             r == u % q
  <2>1. a \in Nat /\ r \in 0..q - 1 /\ u = a * q + r
    BY <1>1, <1>5, DivMod
  <2> HIDE DEF r
  <2>2. u < half => a < Flag
    <3>1. Flag \in Nat
      BY <1>4 DEF Positive
    <3> QED BY <1>1, <1>5, <3>1, DivBelow DEF half
  <2> HIDE DEF a
  <2>3. ASSUME u >= half PROVE a >= Flag
    <3>1. SUFFICES ASSUME a < Flag PROVE FALSE
      BY <1>4, <2>1 DEF Positive
    <3>2. PICK d \in Nat : Flag = a + 1 + d
      <4>1. Flag - (a + 1) \in Nat /\ Flag = a + 1 + (Flag - (a + 1))
        BY <1>4, <2>1, <3>1 DEF Positive
      <4> QED BY <4>1
    <3>3. Flag * q = a * q + q + d * q /\ d * q \in Nat /\ a * q \in Nat
      BY <1>1, <2>1, <3>2 DEF Positive
    <3>4. u < Flag * q
      BY <1>1, <2>1, <3>3 DEF Positive
    <3> QED BY <1>1, <1>5, <2>3, <3>4 DEF half, Positive
  <2>4. s[1] = a
    BY <1>10 DEF a
  <2> QED BY <1>1, <1>4, <1>5, <2>1, <2>2, <2>3, <2>4 DEF Positive
<1>13. s # <<>>
  BY <1>4, <1>7
<1>14. FromBytes(s) = IF s # <<>> /\ s[1] >= Flag THEN Unsigned(s) - p ELSE Unsigned(s)
  BY <1>7 DEF FromBytes, p
<1>15. FromBytes(s) = n
  BY <1>5, <1>11, <1>12, <1>13, <1>14
<1> QED
  BY <1>2, <1>7, <1>15

-----------------------------------------------------------------------------
(* A value that can be written has one serial type and body, and is what   *)
(* is read back from them.                                                 *)
IsPair(x) == x = <<x[1], x[2]>>
GoesBack(x) ==
  LET t == Serial(x)[1]
      b == Serial(x)[2]
  IN  /\ IsPair(Serial(x)) /\ t \in Nat /\ t \notin {10, 11} /\ b \in Seq(Byte)
      /\ WidthOf(t) = Len(b) /\ Readable(t, b) /\ ValueOf(t, b) = x

LEMMA WidthFacts ==
  /\ \A t \in 1..6 : Widths[t] \in Positive
  /\ Widths[6] = 8
  /\ \A t \in Nat \ {10, 11} : WidthOf(t) \in Nat
<1>1. \A t \in 1..6 : t = 1 \/ t = 2 \/ t = 3 \/ t = 4 \/ t = 5 \/ t = 6
  OBVIOUS
<1>2. /\ Widths[1] = 1 /\ Widths[2] = 2 /\ Widths[3] = 3 /\ Widths[4] = 4 /\ Widths[5] = 6 /\ Widths[6] = 8
  BY DEF Widths
<1>3. \A t \in 1..6 : Widths[t] \in Positive
  BY <1>1, <1>2 DEF Positive
<1>4. ASSUME NEW t \in Nat \ {10, 11} PROVE WidthOf(t) \in Nat
  <2>1. CASE t \in {0, 8, 9}
    BY <2>1 DEF WidthOf
  <2>2. CASE t \in 1..6
    <3>1. WidthOf(t) = Widths[t]
      BY <2>2 DEF WidthOf
    <3> QED BY <1>3, <2>2, <3>1 DEF Positive
  <2>3. CASE t = 7
    BY <2>3 DEF WidthOf
  <2>4. CASE t >= 12
    <3>1. WidthOf(t) = (t - 12) \div 2
      BY <2>4 DEF WidthOf
    <3>2. (t - 12) \in Nat
      BY <2>4
    <3> DEFINE k == t - 12
    <3> HIDE DEF k
    <3>3. k \in Nat => k \div 2 \in Nat
      OBVIOUS
    <3> QED BY <3>1, <3>2, <3>3 DEF k
  <2> QED BY <2>1, <2>2, <2>3, <2>4
<1> QED
  BY <1>2, <1>3, <1>4

LEMMA EmptyBack ==
  ASSUME NEW x, NEW t \in {0, 8, 9}, Serial(x) = <<t, <<>> >>, ValueOf(t, <<>>) = x
  PROVE  GoesBack(x)
<1>1. Serial(x)[1] = t /\ Serial(x)[2] = <<>> /\ IsPair(Serial(x))
  BY DEF IsPair
<1>2. t \in Nat /\ t \notin {10, 11} /\ WidthOf(t) = 0 /\ <<>> \in Seq(Byte) /\ Len(<<>>) = 0
  BY DEF WidthOf
<1>3. Readable(t, <<>>)
  BY DEF Readable
<1> QED
  BY <1>1, <1>2, <1>3 DEF GoesBack

LEMMA NullBack == GoesBack(Null)
<1>1. Serial(Null) = <<0, <<>> >> /\ ValueOf(0, <<>>) = Null
  BY DEF Serial, ValueOf, Null
<1> QED
  BY <1>1, EmptyBack

LEMMA BitBack ==
  ASSUME NEW n \in {0, 1}
  PROVE  GoesBack(Number(n))
<1>1. Number(n).kind = "int" /\ Number(n).n = n
  BY DEF Number
<1>2. Serial(Number(n)) = <<8 + n, <<>> >>
  BY <1>1 DEF Serial
<1>3. 8 + n \in {8, 9} /\ (8 + n) - 8 = n /\ 8 + n \notin 1..6 /\ 8 + n # 0
  OBVIOUS
<1>4. ValueOf(8 + n, <<>>) = Number(n)
  BY <1>3 DEF ValueOf
<1> QED
  BY <1>2, <1>3, <1>4, EmptyBack

LEMMA NumberBack ==
  ASSUME NEW n \in Int, n \notin {0, 1}, Fits(n, 8)
  PROVE  GoesBack(Number(n))
<1> DEFINE Own(t) == Fits(n, Widths[t]) /\ \A s \in 1..t - 1 : ~Fits(n, Widths[s])
           t == CHOOSE x \in 1..6 : Own(x)
           b == ToBytes(n, Widths[t])
<1>1. Number(n).kind = "int" /\ Number(n).n = n
  BY DEF Number
<1>2. Serial(Number(n)) = <<t, b>>
  BY <1>1 DEF Serial
<1>3. \E x \in 1..6 : Own(x)
  <2> DEFINE S == {x \in 1..6 : Fits(n, Widths[x])}
             l == Min(S)
  <2>1. S \in SUBSET Nat /\ S # {}
    <3>1. 6 \in S
      BY WidthFacts
    <3> QED BY <3>1
  <2>2. l \in S /\ \A i \in S : l <= i
    <3> HIDE DEF S
    <3> QED BY <2>1, MinOf
  <2> HIDE DEF l
  <2>3. l \in 1..6 /\ Fits(n, Widths[l])
    BY <2>2
  <2>4. ASSUME NEW s \in 1..l - 1 PROVE ~Fits(n, Widths[s])
    <3>1. s \in 1..6 /\ ~(l <= s)
      BY <2>3
    <3> QED BY <2>2, <3>1
  <2> QED BY <2>3, <2>4
<1>4. t \in 1..6 /\ Fits(n, Widths[t])
  <2>1. t \in 1..6 /\ Own(t)
    <3> HIDE DEF Own
    <3> QED BY <1>3
  <2> QED BY <2>1
<1> HIDE DEF t
<1>5. b \in Seq(Byte) /\ Len(b) = Widths[t] /\ FromBytes(b) = n
  BY <1>4, WidthFacts, IntBack
<1> HIDE DEF b
<1>6. t \in Nat /\ t \notin {10, 11} /\ t # 0 /\ t # 7 /\ ~(t >= 12) /\ t \notin {0, 8, 9}
  BY <1>4
<1>7. WidthOf(t) = Widths[t]
  BY <1>4, <1>6 DEF WidthOf
<1>8. ValueOf(t, b) = Number(n)
  BY <1>4, <1>5, <1>6 DEF ValueOf
<1>9. Readable(t, b)
  BY <1>6 DEF Readable
<1>10. Serial(Number(n))[1] = t /\ Serial(Number(n))[2] = b /\ IsPair(Serial(Number(n)))
  BY <1>2 DEF IsPair
<1> QED
  BY <1>5, <1>6, <1>7, <1>8, <1>9, <1>10 DEF GoesBack

LEMMA RawBack ==
  ASSUME NEW kind \in {"real", "blob", "text"}, NEW b \in Seq(Byte), kind = "real" => Len(b) = 8,
         Readable(Serial(Raw(kind, b))[1], b)
  PROVE  GoesBack(Raw(kind, b))
<1> DEFINE x == Raw(kind, b)
           t == IF kind = "real" THEN 7 ELSE IF kind = "blob" THEN 12 + 2 * Len(b) ELSE 13 + 2 * Len(b)
<1>1. x.kind = kind /\ x.bytes = b
  BY DEF Raw
<1>2. Serial(x) = <<t, b>>
  <2> HIDE DEF x
  <2>1. CASE kind = "real"
    BY <1>1, <2>1 DEF Serial
  <2>2. CASE kind = "blob"
    BY <1>1, <2>2 DEF Serial
  <2>3. CASE kind = "text"
    BY <1>1, <2>3 DEF Serial
  <2> QED BY <2>1, <2>2, <2>3
<1>3. Serial(x)[1] = t /\ Serial(x)[2] = b /\ IsPair(Serial(x))
  BY <1>2 DEF IsPair
<1>4. Readable(t, b)
  BY <1>3
<1>5. Len(b) \in Nat
  OBVIOUS
<1>6. t \in Nat /\ t \notin {10, 11} /\ WidthOf(t) = Len(b) /\ ValueOf(t, b) = Raw(kind, b)
  <2>1. CASE kind = "real"
    <3>1. t = 7 /\ Len(b) = 8
      BY <2>1
    <3> HIDE DEF t
    <3> QED BY <2>1, <3>1 DEF WidthOf, ValueOf
  <2>2. CASE kind # "real"
    <3> DEFINE l == Len(b)
               e == IF kind = "blob" THEN 0 ELSE 1
    <3>1. t = 12 + 2 * l + e /\ l \in Nat /\ e \in {0, 1}
      BY <1>5, <2>2
    <3> HIDE DEF t, l, e
    <3>2. t \in Nat /\ t >= 12 /\ t \notin {10, 11} /\ t \notin {0, 8, 9} /\ t \notin 1..6 /\ t # 7 /\ t # 0
      BY <3>1
    <3>3. (t - 12) \div 2 = l /\ t % 2 = e
      <4>1. t - 12 = 2 * l + e /\ t = 2 * (l + 6) + e
        BY <3>1
      <4>2. (l * 2 + e) \div 2 = l /\ ((l + 6) * 2 + e) % 2 = e
        <5>1. 2 \in Positive /\ e \in 0..2 - 1 /\ l + 6 \in Nat
          BY <3>1 DEF Positive
        <5> QED BY <3>1, <5>1, DivIs
      <4>3. 2 * l = l * 2 /\ 2 * (l + 6) = (l + 6) * 2
        BY <3>1
      <4> QED BY <4>1, <4>2, <4>3
    <3>4. WidthOf(t) = (t - 12) \div 2
      BY <3>2 DEF WidthOf
    <3>5. ValueOf(t, b) = Raw(IF t % 2 = 0 THEN "blob" ELSE "text", b)
      BY <3>2 DEF ValueOf
    <3>6. (IF t % 2 = 0 THEN "blob" ELSE "text") = kind
      BY <2>2, <3>3 DEF e
    <3> QED BY <3>2, <3>3, <3>4, <3>5, <3>6 DEF l
  <2> QED BY <2>1, <2>2
<1> HIDE DEF x, t
<1> QED
  BY <1>3, <1>4, <1>6 DEF GoesBack, x

LEMMA FieldBack ==
  ASSUME NEW x, Writable(x)
  PROVE  GoesBack(x)
<1>1. CASE x = Null
  BY <1>1, NullBack
<1>2. CASE x.kind = "int" /\ x.n \in Int /\ x = Number(x.n) /\ Fits(x.n, 8)
  <2> DEFINE n == x.n
  <2>1. n \in Int /\ x = Number(n) /\ Fits(n, 8)
    BY <1>2
  <2> HIDE DEF n
  <2>2. CASE n \in {0, 1}
    BY <2>1, <2>2, BitBack
  <2>3. CASE n \notin {0, 1}
    BY <2>1, <2>3, NumberBack
  <2> QED BY <2>2, <2>3
<1>3. CASE /\ x.kind \in {"real", "blob", "text"} /\ x.bytes \in Seq(Byte)
           /\ x = Raw(x.kind, x.bytes) /\ (x.kind = "real" => Len(x.bytes) = 8)
           /\ Readable(Serial(x)[1], x.bytes)
  <2> DEFINE k == x.kind
             b == x.bytes
  <2>1. k \in {"real", "blob", "text"} /\ b \in Seq(Byte) /\ (k = "real" => Len(b) = 8) /\ x = Raw(k, b)
    BY <1>3
  <2>2. Readable(Serial(Raw(k, b))[1], b)
    <3>1. Readable(Serial(x)[1], b)
      BY <1>3
    <3> HIDE DEF k, b
    <3> QED BY <2>1, <3>1
  <2> HIDE DEF k, b
  <2>3. GoesBack(Raw(k, b))
    BY <2>1, <2>2, RawBack
  <2> QED BY <2>1, <2>3
<1> QED
  BY <1>1, <1>2, <1>3 DEF Writable, Byte

-----------------------------------------------------------------------------
(* Sequences one behind the other: f[i] is what the first i of them make.  *)
Joints(f, ss) ==
  f \in [0..Len(ss) -> Seq(Byte)] /\ f[0] = <<>> /\ \A i \in 1..Len(ss) : f[i] = f[i - 1] \o ss[i]

LEMMA JointsExist ==
  ASSUME NEW ss \in Seq(Seq(Byte))
  PROVE  \E f : Joints(f, ss)
<1> DEFINE n == Len(ss)
           step == [x \in (1..n) \X Seq(Byte) |-> x[2] \o ss[x[1]]]
<1>1. n \in Nat /\ \A i \in 1..n : ss[i] \in Seq(Byte)
  BY ElementOfSeq
<1>2. step \in [(1..n) \X Seq(Byte) -> Seq(Byte)]
  <2>1. ASSUME NEW x \in (1..n) \X Seq(Byte) PROVE x[2] \o ss[x[1]] \in Seq(Byte)
    <3>1. x[1] \in 1..n /\ x[2] \in Seq(Byte)
      OBVIOUS
    <3>2. ss[x[1]] \in Seq(Byte)
      BY <1>1, <3>1
    <3> QED BY <3>1, <3>2, ConcatProperties
  <2> QED BY <2>1
<1>3. \A i \in 1..n, y \in Seq(Byte) : step[<<i, y>>] = y \o ss[i]
  OBVIOUS
<1> HIDE DEF step
<1>4. Recursion(Seq(Byte), <<>>, n, step)
  <2>1. <<>> \in Seq(Byte)
    OBVIOUS
  <2> HIDE DEF n
  <2> QED BY <1>1, <1>2, <2>1, RecursionExists
<1>5. PICK f \in [0..n -> Seq(Byte)] : f[0] = <<>> /\ \A i \in 1..n : f[i] = step[<<i, f[i - 1]>>]
  BY <1>4 DEF Recursion
<1>6. \A i \in 1..n : f[i] = f[i - 1] \o ss[i]
  <2> SUFFICES ASSUME NEW i \in 1..n PROVE f[i] = f[i - 1] \o ss[i]
    OBVIOUS
  <2>1. i - 1 \in 0..n
    BY <1>1
  <2>2. f[i - 1] \in Seq(Byte)
    BY <1>5, <2>1
  <2> QED BY <1>3, <1>5, <2>2
<1> QED
  BY <1>5, <1>6 DEF Joints

IsFlat(g, ss) == g = [i \in 1..Len(ss) |-> IF i = 1 THEN ss[i] ELSE g[i - 1] \o ss[i]]

LEMMA FlattenIs ==
  ASSUME NEW ss \in Seq(Seq(Byte)), NEW f, Joints(f, ss)
  PROVE  FlattenSeq(ss) = f[Len(ss)] /\ FlattenSeq(ss) \in Seq(Byte)
<1> DEFINE n == Len(ss)
<1>1. n \in Nat /\ \A i \in 1..n : ss[i] \in Seq(Byte)
  BY ElementOfSeq
<1>2. f \in [0..n -> Seq(Byte)] /\ f[0] = <<>> /\ \A i \in 1..n : f[i] = f[i - 1] \o ss[i]
  BY DEF Joints
<1>3. f[n] \in Seq(Byte)
  BY <1>1, <1>2
<1>4. CASE n = 0
  <2>1. ss = <<>>
    BY <1>4, EmptySeq
  <2>2. FlattenSeq(ss) = ss
    BY <1>4 DEF FlattenSeq
  <2> QED BY <1>2, <1>3, <1>4, <2>1, <2>2
<1>5. CASE n # 0
  <2> DEFINE h == [i \in 1..n |-> f[i]]
             g == CHOOSE x : IsFlat(x, ss)
  <2>1. f[1] = ss[1]
    <3>1. 1 \in 1..n /\ 1 - 1 = 0
      BY <1>1, <1>5
    <3>2. f[1] = <<>> \o ss[1]
      BY <1>2, <3>1
    <3>3. ss[1] \in Seq(Byte)
      BY <1>1, <3>1
    <3> QED BY <3>2, <3>3, ConcatEmptySeq
  <2>2. IsFlat(h, ss)
    <3>1. \A i \in 1..n : h[i] = IF i = 1 THEN ss[i] ELSE h[i - 1] \o ss[i]
      <4> SUFFICES ASSUME NEW i \in 1..n PROVE h[i] = IF i = 1 THEN ss[i] ELSE h[i - 1] \o ss[i]
        OBVIOUS
      <4>1. h[i] = f[i] /\ (i # 1 => i - 1 \in 1..n)
        BY <1>1
      <4>2. i # 1 => h[i - 1] = f[i - 1]
        BY <4>1
      <4> HIDE DEF h, n
      <4> QED BY <1>2, <2>1, <4>1, <4>2
    <3> DEFINE e == [i \in 1..n |-> IF i = 1 THEN ss[i] ELSE h[i - 1] \o ss[i]]
    <3>2. DOMAIN h = 1..n /\ h = [i \in DOMAIN h |-> h[i]]
      OBVIOUS
    <3> HIDE DEF h
    <3>3. h = e
      BY <3>1, <3>2, Zenon
    <3> QED BY <3>3 DEF IsFlat
  <2>3. IsFlat(g, ss)
    <3> HIDE DEF h
    <3> QED BY <2>2
  <2>4. FlattenSeq(ss) = g[n]
    BY <1>5 DEF FlattenSeq, IsFlat
  <2> HIDE DEF g
  <2>5. \A i \in 1..n : g[i] = IF i = 1 THEN ss[i] ELSE g[i - 1] \o ss[i]
    BY <2>3 DEF IsFlat
  <2> DEFINE S == {i \in 0..n : i = 0 \/ g[i] = f[i]}
  <2>6. 0 \in S
    BY <1>1
  <2>7. ASSUME NEW i \in 0..n - 1, i \in S PROVE i + 1 \in S
    <3>1. i + 1 \in 1..n /\ i + 1 \in 0..n /\ (i + 1) - 1 = i
      BY <1>1
    <3>2. CASE i = 0
      BY <2>1, <2>5, <3>1, <3>2
    <3>3. CASE i # 0
      <4>1. g[i] = f[i] /\ i + 1 # 1
        BY <2>7, <3>3
      <4>2. g[i + 1] = g[i] \o ss[i + 1]
        BY <2>5, <3>1, <4>1
      <4>3. f[i + 1] = f[i] \o ss[i + 1]
        BY <1>2, <3>1
      <4> QED BY <3>1, <4>1, <4>2, <4>3
    <3> QED BY <3>2, <3>3
  <2>8. \A i \in 0..n : i \in S
    <3> HIDE DEF S, n
    <3> QED BY <1>1, <2>6, <2>7, CountUp
  <2>9. g[n] = f[n]
    <3>1. n \in S
      BY <1>1, <2>8
    <3> QED BY <1>5, <3>1
  <2> QED BY <1>3, <2>4, <2>9
<1> QED
  BY <1>4, <1>5

(* One more sequence goes behind all before it.                            *)
LEMMA FlattenStep ==
  ASSUME NEW ss \in Seq(Seq(Byte)), NEW s \in Seq(Byte)
  PROVE  /\ FlattenSeq(ss) \in Seq(Byte)
         /\ FlattenSeq(Append(ss, s)) = FlattenSeq(ss) \o s
<1> DEFINE n == Len(ss)
           tt == Append(ss, s)
<1>1. n \in Nat /\ \A i \in 1..n : ss[i] \in Seq(Byte)
  BY ElementOfSeq
<1>2. tt \in Seq(Seq(Byte)) /\ Len(tt) = n + 1 /\ tt[n + 1] = s /\ \A i \in 1..n : tt[i] = ss[i]
  BY AppendProperties
<1>3. PICK f : Joints(f, ss)
  BY JointsExist
<1>4. f \in [0..n -> Seq(Byte)] /\ f[0] = <<>> /\ \A i \in 1..n : f[i] = f[i - 1] \o ss[i]
  BY <1>3 DEF Joints
<1> HIDE DEF tt, n
<1> DEFINE g == [i \in 0..n + 1 |-> IF i = n + 1 THEN f[n] \o s ELSE f[i]]
<1>5. f[n] \in Seq(Byte) /\ f[n] \o s \in Seq(Byte)
  <2>1. f[n] \in Seq(Byte)
    BY <1>1, <1>4
  <2> QED BY <2>1, ConcatProperties
<1>6. \A i \in 0..n + 1 : i = n + 1 \/ (i # n + 1 /\ i \in 0..n)
  BY <1>1
<1>7. g \in [0..n + 1 -> Seq(Byte)]
  BY <1>4, <1>5, <1>6
<1>8. g[0] = <<>> /\ g[n + 1] = g[n] \o s /\ \A i \in 0..n : g[i] = f[i]
  <2>1. 0 \in 0..n + 1 /\ 0 # n + 1 /\ n + 1 \in 0..n + 1 /\ n \in 0..n + 1 /\ n # n + 1
    BY <1>1
  <2>2. \A i \in 0..n : i \in 0..n + 1 /\ i # n + 1
    BY <1>1
  <2> QED BY <1>4, <2>1, <2>2
<1> HIDE DEF g
<1>9. Joints(g, tt)
  <2>1. ASSUME NEW i \in 1..n + 1 PROVE g[i] = g[i - 1] \o tt[i]
    <3>1. CASE i = n + 1
      <4>1. i - 1 = n
        BY <1>1, <3>1
      <4> QED BY <1>2, <1>8, <3>1, <4>1
    <3>2. CASE i # n + 1
      <4>1. i \in 1..n /\ i \in 0..n /\ i - 1 \in 0..n
        BY <1>1, <3>2
      <4> QED BY <1>2, <1>4, <1>8, <4>1
    <3> QED BY <3>1, <3>2
  <2> QED BY <1>2, <1>7, <1>8, <2>1 DEF Joints
<1>10. FlattenSeq(ss) = f[n] /\ FlattenSeq(ss) \in Seq(Byte)
  BY <1>3, FlattenIs DEF n
<1>11. FlattenSeq(tt) = g[n + 1]
  BY <1>2, <1>9, FlattenIs
<1>12. g[n] = f[n]
  <2>1. n \in 0..n
    BY <1>1
  <2> QED BY <1>8, <2>1
<1> QED
  BY <1>8, <1>10, <1>11, <1>12 DEF tt

(* Where the next one lies, when tt is the beginning of ss.                *)
LEMMA JointsAscend ==
  ASSUME NEW ss \in Seq(Seq(Byte)), NEW f, Joints(f, ss), NEW k \in 0..Len(ss)
  PROVE  Len(f[k]) <= Len(f[Len(ss)]) /\ \A j \in 1..Len(f[k]) : f[Len(ss)][j] = f[k][j]
<1> DEFINE n == Len(ss)
<1>1. n \in Nat /\ k \in Nat /\ \A i \in 1..n : ss[i] \in Seq(Byte)
  BY ElementOfSeq
<1>2. f \in [0..n -> Seq(Byte)] /\ \A i \in 1..n : f[i] = f[i - 1] \o ss[i]
  BY DEF Joints
<1> HIDE DEF n
<1> DEFINE d == n - k
           S == {i \in 0..d : Len(f[k]) <= Len(f[k + i]) /\ \A j \in 1..Len(f[k]) : f[k + i][j] = f[k][j]}
<1>3. d \in Nat /\ k + d = n /\ k \in 0..n
  BY <1>1 DEF n
<1>4. f[k] \in Seq(Byte) /\ Len(f[k]) \in Nat
  <2>1. f[k] \in Seq(Byte)
    BY <1>2, <1>3
  <2> QED BY <2>1, LenProperties
<1>5. 0 \in S
  <2>1. k + 0 = k
    BY <1>1
  <2> QED BY <1>3, <1>4, <2>1
<1>6. ASSUME NEW i \in 0..d - 1, i \in S PROVE i + 1 \in S
  <2> DEFINE a == f[k + i]
             b == ss[k + i + 1]
             c == f[k + (i + 1)]
  <2>1. k + i + 1 \in 1..n /\ k + i \in 0..n /\ (k + i + 1) - 1 = k + i /\ k + (i + 1) = k + i + 1 /\ i + 1 \in 0..d
    BY <1>1, <1>3
  <2>2. a \in Seq(Byte) /\ b \in Seq(Byte) /\ c = a \o b
    BY <1>1, <1>2, <2>1
  <2>3. Len(f[k]) <= Len(a) /\ \A j \in 1..Len(f[k]) : a[j] = f[k][j]
    BY <1>6
  <2> HIDE DEF a, b, c
  <2>4. Len(c) = Len(a) + Len(b) /\ Len(a) \in Nat /\ Len(b) \in Nat /\ \A j \in 1..Len(a) : c[j] = a[j]
    BY <2>2, ConcatProperties, LenProperties
  <2>5. \A j \in 1..Len(f[k]) : j \in 1..Len(a)
    BY <1>4, <2>3, <2>4
  <2>6. Len(f[k]) <= Len(c) /\ \A j \in 1..Len(f[k]) : c[j] = f[k][j]
    BY <1>4, <2>3, <2>4, <2>5
  <2> QED BY <2>1, <2>6 DEF c
<1>7. \A i \in 0..d : i \in S
  <2> HIDE DEF S, d
  <2> QED BY <1>3, <1>5, <1>6, CountUp
<1>8. d \in S
  <2>1. d \in 0..d
    BY <1>3
  <2> HIDE DEF S, d
  <2> QED BY <1>7, <2>1
<1>9. Len(f[k]) <= Len(f[k + d]) /\ \A j \in 1..Len(f[k]) : f[k + d][j] = f[k][j]
  BY <1>8
<1> HIDE DEF S, d
<1> QED
  BY <1>3, <1>9 DEF n

Leads(tt, ss) == Len(tt) <= Len(ss) /\ \A i \in 1..Len(tt) : tt[i] = ss[i]

LEMMA LeadsAll ==
  ASSUME NEW S, NEW ss \in Seq(S), NEW tt \in Seq(S), Leads(tt, ss), Len(tt) = Len(ss)
  PROVE  tt = ss
BY DEF Leads

LEMMA FlattenNext ==
  ASSUME NEW ss \in Seq(Seq(Byte)), NEW tt \in Seq(Seq(Byte)), Leads(tt, ss), Len(tt) < Len(ss)
  PROVE  LET a == Len(FlattenSeq(tt))
             s == ss[Len(tt) + 1]
         IN  /\ s \in Seq(Byte) /\ a + Len(s) <= Len(FlattenSeq(ss))
             /\ \A j \in 1..Len(s) : FlattenSeq(ss)[a + j] = s[j]
<1> DEFINE k == Len(tt)
           n == Len(ss)
           s == ss[k + 1]
<1>1. k \in Nat /\ n \in Nat /\ k + 1 \in 1..n /\ k + 1 \in 0..n /\ k \in 0..n /\ (k + 1) - 1 = k
  OBVIOUS
<1>2. s \in Seq(Byte)
  BY <1>1, ElementOfSeq
<1>3. PICK f : Joints(f, ss)
  BY JointsExist
<1>4. f \in [0..n -> Seq(Byte)] /\ f[0] = <<>> /\ \A i \in 1..n : f[i] = f[i - 1] \o ss[i]
  BY <1>3 DEF Joints
<1>5. FlattenSeq(ss) = f[n]
  BY <1>3, FlattenIs
<1>6. FlattenSeq(tt) = f[k]
  <2> DEFINE g == [i \in 0..k |-> f[i]]
  <2>1. \A i \in 0..k : i \in 0..n
    BY <1>1
  <2>2. g \in [0..k -> Seq(Byte)] /\ \A i \in 0..k : g[i] = f[i]
    BY <1>4, <2>1
  <2> HIDE DEF g
  <2>3. ASSUME NEW i \in 1..k PROVE g[i] = g[i - 1] \o tt[i]
    <3>1. i \in 1..n /\ i \in 0..k /\ i - 1 \in 0..k /\ tt[i] = ss[i]
      BY <1>1 DEF Leads
    <3> QED BY <1>4, <2>2, <3>1
  <2>4. g[0] = <<>> /\ k \in 0..k
    BY <1>1, <1>4, <2>2
  <2>5. Joints(g, tt)
    BY <2>2, <2>3, <2>4 DEF Joints
  <2>6. FlattenSeq(tt) = g[k]
    BY <2>5, FlattenIs
  <2> QED BY <2>2, <2>4, <2>6
<1>7. Len(f[k + 1]) <= Len(f[n]) /\ \A j \in 1..Len(f[k + 1]) : f[n][j] = f[k + 1][j]
  BY <1>1, <1>3, JointsAscend
<1>8. f[k + 1] = f[k] \o s /\ f[k] \in Seq(Byte)
  BY <1>1, <1>4
<1> DEFINE a == f[k]
           c == f[k + 1]
           e == f[n]
<1> HIDE DEF a, c, e, s
<1>9. /\ Len(a) \in Nat /\ Len(s) \in Nat /\ Len(c) = Len(a) + Len(s)
      /\ \A j \in 1..Len(s) : c[Len(a) + j] = s[j]
  <2>1. a \in Seq(Byte) /\ s \in Seq(Byte) /\ c = a \o s
    BY <1>2, <1>8 DEF a, c
  <2>2. Len(a) \in Nat /\ Len(s) \in Nat /\ Len(c) = Len(a) + Len(s)
    BY <2>1, ConcatProperties, LenProperties
  <2>3. ASSUME NEW j \in 1..Len(s) PROVE c[Len(a) + j] = s[j]
    <3>1. Len(a) + j \in 1..Len(a) + Len(s) /\ ~(Len(a) + j <= Len(a)) /\ (Len(a) + j) - Len(a) = j
      BY <2>2
    <3> QED BY <2>1, <3>1
  <2> QED BY <2>2, <2>3
<1>10. Len(a) + Len(s) <= Len(e)
  BY <1>7, <1>9 DEF c, e
<1>11. ASSUME NEW j \in 1..Len(s) PROVE e[Len(a) + j] = s[j]
  <2>1. Len(a) + j \in 1..Len(c)
    BY <1>9
  <2> QED BY <1>7, <1>9, <2>1 DEF c, e
<1>12. FlattenSeq(tt) = a /\ FlattenSeq(ss) = e
  BY <1>5, <1>6 DEF a, e
<1> QED
  BY <1>2, <1>10, <1>11, <1>12 DEF s

-----------------------------------------------------------------------------
(* What was read of a payload: h is the size of its header, ts its types   *)
(* so far, vs its values so far; row is the row it was written for.        *)
ValueSet == {ValueOf(t, b) : t \in Nat, b \in Seq(Byte)}
Encodes(ts) == [i \in DOMAIN ts |-> Encode(ts[i])]
RowTypes(row) == [i \in DOMAIN row |-> Encode(Serial(row[i])[1])]
RowBodies(row) == [i \in DOMAIN row |-> Serial(row[i])[2]]
Codes == 0..Largest - 1

HeaderOf(d, h, ts) ==
  /\ h \in Nat /\ h < Largest /\ h <= Len(d) /\ HoldsAt(d, 0, Encode(h))
  /\ ts \in Seq(Codes) /\ HoldsAt(d, Len(Encode(h)), FlattenSeq(Encodes(ts)))
AfterTypes(h, ts) == Len(Encode(h)) + Len(FlattenSeq(Encodes(ts)))
BodyOf(d, h, ts, vs) ==
  /\ vs \in Seq(ValueSet) /\ Len(vs) <= Len(ts)
  /\ \A i \in 1..Len(vs) : Serial(vs[i])[1] = ts[i] /\ Serial(vs[i])[2] \in Seq(Byte)
  /\ HoldsAt(d, h, FlattenSeq(RowBodies(vs)))
AfterValues(h, vs) == h + Len(FlattenSeq(RowBodies(vs)))
RowOf(d, h, row) ==
  /\ h = Len(Encode(h)) + Len(TypeBytes(row)) /\ HoldsAt(d, Len(Encode(h)), TypeBytes(row))
  /\ HoldsAt(d, h, Body(row)) /\ Len(d) = h + Len(Body(row))
BeginsRow(row, ts, vs) ==
  /\ \A i \in 1..Len(ts) : ts[i] = Serial(row[i])[1]
  /\ \A i \in 1..Len(vs) : vs[i] = row[i]

RecordNumbers ==
  /\ payload \in Seq(Byte) /\ fields \in Nat
  /\ record_phase \in {"size", "types", "body", "accepted", "refused"}
  /\ offset \in 0..Len(payload) /\ types \in Seq(Codes) /\ Len(types) <= fields
  /\ values \in Seq(ValueSet) /\ Len(values) <= Len(types)
WhileSize == record_phase = "size" => offset = 0 /\ types = <<>> /\ values = <<>>
WhileTypes ==
  record_phase = "types" =>
    /\ HeaderOf(payload, headerEnd, types) /\ values = <<>>
    /\ offset = AfterTypes(headerEnd, types) /\ offset <= headerEnd
WhileBody ==
  record_phase \in {"body", "accepted"} =>
    /\ HeaderOf(payload, headerEnd, types) /\ headerEnd = AfterTypes(headerEnd, types)
    /\ Len(types) = fields /\ BodyOf(payload, headerEnd, types, values)
    /\ offset = AfterValues(headerEnd, values)
WhenAccepted == record_phase = "accepted" => Len(values) = Len(types) /\ offset = Len(payload)
WhenWritten ==
  written # <<>> =>
    /\ written \in WrittenRows /\ Len(written) = fields /\ record_phase # "refused"
    /\ record_phase = "size" => payload \in Encodings(written)
    /\ record_phase # "size" =>
         RowOf(payload, headerEnd, written) /\ BeginsRow(written, types, values)
RecordInv == RecordNumbers /\ WhileSize /\ WhileTypes /\ WhileBody /\ WhenAccepted /\ WhenWritten

LEMMA CodesAre == \A t : t \in Codes <=> t \in Nat /\ t < Largest
<1>1. Largest \in Nat
  BY Bases DEF Positive
<1> QED
  BY <1>1 DEF Codes

LEMMA RowFacts ==
  ASSUME NEW row \in WrittenRows
  PROVE  /\ Len(row) \in Nat /\ DOMAIN row = 1..Len(row) /\ row = [i \in 1..Len(row) |-> row[i]]
         /\ \A i \in 1..Len(row) : GoesBack(row[i]) /\ Serial(row[i])[1] \in Codes
         /\ RowTypes(row) \in Seq(Seq(Byte)) /\ Len(RowTypes(row)) = Len(row)
         /\ RowBodies(row) \in Seq(Seq(Byte)) /\ Len(RowBodies(row)) = Len(row)
         /\ TypeBytes(row) = FlattenSeq(RowTypes(row)) /\ TypeBytes(row) \in Seq(Byte)
         /\ Body(row) = FlattenSeq(RowBodies(row)) /\ Body(row) \in Seq(Byte)
         /\ Len(TypeBytes(row)) + MaxBytes < Largest
<1>1. /\ row \in Seq(ToSet(row))
      /\ \A i \in DOMAIN row : Writable(row[i]) /\ Serial(row[i])[1] < Largest
      /\ Len(TypeBytes(row)) + MaxBytes < Largest
  BY RecordForm DEF Largest
<1>2. Len(row) \in Nat /\ DOMAIN row = 1..Len(row) /\ row = [i \in 1..Len(row) |-> row[i]]
  BY <1>1, LenProperties, SeqDef
<1>3. ASSUME NEW i \in 1..Len(row)
      PROVE  /\ GoesBack(row[i]) /\ Serial(row[i])[1] \in Codes
             /\ Serial(row[i])[2] \in Seq(Byte) /\ Encode(Serial(row[i])[1]) \in Seq(Byte)
  <2>1. Writable(row[i]) /\ Serial(row[i])[1] < Largest
    BY <1>1, <1>2
  <2>2. GoesBack(row[i])
    BY <2>1, FieldBack
  <2>3. Serial(row[i])[1] \in Nat /\ Serial(row[i])[2] \in Seq(Byte)
    BY <2>2 DEF GoesBack
  <2> DEFINE t == Serial(row[i])[1]
  <2> HIDE DEF t
  <2>4. t \in Nat /\ t < Largest /\ Largest \in Nat
    BY <2>1, <2>3, Bases DEF t, Positive
  <2>5. t \in Codes /\ Encode(t) \in Seq(Byte)
    BY <2>4, EncodeFacts DEF Codes
  <2> QED BY <2>2, <2>3, <2>5 DEF t
<1>4. RowTypes(row) \in Seq(Seq(Byte)) /\ Len(RowTypes(row)) = Len(row)
  BY <1>2, <1>3 DEF RowTypes
<1>5. RowBodies(row) \in Seq(Seq(Byte)) /\ Len(RowBodies(row)) = Len(row)
  BY <1>2, <1>3 DEF RowBodies
<1>6. TypeBytes(row) = FlattenSeq(RowTypes(row)) /\ Body(row) = FlattenSeq(RowBodies(row))
  BY DEF TypeBytes, Body, RowTypes, RowBodies
<1>7. TypeBytes(row) \in Seq(Byte) /\ Body(row) \in Seq(Byte)
  BY <1>4, <1>5, <1>6, JointsExist, FlattenIs
<1> QED
  BY <1>1, <1>2, <1>3, <1>4, <1>5, <1>6, <1>7

LEMMA EncodesFacts ==
  ASSUME NEW ts \in Seq(Codes)
  PROVE  /\ Encodes(ts) \in Seq(Seq(Byte)) /\ Len(Encodes(ts)) = Len(ts)
         /\ FlattenSeq(Encodes(ts)) \in Seq(Byte)
         /\ \A i \in 1..Len(ts) : Encodes(ts)[i] = Encode(ts[i])
         /\ \A t \in Codes : /\ Encode(t) \in Seq(Byte) /\ Len(Encode(t)) \in 1..MaxBytes
                             /\ Encodes(Append(ts, t)) = Append(Encodes(ts), Encode(t))
<1>1. Len(ts) \in Nat /\ DOMAIN ts = 1..Len(ts) /\ \A i \in 1..Len(ts) : ts[i] \in Codes
  BY LenProperties, ElementOfSeq
<1>2. \A t \in Codes : Encode(t) \in Seq(Byte) /\ Len(Encode(t)) \in 1..MaxBytes
  <2> SUFFICES ASSUME NEW t \in Codes PROVE Encode(t) \in Seq(Byte) /\ Len(Encode(t)) \in 1..MaxBytes
    OBVIOUS
  <2>1. t \in Nat /\ t < Largest
    BY Bases DEF Codes, Positive
  <2> QED BY <2>1, EncodeFacts
<1>3. Encodes(ts) \in Seq(Seq(Byte)) /\ Len(Encodes(ts)) = Len(ts) /\ \A i \in 1..Len(ts) : Encodes(ts)[i] = Encode(ts[i])
  BY <1>1, <1>2 DEF Encodes
<1>4. FlattenSeq(Encodes(ts)) \in Seq(Byte)
  BY <1>3, JointsExist, FlattenIs
<1>5. ASSUME NEW t \in Codes PROVE Encodes(Append(ts, t)) = Append(Encodes(ts), Encode(t))
  <2> DEFINE n == Len(ts)
             a == Encodes(Append(ts, t))
             b == Append(Encodes(ts), Encode(t))
             longer == Append(ts, t)
  <2>1. DOMAIN longer = 1..n + 1 /\ longer[n + 1] = t /\ \A i \in 1..n : longer[i] = ts[i]
    BY <1>1, AppendProperties
  <2> HIDE DEF longer
  <2>2. a = [i \in 1..n + 1 |-> Encode(longer[i])]
    BY <2>1 DEF Encodes, longer
  <2>3. DOMAIN b = 1..n + 1 /\ b = [i \in DOMAIN b |-> b[i]] /\ b[n + 1] = Encode(t) /\ \A i \in 1..n : b[i] = Encode(ts[i])
    <3>1. b \in Seq(Seq(Byte)) /\ Len(b) = n + 1
      BY <1>2, <1>3, AppendProperties
    <3>2. DOMAIN b = 1..n + 1 /\ b = [i \in DOMAIN b |-> b[i]]
      <4> HIDE DEF b, n
      <4> QED BY <3>1
    <3>3. b[n + 1] = Encode(t) /\ \A i \in 1..n : b[i] = Encodes(ts)[i]
      BY <1>2, <1>3, AppendProperties
    <3> QED BY <1>3, <3>2, <3>3
  <2> HIDE DEF b, a
  <2>4. \A i \in 1..n + 1 : b[i] = Encode(longer[i])
    <3>1. \A i \in 1..n + 1 : i = n + 1 \/ i \in 1..n
      BY <1>1
    <3> QED BY <2>1, <2>3, <3>1
  <2>5. a = b
    BY <2>2, <2>3, <2>4
  <2> QED BY <2>5 DEF a, b
<1> QED
  BY <1>2, <1>3, <1>4, <1>5

LEMMA PlacedBehind ==
  ASSUME NEW d, NEW o \in Nat, NEW a \in Seq(Byte), NEW b \in Seq(Byte),
         HoldsAt(d, o, a), HoldsAt(d, o + Len(a), b)
  PROVE  HoldsAt(d, o, a \o b) /\ Len(a \o b) = Len(a) + Len(b)
<1> DEFINE c == a \o b
<1>1. Len(a) \in Nat /\ Len(b) \in Nat /\ Len(c) = Len(a) + Len(b)
  OBVIOUS
<1>2. ASSUME NEW i \in 1..Len(c) PROVE d[o + i] = c[i]
  <2>1. CASE i <= Len(a)
    <3>1. i \in 1..Len(a) /\ c[i] = a[i]
      BY <1>1, <2>1
    <3> QED BY <3>1 DEF HoldsAt
  <2>2. CASE ~(i <= Len(a))
    <3>1. i - Len(a) \in 1..Len(b) /\ (o + Len(a)) + (i - Len(a)) = o + i /\ c[i] = b[i - Len(a)]
      BY <1>1, <2>2
    <3>2. d[(o + Len(a)) + (i - Len(a))] = b[i - Len(a)]
      BY <3>1 DEF HoldsAt
    <3> QED BY <3>1, <3>2
  <2> QED BY <2>1, <2>2
<1> HIDE DEF c
<1> QED
  BY <1>1, <1>2 DEF HoldsAt, c

(* The parts of a sequence that was put together of three.                 *)
LEMMA ThreeParts ==
  ASSUME NEW a \in Seq(Byte), NEW b \in Seq(Byte), NEW c \in Seq(Byte)
  PROVE  LET d == a \o b \o c IN
         /\ d \in Seq(Byte) /\ Len(d) = Len(a) + Len(b) + Len(c)
         /\ HoldsAt(d, 0, a) /\ HoldsAt(d, Len(a), b) /\ HoldsAt(d, Len(a) + Len(b), c)
<1> DEFINE e == a \o b
           d == e \o c
<1>1. Len(a) \in Nat /\ Len(b) \in Nat /\ Len(c) \in Nat
  OBVIOUS
<1>2. e \in Seq(Byte) /\ Len(e) = Len(a) + Len(b) /\ d \in Seq(Byte) /\ Len(d) = Len(e) + Len(c)
  BY ConcatProperties
<1>3. \A i \in 1..Len(a) : e[i] = a[i]
  OBVIOUS
<1>4. ASSUME NEW i \in 1..Len(b) PROVE e[Len(a) + i] = b[i]
  <2>1. Len(a) + i \in 1..Len(a) + Len(b) /\ ~(Len(a) + i <= Len(a)) /\ (Len(a) + i) - Len(a) = i
    BY <1>1
  <2> QED BY <2>1
<1> HIDE DEF e
<1>5. \A i \in 1..Len(e) : d[i] = e[i]
  BY <1>2
<1>6. ASSUME NEW i \in 1..Len(c) PROVE d[Len(e) + i] = c[i]
  <2>1. Len(e) + i \in 1..Len(e) + Len(c) /\ ~(Len(e) + i <= Len(e)) /\ (Len(e) + i) - Len(e) = i
    BY <1>1, <1>2
  <2> QED BY <1>2, <2>1
<1> HIDE DEF d
<1>7. HoldsAt(d, 0, a)
  <2>1. \A i \in 1..Len(a) : 0 + i = i /\ i \in 1..Len(e)
    BY <1>1, <1>2
  <2> QED BY <1>3, <1>5, <2>1 DEF HoldsAt
<1>8. HoldsAt(d, Len(a), b)
  <2>1. \A i \in 1..Len(b) : Len(a) + i \in 1..Len(e)
    BY <1>1, <1>2
  <2> QED BY <1>4, <1>5, <2>1 DEF HoldsAt
<1>9. HoldsAt(d, Len(a) + Len(b), c)
  BY <1>2, <1>6 DEF HoldsAt
<1> QED
  BY <1>1, <1>2, <1>7, <1>8, <1>9 DEF d, e

LEMMA PlacedWhole ==
  ASSUME NEW d \in Seq(Byte), NEW s \in Seq(Byte), Len(d) = Len(s), HoldsAt(d, 0, s)
  PROVE  d = s
<1>1. \A i \in 1..Len(s) : d[i] = s[i]
  <2>1. \A i \in 1..Len(s) : 0 + i = i
    OBVIOUS
  <2> QED BY <2>1 DEF HoldsAt
<1> QED
  BY <1>1

-----------------------------------------------------------------------------
(* What follows in the payload of a written row.                           *)
LEMMA NothingYet ==
  /\ Encodes(<<>>) = <<>> /\ RowBodies(<<>>) = <<>> /\ FlattenSeq(<<>>) = <<>>
  /\ Len(FlattenSeq(Encodes(<<>>))) = 0 /\ Len(FlattenSeq(RowBodies(<<>>))) = 0
<1>1. Encodes(<<>>) = <<>> /\ RowBodies(<<>>) = <<>>
  BY DEF Encodes, RowBodies
<1>2. FlattenSeq(<<>>) = <<>>
  BY DEF FlattenSeq
<1> QED
  BY <1>1, <1>2

LEMMA TypesOfRow ==
  ASSUME NEW row \in WrittenRows, NEW d, NEW h \in Nat, h < Largest, RowOf(d, h, row),
         NEW ts \in Seq(Codes), Len(ts) <= Len(row), \A i \in 1..Len(ts) : ts[i] = Serial(row[i])[1]
  PROVE  /\ Len(ts) = Len(row) => AfterTypes(h, ts) = h
         /\ Len(ts) < Len(row) =>
              LET t == Serial(row[Len(ts) + 1])[1] IN
              /\ t \in Codes /\ HoldsAt(d, AfterTypes(h, ts), Encode(t))
              /\ AfterTypes(h, ts) + Len(Encode(t)) <= h /\ Len(Encode(t)) \in 1..MaxBytes
<1> DEFINE ss == RowTypes(row)
           tt == Encodes(ts)
           l == Len(Encode(h))
           k == Len(ts)
<1>1. /\ Len(row) \in Nat /\ \A i \in 1..Len(row) : Serial(row[i])[1] \in Codes
      /\ ss \in Seq(Seq(Byte)) /\ Len(ss) = Len(row) /\ TypeBytes(row) = FlattenSeq(ss) /\ DOMAIN row = 1..Len(row)
  BY RowFacts
<1>2. /\ tt \in Seq(Seq(Byte)) /\ Len(tt) = k /\ FlattenSeq(tt) \in Seq(Byte)
      /\ \A i \in 1..k : tt[i] = Encode(ts[i])
      /\ \A t \in Codes : Len(Encode(t)) \in 1..MaxBytes
  BY EncodesFacts
<1>3. l \in Nat /\ k \in Nat /\ Len(FlattenSeq(tt)) \in Nat
  BY <1>2, EncodeFacts, LenProperties
<1>4. \A i \in 1..Len(row) : ss[i] = Encode(Serial(row[i])[1])
  BY <1>1 DEF RowTypes
<1>5. h = l + Len(FlattenSeq(ss)) /\ HoldsAt(d, l, FlattenSeq(ss))
  BY <1>1 DEF RowOf
<1>6. AfterTypes(h, ts) = l + Len(FlattenSeq(tt))
  BY DEF AfterTypes
<1>7. \A i \in 1..k : tt[i] = ss[i]
  <2>1. \A i \in 1..k : i \in 1..Len(row)
    BY <1>1, <1>3
  <2> QED BY <1>2, <1>4, <2>1
<1>8. Leads(tt, ss) /\ Len(tt) = k
  <2> HIDE DEF ss, tt
  <2> QED BY <1>1, <1>2, <1>7 DEF Leads
<1> HIDE DEF ss, tt, l
<1>9. CASE k = Len(row)
  <2>0. Len(tt) = Len(ss)
    BY <1>1, <1>9, <1>8
  <2>1. tt = ss
    BY ONLY <1>1, <1>2, <1>8, <2>0, LeadsAll
  <2> QED BY <1>5, <1>6, <1>9, <2>1
<1>10. CASE k # Len(row)
  <2> DEFINE t == Serial(row[k + 1])[1]
             a == Len(FlattenSeq(tt))
  <2>1. k < Len(row) /\ k + 1 \in 1..Len(row)
    BY <1>1, <1>3, <1>10
  <2>2. t \in Codes /\ ss[k + 1] = Encode(t)
    BY <1>1, <1>4, <2>1
  <2>3. a + Len(ss[k + 1]) <= Len(FlattenSeq(ss)) /\ \A j \in 1..Len(ss[k + 1]) : FlattenSeq(ss)[a + j] = ss[k + 1][j]
    <3>1. Len(tt) < Len(ss)
      BY <1>1, <1>8, <2>1
    <3>2. LET s == ss[Len(tt) + 1] IN
          /\ s \in Seq(Byte) /\ Len(FlattenSeq(tt)) + Len(s) <= Len(FlattenSeq(ss))
          /\ \A j \in 1..Len(s) : FlattenSeq(ss)[Len(FlattenSeq(tt)) + j] = s[j]
      BY ONLY <1>1, <1>2, <1>8, <3>1, FlattenNext
    <3> QED BY <1>8, <3>2
  <2> HIDE DEF t, a
  <2>4. Len(Encode(t)) \in 1..MaxBytes /\ Len(Encode(t)) \in Nat
    BY <1>2, <2>2, Bases
  <2>5. a \in Nat /\ Len(FlattenSeq(ss)) \in Nat
    <3>1. FlattenSeq(ss) \in Seq(Byte)
      BY <1>1, JointsExist, FlattenIs
    <3> QED BY <1>3, <3>1, LenProperties DEF a
  <2>6. HoldsAt(d, l + a, Encode(t))
    <3>1. ASSUME NEW j \in 1..Len(Encode(t)) PROVE d[(l + a) + j] = Encode(t)[j]
      <4>1. a + j \in 1..Len(FlattenSeq(ss)) /\ l + (a + j) = (l + a) + j
        BY <1>3, <2>2, <2>3, <2>4, <2>5
      <4>2. d[l + (a + j)] = FlattenSeq(ss)[a + j]
        BY <1>5, <4>1 DEF HoldsAt
      <4> QED BY <2>2, <2>3, <4>1, <4>2
    <3> QED BY <3>1 DEF HoldsAt
  <2>7. (l + a) + Len(Encode(t)) <= h
    BY <1>3, <1>5, <2>2, <2>3, <2>4, <2>5
  <2> QED BY <1>6, <1>10, <2>2, <2>4, <2>6, <2>7 DEF a, t
<1> QED
  BY <1>9, <1>10

LEMMA BodiesOfRow ==
  ASSUME NEW row \in WrittenRows, NEW d, NEW h \in Nat, RowOf(d, h, row),
         NEW vs \in Seq(ValueSet), Len(vs) <= Len(row), \A i \in 1..Len(vs) : vs[i] = row[i]
  PROVE  /\ Len(vs) = Len(row) => AfterValues(h, vs) = Len(d)
         /\ Len(vs) < Len(row) =>
              LET b == Serial(row[Len(vs) + 1])[2] IN
              HoldsAt(d, AfterValues(h, vs), b) /\ AfterValues(h, vs) + Len(b) <= Len(d)
<1> DEFINE ss == RowBodies(row)
           tt == RowBodies(vs)
           k == Len(vs)
<1>1. /\ Len(row) \in Nat /\ \A i \in 1..Len(row) : GoesBack(row[i])
      /\ ss \in Seq(Seq(Byte)) /\ Len(ss) = Len(row) /\ Body(row) = FlattenSeq(ss) /\ DOMAIN row = 1..Len(row)
  BY RowFacts
<1>2. k \in Nat /\ DOMAIN vs = 1..k
  BY LenProperties
<1>3. \A i \in 1..Len(row) : ss[i] = Serial(row[i])[2] /\ ss[i] \in Seq(Byte)
  BY <1>1 DEF RowBodies, GoesBack
<1>4. \A i \in 1..k : i \in 1..Len(row)
  BY <1>1, <1>2
<1>5. tt \in Seq(Seq(Byte)) /\ Len(tt) = k /\ \A i \in 1..k : tt[i] = ss[i]
  <2>1. tt = [i \in 1..k |-> Serial(vs[i])[2]]
    BY <1>2 DEF RowBodies
  <2>2. \A i \in 1..k : Serial(vs[i])[2] = ss[i] /\ ss[i] \in Seq(Byte)
    BY <1>3, <1>4
  <2> HIDE DEF tt, ss, k
  <2> QED BY <1>2, <2>1, <2>2
<1>6. FlattenSeq(tt) \in Seq(Byte) /\ FlattenSeq(ss) \in Seq(Byte)
  BY <1>1, <1>5, JointsExist, FlattenIs
<1>7. Len(d) = h + Len(FlattenSeq(ss)) /\ HoldsAt(d, h, FlattenSeq(ss))
  BY <1>1 DEF RowOf
<1>8. AfterValues(h, vs) = h + Len(FlattenSeq(tt))
  BY DEF AfterValues
<1> HIDE DEF ss, tt
<1>9. Leads(tt, ss) /\ Len(tt) = k
  BY <1>1, <1>5 DEF Leads
<1>10. CASE k = Len(row)
  <2>0. Len(tt) = Len(ss)
    BY <1>1, <1>10, <1>9
  <2>1. tt = ss
    BY ONLY <1>1, <1>5, <1>9, <2>0, LeadsAll
  <2>2. AfterValues(h, vs) = Len(d)
    BY <1>7, <1>8, <2>1
  <2> QED BY <1>10, <2>2
<1>11. CASE k # Len(row)
  <2> DEFINE b == Serial(row[k + 1])[2]
             a == Len(FlattenSeq(tt))
  <2>1. k < Len(row) /\ k + 1 \in 1..Len(row)
    BY <1>1, <1>2, <1>11
  <2>2. ss[k + 1] = b /\ b \in Seq(Byte)
    BY <1>3, <2>1
  <2>3. a + Len(ss[k + 1]) <= Len(FlattenSeq(ss)) /\ \A j \in 1..Len(ss[k + 1]) : FlattenSeq(ss)[a + j] = ss[k + 1][j]
    <3>1. Len(tt) < Len(ss)
      BY <1>1, <1>9, <2>1
    <3>2. LET s == ss[Len(tt) + 1] IN
          /\ s \in Seq(Byte) /\ Len(FlattenSeq(tt)) + Len(s) <= Len(FlattenSeq(ss))
          /\ \A j \in 1..Len(s) : FlattenSeq(ss)[Len(FlattenSeq(tt)) + j] = s[j]
      BY ONLY <1>1, <1>5, <1>9, <3>1, FlattenNext
    <3> QED BY <1>9, <3>2
  <2>4. a \in Nat /\ Len(FlattenSeq(ss)) \in Nat
    BY <1>6, LenProperties
  <2> HIDE DEF b, a
  <2>5. Len(b) \in Nat
    BY <2>2, LenProperties
  <2>6. HoldsAt(d, h + a, b)
    <3>1. ASSUME NEW j \in 1..Len(b) PROVE d[(h + a) + j] = b[j]
      <4>1. a + j \in 1..Len(FlattenSeq(ss)) /\ h + (a + j) = (h + a) + j
        BY <2>2, <2>3, <2>4, <2>5
      <4>2. d[h + (a + j)] = FlattenSeq(ss)[a + j]
        BY <1>7, <4>1 DEF HoldsAt
      <4> QED BY <2>2, <2>3, <4>1, <4>2
    <3> QED BY <3>1 DEF HoldsAt
  <2>7. (h + a) + Len(b) <= Len(d)
    BY <1>7, <2>2, <2>3, <2>4, <2>5
  <2> QED BY <1>8, <1>11, <2>6, <2>7 DEF a, b
<1> QED
  BY <1>10, <1>11

-----------------------------------------------------------------------------
(* The record in hand, step by step.                                       *)
LEMMA ByteIs == Seq(0..ByteRange - 1) = Seq(Byte)
BY DEF Byte

(* A size that fits its own header was spelled by the code's encoder.      *)
LEMMA SizeOfRow ==
  ASSUME NEW row \in WrittenRows, NEW d \in Encodings(row)
  PROVE  \E h \in Nat : /\ h < Largest /\ d \in Seq(Byte) /\ HoldsAt(d, 0, Encode(h))
                        /\ RowOf(d, h, row) /\ Len(Encode(h)) \in 1..MaxBytes
<1> DEFINE a == TypeBytes(row)
           c == Body(row)
<1>1. a \in Seq(Byte) /\ c \in Seq(Byte) /\ Len(a) + MaxBytes < Largest
  BY RowFacts
<1>2. PICK h \in HeaderSizes(row) : d = Encode(h) \o a \o c
  BY DEF Encodings
<1>3. h \in 1..Len(a) + MaxBytes /\ h = Len(Encode(h)) + Len(a)
  BY DEF HeaderSizes
<1> HIDE DEF a, c
<1>4. h \in Nat /\ h < Largest
  <2>1. Len(a) \in Nat /\ MaxBytes \in Nat /\ Largest \in Nat
    BY <1>1, Bases, LenProperties DEF Positive
  <2> QED BY <1>1, <1>3, <2>1
<1> DEFINE e == Encode(h)
<1>5. e \in Seq(Byte) /\ Len(e) \in 1..MaxBytes
  BY <1>4, EncodeFacts
<1> HIDE DEF e
<1>6. d = e \o a \o c
  BY <1>2 DEF e
<1>7. /\ d \in Seq(Byte) /\ Len(d) = Len(e) + Len(a) + Len(c)
      /\ HoldsAt(d, 0, e) /\ HoldsAt(d, Len(e), a) /\ HoldsAt(d, Len(e) + Len(a), c)
  BY <1>1, <1>5, <1>6, ThreeParts
<1>8. h = Len(e) + Len(a)
  BY <1>3 DEF e
<1>9. RowOf(d, h, row)
  BY <1>7, <1>8 DEF RowOf, a, c, e
<1> QED
  BY <1>4, <1>5, <1>7, <1>9 DEF e

LEMMA RecordInvInit == RecordInit => RecordInv
<1> SUFFICES ASSUME RecordInit PROVE RecordInv
  OBVIOUS
<1>1. /\ record_phase = "size" /\ offset = 0 /\ types = <<>> /\ values = <<>> /\ fields \in Nat
  BY RecordForm DEF RecordInit
<1>2. payload \in Seq(Byte) /\ (written # <<>> => written \in WrittenRows /\ Len(written) = fields /\ payload \in Encodings(written))
  <2>1. CASE payload \in Payloads /\ written = <<>>
    BY <2>1, RecordForm, ByteIs
  <2>2. CASE \E row \in WrittenRows : written = row /\ Len(row) = fields /\ payload \in Encodings(row)
    BY <2>2, SizeOfRow
  <2> QED BY <2>1, <2>2 DEF RecordInit
<1>3. RecordNumbers
  <2>1. Len(payload) \in Nat /\ Len(<<>>) = 0
    BY <1>2, LenProperties
  <2> QED BY <1>1, <1>2, <2>1 DEF RecordNumbers
<1> QED
  BY <1>1, <1>2, <1>3 DEF RecordInv, WhileSize, WhileTypes, WhileBody, WhenAccepted, WhenWritten

LEMMA RecordRefusal ==
  ASSUME RecordInv, RefuseRecord, UNCHANGED <<payload, fields, written>>, written = <<>>
  PROVE  RecordInv'
<1>1. RecordNumbers'
  BY DEF RecordInv, RecordNumbers, RefuseRecord
<1>2. WhileSize' /\ WhileTypes' /\ WhileBody' /\ WhenAccepted' /\ WhenWritten'
  BY DEF RefuseRecord, WhileSize, WhileTypes, WhileBody, WhenAccepted, WhenWritten
<1> QED
  BY <1>1, <1>2 DEF RecordInv

LEMMA HeaderSizeStep ==
  ASSUME RecordInv, ReadHeaderSize, UNCHANGED <<payload, fields, written>>
  PROVE  RecordInv'
<1> DEFINE size == Varint(payload, 0, Len(payload))
           taken == size.ok /\ size.end <= size.value /\ size.value <= Len(payload)
<1>1. /\ record_phase = "size" /\ types = <<>> /\ values = <<>>
      /\ payload \in Seq(Byte) /\ fields \in Nat
      /\ written # <<>> => written \in WrittenRows /\ Len(written) = fields /\ payload \in Encodings(written)
  BY DEF ReadHeaderSize, RecordInv, RecordNumbers, WhileSize, WhenWritten
<1>2. Len(payload) \in Nat /\ Len(payload) \in 0..Len(payload)
  BY <1>1, LenProperties
<1>3. IF taken
      THEN /\ record_phase' = "types" /\ offset' = size.end /\ headerEnd' = size.value
           /\ UNCHANGED <<types, values>>
      ELSE RefuseRecord
  BY DEF ReadHeaderSize
<1>4. ASSUME written # <<>> PROVE taken /\ RowOf(payload, size.value, written)
  <2>1. PICK h \in Nat : /\ h < Largest /\ HoldsAt(payload, 0, Encode(h))
                         /\ RowOf(payload, h, written) /\ Len(Encode(h)) \in 1..MaxBytes
    BY <1>1, <1>4, SizeOfRow
  <2>2. TypeBytes(written) \in Seq(Byte) /\ Body(written) \in Seq(Byte)
    BY <1>1, <1>4, RowFacts
  <2>3. /\ h = Len(Encode(h)) + Len(TypeBytes(written)) /\ Len(payload) = h + Len(Body(written))
    BY <2>1 DEF RowOf
  <2> DEFINE l == Len(Encode(h))
  <2>4. l \in Nat /\ l <= h /\ h <= Len(payload) /\ 0 + l = l
    <3>1. Len(TypeBytes(written)) \in Nat /\ Len(Body(written)) \in Nat /\ l \in Nat
      BY <2>1, <2>2, LenProperties
    <3> HIDE DEF l
    <3>2. h = l + Len(TypeBytes(written))
      BY <2>3 DEF l
    <3> QED BY <2>1, <2>3, <3>1, <3>2
  <2>5. 0 + l <= Len(payload)
    BY <1>2, <2>1, <2>4
  <2>6. LET r == Varint(payload, 0, Len(payload)) IN r.ok /\ r.value = h /\ r.end = 0 + Len(Encode(h))
    BY ONLY <1>1, <1>2, <2>1, <2>5, 0 \in Nat, VarintPlaced
  <2> HIDE DEF l
  <2>7. size.ok /\ size.value = h /\ size.end = l
    BY <2>4, <2>6 DEF l
  <2> HIDE DEF size
  <2> QED BY <2>1, <2>4, <2>7
<1>5. CASE taken
  <2> DEFINE h == size.value
  <2>1. /\ h \in Nat /\ h < Largest /\ Encode(h) \in Seq(Byte) /\ Len(Encode(h)) \in 1..MaxBytes
        /\ size.end = 0 + Len(Encode(h)) /\ HoldsAt(payload, 0, Encode(h))
    <3>1. size.ok
      BY <1>5
    <3>2. LET r == Varint(payload, 0, Len(payload))
              e == Encode(r.value)
          IN  /\ r.value \in Nat /\ r.value < Largest /\ e \in Seq(Byte) /\ Len(e) \in 1..MaxBytes
              /\ r.end = 0 + Len(e) /\ r.end <= Len(payload) /\ HoldsAt(payload, 0, e)
      BY ONLY <1>1, <1>2, <3>1, 0 \in Nat, VarintTaken
    <3> QED BY <3>2
  <2>2. size.end = Len(Encode(h)) /\ size.end <= h /\ h <= Len(payload) /\ size.end \in Nat
    BY <1>5, <2>1, Bases
  <2>3. record_phase' = "types" /\ offset' = size.end /\ headerEnd' = h /\ types' = <<>> /\ values' = <<>>
    BY <1>1, <1>3, <1>5
  <2>4. written # <<>> => RowOf(payload, h, written)
    BY <1>4
  <2> HIDE DEF h, size, taken
  <2>5. HeaderOf(payload, h, <<>>)
    <3>1. HoldsAt(payload, Len(Encode(h)), FlattenSeq(Encodes(<<>>)))
      BY NothingYet DEF HoldsAt
    <3>2. <<>> \in Seq(Codes)
      OBVIOUS
    <3> QED BY <2>1, <2>2, <3>1, <3>2 DEF HeaderOf
  <2>6. size.end = AfterTypes(h, <<>>)
    BY <2>1, <2>2, NothingYet DEF AfterTypes
  <2>7. RecordNumbers'
    <3>1. size.end \in 0..Len(payload) /\ Len(<<>>) = 0 /\ <<>> \in Seq(Codes) /\ <<>> \in Seq(ValueSet)
      BY <1>2, <2>1, <2>2
    <3> QED BY <1>1, <2>3, <3>1 DEF RecordNumbers
  <2>8. WhileTypes'
    BY <2>2, <2>3, <2>5, <2>6 DEF WhileTypes
  <2>9. WhileSize' /\ WhileBody' /\ WhenAccepted'
    BY <2>3 DEF WhileSize, WhileBody, WhenAccepted
  <2>10. WhenWritten'
    <3>1. BeginsRow(written, <<>>, <<>>)
      BY DEF BeginsRow
    <3> QED BY <1>1, <2>3, <2>4, <3>1 DEF WhenWritten
  <2> QED BY <2>7, <2>8, <2>9, <2>10 DEF RecordInv
<1>6. CASE ~taken
  <2>1. RefuseRecord /\ written = <<>>
    BY <1>3, <1>4, <1>6
  <2> QED BY <2>1, RecordRefusal
<1> QED
  BY <1>5, <1>6

LEMMA TypeStep ==
  ASSUME RecordInv, ReadType, UNCHANGED <<payload, fields, written>>
  PROVE  RecordInv'
<1> DEFINE type == Varint(payload, offset, headerEnd)
           h == headerEnd
<1>1. /\ record_phase = "types" /\ offset < h /\ values = <<>>
      /\ HeaderOf(payload, h, types) /\ offset = AfterTypes(h, types)
  BY DEF ReadType, RecordInv, WhileTypes
<1>2. /\ payload \in Seq(Byte) /\ fields \in Nat /\ offset \in Nat /\ types \in Seq(Codes) /\ Len(types) <= fields
      /\ Len(payload) \in Nat /\ Len(types) \in Nat
  BY LenProperties DEF RecordInv, RecordNumbers
<1>3. h \in Nat /\ h < Largest /\ h <= Len(payload) /\ h \in 0..Len(payload)
  BY <1>1, <1>2 DEF HeaderOf
<1>4. IF type.ok /\ Room
      THEN /\ types' = Append(types, type.value) /\ offset' = type.end
           /\ UNCHANGED <<record_phase, headerEnd, values>>
      ELSE RefuseRecord
  BY DEF ReadType
<1>5. written # <<>> =>
        /\ written \in WrittenRows /\ Len(written) = fields
        /\ RowOf(payload, h, written) /\ \A i \in 1..Len(types) : types[i] = Serial(written[i])[1]
  BY <1>1 DEF RecordInv, WhenWritten, BeginsRow
<1>6. ASSUME written # <<>>
      PROVE  type.ok /\ Room /\ type.value = Serial(written[Len(types) + 1])[1]
  <2>1. /\ Len(types) = Len(written) => AfterTypes(h, types) = h
        /\ Len(types) < Len(written) =>
             LET t == Serial(written[Len(types) + 1])[1] IN
             /\ t \in Codes /\ HoldsAt(payload, AfterTypes(h, types), Encode(t))
             /\ AfterTypes(h, types) + Len(Encode(t)) <= h /\ Len(Encode(t)) \in 1..MaxBytes
    <3> HIDE DEF h
    <3> QED BY <1>2, <1>3, <1>5, <1>6, TypesOfRow
  <2>2. Len(types) < Len(written) /\ Room
    <3>1. Len(types) # Len(written)
      BY <1>1, <1>2, <1>3, <2>1
    <3> QED BY <1>2, <1>5, <1>6, <3>1 DEF Room
  <2> DEFINE t == Serial(written[Len(types) + 1])[1]
  <2>3. t \in Codes /\ HoldsAt(payload, offset, Encode(t)) /\ offset + Len(Encode(t)) <= h
    BY <1>1, <2>1, <2>2
  <2>4. t \in Nat /\ t < Largest
    BY <2>3, CodesAre
  <2> HIDE DEF t, h
  <2>5. LET r == Varint(payload, offset, h) IN r.ok /\ r.value = t /\ r.end = offset + Len(Encode(t))
    BY ONLY <1>2, <1>3, <2>3, <2>4, VarintPlaced
  <2> QED BY <2>2, <2>5 DEF t, h
<1>7. CASE type.ok /\ Room
  <2> DEFINE t == type.value
             e == Encode(t)
             f == FlattenSeq(Encodes(types))
             l == Len(Encode(h))
             tt == Append(types, t)
  <2>1. /\ t \in Nat /\ t < Largest /\ e \in Seq(Byte) /\ Len(e) \in 1..MaxBytes
        /\ type.end = offset + Len(e) /\ type.end <= h /\ HoldsAt(payload, offset, e)
    <3> HIDE DEF h
    <3>1. Varint(payload, offset, h).ok
      BY <1>7 DEF h
    <3>2. LET r == Varint(payload, offset, h)
              x == Encode(r.value)
          IN  /\ r.value \in Nat /\ r.value < Largest /\ x \in Seq(Byte) /\ Len(x) \in 1..MaxBytes
              /\ r.end = offset + Len(x) /\ r.end <= h /\ HoldsAt(payload, offset, x)
      BY ONLY <1>2, <1>3, <3>1, VarintTaken
    <3> QED BY <3>2 DEF h
  <2>2. t \in Codes
    BY <2>1, CodesAre
  <2>3. types' = tt /\ offset' = type.end /\ record_phase' = "types" /\ headerEnd' = h /\ values' = <<>>
    BY <1>1, <1>4, <1>7
  <2>4. written # <<>> => t = Serial(written[Len(types) + 1])[1]
    BY <1>6
  <2>5. Len(types) < fields
    BY <1>7 DEF Room
  <2> HIDE DEF t, e, type, h, l
  <2>6. f \in Seq(Byte) /\ FlattenSeq(Encodes(tt)) = f \o e
    <3>1. Encodes(types) \in Seq(Seq(Byte)) /\ Encodes(tt) = Append(Encodes(types), e) /\ f \in Seq(Byte)
      BY <1>2, <2>2, EncodesFacts DEF e
    <3> QED BY <2>1, <3>1, FlattenStep
  <2>7. offset = l + Len(f) /\ HoldsAt(payload, l, f) /\ l \in Nat /\ Len(f) \in Nat
    <3>1. offset = l + Len(f) /\ HoldsAt(payload, l, f)
      BY <1>1 DEF HeaderOf, AfterTypes, l
    <3>2. l \in Nat /\ Len(f) \in Nat
      BY <1>3, <2>6, EncodeFacts, LenProperties DEF l
    <3> QED BY <3>1, <3>2
  <2> HIDE DEF f, tt
  <2>8. HoldsAt(payload, l, f \o e) /\ Len(f \o e) = Len(f) + Len(e)
    BY <2>1, <2>6, <2>7, PlacedBehind
  <2>9. Len(e) \in Nat /\ type.end = l + Len(FlattenSeq(Encodes(tt))) /\ type.end \in 0..Len(payload)
    <3>1. Len(e) \in Nat
      BY <2>1, LenProperties
    <3> QED BY <1>2, <1>3, <2>1, <2>6, <2>7, <2>8, <3>1
  <2>10. tt \in Seq(Codes) /\ Len(tt) = Len(types) + 1 /\ Len(tt) <= fields
    BY <1>2, <2>2, <2>5, AppendProperties DEF tt
  <2>11. HeaderOf(payload, h, tt) /\ type.end = AfterTypes(h, tt)
    BY <1>1, <2>6, <2>8, <2>9, <2>10 DEF HeaderOf, AfterTypes, l
  <2>12. RecordNumbers'
    <3>1. <<>> \in Seq(ValueSet) /\ Len(<<>>) = 0
      OBVIOUS
    <3>2. Len(tt) >= 0
      BY <1>2, <2>10
    <3> QED BY <1>2, <2>3, <2>9, <2>10, <3>1, <3>2 DEF RecordNumbers
  <2>13. WhileTypes'
    BY <2>1, <2>3, <2>11 DEF WhileTypes
  <2>14. WhileSize' /\ WhileBody' /\ WhenAccepted'
    BY <2>3 DEF WhileSize, WhileBody, WhenAccepted
  <2>15. WhenWritten'
    <3>1. ASSUME written # <<>> PROVE BeginsRow(written, tt, <<>>)
      <4>1. \A i \in 1..Len(tt) : tt[i] = Serial(written[i])[1]
        <5>1. \A i \in 1..Len(types) : tt[i] = types[i]
          BY <1>2, <2>2, AppendProperties DEF tt
        <5>2. tt[Len(types) + 1] = t
          BY <1>2, <2>2, AppendProperties DEF tt
        <5>3. \A i \in 1..Len(tt) : i \in 1..Len(types) \/ i = Len(types) + 1
          BY <1>2, <2>10
        <5> QED BY <1>5, <2>4, <3>1, <5>1, <5>2, <5>3
      <4> QED BY <4>1 DEF BeginsRow
    <3> QED BY <1>5, <2>3, <3>1 DEF WhenWritten
  <2> QED BY <2>12, <2>13, <2>14, <2>15 DEF RecordInv
<1>8. CASE ~(type.ok /\ Room)
  <2>1. RefuseRecord /\ written = <<>>
    BY <1>4, <1>6, <1>8
  <2> QED BY <2>1, RecordRefusal
<1> QED
  BY <1>7, <1>8

LEMMA TypesEndStep ==
  ASSUME RecordInv, EndTypes, UNCHANGED <<payload, fields, written>>
  PROVE  RecordInv'
<1> DEFINE h == headerEnd
<1>1. /\ record_phase = "types" /\ offset = h /\ values = <<>>
      /\ HeaderOf(payload, h, types) /\ offset = AfterTypes(h, types)
  BY DEF EndTypes, RecordInv, WhileTypes
<1>2. /\ payload \in Seq(Byte) /\ fields \in Nat /\ offset \in Nat /\ types \in Seq(Codes) /\ Len(types) <= fields
      /\ Len(payload) \in Nat /\ Len(types) \in Nat /\ RecordNumbers
  BY LenProperties DEF RecordInv, RecordNumbers
<1>3. h \in Nat /\ h < Largest
  BY <1>1 DEF HeaderOf
<1>4. IF Len(types) = fields
      THEN record_phase' = "body" /\ UNCHANGED <<offset, headerEnd, types, values>>
      ELSE RefuseRecord
  BY DEF EndTypes
<1>5. written # <<>> =>
        /\ written \in WrittenRows /\ Len(written) = fields
        /\ RowOf(payload, h, written) /\ BeginsRow(written, types, values)
  BY <1>1 DEF RecordInv, WhenWritten
<1> HIDE DEF h
<1>6. ASSUME written # <<>> PROVE Len(types) = fields
  <2>1. \A i \in 1..Len(types) : types[i] = Serial(written[i])[1]
    BY <1>5, <1>6 DEF BeginsRow
  <2>2. Len(types) < Len(written) =>
             LET t == Serial(written[Len(types) + 1])[1] IN
             /\ t \in Codes /\ HoldsAt(payload, AfterTypes(h, types), Encode(t))
             /\ AfterTypes(h, types) + Len(Encode(t)) <= h /\ Len(Encode(t)) \in 1..MaxBytes
    BY <1>2, <1>3, <1>5, <1>6, <2>1, TypesOfRow
  <2>3. ~(Len(types) < Len(written))
    <3> SUFFICES ASSUME Len(types) < Len(written) PROVE FALSE
      OBVIOUS
    <3> DEFINE l == Len(Encode(Serial(written[Len(types) + 1])[1]))
    <3>1. h + l <= h /\ l \in 1..MaxBytes
      BY <1>1, <2>2
    <3> HIDE DEF l
    <3> QED BY <1>3, <3>1, Bases
  <2> QED BY <1>2, <1>5, <1>6, <2>3
<1>7. CASE Len(types) = fields
  <2>1. record_phase' = "body" /\ offset' = h /\ headerEnd' = h /\ types' = types /\ values' = <<>>
    BY <1>1, <1>4, <1>7 DEF h
  <2>2. BodyOf(payload, h, types, <<>>)
    <3>1. <<>> \in Seq(ValueSet) /\ Len(<<>>) = 0 /\ HoldsAt(payload, h, <<>>)
      BY DEF HoldsAt
    <3>2. FlattenSeq(RowBodies(<<>>)) = <<>>
      BY NothingYet
    <3> QED BY <1>2, <3>1, <3>2 DEF BodyOf
  <2>3. h = AfterValues(h, <<>>)
    BY <1>3, NothingYet DEF AfterValues
  <2>4. RecordNumbers'
    BY <1>1, <1>2, <2>1 DEF RecordNumbers
  <2>5. WhileBody'
    BY <1>1, <1>7, <2>1, <2>2, <2>3 DEF WhileBody
  <2>6. WhileSize' /\ WhileTypes' /\ WhenAccepted'
    BY <2>1 DEF WhileSize, WhileTypes, WhenAccepted
  <2>7. WhenWritten'
    BY <1>1, <1>5, <2>1 DEF WhenWritten
  <2> QED BY <2>4, <2>5, <2>6, <2>7 DEF RecordInv
<1>8. CASE Len(types) # fields
  <2>1. RefuseRecord /\ written = <<>>
    BY <1>4, <1>6, <1>8
  <2> QED BY <2>1, RecordRefusal
<1> QED
  BY <1>7, <1>8

(* A value taken is written with the type and the bytes it was read from.  *)
LEMMA BodiesAppend ==
  ASSUME NEW vs \in Seq(ValueSet), \A i \in 1..Len(vs) : Serial(vs[i])[2] \in Seq(Byte),
         NEW v \in ValueSet, NEW b \in Seq(Byte), Serial(v)[2] = b
  PROVE  /\ RowBodies(vs) \in Seq(Seq(Byte))
         /\ RowBodies(Append(vs, v)) = Append(RowBodies(vs), b)
<1> DEFINE n == Len(vs)
           longer == Append(vs, v)
           c == RowBodies(longer)
           r == RowBodies(vs)
           e == Append(r, b)
<1>1. n \in Nat /\ DOMAIN vs = 1..n
  BY LenProperties
<1>2. r = [i \in 1..n |-> Serial(vs[i])[2]]
  BY <1>1 DEF RowBodies
<1>3. r \in Seq(Seq(Byte)) /\ Len(r) = n /\ \A i \in 1..n : r[i] = Serial(vs[i])[2]
  <2> HIDE DEF n, r
  <2> QED BY <1>1, <1>2 DEF n
<1>4. DOMAIN longer = 1..n + 1 /\ longer[n + 1] = v /\ \A i \in 1..n : longer[i] = vs[i]
  BY <1>1, AppendProperties
<1> HIDE DEF longer
<1>5. c = [i \in 1..n + 1 |-> Serial(longer[i])[2]]
  BY <1>4 DEF RowBodies
<1> HIDE DEF r, n
<1>6. e \in Seq(Seq(Byte)) /\ Len(e) = n + 1 /\ e[n + 1] = b /\ \A i \in 1..n : e[i] = r[i]
  BY <1>3, AppendProperties
<1> HIDE DEF c, e
<1>7. DOMAIN e = 1..n + 1 /\ e = [i \in DOMAIN e |-> e[i]]
  BY <1>1, <1>6
<1>8. \A i \in 1..n + 1 : e[i] = Serial(longer[i])[2]
  <2>1. \A i \in 1..n + 1 : i = n + 1 \/ i \in 1..n
    BY <1>1
  <2> QED BY <1>3, <1>4, <1>6, <2>1
<1>9. c = e
  BY <1>5, <1>7, <1>8
<1> QED
  BY <1>3, <1>9 DEF c, e, r, longer

LEMMA ValueStep ==
  ASSUME RecordInv, ReadValue, UNCHANGED <<payload, fields, written>>
  PROVE  RecordInv'
<1> DEFINE h == headerEnd
           k == Len(values)
           type == types[k + 1]
           w == WidthOf(type)
           body == SubSeq(payload, offset + 1, offset + w)
           v == ValueOf(type, body)
           taken == /\ type \notin {10, 11} /\ offset + w <= Len(payload)
                    /\ Readable(type, body) /\ Canonical(type, body)
<1>1. /\ record_phase = "body" /\ k < Len(types)
      /\ HeaderOf(payload, h, types) /\ h = AfterTypes(h, types)
      /\ Len(types) = fields /\ BodyOf(payload, h, types, values) /\ offset = AfterValues(h, values)
  BY DEF ReadValue, RecordInv, WhileBody
<1>2. /\ payload \in Seq(Byte) /\ fields \in Nat /\ offset \in Nat /\ types \in Seq(Codes) /\ values \in Seq(ValueSet)
      /\ Len(payload) \in Nat /\ Len(types) \in Nat /\ k \in Nat /\ Len(payload) \in 0..Len(payload)
  BY LenProperties DEF RecordInv, RecordNumbers
<1>3. h \in Nat /\ h < Largest
  BY <1>1 DEF HeaderOf
<1>4. IF taken
      THEN /\ values' = Append(values, v) /\ offset' = offset + w
           /\ UNCHANGED <<record_phase, headerEnd, types>>
      ELSE RefuseRecord
  BY DEF ReadValue
<1>5. written # <<>> =>
        /\ written \in WrittenRows /\ Len(written) = fields
        /\ RowOf(payload, h, written) /\ BeginsRow(written, types, values)
  BY <1>1 DEF RecordInv, WhenWritten
<1>6. k + 1 \in 1..Len(types) /\ type \in Nat
  <2>1. k + 1 \in 1..Len(types)
    BY <1>1, <1>2
  <2>2. type \in Codes
    BY <1>2, <2>1, ElementOfSeq
  <2> QED BY <2>1, <2>2, CodesAre
<1>7. ASSUME written # <<>> PROVE taken /\ v = written[k + 1]
  <2> DEFINE x == written[k + 1]
             b == Serial(x)[2]
  <2>1. \A i \in 1..k : values[i] = written[i]
    BY <1>5, <1>7 DEF BeginsRow
  <2>2. type = Serial(x)[1] /\ GoesBack(x) /\ k < Len(written)
    <3>1. GoesBack(x)
      BY <1>1, <1>5, <1>6, <1>7, RowFacts
    <3> QED BY <1>1, <1>5, <1>6, <1>7, <3>1 DEF BeginsRow
  <2>3. HoldsAt(payload, offset, b) /\ offset + Len(b) <= Len(payload)
    <3> HIDE DEF h
    <3>1. Len(values) <= Len(written)
      BY <1>2, <2>2
    <3>2. Len(values) < Len(written) =>
              LET c == Serial(written[Len(values) + 1])[2] IN
              HoldsAt(payload, AfterValues(h, values), c) /\ AfterValues(h, values) + Len(c) <= Len(payload)
      BY <1>2, <1>3, <1>5, <1>7, <2>1, <3>1, BodiesOfRow
    <3> QED BY <1>1, <2>2, <3>2
  <2>4. /\ IsPair(Serial(x)) /\ type \notin {10, 11} /\ b \in Seq(Byte)
        /\ w = Len(b) /\ Readable(type, b) /\ ValueOf(type, b) = x
    BY <2>2 DEF GoesBack
  <2>5. body = b
    <3> HIDE DEF b, w
    <3>1. w \in Nat /\ offset + w <= Len(payload)
      BY <2>3, <2>4, LenProperties
    <3>2. body \in Seq(Byte) /\ Len(body) = w /\ \A i \in 1..w : body[i] = payload[offset + i]
      BY <1>2, <3>1, BytesInside
    <3> HIDE DEF body
    <3>3. \A i \in 1..w : body[i] = b[i]
      BY <2>3, <2>4, <3>2 DEF HoldsAt
    <3> QED BY <2>4, <3>2, <3>3
  <2>6. Canonical(type, body)
    <3>1. Serial(x) = <<type, b>>
      BY <2>2, <2>4 DEF IsPair
    <3>2. ValueOf(type, body) = x
      BY <2>4, <2>5
    <3> HIDE DEF x, b, body, type
    <3> QED BY <2>5, <3>1, <3>2 DEF Canonical
  <2> HIDE DEF type, w, body, b, x
  <2> QED BY <2>3, <2>4, <2>5, <2>6 DEF x
<1>8. CASE taken
  <2>1. /\ type \in Nat \ {10, 11} /\ offset + w <= Len(payload) /\ Canonical(type, body)
        /\ values' = Append(values, v) /\ offset' = offset + w
        /\ record_phase' = "body" /\ headerEnd' = h /\ types' = types
    BY <1>1, <1>4, <1>6, <1>8
  <2>2. w \in Nat
    BY <2>1, WidthFacts
  <2> HIDE DEF w
  <2>3. body \in Seq(Byte) /\ Len(body) = w /\ \A i \in 1..w : body[i] = payload[offset + i]
    BY <1>2, <2>1, <2>2, BytesInside
  <2> HIDE DEF body
  <2>4. Serial(v) = <<type, body>> /\ v \in ValueSet
    <3>1. v \in ValueSet
      BY <2>1, <2>3 DEF ValueSet
    <3> QED BY <2>1, <3>1 DEF Canonical
  <2>5. written # <<>> => v = written[k + 1]
    BY <1>7
  <2> HIDE DEF v, taken, h
  <2>6. Serial(v)[1] = type /\ Serial(v)[2] = body
    BY <2>4
  <2> DEFINE vs == Append(values, v)
             f == FlattenSeq(RowBodies(values))
  <2>7. \A i \in 1..k : Serial(values[i])[1] = types[i] /\ Serial(values[i])[2] \in Seq(Byte)
    BY <1>1 DEF BodyOf
  <2>8. f \in Seq(Byte) /\ FlattenSeq(RowBodies(vs)) = f \o body
    <3>1. RowBodies(values) \in Seq(Seq(Byte)) /\ RowBodies(vs) = Append(RowBodies(values), body)
      BY <1>2, <2>3, <2>4, <2>6, <2>7, BodiesAppend
    <3> QED BY <2>3, <3>1, FlattenStep
  <2>9. offset = h + Len(f) /\ HoldsAt(payload, h, f)
    BY <1>1 DEF BodyOf, AfterValues
  <2> HIDE DEF f
  <2>10. HoldsAt(payload, offset, body)
    BY <2>3 DEF HoldsAt
  <2>11. HoldsAt(payload, h, f \o body) /\ Len(f \o body) = Len(f) + w /\ Len(f) \in Nat
    <3>1. HoldsAt(payload, h + Len(f), body)
      BY <2>9, <2>10
    <3>2. HoldsAt(payload, h, f \o body) /\ Len(f \o body) = Len(f) + Len(body)
      BY <1>3, <2>3, <2>8, <2>9, <3>1, PlacedBehind
    <3> QED BY <2>3, <2>8, <3>2, LenProperties
  <2>12. vs \in Seq(ValueSet) /\ Len(vs) = k + 1 /\ vs[k + 1] = v /\ \A i \in 1..k : vs[i] = values[i]
    BY <1>2, <2>4, AppendProperties
  <2> HIDE DEF vs
  <2>13. \A i \in 1..k + 1 : i = k + 1 \/ i \in 1..k
    BY <1>2
  <2>14. Len(vs) <= Len(types) /\ offset + w \in 0..Len(payload)
    BY <1>1, <1>2, <2>1, <2>2, <2>12
  <2>15. BodyOf(payload, h, types, vs)
    <3>1. \A i \in 1..Len(vs) : Serial(vs[i])[1] = types[i] /\ Serial(vs[i])[2] \in Seq(Byte)
      BY <2>3, <2>6, <2>7, <2>12, <2>13
    <3> QED BY <2>8, <2>11, <2>12, <2>14, <3>1 DEF BodyOf
  <2>16. offset + w = AfterValues(h, vs)
    BY <1>3, <2>2, <2>8, <2>9, <2>11 DEF AfterValues
  <2>17. /\ record_phase' = "body" /\ offset' = offset + w /\ headerEnd' = h /\ types' = types /\ values' = vs
    BY <2>1 DEF vs
  <2>18. RecordNumbers'
    BY <1>1, <1>2, <2>12, <2>14, <2>17 DEF RecordNumbers, RecordInv
  <2>19. WhileBody'
    BY <1>1, <2>15, <2>16, <2>17 DEF WhileBody
  <2>20. WhileSize' /\ WhileTypes' /\ WhenAccepted'
    BY <2>17 DEF WhileSize, WhileTypes, WhenAccepted
  <2>21. WhenWritten'
    <3>1. ASSUME written # <<>> PROVE BeginsRow(written, types, vs)
      <4>1. \A i \in 1..Len(vs) : vs[i] = written[i]
        BY <1>5, <2>5, <2>12, <2>13, <3>1 DEF BeginsRow
      <4> QED BY <1>5, <3>1, <4>1 DEF BeginsRow
    <3> QED BY <1>5, <2>17, <3>1 DEF WhenWritten
  <2> QED BY <2>18, <2>19, <2>20, <2>21 DEF RecordInv
<1>9. CASE ~taken
  <2>1. RefuseRecord /\ written = <<>>
    <3> HIDE DEF taken
    <3> QED BY <1>4, <1>7, <1>9
  <2> QED BY <2>1, RecordRefusal
<1> QED
  BY <1>8, <1>9

LEMMA BodyEndStep ==
  ASSUME RecordInv, EndBody, UNCHANGED <<payload, fields, written>>
  PROVE  RecordInv'
<1> DEFINE h == headerEnd
<1>1. /\ record_phase = "body" /\ Len(values) = Len(types)
      /\ HeaderOf(payload, h, types) /\ Len(types) = fields /\ offset = AfterValues(h, values)
      /\ record_phase' = (IF offset = Len(payload) THEN "accepted" ELSE "refused")
      /\ UNCHANGED <<offset, headerEnd, types, values>>
  BY DEF EndBody, RecordInv, WhileBody
<1>2. written # <<>> =>
        /\ written \in WrittenRows /\ Len(written) = fields
        /\ RowOf(payload, h, written) /\ BeginsRow(written, types, values)
  BY <1>1 DEF RecordInv, WhenWritten
<1>3. h \in Nat /\ values \in Seq(ValueSet) /\ Len(values) \in Nat
  BY <1>1, LenProperties DEF HeaderOf, RecordInv, RecordNumbers
<1>4. ASSUME written # <<>> PROVE offset = Len(payload)
  <2>1. \A i \in 1..Len(values) : values[i] = written[i]
    BY <1>2, <1>4 DEF BeginsRow
  <2>2. Len(values) = Len(written) /\ Len(values) <= Len(written)
    BY <1>1, <1>2, <1>3, <1>4
  <2> HIDE DEF h
  <2>3. AfterValues(h, values) = Len(payload)
    BY <1>2, <1>3, <1>4, <2>1, <2>2, BodiesOfRow
  <2> QED BY <1>1, <2>3
<1>5. RecordNumbers'
  BY <1>1 DEF RecordInv, RecordNumbers
<1>6. WhileBody' /\ WhenAccepted'
  BY <1>1 DEF RecordInv, WhileBody, WhenAccepted
<1>7. WhileSize' /\ WhileTypes'
  BY <1>1 DEF WhileSize, WhileTypes
<1>8. WhenWritten'
  BY <1>1, <1>2, <1>4 DEF WhenWritten
<1> QED
  BY <1>5, <1>6, <1>7, <1>8 DEF RecordInv

LEMMA RecordStands ==
  ASSUME RecordInv, UNCHANGED record_vars
  PROVE  RecordInv'
<1>1. /\ payload' = payload /\ fields' = fields /\ written' = written /\ record_phase' = record_phase
      /\ offset' = offset /\ headerEnd' = headerEnd /\ types' = types /\ values' = values
  BY DEF record_vars
<1>2. RecordNumbers' /\ WhileSize' /\ WhileTypes'
  BY <1>1 DEF RecordInv, RecordNumbers, WhileSize, WhileTypes
<1>3. WhileBody' /\ WhenAccepted' /\ WhenWritten'
  BY <1>1 DEF RecordInv, WhileBody, WhenAccepted, WhenWritten
<1> QED
  BY <1>2, <1>3 DEF RecordInv

LEMMA RecordInvStep == RecordInv /\ [RecordNext]_record_vars => RecordInv'
BY HeaderSizeStep, TypeStep, TypesEndStep, ValueStep, BodyEndStep, RecordStands DEF RecordNext

(* The row that was read is one whose encoding is the payload.             *)
LEMMA AcceptedIsEncoding ==
  ASSUME RecordInv, record_phase = "accepted"
  PROVE  Len(values) = fields /\ payload \in Encodings(values)
<1> DEFINE h == headerEnd
           e == Encode(h)
           a == TypeBytes(values)
           b == Body(values)
<1>1. /\ HeaderOf(payload, h, types) /\ h = AfterTypes(h, types) /\ Len(types) = fields
      /\ BodyOf(payload, h, types, values) /\ offset = AfterValues(h, values)
      /\ Len(values) = Len(types) /\ offset = Len(payload) /\ payload \in Seq(Byte)
  BY DEF RecordInv, RecordNumbers, WhileBody, WhenAccepted
<1>2. /\ h \in Nat /\ h < Largest /\ HoldsAt(payload, 0, e) /\ types \in Seq(Codes)
      /\ HoldsAt(payload, Len(e), FlattenSeq(Encodes(types)))
      /\ values \in Seq(ValueSet) /\ HoldsAt(payload, h, FlattenSeq(RowBodies(values)))
      /\ \A i \in 1..Len(values) : Serial(values[i])[1] = types[i] /\ Serial(values[i])[2] \in Seq(Byte)
  BY <1>1 DEF HeaderOf, BodyOf
<1>3. Len(values) \in Nat /\ DOMAIN values = 1..Len(values) /\ DOMAIN types = 1..Len(values)
  BY <1>1, <1>2, LenProperties
<1>4. RowTypes(values) = Encodes(types)
  BY <1>2, <1>3 DEF RowTypes, Encodes
<1>5. a = FlattenSeq(Encodes(types)) /\ b = FlattenSeq(RowBodies(values))
  <2>1. a = FlattenSeq(RowTypes(values))
    BY DEF TypeBytes, RowTypes
  <2> QED BY <1>4, <2>1 DEF Body, RowBodies
<1>6. a \in Seq(Byte) /\ Len(a) \in Nat
  BY <1>2, <1>5, EncodesFacts, LenProperties
<1>7. b \in Seq(Byte) /\ Len(b) \in Nat
  <2>1. RowBodies(values) = [i \in 1..Len(values) |-> Serial(values[i])[2]]
    BY <1>3 DEF RowBodies
  <2>2. RowBodies(values) \in Seq(Seq(Byte))
    BY <1>2, <1>3, <2>1
  <2>3. b \in Seq(Byte)
    BY <1>5, <2>2, JointsExist, FlattenIs
  <2> QED BY <2>3, LenProperties
<1>8. e \in Seq(Byte) /\ Len(e) \in 1..MaxBytes /\ Len(e) \in Nat /\ MaxBytes \in Nat
  BY <1>2, EncodeFacts, LenProperties, Bases
<1>9. h = Len(e) + Len(a) /\ Len(payload) = h + Len(b)
  BY <1>1, <1>5 DEF AfterTypes, AfterValues
<1>10. HoldsAt(payload, Len(e), a) /\ HoldsAt(payload, h, b)
  BY <1>2, <1>5
<1>11. h \in HeaderSizes(values)
  <2>1. h \in 1..Len(a) + MaxBytes
    <3> HIDE DEF e, a
    <3> QED BY <1>2, <1>6, <1>8, <1>9
  <2> QED BY <1>9, <2>1 DEF HeaderSizes
<1> HIDE DEF e, a, b, h
<1>12. payload = e \o a \o b
  <2> DEFINE c == e \o a
  <2>1. c \in Seq(Byte) /\ HoldsAt(payload, 0, c) /\ Len(c) = Len(e) + Len(a)
    <3>1. HoldsAt(payload, 0 + Len(e), a)
      BY <1>8, <1>10
    <3> QED BY <1>2, <1>6, <1>8, <3>1, PlacedBehind, ConcatProperties
  <2> HIDE DEF c
  <2>2. HoldsAt(payload, 0 + Len(c), b)
    <3>1. 0 + Len(c) = h
      BY <1>6, <1>8, <1>9, <2>1
    <3> QED BY <1>10, <3>1
  <2>3. HoldsAt(payload, 0, c \o b) /\ Len(c \o b) = Len(c) + Len(b) /\ c \o b \in Seq(Byte)
    BY <1>7, <2>1, <2>2, PlacedBehind, ConcatProperties
  <2>4. payload = c \o b
    <3>1. Len(payload) = Len(c \o b)
      BY <1>9, <2>1, <2>3
    <3> QED BY <1>1, <2>3, <3>1, PlacedWhole
  <2> QED BY <2>4 DEF c
<1>13. payload \in Encodings(values)
  BY <1>11, <1>12 DEF Encodings, e, a, b
<1> QED
  BY <1>1, <1>13

(* A varint is taken exactly when it is the shortest of its number, and a  *)
(* row exactly when it is the canonical encoding of what is read from it   *)
(* (hub_sync.py:500-625), for any widths, payloads and rows.               *)
THEOREM RecordAlwaysExact == RecordSpec => []RecordExact
<1>1. RecordInv => RecordExact
  <2> SUFFICES ASSUME RecordInv PROVE RecordExact
    OBVIOUS
  <2>1. RecordTypeOK
    BY LenProperties DEF RecordInv, RecordNumbers, RecordTypeOK
  <2>2. VarintExact
    BY VarintOfPayload DEF RecordInv, RecordNumbers
  <2>3. record_phase = "accepted" => Len(values) = fields /\ payload \in Encodings(values)
    BY AcceptedIsEncoding
  <2>4. ASSUME written # <<>> PROVE record_phase # "refused"
    BY <2>4 DEF RecordInv, WhenWritten
  <2>5. ASSUME written # <<>>, record_phase = "accepted" PROVE values = written
    <3>1. written \in WrittenRows /\ Len(written) = fields /\ \A i \in 1..Len(values) : values[i] = written[i]
      BY <2>5 DEF RecordInv, WhenWritten, BeginsRow
    <3>2. Len(values) = Len(written) /\ values \in Seq(ValueSet)
      BY <2>3, <2>5, <3>1 DEF RecordInv, RecordNumbers
    <3>3. written = [i \in 1..Len(written) |-> written[i]]
      BY <3>1, RowFacts
    <3>4. values = [i \in 1..Len(values) |-> values[i]]
      BY <3>2
    <3>5. [i \in 1..Len(written) |-> written[i]] = [i \in 1..Len(values) |-> values[i]]
      BY <3>1, <3>2
    <3> QED BY <3>3, <3>4, <3>5, Zenon
  <2> QED BY <2>1, <2>2, <2>3, <2>4, <2>5 DEF RecordExact, ReadsBack
<1> QED
  BY <1>1, RecordInvInit, RecordInvStep, PTL DEF RecordSpec

=============================================================================
