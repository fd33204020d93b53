----------------------------- MODULE SqlitePage -----------------------------
(***************************************************************************)
(* How hub_sync.py accounts for every byte of one B-tree page: the chain   *)
(* of free blocks, the cells, the fragments left between them, and zeros   *)
(* everywhere else.  Sizes are parameters (SQLite: free blocks of at least *)
(* four bytes); what a cell holds is SqliteRecord's and SqliteWalk's       *)
(* subject, here it is a place and a length.                               *)
(***************************************************************************)
EXTENDS Integers, Sequences, FiniteSets

CONSTANTS
  Size,         \* bytes of the page, at offsets 0 .. Size - 1
  MinFree,      \* the least size of a free block, its own header included
  Headers, BlockSets, CellLists, DirtySets   \* the page contents considered

ASSUME PageAssumption == MinFree \in Nat \ {0} /\ Size \in Nat

(* No cell is empty, and a block is written wherever a chain may lead.     *)
ASSUME PageForm ==
  /\ Headers \subseteq [first : Nat, start : Nat, fragments : Nat, base : Nat]
  /\ CellLists \subseteq Seq([at : Nat, length : Nat \ {0}])
  /\ \A blocks \in BlockSets :
       /\ DOMAIN blocks \subseteq Nat /\ blocks \in [DOMAIN blocks -> [next : Nat, size : Nat]]
       /\ \A o \in DOMAIN blocks : blocks[o].next \in DOMAIN blocks \cup {0}
       /\ \A h \in Headers : h.first \in DOMAIN blocks \cup {0}

Offsets == 0..Size - 1

VARIABLES
  header,     \* [first, start, fragments, base]: what the page header says
  free_block,      \* the [next, size] written at each offset a chain may reach
  cells,      \* the cells in pointer order: [at, length]
  dirty,      \* offsets whose byte is not zero, headers of blocks and cells apart
  used, live, \* the bytes accounted for; those of header and cells alone
  at,         \* the free block or the cell to look at
  ranges, page_phase

page_vars == <<header, free_block, cells, dirty, used, live, at, ranges, page_phase>>
page == <<header, free_block, cells, dirty>>

Span(from, end) == from..end - 1
PointerEnd == header.base + 2 * Len(cells)

PageInit ==
  /\ header \in Headers /\ free_block \in BlockSets /\ cells \in CellLists /\ dirty \in DirtySets
  /\ used = {} /\ live = {} /\ at = 0 /\ ranges = <<>>
  /\ page_phase = "header"

RefusePage == page_phase' = "refused" /\ UNCHANGED <<used, live, at, ranges>>

(* A start of 0 stands for the whole page.                                 *)
Start == IF header.start = 0 THEN Size ELSE header.start

Header ==
  /\ page_phase = "header"
  /\ IF PointerEnd <= Start /\ Start <= Size
     THEN /\ used' = Span(0, PointerEnd) /\ live' = Span(0, PointerEnd)
          /\ at' = header.first
          /\ page_phase' = "blocks"
          /\ UNCHANGED ranges
     ELSE RefusePage

(* The bytes of a block's own header are not part of dirty.                *)
BlockFits(offset, b) ==
  /\ Start <= offset /\ offset <= Size - MinFree
  /\ b.size >= MinFree /\ offset + b.size <= Size
  /\ Span(offset, offset + b.size) \cap used = {}
  /\ Span(offset + MinFree, offset + b.size) \cap dirty = {}
  /\ b.next # 0 => b.next >= offset + b.size

FreeBlock ==
  /\ page_phase = "blocks" /\ at # 0
  /\ LET b == free_block[at] IN
     IF Len(ranges) < Size \div MinFree /\ BlockFits(at, b)
     THEN /\ used' = used \cup Span(at, at + b.size)
          /\ ranges' = Append(ranges, [from |-> at, end |-> at + b.size])
          /\ at' = b.next
          /\ UNCHANGED <<live, page_phase>>
     ELSE RefusePage

BlocksEnd ==
  /\ page_phase = "blocks" /\ at = 0
  /\ IF \A i, j \in DOMAIN cells : cells[i].at = cells[j].at => i = j
     THEN page_phase' = "cells" /\ at' = 1 /\ UNCHANGED <<used, live, ranges>>
     ELSE RefusePage

CellFits(c) ==
  /\ Start <= c.at /\ c.at < Size
  /\ c.at + c.length <= Size
  /\ Span(c.at, c.at + c.length) \cap used = {}

Cell ==
  /\ page_phase = "cells" /\ at <= Len(cells)
  /\ LET c == cells[at] IN
     IF CellFits(c)
     THEN /\ used' = used \cup Span(c.at, c.at + c.length)
          /\ live' = live \cup Span(c.at, c.at + c.length)
          /\ at' = at + 1
          /\ UNCHANGED <<ranges, page_phase>>
     ELSE RefusePage

(* The longest runs of bytes behind the start that no cell takes.          *)
Gaps ==
  {g \in [from : Start..Size, end : Start..Size] :
     /\ g.from < g.end /\ Span(g.from, g.end) \cap live = {}
     /\ g.from = Start \/ g.from - 1 \in live
     /\ g.end = Size \/ g.end \in live}
Wide == {g \in Gaps : g.end - g.from >= MinFree}
(* Mutant: a gap as wide as the least block counts as a fragment. *)
FragmentsAtLeast == {o \in Start..Size - 1 : \E g \in Gaps : o \in Span(g.from, g.end)
                                                 /\ g.end - g.from <= MinFree}
Fragments == {o \in Start..Size - 1 : \E g \in Gaps \ Wide : o \in Span(g.from, g.end)}

Ascending(r) == \A i \in 1..Len(r) - 1 : r[i].end <= r[i + 1].from
IsListOf(r, set) ==
  Ascending(r) /\ {r[i] : i \in DOMAIN r} = set /\ Len(r) = Cardinality(set)

Account ==
  /\ page_phase = "cells" /\ at > Len(cells)
  /\ page_phase' = IF /\ IsListOf(ranges, Wide)
                 /\ Cardinality(Fragments) = header.fragments
                 /\ dirty \subseteq used
              THEN "accepted" ELSE "refused"
  /\ UNCHANGED <<used, live, at, ranges>>

PageNext == (Header \/ FreeBlock \/ BlocksEnd \/ Cell \/ Account) /\ UNCHANGED page

PageSpec == PageInit /\ [][PageNext]_page_vars

-----------------------------------------------------------------------------
(* A reader that a composition leaves out is idle.                         *)
PageTypeOK ==
  /\ used \subseteq Offsets /\ live \subseteq used
  /\ page_phase \in {"idle", "header", "blocks", "cells", "accepted", "refused"}

CellBytes(c) == Span(c.at, c.at + c.length)

(* The one way to lay out these cells: a free block in every wide gap and  *)
(* nowhere else, ascending, the fragments counted, zeros in all the rest.  *)
WellLaidOut ==
  LET taken == UNION {CellBytes(cells[i]) : i \in DOMAIN cells}
      free == {o \in Start..Size - 1 : o \notin taken}
      first(S) == CHOOSE o \in S : \A p \in S : o <= p
      endOf(o) == first({p \in o..Size : p \notin free})
      heads == {o \in free : o - 1 \notin free /\ endOf(o) - o >= MinFree}
      after(o) == {h \in heads : h > o}
  IN  /\ PointerEnd <= Start /\ Start <= Size
      /\ \A i \in DOMAIN cells : Start <= cells[i].at /\ cells[i].at + cells[i].length <= Size
      /\ \A i, j \in DOMAIN cells : i # j => CellBytes(cells[i]) \cap CellBytes(cells[j]) = {}
      /\ header.first = IF heads = {} THEN 0 ELSE first(heads)
      /\ heads \subseteq DOMAIN free_block
      /\ \A o \in heads : free_block[o] = [next |-> IF after(o) = {} THEN 0 ELSE first(after(o)),
                                      size |-> endOf(o) - o]
      /\ header.fragments = Cardinality({o \in free : ~\E h \in heads : o \in h..endOf(h) - 1})
      /\ dirty \subseteq Span(0, PointerEnd) \cup taken \cup UNION {h..h + MinFree - 1 : h \in heads}

(* A page is accepted exactly when it is the one layout of its cells: no   *)
(* byte has two owners, and nothing hides between cells or in free space.  *)
LayoutExact ==
  /\ page_phase = "accepted" => WellLaidOut
  /\ page_phase = "refused" => ~WellLaidOut

(* A page: accepted exactly when its parts tile it (hub_sync.py:774-897).  *)
PageExact == PageTypeOK /\ LayoutExact
=============================================================================
