----------------------------- MODULE SqliteWalk -----------------------------
(***************************************************************************)
(* How hub_sync.py walks the pages of a prepared SQLite image: a stack of  *)
(* scheduled B-tree pages, a role claimed for every page read, and a chain *)
(* of overflow pages followed wherever a cell's payload leaves its page.   *)
(* A page is abstracted to the references it makes; the bytes inside one   *)
(* page are SqlitePage's subject.  Any image may be given: pages that are  *)
(* shared, missing, cyclic, of the wrong kind or too deep.                 *)
(***************************************************************************)
EXTENDS Integers, Sequences, FiniteSets

CONSTANTS
  PageCount,    \* pages of the image
  MaxDepth,     \* the contract's max_btree_depth
  Images,       \* the images considered: functions from pages to contents
  RootLists     \* the root pages of the schema's tables, page 1 not among them

ASSUME WalkAssumption == PageCount \in Nat \ {0} /\ MaxDepth \in Nat

(* A reader of bytes finds natural numbers in every field.                 *)
ASSUME WalkForm ==
  /\ RootLists \subseteq Seq(Nat)
  /\ \A pages \in Images :
       /\ DOMAIN pages = 1..PageCount
       /\ \A p \in 1..PageCount :
            pages[p] \in [type : {"table", "index"}, inner : BOOLEAN, right : Nat,
                         cells : Seq([left : Nat, over : Nat, span : Nat])]
                        \cup [type : {"data"}, next : Nat]

Pages == 1..PageCount

(***************************************************************************)
(* A B-tree page is [type |-> "table" or "index", inner, right, cells];    *)
(* a cell is [left, over, span]: its left child (an inner page's only),    *)
(* the first page of its overflow chain and the number of pages the rest   *)
(* of the payload fills.  Any other page is [type |-> "data", next]: the   *)
(* number its first four bytes spell.  A B-tree page's own first bytes     *)
(* spell a number beyond the image.                                        *)
(***************************************************************************)
VARIABLES
  image, roots,
  links,      \* references of the current page still to be followed
  pending,    \* the stack of B-tree pages to visit
  scheduled,  \* the same pages as a set
  roles,      \* the pages claimed so far, with their role
  verdict

walk_vars == <<image, roots, links, pending, scheduled, roles, verdict>>

Beyond == PageCount + 1
NextOf(page) == IF image[page].type = "data" THEN image[page].next ELSE Beyond

TreeLink(page, depth, owner) == [kind |-> "btree", page |-> page, depth |-> depth, owner |-> owner]
ChainLink(page, span) == [kind |-> "overflow", page |-> page, span |-> span]

(* The references of one cell: its left child, then its overflow chain.    *)
CellLinks(content, cell, depth, owner) ==
  (IF content.inner THEN <<TreeLink(cell.left, depth + 1, owner)>> ELSE <<>>)
    \o (IF cell.span > 0 THEN <<ChainLink(cell.over, cell.span)>> ELSE <<>>)

(* The references of a B-tree page in the order they are followed.         *)
PageLinks(content, depth, owner) ==
  LET before[i \in 0..Len(content.cells)] ==
        IF i = 0 THEN IF content.inner THEN <<TreeLink(content.right, depth + 1, owner)>> ELSE <<>>
        ELSE before[i - 1] \o CellLinks(content, content.cells[i], depth, owner)
  IN  before[Len(content.cells)]

(* The type a page must have in the tree of its owner.                     *)
TypeFor(owner) == IF owner = 1 THEN "table" ELSE "index"

WalkInit ==
  /\ image \in Images
  /\ roots \in RootLists
  /\ links = [i \in 1..Len(roots) |-> TreeLink(roots[Len(roots) + 1 - i], 0, roots[Len(roots) + 1 - i])]
               \o <<TreeLink(1, 0, 1)>>
  /\ pending = <<>>
  /\ scheduled = {}
  /\ roles = <<>>
  /\ verdict = "walking"

Referenced == DOMAIN roles \cup scheduled

Claimed(page, role) ==
  roles' = [p \in DOMAIN roles \cup {page} |-> IF p = page THEN role ELSE roles[p]]

RefuseImage ==
  /\ verdict' = "refused"
  /\ UNCHANGED <<image, roots, links, pending, scheduled, roles>>

Schedulable(page) ==
  /\ page \in Pages
  /\ page \notin Referenced
  /\ Cardinality(DOMAIN roles) + Cardinality(scheduled) < PageCount

Schedule ==
  /\ verdict = "walking" /\ links # <<>> /\ Head(links).kind = "btree"
  /\ IF Schedulable(Head(links).page)
     THEN /\ scheduled' = scheduled \cup {Head(links).page}
          /\ pending' = Append(pending, Head(links))
          /\ links' = Tail(links)
          /\ UNCHANGED <<image, roots, roles, verdict>>
     ELSE RefuseImage

(* One page of an overflow chain: the last must spell 0, the others not.   *)
(* Mutant: what follows the last page is not looked at. *)
FollowableTrailing(link) ==
  /\ link.page \in Pages
  /\ link.page \notin Referenced
  /\ link.span > 1 => NextOf(link.page) # 0
Followable(link) ==
  /\ link.page \in Pages
  /\ link.page \notin Referenced
  /\ (link.span > 1) = (NextOf(link.page) # 0)

Follow ==
  /\ verdict = "walking" /\ links # <<>> /\ Head(links).kind = "overflow"
  /\ LET link == Head(links) IN
     IF Followable(link)
     THEN /\ Claimed(link.page, "overflow")
          /\ links' = IF link.span > 1
                      THEN <<ChainLink(NextOf(link.page), link.span - 1)>> \o Tail(links)
                      ELSE Tail(links)
          /\ UNCHANGED <<image, roots, pending, scheduled, verdict>>
     ELSE RefuseImage

Popped == SubSeq(pending, 1, Len(pending) - 1)
Unmarked(page) == scheduled \ {page}

Visit ==
  /\ verdict = "walking" /\ links = <<>> /\ pending # <<>>
  /\ LET top == pending[Len(pending)] IN
     IF top.depth <= MaxDepth /\ image[top.page].type = TypeFor(top.owner)
     THEN /\ pending' = Popped
          /\ scheduled' = Unmarked(top.page)
          /\ Claimed(top.page, "btree")
          /\ links' = PageLinks(image[top.page], top.depth, top.owner)
          /\ UNCHANGED <<image, roots, verdict>>
     ELSE RefuseImage

Conclude ==
  /\ verdict = "walking" /\ links = <<>> /\ pending = <<>>
  /\ IF Cardinality(DOMAIN roles) = PageCount
     THEN /\ verdict' = "canonical"
          /\ UNCHANGED <<image, roots, links, pending, scheduled, roles>>
     ELSE RefuseImage

WalkNext == Schedule \/ Follow \/ Visit \/ Conclude

(* The walk is a loop of one thread: it goes on while it can.              *)
WalkFairness == WF_walk_vars(WalkNext)
WalkSpec == WalkInit /\ [][WalkNext]_walk_vars /\ WalkFairness

-----------------------------------------------------------------------------
(* What the verdict should mean, said of the whole image at once.          *)

OverflowPages(cell) ==
  LET page[i \in 1..cell.span] ==
        IF i = 1 THEN cell.over
        ELSE IF page[i - 1] \in Pages THEN NextOf(page[i - 1]) ELSE Beyond
  IN  page

(* The B-tree pages at each depth under a root.                            *)
Children(p) == {image[p].right} \cup {image[p].cells[i].left : i \in DOMAIN image[p].cells}
Level(root) ==
  LET level[d \in 0..MaxDepth + 1] ==
        IF d = 0 THEN {root}
        ELSE UNION {Children(p) : p \in {q \in level[d - 1] \cap Pages : image[q].type # "data" /\ image[q].inner}}
  IN  level

RootPages == {1} \cup {roots[i] : i \in DOMAIN roots}
TreePages(root) == UNION {Level(root)[d] : d \in 0..MaxDepth}
AllTreePages == UNION {TreePages(r) : r \in RootPages}

(* The references of the image: to a root (page 1 is the 0th of them), to  *)
(* the right or a left child of an inner page, to a page of a cell's chain.*)
Reference(kind, of, cell, nth) == [kind |-> kind, of |-> of, cell |-> cell, nth |-> nth]
RootReferences == {Reference("root", i, 0, 0) : i \in 0..Len(roots)}
ReferencesIn(q) ==
  LET c == image[q] IN
  (IF c.inner THEN {Reference("right", q, 0, 0)} \cup {Reference("left", q, i, 0) : i \in DOMAIN c.cells}
              ELSE {})
    \cup UNION {{Reference("chain", q, i, k) : k \in 1..c.cells[i].span} : i \in DOMAIN c.cells}
References == RootReferences \cup UNION {ReferencesIn(q) : q \in AllTreePages}
Target(ref) ==
  CASE ref.kind = "root"  -> (IF ref.of = 0 THEN 1 ELSE roots[ref.of])
    [] ref.kind = "right" -> image[ref.of].right
    [] ref.kind = "left"  -> image[ref.of].cells[ref.cell].left
    [] ref.kind = "chain" -> OverflowPages(image[ref.of].cells[ref.cell])[ref.nth]

(* A chain fills pages of the image, and its last page ends it.            *)
ExactChain(cell) ==
  cell.span > 0 => /\ \A k \in 1..cell.span : OverflowPages(cell)[k] \in Pages
                   /\ NextOf(OverflowPages(cell)[cell.span]) = 0

ForestOfThePages ==
  /\ \A r \in RootPages : Level(r)[MaxDepth + 1] = {}
  /\ AllTreePages \subseteq Pages
  /\ \A r \in RootPages : \A p \in TreePages(r) : image[p].type = TypeFor(r)
  /\ \A q \in AllTreePages : \A i \in DOMAIN image[q].cells : ExactChain(image[q].cells[i])
  /\ \A p \in Pages : \E ref \in References : {r \in References : Target(r) = p} = {ref}

(* A reader that a composition leaves out is idle.                         *)
WalkTypeOK ==
  /\ verdict \in {"idle", "walking", "canonical", "refused"}
  /\ DOMAIN roles \subseteq Pages
  /\ \A p \in DOMAIN roles : roles[p] \in {"btree", "overflow"}
  /\ scheduled \subseteq Pages

(* The stack and the set beside it hold the same pages, each once and none *)
(* of them read before: hub_sync.py removes a popped page from the set and *)
(* claims it, and relies on the two to agree.                              *)
StackInStep ==
  /\ scheduled \cap DOMAIN roles = {}
  /\ scheduled = {pending[i].page : i \in 1..Len(pending)}
  /\ \A i, j \in 1..Len(pending) : pending[i].page = pending[j].page => i = j

(* The walk accepts an image exactly when the references of its B-tree     *)
(* pages make one forest of all its pages, with exact overflow chains: no  *)
(* shared, cyclic or unreachable page is ever accepted and no sound image  *)
(* refused, in whatever order the pages are met.                           *)
VerdictExact ==
  /\ verdict = "canonical" => ForestOfThePages
  /\ verdict = "refused" => ~ForestOfThePages

(* The walk over the pages: its stack and its marks agree at every step,   *)
(* and it accepts exactly the forests (hub_sync.py:683-774, 898-904).      *)
WalkExact == WalkTypeOK /\ StackInStep /\ VerdictExact

(* The walk ends on every image, cyclic ones included.                     *)
WalkEnds == <>(verdict # "walking")
=============================================================================
