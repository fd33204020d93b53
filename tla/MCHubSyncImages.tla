--------------------------- MODULE MCHubSyncImages --------------------------
(***************************************************************************)
(* The readers of a SQLite image and of the frames around it, for TLC:     *)
(* SqliteWalk, SqlitePage, SqliteRecord and PackStream, each on inputs of  *)
(* its own.  A behaviour is one of one reader; the other three are idle.   *)
(***************************************************************************)
EXTENDS SqliteWalk, SqlitePage, SqliteRecord, PackStream, SequencesExt

(* Every image of three pages whose B-tree pages have no cell or one, with *)
(* chains of up to three pages (page 1 is a table or one example of        *)
(* anything else).                                                         *)
Pointers == 0..PageCount
Cells(left, span) == [left : {left}, over : Pointers, span : span]
Leaf(type, span) == [type : {type}, inner : {FALSE}, right : {0},
                     cells : {<<>>} \cup {<<c>> : c \in Cells(0, span)}]
Leaves == Leaf("table", 1..3) \cup Leaf("index", {1})
Inners == [type : {"table", "index"}, inner : {TRUE}, right : Pointers,
           cells : {<<[left |-> l, over |-> 0, span |-> 0]>> : l \in Pointers}]
InnerChains == [type : {"index"}, inner : {TRUE}, right : {3}, cells : {<<c>> : c \in Cells(1, 1..2)}]
Data == [type : {"data"}, next : Pointers]
Contents == Leaves \cup Inners \cup InnerChains \cup Data
FirstPages == {c \in Contents : c.type = "table"} \cup [type : {"data"}, next : {2}]
ThreePages == {<<a, b, c>> : a \in FirstPages, b \in Contents, c \in Contents}
OneTableOrNone == {<<>>, <<2>>}

(* Pages of nine bytes, free blocks of at least two, up to two blocks and  *)
(* two cells anywhere, one byte that should be zero.                       *)
Places == {3, 6}
SomeHeaders == [first : Places \cup {0}, start : {0, 2, 3, 5, 10}, fragments : 0..1, base : {1}]
SomeBlocks == [Places -> [next : Places \cup {0}, size : 1..3]]
SomeCell == [at : {3, 5, 6, 8}, length : 1..2]
SomeCells == UNION {[1..n -> SomeCell] : n \in 0..2}
SomeDirt == {{}, {4}}

(* Bytes of two bits, varints of up to nine bytes as in SQLite: every      *)
(* varint of nine bytes with either digit under a flag and a last one of   *)
(* all its bits, every payload of up to five, and every row of up to two   *)
(* fields with integers around each width, reals, blobs and texts.         *)
UpTo(n, bytes) == UNION {[1..k -> bytes] : k \in 0..n}
NineBytes == {Append(b, last) : b \in [1..8 -> {0, 2, 3}], last \in 0..3} \cup UpTo(5, 0..3)
Values ==
  {Null} \cup {Number(n) : n \in {-129, -128, -33, -32, -9, -8, -3, -2, -1, 0, 1, 2, 7, 8, 31, 32,
                                  127, 128, 2047, 2048, 32767}}
    \cup {Raw("real", [i \in 1..8 |-> b]) : b \in {0, 1}}
    \cup {Raw("blob", b) : b \in UpTo(2, {0, 3})} \cup {Raw("text", b) : b \in UpTo(3, {0, 1})}
Rows == [1..1 -> Values] \cup [1..2 -> Values]
OneOrTwo == {1, 2}

(* Up to two frames, cut off after every byte; with and without checksum   *)
(* and announced size, empty, repeating, reserved and wrongly announced    *)
(* blocks.                                                                 *)
Block(type, size, out) == [type |-> type, size |-> size, out |-> out]
Frame(kind, head, content, blocks, checksum) ==
  [kind |-> kind, header |-> head, content |-> content, blocks |-> blocks, checksum |-> checksum]
BlockLists ==
  {<<Block(0, 0, 0)>>, <<Block(0, 2, 2)>>, <<Block(RLE, 3, 3)>>, <<Block(Reserved, 1, 1)>>,
   <<Block(2, 1, 3), Block(0, 1, 1)>>}
Standard == {Frame("standard", 6, content, blocks, sum) :
               content \in {-1, 4}, blocks \in BlockLists, sum \in BOOLEAN}
Others == {Frame("skippable", 8, -1, <<>>, FALSE), Frame("skippable", 9, -1, <<>>, FALSE),
           Frame("other", 5, -1, <<>>, FALSE)}
UpToTwo == SeqOf(Standard \cup Others, 2)

-----------------------------------------------------------------------------
WalkIdle ==
  /\ image = <<>> /\ roots = <<>> /\ links = <<>> /\ pending = <<>> /\ scheduled = {}
  /\ roles = <<>> /\ verdict = "idle"
PageIdle ==
  /\ header = <<>> /\ free_block = <<>> /\ cells = <<>> /\ dirty = {} /\ used = {} /\ live = {}
  /\ at = 0 /\ ranges = <<>> /\ page_phase = "idle"
RecordIdle ==
  /\ payload = <<>> /\ fields = 0 /\ written = <<>> /\ record_phase = "idle" /\ offset = 0
  /\ headerEnd = 0 /\ types = <<>> /\ values = <<>>
StreamIdle ==
  /\ frames = <<>> /\ cut = 0 /\ expected = 0 /\ stream_phase = "idle" /\ stream_offset = 0
  /\ begun = 0 /\ block = 1 /\ known = 0 /\ total = 0

Init ==
  \/ WalkInit /\ PageIdle /\ RecordIdle /\ StreamIdle
  \/ PageInit /\ WalkIdle /\ RecordIdle /\ StreamIdle
  \/ RecordInit /\ WalkIdle /\ PageIdle /\ StreamIdle
  \/ StreamInit /\ WalkIdle /\ PageIdle /\ RecordIdle

Next ==
  \/ WalkNext /\ UNCHANGED <<page_vars, record_vars, stream_vars>>
  \/ PageNext /\ UNCHANGED <<walk_vars, record_vars, stream_vars>>
  \/ RecordNext /\ UNCHANGED <<walk_vars, page_vars, stream_vars>>
  \/ StreamNext /\ UNCHANGED <<walk_vars, page_vars, record_vars>>

Spec ==
  /\ Init /\ [][Next]_<<walk_vars, page_vars, record_vars, stream_vars>>
  /\ WalkFairness /\ StreamFairness

-----------------------------------------------------------------------------
(* Every image and every pack is judged, cyclic pages and frames of no     *)
(* size included (hub_sync.py:718, hub_sync_14.py:226).                    *)
ReadersEnd == WalkEnds /\ StreamEnds
=============================================================================
