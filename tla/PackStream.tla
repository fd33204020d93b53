----------------------------- MODULE PackStream -----------------------------
(***************************************************************************)
(* The decompression of a physical pack by hub_sync_14.py: the boundaries  *)
(* of the zstd frames are walked first, because the decoder says nothing   *)
(* of a last frame that was cut off, then the frames are decoded into a    *)
(* file that may not grow beyond what the receipt announced.               *)
(*                                                                         *)
(* A compressed pack is a list of frames, cut off after some byte.  A      *)
(* frame is [kind, header, content, blocks, checksum]: kind is "standard", *)
(* "skippable" (all of it in header) or "other"; content the size that its *)
(* header announces, or -1; a block is [type, size, out], out the bytes    *)
(* that it decodes to.                                                     *)
(***************************************************************************)
EXTENDS Integers, Sequences, FiniteSetsExt

CONSTANTS
  FrameLists,       \* the lists of frames a pack may consist of
  Expected,         \* the sizes a receipt may announce
  MaxOutput,        \* the limit on them
  Chunk             \* bytes of one read of the decoder

ASSUME StreamAssumption == Chunk \in Nat \ {0} /\ MaxOutput \in Nat

(* The least a header takes: four bytes of magic, eight before the         *)
(* contents of a skippable frame; a standard frame has a last block.       *)
ASSUME StreamForm ==
  /\ Expected \subseteq Nat
  /\ FrameLists \subseteq Seq([kind : {"standard", "skippable", "other"}, header : Nat \ {0},
                              content : Nat \cup {-1}, checksum : BOOLEAN,
                              blocks : Seq([type : Nat, size : Nat, out : Nat])])
  /\ \A list \in FrameLists : \A i \in DOMAIN list :
       /\ list[i].kind = "standard" => list[i].header >= 4 /\ list[i].blocks # <<>>
       /\ list[i].kind = "skippable" =>
            list[i].header >= 8 /\ list[i].content = -1 /\ list[i].blocks = <<>>

VARIABLES frames, cut, expected, stream_phase, stream_offset, begun, block, known, total

stream_vars == <<frames, cut, expected, stream_phase, stream_offset, begun, block, known, total>>

RLE == 1
Reserved == 3

SumOf(s) ==
  LET upTo[i \in 0..Len(s)] == IF i = 0 THEN 0 ELSE upTo[i - 1] + s[i]
  IN  upTo[Len(s)]
BlockLength(b) == 3 + (IF b.type = RLE THEN 1 ELSE b.size)
FrameLength(f) ==
  IF f.kind = "standard"
    THEN f.header + SumOf([i \in DOMAIN f.blocks |-> BlockLength(f.blocks[i])]) + (IF f.checksum THEN 4 ELSE 0)
    ELSE f.header
Output(f) == SumOf([i \in DOMAIN f.blocks |-> f.blocks[i].out])
LengthUpTo(n) == SumOf([i \in 1..n |-> FrameLength(frames[i])])

StreamInit ==
  /\ frames \in FrameLists /\ cut \in 0..LengthUpTo(Len(frames))
  /\ expected \in Expected
  /\ stream_phase = "start" /\ stream_offset = 0 /\ begun = 0 /\ block = 1 /\ known = 0 /\ total = 0

RefuseStream == stream_phase' = "refused" /\ UNCHANGED <<stream_offset, begun, block, known, total>>

Begin ==
  /\ stream_phase = "start"
  /\ IF expected > MaxOutput THEN RefuseStream
     ELSE stream_phase' = "frames" /\ UNCHANGED <<stream_offset, begun, block, known, total>>

(***************************************************************************)
(* _check_zstd_frames.  Behind a wrong step there are bytes of no frame.   *)
(* begun is where the frame in hand begins.                                *)
(***************************************************************************)
Remaining == cut - stream_offset
NoFrame == [kind |-> "other", header |-> 1, content |-> -1, blocks |-> <<>>, checksum |-> FALSE]
FrameAt(o) ==
  LET here == {i \in DOMAIN frames : LengthUpTo(i - 1) = o}
  IN  IF here = {} THEN NoFrame ELSE frames[Min(here)]
HeaderKnown(f) ==
  IF f.kind = "skippable" THEN Remaining >= 8
  ELSE Remaining >= 4 /\ (f.kind = "standard" => Remaining >= f.header)

(* Mutant: where a frame ends is not compared with the end of the pack. *)
EndsInsideAnywhere(end) == TRUE
EndsInside(end) == end <= cut

(* Mutant: the eight bytes before the contents are not stepped over. *)
SkipContents(f) == f.header - 8
Skip(f) == f.header

ReadFrame ==
  /\ stream_phase = "frames" /\ stream_offset < cut
  /\ LET f == FrameAt(stream_offset)
         announced == known + (IF f.content = -1 THEN 0 ELSE f.content)
     IN  IF ~HeaderKnown(f) \/ f.kind = "other" THEN RefuseStream
         ELSE IF f.kind = "skippable"
           THEN IF EndsInside(stream_offset + Skip(f))
                  THEN stream_offset' = stream_offset + Skip(f) /\ UNCHANGED <<stream_phase, begun, block, known, total>>
                  ELSE RefuseStream
         ELSE IF announced > expected THEN RefuseStream
         ELSE /\ known' = announced
              /\ stream_offset' = stream_offset + f.header /\ begun' = stream_offset
              /\ stream_phase' = "blocks" /\ block' = 1
              /\ UNCHANGED total

ReadBlock ==
  /\ stream_phase = "blocks"
  /\ LET f == FrameAt(begun)
         b == f.blocks[block]
         end == stream_offset + BlockLength(b)
         tail == end + (IF f.checksum THEN 4 ELSE 0)
     IN  IF Remaining < 3 \/ b.type = Reserved \/ end > cut THEN RefuseStream
         ELSE IF block < Len(f.blocks)
           THEN stream_offset' = end /\ block' = block + 1 /\ UNCHANGED <<stream_phase, begun, known, total>>
         ELSE IF ~EndsInside(tail) THEN RefuseStream
         ELSE stream_offset' = tail /\ stream_phase' = "frames" /\ UNCHANGED <<begun, block, known, total>>

Walked ==
  /\ stream_phase = "frames" /\ stream_offset >= cut
  /\ stream_phase' = "decode"
  /\ UNCHANGED <<stream_offset, begun, block, known, total>>

(***************************************************************************)
(* The decoder gives the output of the complete blocks, and raises where a *)
(* frame does not decode to what its header announced.                     *)
(***************************************************************************)
Complete(i) == LengthUpTo(i) <= cut
Decoded == SumOf([i \in DOMAIN frames |-> IF Complete(i) THEN Output(frames[i]) ELSE 0])
Wrong == \E i \in DOMAIN frames :
  Complete(i) /\ frames[i].content # -1 /\ frames[i].content # Output(frames[i])

RequestSize == IF expected - total + 1 < Chunk THEN expected - total + 1 ELSE Chunk

Decode ==
  /\ stream_phase = "decode"
  /\ LET got == IF Decoded - total < RequestSize THEN Decoded - total ELSE RequestSize
     IN  IF Wrong THEN RefuseStream
         ELSE IF got = 0
           THEN stream_phase' = (IF total = expected THEN "accepted" ELSE "refused")
                /\ UNCHANGED <<stream_offset, begun, block, known, total>>
         ELSE /\ total' = total + got
              /\ stream_phase' = IF total' > expected THEN "refused" ELSE stream_phase
              /\ UNCHANGED <<stream_offset, begun, block, known>>

StreamNext == (Begin \/ ReadFrame \/ ReadBlock \/ Walked \/ Decode) /\ UNCHANGED <<frames, cut, expected>>

StreamFairness == WF_stream_vars(StreamNext)
StreamSpec == StreamInit /\ [][StreamNext]_stream_vars /\ StreamFairness

-----------------------------------------------------------------------------
(* A pack is taken exactly when it was cut between two frames of which     *)
(* each is sound, and what they decode to is what the receipt announced.   *)
SoundFrame(f) ==
  \/ f.kind = "skippable"
  \/ /\ f.kind = "standard"
     /\ \A i \in DOMAIN f.blocks : f.blocks[i].type # Reserved
     /\ f.content \in {-1, Output(f)}
WholePack ==
  /\ expected <= MaxOutput
  /\ \E n \in 0..Len(frames) :
       /\ cut = LengthUpTo(n)
       /\ \A i \in 1..n : SoundFrame(frames[i])
       /\ expected = SumOf([i \in 1..n |-> Output(frames[i])])
PackExact == (stream_phase = "accepted" => WholePack) /\ (stream_phase = "refused" => ~WholePack)

(* The decoder never holds more than one byte beyond what the receipt      *)
(* announced, however much the frames without an announced size decode to. *)
OutputBounded == total <= expected + 1

(* A stream: accepted exactly when it is whole frames of the expected      *)
(* length, with at most one byte more decoded (hub_sync_14.py:225-284).    *)
FramesExact == PackExact /\ OutputBounded

(* Every pack is judged: frames of no size are stepped over as well.       *)
StreamEnds == <>(stream_phase \notin {"start", "frames", "blocks", "decode"})
=============================================================================
