------------------------------ MODULE CloseAck ------------------------------
(***************************************************************************)
(* The close acknowledgement of hub_matrix.py.  The adapter polls for a    *)
(* file, reads it with the checks of _strict_private_file, binds it to its *)
(* session and to the close evidence it names, all before a deadline.  The *)
(* file is published by another process: in place, as                      *)
(* _write_exclusive_json writes every coordination record, or whole, as a  *)
(* second link of a file that was written elsewhere.                       *)
(***************************************************************************)
EXTENDS Naturals

CONSTANTS
  RecordSize,       \* writes of a whole record, and its size
  Deadline,         \* timeout_seconds, in ticks
  Late              \* bound: how far the clock is followed

ASSUME CloseAckAssumption ==
  /\ RecordSize \in Nat \ {0} /\ Deadline \in Nat /\ Late \in Nat /\ Late > Deadline

VARIABLES
  clock,
  ack,          \* the file at ack-000001.json: [links, size], no links if none
  publisher,    \* its program counter
  record,       \* what the acknowledgement says
  evidence,     \* the file that its result names
  wait_pc, before, chunks,   \* the adapter: its step, what lstat said, what it read
  ack_outcome

waiter_ == <<wait_pc, before, chunks, ack_outcome>>
publisher_ == <<ack, publisher>>
ack_vars == <<clock, publisher_, record, evidence, waiter_>>

NoFile == [links |-> 0, size |-> 0]
Records == {"ours", "of another session", "rejected"}

(* An acknowledgement may lie there from an earlier run.                   *)
AckInit ==
  /\ clock = 0
  /\ ack \in {NoFile, [links |-> 1, size |-> RecordSize]}
  /\ publisher = IF ack = NoFile THEN "idle" ELSE "earlier"
  /\ record \in Records
  /\ evidence = "bound"
  /\ wait_pc = "start" /\ before = NoFile /\ chunks = 0 /\ ack_outcome = "none"

Tick ==
  /\ clock < Late /\ clock' = clock + 1
  /\ UNCHANGED <<publisher_, record, evidence, waiter_>>

(* The close evidence is rewritten or removed.                             *)
Disturb ==
  /\ evidence = "bound" /\ evidence' \in {"changed", "absent"}
  /\ UNCHANGED <<clock, publisher_, record, waiter_>>

-----------------------------------------------------------------------------
(* _write_exclusive_json, after the directories: the name is created, the  *)
(* bytes follow, and a write or a sync that fails takes the name away.     *)
PublishAck(from, to, file) ==
  /\ publisher = from /\ publisher' = to /\ ack' = file
  /\ UNCHANGED <<clock, record, evidence, waiter_>>

Create == ack = NoFile /\ PublishAck("idle", "writing", [links |-> 1, size |-> 0])
Write == ack.size < RecordSize /\ PublishAck("writing", "writing", [ack EXCEPT !.size = @ + 1])
Sync == ack.size = RecordSize /\ PublishAck("writing", "done", ack)
FailAckWrite == PublishAck("writing", "failed", NoFile)

(* A publisher that links a finished file under the name.                  *)
Link == ack = NoFile /\ PublishAck("idle", "linked", [links |-> 2, size |-> RecordSize])
Unlink == PublishAck("linked", "unlinked", [ack EXCEPT !.links = 1])

Publisher == Create \/ Write \/ Sync \/ FailAckWrite \/ Link \/ Unlink

-----------------------------------------------------------------------------
(* _wait_for_close_ack.                                                    *)
GoTo(to) == wait_pc' = to /\ UNCHANGED <<clock, publisher_, record, evidence>>
StopWait(as) == GoTo("done") /\ ack_outcome' = as /\ UNCHANGED <<before, chunks>>

Exists == ack.links > 0

StartWait ==
  /\ wait_pc = "start"
  /\ IF Exists THEN StopWait("stale")
     ELSE GoTo("loop") /\ UNCHANGED <<before, chunks, ack_outcome>>

(* Mutant: the deadline is not looked at before the file is there. *)
LoopOn ==
  /\ wait_pc = "loop"
  /\ GoTo(IF Exists THEN "lstat" ELSE "sleep") /\ UNCHANGED <<before, chunks, ack_outcome>>

Loop ==
  /\ wait_pc = "loop"
  /\ IF clock >= Deadline THEN StopWait("timed out")
     ELSE /\ GoTo(IF Exists THEN "lstat" ELSE "sleep")
          /\ UNCHANGED <<before, chunks, ack_outcome>>

(* A sleep ends, at the latest soon after the deadline.                    *)
Sleep ==
  /\ wait_pc = "sleep" /\ GoTo("loop") /\ UNCHANGED <<before, chunks, ack_outcome>>

(* Mutant: a file that could not be read is refused at once. *)
UnreadAckRefused == StopWait("invalid")

(* The file that could not be read is tried again while there is time.     *)
UnreadAck ==
  IF clock < Deadline THEN GoTo("sleep") /\ UNCHANGED <<before, chunks, ack_outcome>>
  ELSE StopWait("unreadable")

(* _strict_private_file: lstat, open and fstat, read to the end, lstat.    *)
Lstat ==
  /\ wait_pc = "lstat"
  /\ IF ack.links # 1 THEN UnreadAck
     ELSE GoTo("open") /\ before' = ack /\ UNCHANGED <<chunks, ack_outcome>>

OpenAck ==
  /\ wait_pc = "open"
  /\ IF ack.links # before.links THEN UnreadAck
     ELSE GoTo("read") /\ UNCHANGED <<before, chunks, ack_outcome>>

(* What was open is still read when its name is gone.                      *)
ReadAck ==
  /\ wait_pc = "read" /\ GoTo("final")
  /\ chunks' = IF Exists THEN ack.size ELSE before.size
  /\ UNCHANGED <<before, ack_outcome>>

Final ==
  /\ wait_pc = "final"
  /\ IF chunks # before.size \/ ack.links # before.links THEN UnreadAck
     ELSE GoTo("judge") /\ UNCHANGED <<before, chunks, ack_outcome>>

(* strict_json, the shape, the identity, and what the runner answered.     *)
Ours == chunks = RecordSize /\ record = "ours"

Judge ==
  /\ wait_pc = "judge"
  /\ IF Ours THEN GoTo("evidence") /\ UNCHANGED <<before, chunks, ack_outcome>>
     ELSE StopWait("invalid")

(* The close evidence is read once to see that it is there, and again to   *)
(* compare its digest.                                                     *)
ReadEvidence ==
  /\ wait_pc = "evidence"
  /\ IF evidence = "absent" THEN StopWait("invalid")
     ELSE GoTo("digest") /\ UNCHANGED <<before, chunks, ack_outcome>>

Digest ==
  /\ wait_pc = "digest" /\ StopWait(IF evidence = "bound" THEN "accepted" ELSE "invalid")

Waiter ==
  \/ StartWait \/ Loop \/ Sleep \/ Lstat \/ OpenAck \/ ReadAck \/ Final
  \/ Judge \/ ReadEvidence \/ Digest

AckNext == Tick \/ Disturb \/ Publisher \/ Waiter

(* Time passes and the adapter runs; nobody owes it an acknowledgement.    *)
AckFairness == WF_ack_vars(Tick) /\ WF_ack_vars(Waiter)
AckSpec == AckInit /\ [][AckNext]_ack_vars /\ AckFairness

-----------------------------------------------------------------------------
(* What is accepted is a whole acknowledgement of this session that was    *)
(* published after the wait began, however the reads and the writes met    *)
(* (hub_matrix.py:1179-1223).                                              *)
AcceptedBound ==
  ack_outcome = "accepted" => /\ record = "ours" /\ chunks = RecordSize
                          /\ before.links = 1 /\ publisher # "earlier"

(* An acknowledgement of this session whose evidence stands is not         *)
(* refused when it is published whole, under a name that it shares for a   *)
(* while: it is accepted, or comes too late (hub_matrix.py:1185-1191).     *)
LinkedAckTaken ==
  record = "ours" /\ evidence = "bound" /\ publisher \in {"linked", "unlinked"} =>
    ack_outcome # "invalid"

(* The wait ends, with no acknowledgement or with one that never reads     *)
(* (hub_matrix.py:1183-1184, 1188-1191).                                   *)
WaitEnds == <>(wait_pc = "done")

(* What is accepted and what is refused for good, together                 *)
(* (hub_matrix.py:1177-1224).                                              *)
AckExact == AcceptedBound /\ LinkedAckTaken
=============================================================================
