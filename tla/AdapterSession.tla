---------------------------- MODULE AdapterSession ----------------------------
(***************************************************************************)
(* One AdapterSession of conformance/runner.py: the runner's main thread,  *)
(* the daemon threads that drain the adapter's stdout and stderr, the      *)
(* writer thread of the request in progress, and the adapter's process     *)
(* group (its leader and one descendant).                                  *)
(*                                                                         *)
(* Time is not modelled: each bounded wait may end because what it waits   *)
(* for happened or, when its kind is in Expiring, because its timeout ran  *)
(* out first.  The model is that of a POSIX host.                          *)
(***************************************************************************)
EXTENDS Integers, Sequences

CONSTANTS
  Steps,       \* number of requests the runner may make of one session
  QueueSize,   \* capacity of stdout_lines (2 in the code)
  MaxOut,      \* bound: lines the adapter's processes write to stdout
  Expiring,    \* kinds of bounded wait whose timeout may run out
  Emits,       \* the lines the adapter's processes may write
  ChildEnds,   \* sets of standard streams a descendant may inherit
  Cooperative  \* TRUE: the adapter follows the documented protocol

Procs == {"leader", "child"}
Ends == {"in", "out", "err"}

(* What a line of stdout is to the runner: an answer that correlates with  *)
(* one step, other text, blanks, or bytes the reader refuses (over the     *)
(* frame budget, or not UTF-8).                                            *)
Answer(i) == [kind |-> "answer", step |-> i]
Lines == {Answer(i) : i \in 1..Steps}
           \cup [kind : {"noise", "blank", "bad"}, step : {0}]
NoLine == [kind |-> "none", step |-> 0]
EndOfOutput == [kind |-> "eof", step |-> 0]   \* the None sentinel

ASSUME SessionAssumption ==
  /\ Steps \in Nat \ {0}
  /\ QueueSize \in Nat \ {0}
  /\ MaxOut \in Nat
  /\ Expiring \subseteq {"exchange", "shutdown", "stop", "join"}
  /\ Emits \subseteq Lines
  /\ ChildEnds \subseteq SUBSET Ends
  /\ Cooperative \in BOOLEAN

VARIABLES
  st,          \* life of each process: "none", "running", "ok" (exit 0) or "bad"
  holds,       \* standard streams a process has open
  grouped,     \* the descendant is in the leader's process group
  killed,      \* processes with a pending SIGKILL
  out,         \* every line written to the adapter's stdout, in order
  put,         \* lines of out the reader put on the queue
  taken,       \* lines of out the main thread took from the queue
  sentinel,    \* the None of _drain_stdout: "pending", "queued", "dropped", "taken"
  reader,      \* pc of _drain_stdout
  errReader,   \* pc of _drain_stderr
  stdoutError, \* self.stdout_error
  writer,      \* the writer thread of the request in progress
  sent,        \* requests completely written to the adapter
  stdin,       \* the runner's end of the adapter's stdin
  pc,          \* the main thread
  stopFor,     \* the method a running _stop returns to
  line,        \* the item last taken from the queue
  outcome,     \* how the last request ended: "none", "line", "raised"
  handed,      \* lines returned by request
  timedOut,    \* timed_out of finish
  retained,    \* descendants_retained_pipes of finish
  extra,       \* _extra_stdout found a line that is not blank
  stopped,     \* _stop ran to its end
  verdict      \* result of finish: "none" until it returns

procVars == <<st, holds, grouped, killed>>
outVars == <<out, put, taken, sentinel, reader, stdoutError>>
callVars == <<writer, sent, stdin, line, outcome, handed>>
endVars == <<timedOut, retained, extra, stopped, verdict>>
vars == <<procVars, outVars, errReader, callVars, pc, stopFor, endVars>>

-----------------------------------------------------------------------------
(* Processes and signals *)

Running(p) == st[p] = "running"
Holders(e) == {p \in Procs : Running(p) /\ e \in holds[p]}
InGroup(p) == p = "leader" \/ grouped
Group == {p \in Procs : Running(p) /\ InGroup(p)}
LeaderGone == ~Running("leader")

(* A process ends: the kernel closes its streams and drops its signals.    *)
End(S, code) ==
  /\ st' = [p \in Procs |-> IF p \in S THEN code ELSE st[p]]
  /\ holds' = [p \in Procs |-> IF p \in S THEN {} ELSE holds[p]]
  /\ killed' = killed \ S

(* os.killpg with SIGTERM ends the members of the group that do not ignore *)
(* it, now or, as an Exit, later; with no member left it finds no process. *)
Terminate == \E S \in SUBSET Group : End(S, "bad")

(* SIGKILL will end every member: Die, in the kernel's own time.           *)
Kill == killed' = killed \cup Group

(* A pending SIGKILL interrupts fork, so a killed leader has no new child. *)
Fork ==
  /\ ~Cooperative
  /\ Running("leader") /\ "leader" \notin killed /\ st["child"] = "none"
  /\ st' = [st EXCEPT !["child"] = "running"]
  /\ \E ends \in ChildEnds :
       /\ ends \subseteq holds["leader"]
       /\ holds' = [holds EXCEPT !["child"] = ends]
  /\ grouped' \in BOOLEAN
  /\ UNCHANGED <<killed, outVars, errReader, callVars, pc, stopFor, endVars>>

Emit(p, l) ==
  /\ p \in Holders("out") /\ Len(out) < MaxOut
  /\ Cooperative => l = Answer(Len(out) + 1) /\ Len(out) < sent
  /\ out' = Append(out, l)
  /\ UNCHANGED <<procVars, put, taken, sentinel, reader, stdoutError, errReader,
                 callVars, pc, stopFor, endVars>>

StdinAtEnd == stdin = "closed" /\ writer # "writing"
Exit(p, code) ==
  /\ Running(p)
  /\ Cooperative => code = "ok" /\ StdinAtEnd /\ Len(out) = sent
  /\ End({p}, code)
  /\ UNCHANGED <<grouped, outVars, errReader, callVars, pc, stopFor, endVars>>

Die(p) ==
  /\ p \in killed
  /\ End({p}, "bad")
  /\ UNCHANGED <<grouped, outVars, errReader, callVars, pc, stopFor, endVars>>

CloseStdout ==
  /\ ~Cooperative
  /\ Running("leader") /\ "out" \in holds["leader"]
  /\ holds' = [holds EXCEPT !["leader"] = @ \ {"out"}]
  /\ UNCHANGED <<st, grouped, killed, outVars, errReader, callVars, pc, stopFor, endVars>>

-----------------------------------------------------------------------------
(* _drain_stdout and _drain_stderr *)

Pending == (put - taken) + (IF sentinel = "queued" THEN 1 ELSE 0)
(* Mutant: the queue holds one item too many. *)
QueueFullOffByOne == Pending > QueueSize
QueueFull == Pending >= QueueSize
QueueEmpty == Pending = 0

ReadLine ==
  /\ reader = "read" /\ put < Len(out)
  /\ out[put + 1].kind # "bad" /\ ~QueueFull
  /\ put' = put + 1
  /\ UNCHANGED <<procVars, out, taken, sentinel, reader, stdoutError, errReader,
                 callVars, pc, stopFor, endVars>>

ReadRefused ==
  /\ reader = "read" /\ put < Len(out)
  /\ \/ out[put + 1].kind = "bad" /\ stdoutError' = "frame"
     \/ out[put + 1].kind # "bad" /\ QueueFull /\ stdoutError' = "extra"
  /\ reader' = "signal"
  /\ UNCHANGED <<procVars, out, put, taken, sentinel, errReader, callVars, pc, stopFor, endVars>>

ReadAtEnd ==
  /\ reader = "read" /\ put = Len(out) /\ Holders("out") = {}
  /\ reader' = "sentinel"
  /\ UNCHANGED <<procVars, out, put, taken, sentinel, stdoutError, errReader,
                 callVars, pc, stopFor, endVars>>

ReaderSignals ==
  /\ reader = "signal"
  /\ Terminate
  /\ reader' = "sentinel"
  /\ UNCHANGED <<grouped, out, put, taken, sentinel, stdoutError, errReader,
                 callVars, pc, stopFor, endVars>>

(* put_nowait(None): on a full queue the sentinel is dropped.              *)
ReaderEnds ==
  /\ reader = "sentinel"
  /\ sentinel' = IF QueueFull THEN "dropped" ELSE "queued"
  /\ reader' = "done"
  /\ UNCHANGED <<procVars, out, put, taken, stdoutError, errReader,
                 callVars, pc, stopFor, endVars>>

StderrEnds ==
  /\ errReader = "read" /\ Holders("err") = {}
  /\ errReader' = "done"
  /\ UNCHANGED <<procVars, outVars, callVars, pc, stopFor, endVars>>

ReadersDone == reader = "done" /\ errReader = "done"

-----------------------------------------------------------------------------
(* request *)

(* The refusals before any byte is written: a pending stdout error, an     *)
(* adapter that exited, a payload over the budget or a writer thread that  *)
(* does not start.                                                         *)
RequestRefused ==
  /\ pc = "idle" /\ verdict = "none" /\ outcome # "raised"
  /\ Cooperative => stdoutError # "none" \/ LeaderGone
  /\ outcome' = "raised"
  /\ UNCHANGED <<procVars, outVars, errReader, writer, sent, stdin, line, handed,
                 pc, stopFor, endVars>>

Request ==
  /\ pc = "idle" /\ verdict = "none" /\ outcome # "raised" /\ handed < Steps
  /\ stdoutError = "none" /\ ~LeaderGone
  /\ writer' = "writing" /\ outcome' = "none"
  /\ pc' = "wait_write"
  /\ UNCHANGED <<procVars, outVars, errReader, sent, stdin, line, handed, stopFor, endVars>>

WriterWrites ==
  /\ writer = "writing" /\ Holders("in") # {}
  /\ writer' = "written" /\ sent' = sent + 1
  /\ UNCHANGED <<procVars, outVars, errReader, stdin, line, outcome, handed, pc, stopFor, endVars>>

(* EPIPE: no process has the read end of the adapter's stdin any more.     *)
WriterFails ==
  /\ writer = "writing" /\ Holders("in") = {}
  /\ writer' = "failed"
  /\ UNCHANGED <<procVars, outVars, errReader, sent, stdin, line, outcome, handed,
                 pc, stopFor, endVars>>

Raise ==
  /\ outcome' = "raised" /\ pc' = "idle"

WaitWritten ==
  /\ pc = "wait_write"
  /\ \/ writer = "written" /\ pc' = "wait_line" /\ UNCHANGED outcome
     \/ writer = "failed" /\ Raise
  /\ UNCHANGED <<procVars, outVars, errReader, writer, sent, stdin, line, handed, stopFor, endVars>>

(* stdout_lines.get or get_nowait on a queue that is not empty.            *)
Take ==
  /\ ~QueueEmpty
  /\ IF taken < put
     THEN line' = out[taken + 1] /\ taken' = taken + 1 /\ UNCHANGED sentinel
     ELSE line' = EndOfOutput /\ sentinel' = "taken" /\ UNCHANGED taken

WaitLine ==
  /\ pc = "wait_line"
  /\ Take
  /\ pc' = "got_line"
  /\ UNCHANGED <<procVars, out, put, reader, stdoutError, errReader, writer, sent, stdin,
                 outcome, handed, stopFor, endVars>>

GotLine ==
  /\ pc = "got_line"
  /\ IF stdoutError # "none" \/ line = EndOfOutput
     THEN Raise /\ UNCHANGED handed
     ELSE outcome' = "line" /\ pc' = "idle" /\ handed' = handed + 1
  /\ UNCHANGED <<procVars, outVars, errReader, writer, sent, stdin, line, stopFor, endVars>>

(* Mutant: only the write of an exchange is bounded. *)
ExchangeExpiresInWrite ==
  /\ "exchange" \in Expiring
  /\ pc = "wait_write" /\ writer = "writing"
  /\ Terminate
  /\ stopFor' = "request" /\ pc' = "term_wait"
  /\ UNCHANGED <<grouped, outVars, errReader, callVars, endVars>>

(* The deadline the write and the read of one exchange share runs out.     *)
ExchangeExpires ==
  /\ "exchange" \in Expiring
  /\ \/ pc = "wait_write" /\ writer = "writing"
     \/ pc = "wait_line" /\ QueueEmpty
  /\ Terminate
  /\ stopFor' = "request" /\ pc' = "term_wait"
  /\ UNCHANGED <<grouped, outVars, errReader, callVars, endVars>>

-----------------------------------------------------------------------------
(* _stop: its first SIGTERM is in the action that calls it *)

LeaderReaped ==
  /\ pc \in {"term_wait", "kill_wait"} /\ LeaderGone
  /\ pc' = "final_kill"
  /\ UNCHANGED <<procVars, outVars, errReader, callVars, stopFor, endVars>>

TermExpires ==
  /\ pc = "term_wait" /\ Running("leader") /\ "stop" \in Expiring
  /\ Kill
  /\ pc' = "kill_wait"
  /\ UNCHANGED <<st, holds, grouped, outVars, errReader, callVars, stopFor, endVars>>

KillExpires ==
  /\ pc = "kill_wait" /\ Running("leader") /\ "stop" \in Expiring
  /\ pc' = "final_kill"
  /\ UNCHANGED <<procVars, outVars, errReader, callVars, stopFor, endVars>>

(* Mutant: no SIGKILL once the leader has been reaped. *)
NoFinalKill ==
  /\ pc = "final_kill"
  /\ stdin' = "closed" /\ stopped' = TRUE
  /\ IF stopFor = "request"
     THEN Raise
     ELSE pc' = "fin_join" /\ UNCHANGED outcome
  /\ UNCHANGED <<procVars, outVars, errReader, writer, sent, line, handed, stopFor,
                 timedOut, retained, extra, verdict>>

FinalKill ==
  /\ pc = "final_kill"
  /\ Kill
  /\ stdin' = "closed" /\ stopped' = TRUE
  /\ IF stopFor = "request"
     THEN Raise
     ELSE pc' = "fin_join" /\ UNCHANGED outcome
  /\ UNCHANGED <<st, holds, grouped, outVars, errReader, writer, sent, line, handed, stopFor,
                 timedOut, retained, extra, verdict>>

-----------------------------------------------------------------------------
(* finish *)

Finish ==
  /\ pc = "idle" /\ verdict = "none"
  /\ stdin' = "closed"
  /\ pc' = "fin_wait"
  /\ UNCHANGED <<procVars, outVars, errReader, writer, sent, line, outcome, handed, stopFor, endVars>>

FinishWait ==
  /\ pc = "fin_wait" /\ LeaderGone
  /\ pc' = "fin_join"
  /\ UNCHANGED <<procVars, outVars, errReader, callVars, stopFor, endVars>>

ShutdownExpires ==
  /\ pc = "fin_wait" /\ Running("leader") /\ "shutdown" \in Expiring
  /\ timedOut' = TRUE
  /\ Terminate
  /\ stopFor' = "finish" /\ pc' = "term_wait"
  /\ UNCHANGED <<grouped, outVars, errReader, callVars, retained, extra,
                 stopped, verdict>>

FinishJoin ==
  /\ pc \in {"fin_join", "fin_kill_join"} /\ ReadersDone
  /\ pc' = "fin_drain"
  /\ UNCHANGED <<procVars, outVars, errReader, callVars, stopFor, endVars>>

(* Mutant: a reader that outlives its join is not noticed. *)
JoinExpiresUnnoticed ==
  /\ pc = "fin_join" /\ ~ReadersDone /\ "join" \in Expiring
  /\ pc' = "fin_drain"
  /\ UNCHANGED <<procVars, outVars, errReader, callVars, stopFor, endVars>>

(* A reader is still alive: some process holds stdout or stderr open.      *)
JoinExpires ==
  /\ pc = "fin_join" /\ ~ReadersDone /\ "join" \in Expiring
  /\ retained' = TRUE
  /\ Kill
  /\ pc' = "fin_kill_join"
  /\ UNCHANGED <<st, holds, grouped, outVars, errReader, callVars, stopFor, timedOut, extra,
                 stopped, verdict>>

KillJoinExpires ==
  /\ pc = "fin_kill_join" /\ ~ReadersDone /\ "join" \in Expiring
  /\ pc' = "fin_drain"
  /\ UNCHANGED <<procVars, outVars, errReader, callVars, stopFor, endVars>>

(* Mutant: the end marker counts as extra output. *)
IsExtraOrEnd(l) == l.kind # "blank"
IsExtra(l) == l.kind \notin {"blank", "eof"}

DrainLine ==
  /\ pc = "fin_drain"
  /\ Take
  /\ extra' = (extra \/ IsExtra(line'))
  /\ UNCHANGED <<procVars, out, put, reader, stdoutError, errReader, writer, sent, stdin,
                 outcome, handed, pc, stopFor, timedOut, retained, stopped, verdict>>

DrainEnds ==
  /\ pc = "fin_drain" /\ QueueEmpty
  /\ pc' = "fin_return"
  /\ UNCHANGED <<procVars, outVars, errReader, callVars, stopFor, endVars>>

(* Mutant: retained pipes do not fail the session. *)
ResultWithoutRetained ==
  IF stdoutError # "none" THEN "stdout_error"
  ELSE IF timedOut THEN "no_exit"
  ELSE IF st["leader"] # "ok" THEN "exit_code"
  ELSE IF extra THEN "extra" ELSE "clean"

FinishResult ==
  IF stdoutError # "none" THEN "stdout_error"
  ELSE IF timedOut THEN "no_exit"
  ELSE IF st["leader"] # "ok" THEN "exit_code"
  ELSE IF retained THEN "retained"
  ELSE IF extra THEN "extra" ELSE "clean"

FinishReturns ==
  /\ pc = "fin_return"
  /\ verdict' = FinishResult
  /\ pc' = "idle"
  /\ UNCHANGED <<procVars, outVars, errReader, callVars, stopFor, timedOut, retained, extra, stopped>>

-----------------------------------------------------------------------------
Init ==
  /\ st = [p \in Procs |-> IF p = "leader" THEN "running" ELSE "none"]
  /\ holds = [p \in Procs |-> IF p = "leader" THEN Ends ELSE {}]
  /\ grouped = FALSE
  /\ killed = {}
  /\ out = <<>> /\ put = 0 /\ taken = 0 /\ sentinel = "pending"
  /\ reader = "read" /\ errReader = "read" /\ stdoutError = "none"
  /\ writer = "none" /\ sent = 0 /\ stdin = "open"
  /\ line = NoLine /\ outcome = "none" /\ handed = 0
  /\ pc = "idle" /\ stopFor = "none"
  /\ timedOut = FALSE /\ retained = FALSE /\ extra = FALSE /\ stopped = FALSE
  /\ verdict = "none"

Processes ==
  \/ Fork \/ CloseStdout
  \/ \E p \in Procs : Die(p)
  \/ \E p \in Procs : \E l \in Emits : Emit(p, l)
  \/ \E p \in Procs : \E code \in {"ok", "bad"} : Exit(p, code)
StdoutReader == ReadLine \/ ReadRefused \/ ReadAtEnd \/ ReaderSignals \/ ReaderEnds
Writer == WriterWrites \/ WriterFails
(* What the main thread does inside a call, and the calls themselves.      *)
InCall ==
  \/ WaitWritten \/ WaitLine \/ GotLine \/ ExchangeExpires
  \/ LeaderReaped \/ TermExpires \/ KillExpires \/ FinalKill
  \/ FinishWait \/ ShutdownExpires \/ FinishJoin \/ JoinExpires \/ KillJoinExpires
  \/ DrainLine \/ DrainEnds \/ FinishReturns
Calls == Request \/ RequestRefused \/ Finish
Background == Processes \/ StdoutReader \/ StderrEnds \/ Writer

Next == Background \/ InCall \/ Calls

(* Threads are scheduled, timeouts run out and signals end processes; an   *)
(* adapter owes nothing, not even to read its stdin.                       *)
Fairness ==
  /\ WF_vars(InCall)
  /\ WF_vars(StdoutReader)
  /\ WF_vars(StderrEnds)
  /\ WF_vars(WriterFails)
  /\ \A p \in Procs : WF_vars(Die(p))

Spec == Init /\ [][Next]_vars
FairSpec == Spec /\ Fairness
-----------------------------------------------------------------------------
(* Every variable has its type; the queue holds at most QueueSize items.   *)
TypeOK ==
  /\ st \in [Procs -> {"none", "running", "ok", "bad"}]
  /\ holds \in [Procs -> SUBSET Ends]
  /\ grouped \in BOOLEAN
  /\ killed \in SUBSET Procs
  /\ out \in Seq(Lines)
  /\ put \in 0..Len(out) /\ taken \in 0..put
  /\ sentinel \in {"pending", "queued", "dropped", "taken"}
  /\ Pending <= QueueSize
  /\ reader \in {"read", "signal", "sentinel", "done"}
  /\ errReader \in {"read", "done"}
  /\ stdoutError \in {"none", "frame", "extra"}
  /\ writer \in {"none", "writing", "written", "failed"}
  /\ sent \in Nat /\ handed \in 0..taken
  /\ stdin \in {"open", "closed"}
  /\ pc \in {"idle", "wait_write", "wait_line", "got_line", "term_wait", "kill_wait",
             "final_kill", "fin_wait", "fin_join", "fin_kill_join", "fin_drain", "fin_return"}
  /\ stopFor \in {"none", "request", "finish"}
  /\ line \in Lines \cup {NoLine, EndOfOutput}
  /\ outcome \in {"none", "line", "raised"}
  /\ timedOut \in BOOLEAN /\ retained \in BOOLEAN /\ extra \in BOOLEAN /\ stopped \in BOOLEAN
  /\ verdict \in {"none", "clean", "stdout_error", "no_exit", "exit_code", "retained", "extra"}

(* A session that finish reports clean has no stdout error, its leader     *)
(* exited with 0, and all it wrote beyond the lines request returned is    *)
(* blank: whatever the order of the reader, the adapter and finish, no     *)
(* line is left unread in the pipe or the queue.                           *)
CleanMeansExact ==
  verdict = "clean" =>
    /\ stdoutError = "none" /\ st["leader"] = "ok"
    /\ \A i \in handed + 1..Len(out) : out[i].kind = "blank"

(* After a clean verdict the session's output can no longer change: no     *)
(* process that could write to it, and no reader that could refuse it, is  *)
(* left.                                                                   *)
CleanIsFinal ==
  [][verdict = "clean" => UNCHANGED <<out, stdoutError, put>>]_vars

(* Once _stop has run, or finish has found retained pipes, no member of    *)
(* the adapter's process group survives, one that ignores SIGTERM included.*)
KilledGroupDies == (stopped \/ retained) ~> Group = {}

(* A session reported clean leaves no process of the adapter's group       *)
(* behind for the next case to meet.                                       *)
CleanLeavesNothing == verdict = "clean" => Group = {}

=============================================================================
