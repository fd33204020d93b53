---------------------------- MODULE SessionProofs ----------------------------
(***************************************************************************)
(* Theorems about an adapter session and the case loop that runs it, for   *)
(* every value of their constants.  Of the session: type correctness, and  *)
(* that a clean verdict is exact and final, from one inductive invariant,  *)
(* IInv.  Of the loop, on top of that: a passed case earned its PASS, for  *)
(* any number of steps, any adapter and any interleaving.                  *)
(***************************************************************************)
EXTENDS CaseRun, TLAPS

Draining == pc \in {"fin_drain", "fin_return"}

(* A reader that leaves its loop without an error has put every line on    *)
(* the queue, and nobody can write another.                                *)
Reading ==
  /\ reader = "signal" => stdoutError # "none"
  /\ reader \in {"sentinel", "done"} /\ stdoutError = "none" =>
       put = Len(out) /\ Holders("out") = {}

(* Until finish drains the queue, the lines taken are the lines handed     *)
(* out, but for one that request is still looking at.                      *)
Accounted ==
  /\ pc = "got_line" /\ line # EndOfOutput /\ stdoutError = "none" => taken = handed + 1
  /\ /\ stdoutError = "none" /\ verdict = "none" /\ ~Draining
     /\ pc = "got_line" => line = EndOfOutput
     => taken = handed

(* What finish has established by the time it drains, and returns.         *)
Finishing ==
  /\ pc = "fin_kill_join" => retained
  /\ Draining /\ ~retained => ReadersDone
  /\ pc = "fin_return" /\ ~retained => QueueEmpty
  /\ verdict # "none" => pc = "idle"

(* Lines that finish drained and did not count as extra output.            *)
Drained ==
  (Draining \/ verdict # "none") /\ stdoutError = "none" /\ ~extra =>
    \A i \in handed + 1..taken : ~IsExtra(out[i])

Clean ==
  verdict = "clean" =>
    /\ stdoutError = "none" /\ st["leader"] = "ok" /\ ~extra
    /\ reader = "done" /\ put = taken

(* A pending signal is one for a process that has not ended.               *)
Live == \A p \in killed : Running(p)

IInv == TypeOK /\ Live /\ Reading /\ Accounted /\ Finishing /\ Drained /\ Clean

-----------------------------------------------------------------------------
(* What processes that end can change: they only let go of what they have. *)
OnlyEnds ==
  /\ st' \in [Procs -> {"none", "running", "ok", "bad"}]
  /\ holds' \in [Procs -> SUBSET Ends]
  /\ killed' \in SUBSET Procs
  /\ \A p \in Procs : ~Running(p) => st'[p] = st[p]
  /\ Holders("out")' \subseteq Holders("out")
  /\ Live'

LEMMA EndFacts ==
  ASSUME TypeOK, Live, NEW code \in {"ok", "bad"}, NEW S \in SUBSET Procs,
         \A p \in S : Running(p), End(S, code)
  PROVE  OnlyEnds
<1>1. /\ st' = [p \in Procs |-> IF p \in S THEN code ELSE st[p]]
      /\ holds' = [p \in Procs |-> IF p \in S THEN {} ELSE holds[p]]
      /\ killed' = killed \ S
  BY DEF End
<1>2. /\ st' \in [Procs -> {"none", "running", "ok", "bad"}]
      /\ holds' \in [Procs -> SUBSET Ends]
      /\ killed' \in SUBSET Procs
  BY <1>1 DEF TypeOK
<1>3. \A p \in Procs : ~Running(p) => st'[p] = st[p]
  BY <1>1 DEF Running
<1>4. Holders("out")' \subseteq Holders("out")
  BY <1>1 DEF Holders, Running
<1>5. Live'
  BY <1>1 DEF Live, Running, TypeOK
<1> QED
  BY <1>2, <1>3, <1>4, <1>5 DEF OnlyEnds

LEMMA TerminateFacts ==
  ASSUME TypeOK, Live, Terminate PROVE OnlyEnds
<1>1. PICK S \in SUBSET Group : End(S, "bad")
  BY DEF Terminate
<1>2. S \in SUBSET Procs /\ \A p \in S : Running(p)
  BY DEF Group
<1> QED
  BY <1>1, <1>2, EndFacts

LEMMA KillFacts ==
  ASSUME TypeOK, Live, Kill, UNCHANGED st PROVE killed' \in SUBSET Procs /\ Live'
BY DEF TypeOK, Live, Kill, Group, Running

-----------------------------------------------------------------------------
(* TypeOK and Live, step by step. *)

LEMMA TypeBackground ==
  ASSUME TypeOK, Live, Background PROVE TypeOK' /\ Live'
<1> USE SessionAssumption DEF TypeOK, procVars, outVars, callVars, endVars, Pending, Lines,
      Answer, Procs, Ends
<1>1. CASE Fork
  BY <1>1 DEF Fork, Running, Live
<1>2. CASE CloseStdout
  BY <1>2 DEF CloseStdout, Running, Live
<1>3. ASSUME NEW p \in Procs, Die(p) PROVE TypeOK' /\ Live'
  <2>1. Running(p) /\ End({p}, "bad")
    BY <1>3 DEF Die, Live
  <2>2. OnlyEnds
    BY <2>1, EndFacts
  <2> QED
    BY <1>3, <2>2 DEF Die, OnlyEnds
<1>4. ASSUME NEW p \in Procs, NEW l \in Emits, Emit(p, l) PROVE TypeOK' /\ Live'
  BY <1>4 DEF Emit, Holders, Live, Running
<1>5. ASSUME NEW p \in Procs, NEW code \in {"ok", "bad"}, Exit(p, code) PROVE TypeOK' /\ Live'
  <2>1. OnlyEnds
    BY <1>5, EndFacts DEF Exit
  <2> QED
    BY <1>5, <2>1 DEF Exit, OnlyEnds
<1>6. CASE ReadLine
  BY <1>6 DEF ReadLine, QueueFull, Live, Running
<1>7. CASE ReadRefused
  BY <1>7 DEF ReadRefused, Live, Running
<1>8. CASE ReadAtEnd
  BY <1>8 DEF ReadAtEnd, Live, Running
<1>9. CASE ReaderSignals
  <2>1. OnlyEnds
    BY <1>9, TerminateFacts DEF ReaderSignals
  <2> QED
    BY <1>9, <2>1 DEF ReaderSignals, OnlyEnds
<1>10. CASE ReaderEnds
  BY <1>10 DEF ReaderEnds, QueueFull, Live, Running
<1>11. CASE StderrEnds
  BY <1>11 DEF StderrEnds, Live, Running
<1>12. CASE WriterWrites
  BY <1>12 DEF WriterWrites, Live, Running
<1>13. CASE WriterFails
  BY <1>13 DEF WriterFails, Live, Running
<1> QED
  BY <1>1, <1>2, <1>3, <1>4, <1>5, <1>6, <1>7, <1>8, <1>9, <1>10, <1>11, <1>12, <1>13
  DEF Background, Processes, StdoutReader, Writer

LEMMA TypeInCall ==
  ASSUME TypeOK, Live, Accounted, Finishing, InCall PROVE TypeOK' /\ Live'
<1> USE SessionAssumption DEF TypeOK, procVars, outVars, callVars, endVars, Pending,
      Lines, Answer, Procs, Ends, Raise
<1>1. CASE WaitWritten
  BY <1>1 DEF WaitWritten, Live, Running
<1>2. CASE WaitLine
  BY <1>2 DEF WaitLine, Take, QueueEmpty, Live, Running
<1>3. CASE GotLine
  BY <1>3 DEF GotLine, Accounted, Live, Running
<1>4. CASE ExchangeExpires
  <2>1. OnlyEnds
    BY <1>4, TerminateFacts DEF ExchangeExpires
  <2> QED
    BY <1>4, <2>1 DEF ExchangeExpires, OnlyEnds
<1>5. CASE LeaderReaped
  BY <1>5 DEF LeaderReaped, Live, Running
<1>6. CASE TermExpires
  BY <1>6, KillFacts DEF TermExpires
<1>7. CASE KillExpires
  BY <1>7 DEF KillExpires, Live, Running
<1>8. CASE FinalKill
  BY <1>8, KillFacts DEF FinalKill
<1>9. CASE FinishWait
  BY <1>9 DEF FinishWait, Live, Running
<1>10. CASE ShutdownExpires
  <2>1. OnlyEnds
    BY <1>10, TerminateFacts DEF ShutdownExpires
  <2> QED
    BY <1>10, <2>1 DEF ShutdownExpires, OnlyEnds
<1>11. CASE FinishJoin
  BY <1>11 DEF FinishJoin, Live, Running
<1>12. CASE JoinExpires
  BY <1>12, KillFacts DEF JoinExpires
<1>13. CASE KillJoinExpires
  BY <1>13 DEF KillJoinExpires, Live, Running
<1>14. CASE DrainLine
  <2>1. extra' \in BOOLEAN
    BY <1>14, Zenon DEF DrainLine, IsExtra
  <2>2. UNCHANGED <<st, killed>> /\ Live'
    BY <1>14 DEF DrainLine, Live, Running
  <2> QED
    BY <1>14, <2>1, <2>2 DEF DrainLine, Take, QueueEmpty
<1>15. CASE DrainEnds
  BY <1>15 DEF DrainEnds, Live, Running
<1>16. CASE FinishReturns
  BY <1>16 DEF FinishReturns, FinishResult, Live, Running
<1> QED
  BY <1>1, <1>2, <1>3, <1>4, <1>5, <1>6, <1>7, <1>8, <1>9, <1>10, <1>11, <1>12, <1>13,
     <1>14, <1>15, <1>16
  DEF InCall

LEMMA TypeCalls ==
  ASSUME TypeOK, Live, Calls PROVE TypeOK' /\ Live'
<1> USE SessionAssumption DEF TypeOK, procVars, outVars, callVars, endVars, Pending,
      Lines, Answer, Procs, Ends, Live, Running
<1>1. CASE Request
  BY <1>1 DEF Request
<1>2. CASE RequestRefused
  BY <1>2 DEF RequestRefused
<1>3. CASE Finish
  BY <1>3 DEF Finish
<1> QED
  BY <1>1, <1>2, <1>3 DEF Calls

LEMMA TypeStutters ==
  ASSUME TypeOK, Live, UNCHANGED vars PROVE TypeOK' /\ Live'
BY DEF TypeOK, Live, Running, vars, procVars, outVars, callVars, endVars, Pending

-----------------------------------------------------------------------------
(* A step ends processes, forks, closes stdout, or leaves the processes be.*)
LEMMA ProcessSteps ==
  ASSUME TypeOK, Live, Next
  PROVE  OnlyEnds \/ Fork \/ CloseStdout \/ UNCHANGED <<st, holds>>
<1>1. ASSUME NEW p \in Procs, Die(p) PROVE OnlyEnds
  BY <1>1, EndFacts DEF Die, Live
<1>2. ASSUME NEW p \in Procs, NEW code \in {"ok", "bad"}, Exit(p, code) PROVE OnlyEnds
  BY <1>2, EndFacts DEF Exit
<1>3. ASSUME NEW p \in Procs, NEW l \in Emits, Emit(p, l) PROVE UNCHANGED <<st, holds>>
  BY <1>3 DEF Emit, procVars
<1>4. CASE StdoutReader \/ StderrEnds \/ Writer
  BY <1>4, TerminateFacts DEF StdoutReader, ReadLine, ReadRefused, ReadAtEnd, ReaderSignals,
     ReaderEnds, StderrEnds, Writer, WriterWrites, WriterFails, procVars
<1>5. CASE InCall
  BY <1>5, TerminateFacts DEF InCall, WaitWritten, WaitLine, GotLine, ExchangeExpires,
     LeaderReaped, TermExpires, KillExpires, FinalKill, FinishWait, ShutdownExpires,
     FinishJoin, JoinExpires, KillJoinExpires, DrainLine, DrainEnds, FinishReturns, procVars
<1>6. CASE Calls
  BY <1>6 DEF Calls, Request, RequestRefused, Finish, procVars
<1> QED
  BY <1>1, <1>2, <1>3, <1>4, <1>5, <1>6 DEF Next, Background, Processes

(* Once nobody holds stdout, nobody can hold it again: a new descendant    *)
(* inherits only what its parent still has.                                *)
LEMMA HoldersShrink ==
  ASSUME TypeOK, Live, Next, Holders("out") = {} PROVE Holders("out")' = {}
<1>1. OnlyEnds => Holders("out")' = {}
  BY DEF OnlyEnds
<1>2. CASE Fork
  BY <1>2 DEF Fork, Holders, Running, Procs, TypeOK
<1>3. CASE CloseStdout
  BY <1>3 DEF CloseStdout, Holders, Running, Procs, TypeOK
<1>4. CASE UNCHANGED <<st, holds>>
  BY <1>4 DEF Holders, Running
<1> QED
  BY <1>1, <1>2, <1>3, <1>4, ProcessSteps

(* An exit status, once there, stays.                                      *)
LEMMA LeaderStaysExited ==
  ASSUME TypeOK, Live, Next, st["leader"] = "ok" PROVE st'["leader"] = "ok"
BY ProcessSteps DEF OnlyEnds, Fork, CloseStdout, Running, Procs, TypeOK

(* Only the processes write to out, and only the reader moves put.         *)
LEMMA OutputSteps ==
  ASSUME Next
  PROVE  /\ Holders("out") = {} => out' = out
         /\ reader = "done" => UNCHANGED <<reader, put, stdoutError>>
         /\ StdoutReader \/ UNCHANGED <<reader, put, stdoutError>>
<1>1. CASE Processes
  BY <1>1 DEF Processes, Fork, CloseStdout, Die, Emit, Exit, Holders, outVars
<1>2. CASE StdoutReader
  BY <1>2 DEF StdoutReader, ReadLine, ReadRefused, ReadAtEnd, ReaderSignals, ReaderEnds
<1>3. CASE StderrEnds \/ Writer \/ Calls
  BY <1>3 DEF StderrEnds, Writer, WriterWrites, WriterFails, Calls, Request,
     RequestRefused, Finish, outVars
<1>4. CASE InCall
  BY <1>4 DEF InCall, WaitWritten, WaitLine, GotLine, ExchangeExpires,
     LeaderReaped, TermExpires, KillExpires, FinalKill, FinishWait, ShutdownExpires,
     FinishJoin, JoinExpires, KillJoinExpires, DrainLine, DrainEnds, FinishReturns, outVars
<1> QED
  BY <1>1, <1>2, <1>3, <1>4 DEF Next, Background

LEMMA ReadingStep ==
  ASSUME TypeOK, Live, Reading, Next PROVE Reading'
<1>1. CASE StdoutReader
  <2>1. Holders("out") = {} => Holders("out")' = {}
    BY HoldersShrink
  <2> QED
    BY <1>1, <2>1 DEF StdoutReader, ReadLine, ReadRefused, ReadAtEnd, ReaderSignals, ReaderEnds,
       Reading, TypeOK
<1>2. CASE UNCHANGED <<reader, put, stdoutError>>
  BY <1>2, HoldersShrink, OutputSteps DEF Reading
<1> QED
  BY <1>1, <1>2, OutputSteps

-----------------------------------------------------------------------------
(* The threads and processes around the main thread touch nothing of its   *)
(* own, and what was written stays written.                                *)
LEMMA BackgroundKeeps ==
  ASSUME TypeOK, Background
  PROVE  /\ UNCHANGED <<taken, line, handed, pc, timedOut, retained, extra, verdict>>
         /\ \A i \in 1..Len(out) : out'[i] = out[i]
         /\ stdoutError = "none" \/ stdoutError' # "none"
         /\ ReadersDone => ReadersDone' /\ UNCHANGED <<put, sentinel, stdoutError>>
<1> USE DEF ReadersDone, outVars, callVars, endVars
<1>1. CASE Processes
  <2>1. ASSUME NEW p \in Procs, NEW l \in Emits, Emit(p, l)
        PROVE  \A i \in 1..Len(out) : out'[i] = out[i]
    BY <2>1, SessionAssumption DEF Emit, TypeOK
  <2> QED
    BY <1>1, <2>1 DEF Processes, Fork, CloseStdout, Die, Emit, Exit
<1>2. CASE StdoutReader
  BY <1>2 DEF StdoutReader, ReadLine, ReadRefused, ReadAtEnd, ReaderSignals, ReaderEnds
<1>3. CASE StderrEnds \/ Writer
  BY <1>3 DEF StderrEnds, Writer, WriterWrites, WriterFails
<1> QED
  BY <1>1, <1>2, <1>3 DEF Background

Ledger == Accounted /\ Finishing /\ Drained

LEMMA LedgerBackground ==
  ASSUME TypeOK, Ledger, Background PROVE Ledger'
<1>1. Accounted'
  BY BackgroundKeeps DEF Ledger, Accounted, Draining
<1>2. Finishing'
  BY BackgroundKeeps DEF Ledger, Finishing, Draining, QueueEmpty, Pending
<1>3. Drained'
  BY BackgroundKeeps DEF Ledger, Drained, Draining, IsExtra, TypeOK
<1> QED
  BY <1>1, <1>2, <1>3 DEF Ledger

LEMMA LedgerCalls ==
  ASSUME TypeOK, Ledger, Calls PROVE Ledger'
BY DEF Ledger, Accounted, Finishing, Drained, Draining, QueueEmpty, Pending, ReadersDone,
   IsExtra, TypeOK, Calls, Request, RequestRefused, Finish, outVars, callVars, endVars

(* No line of the output is mistaken for the end marker.                   *)
LEMMA NeverEndOfOutput ==
  ASSUME TypeOK, NEW i \in 1..Len(out) PROVE out[i] # EndOfOutput
BY DEF TypeOK, Lines, Answer, EndOfOutput

LEMMA LedgerInCall ==
  ASSUME TypeOK, Ledger, InCall PROVE Ledger'
<1> USE DEF Ledger, Accounted, Finishing, Drained, Draining, QueueEmpty, Pending, ReadersDone,
      IsExtra, TypeOK, outVars, callVars, endVars, Raise
<1>1. CASE WaitWritten
  BY <1>1 DEF WaitWritten
<1>2. CASE WaitLine
  BY <1>2, NeverEndOfOutput DEF WaitLine, Take
<1>3. CASE GotLine
  BY <1>3 DEF GotLine
<1>4. CASE ExchangeExpires \/ ShutdownExpires
  BY <1>4 DEF ExchangeExpires, ShutdownExpires
<1>5. CASE LeaderReaped \/ TermExpires \/ KillExpires \/ FinishWait
  BY <1>5 DEF LeaderReaped, TermExpires, KillExpires, FinishWait
<1>6. CASE FinalKill
  BY <1>6 DEF FinalKill
<1>7. CASE FinishJoin
  BY <1>7 DEF FinishJoin
<1>8. CASE JoinExpires \/ KillJoinExpires
  BY <1>8 DEF JoinExpires, KillJoinExpires
<1>9. CASE DrainLine
  <2>1. Accounted' /\ Finishing'
    BY <1>9 DEF DrainLine, Take
  <2>2. ASSUME stdoutError = "none", ~extra' PROVE ~extra /\ ~IsExtra(line')
    BY <1>9, <2>2, Zenon DEF DrainLine
  <2>3. Drained'
    BY <1>9, <2>2 DEF DrainLine, Take
  <2> QED
    BY <2>1, <2>3
<1>10. CASE DrainEnds
  BY <1>10 DEF DrainEnds
<1>11. CASE FinishReturns
  BY <1>11 DEF FinishReturns, FinishResult
<1> QED
  BY <1>1, <1>2, <1>3, <1>4, <1>5, <1>6, <1>7, <1>8, <1>9, <1>10, <1>11 DEF InCall

-----------------------------------------------------------------------------
(* A clean verdict is reached only from a finished drain, and nothing the  *)
(* other threads and processes still do can disturb it.                    *)
LEMMA CleanStep ==
  ASSUME TypeOK, Live, Finishing, Clean, Next PROVE Clean'
<1>1. CASE verdict = "clean"
  <2>1. pc = "idle" /\ st["leader"] = "ok" /\ reader = "done"
    BY <1>1 DEF Clean, Finishing
  <2>2. ~InCall
    BY <2>1 DEF InCall, WaitWritten, WaitLine, GotLine, ExchangeExpires, LeaderReaped,
       TermExpires, KillExpires, FinalKill, FinishWait, ShutdownExpires, FinishJoin,
       JoinExpires, KillJoinExpires, DrainLine, DrainEnds, FinishReturns
  <2>3. ~Calls
    BY <1>1 DEF Calls, Request, RequestRefused, Finish
  <2>4. UNCHANGED <<verdict, extra, taken>>
    BY <2>2, <2>3, BackgroundKeeps DEF Next
  <2> QED
    BY <1>1, <2>1, <2>4, LeaderStaysExited, OutputSteps DEF Clean
<1>2. CASE verdict # "clean" /\ FinishReturns
  <2>1. CASE verdict' = "clean"
    <3>1. /\ stdoutError = "none" /\ st["leader"] = "ok" /\ ~retained /\ ~extra
          /\ pc = "fin_return"
      BY <1>2, <2>1 DEF FinishReturns, FinishResult, TypeOK
    <3>2. ReadersDone /\ QueueEmpty
      BY <3>1 DEF Finishing, Draining
    <3>3. put = taken
      BY <3>2 DEF QueueEmpty, Pending, TypeOK
    <3> QED
      BY <1>2, <3>1, <3>2, <3>3 DEF FinishReturns, Clean, ReadersDone, procVars, outVars
  <2> QED
    BY <2>1 DEF Clean
<1>3. CASE verdict # "clean" /\ ~FinishReturns
  <2>1. UNCHANGED verdict
    BY <1>3, BackgroundKeeps DEF Next, Calls, Request, RequestRefused, Finish, InCall,
       WaitWritten, WaitLine, GotLine, ExchangeExpires, LeaderReaped,
       TermExpires, KillExpires, FinalKill, FinishWait, ShutdownExpires, FinishJoin,
       JoinExpires, KillJoinExpires, DrainLine, DrainEnds, endVars
  <2> QED
    BY <1>3, <2>1 DEF Clean
<1> QED
  BY <1>1, <1>2, <1>3

LEMMA InvInit ==
  Init => IInv
<1> SUFFICES ASSUME Init PROVE IInv
  OBVIOUS
<1>1. TypeOK
  <2>1. out \in Seq(Lines) /\ put \in 0..Len(out) /\ taken \in 0..put /\ handed \in 0..taken
    BY DEF Init
  <2>2. Pending <= QueueSize
    BY SessionAssumption DEF Init, Pending
  <2>3. /\ st \in [Procs -> {"none", "running", "ok", "bad"}]
        /\ holds \in [Procs -> SUBSET Ends]
    BY DEF Init
  <2> QED
    BY <2>1, <2>2, <2>3 DEF Init, TypeOK
<1>2. Live /\ Reading /\ Accounted
  BY DEF Init, Live, Reading, Accounted, Draining
<1>3. Finishing /\ Drained /\ Clean
  BY DEF Init, Finishing, Drained, Clean, Draining
<1> QED
  BY <1>1, <1>2, <1>3 DEF IInv

LEMMA InvStep ==
  IInv /\ [Next]_vars => IInv'
<1> SUFFICES ASSUME IInv, [Next]_vars PROVE IInv'
  OBVIOUS
<1>1. CASE Next
  <2>1. TypeOK' /\ Live'
    BY <1>1, TypeBackground, TypeInCall, TypeCalls DEF Next, IInv
  <2>2. Reading'
    BY <1>1, ReadingStep DEF IInv
  <2>3. Ledger'
    BY <1>1, LedgerBackground, LedgerCalls, LedgerInCall DEF Next, IInv, Ledger
  <2>4. Clean'
    BY <1>1, CleanStep DEF IInv
  <2> QED
    BY <2>1, <2>2, <2>3, <2>4 DEF IInv, Ledger
<1>2. CASE UNCHANGED vars
  BY <1>2 DEF IInv, TypeOK, Live, Reading, Accounted, Finishing, Drained, Clean, Draining,
     ReadersDone, QueueEmpty, Pending, Running, Holders, IsExtra,
     vars, procVars, outVars, callVars, endVars
<1> QED
  BY <1>1, <1>2

(* The invariant of a session: runner.py's AdapterSession, whatever the    *)
(* adapter's processes do and in whatever order the threads run.           *)
THEOREM Invariant == Spec => []IInv
<1>1. Init => IInv
  BY InvInit
<1>2. IInv /\ [Next]_vars => IInv'
  BY InvStep
<1> QED
  BY <1>1, <1>2, PTL DEF Spec

(* Every variable keeps its type; stdout_lines never holds more than its   *)
(* capacity, and request returns no line it did not take from it.          *)
THEOREM TypeCorrect == Spec => []TypeOK
<1>1. IInv => TypeOK
  BY DEF IInv
<1> QED
  BY <1>1, Invariant, PTL

LEMMA CleanIsExact ==
  IInv => CleanMeansExact
<1> SUFFICES ASSUME IInv, verdict = "clean"
             PROVE  /\ stdoutError = "none" /\ st["leader"] = "ok"
                    /\ \A i \in handed + 1..Len(out) : out[i].kind = "blank"
  BY DEF CleanMeansExact
<1>1. stdoutError = "none" /\ st["leader"] = "ok" /\ ~extra /\ taken = Len(out)
  BY DEF IInv, Clean, Reading
<1>2. ASSUME NEW i \in handed + 1..Len(out) PROVE out[i].kind = "blank"
  <2>1. ~IsExtra(out[i])
    BY <1>1, <1>2 DEF IInv, Drained
  <2>2. i \in 1..Len(out)
    BY <1>2 DEF IInv, TypeOK
  <2>3. out[i] \in Lines
    BY <2>2 DEF IInv, TypeOK
  <2> QED
    BY <2>1, <2>3 DEF IsExtra, Lines, Answer
<1> QED
  BY <1>1, <1>2

(* When finish returns None, the leader exited with 0, no stdout error was *)
(* noted, and every line beyond those that request returned is blank.      *)
THEOREM CleanExact == Spec => []CleanMeansExact
BY CleanIsExact, Invariant, PTL

(* After finish returns None, nobody writes another line and the reader    *)
(* notes nothing more: a late output cannot belie the verdict.             *)
THEOREM CleanFinal == Spec => CleanIsFinal
<1>1. IInv /\ [Next]_vars => (verdict = "clean" => UNCHANGED <<out, stdoutError, put>>)
  <2> SUFFICES ASSUME IInv, [Next]_vars, verdict = "clean"
               PROVE  UNCHANGED <<out, stdoutError, put>>
    OBVIOUS
  <2>1. Holders("out") = {} /\ reader = "done"
    BY DEF IInv, Clean, Reading
  <2>2. CASE Next
    BY <2>1, <2>2, OutputSteps
  <2>3. CASE UNCHANGED vars
    BY <2>3 DEF vars, outVars
  <2> QED
    BY <2>2, <2>3
<1> QED
  BY <1>1, Invariant, PTL DEF Spec, CleanIsFinal

-----------------------------------------------------------------------------
(* The case loop, CaseRun.                                                 *)

Stopping == pc \in {"term_wait", "kill_wait", "final_kill"}

(* The line in the main thread's hands is the last one it took, and the    *)
(* one request returned is the last one handed out.                        *)
InHand ==
  /\ pc = "got_line" /\ line # EndOfOutput => taken > 0 /\ line = out[taken]
  /\ pc = "idle" /\ outcome = "line" /\ verdict = "none" => handed > 0 /\ line = out[handed]

(* Where the main thread may be in each phase, and how far the case got.   *)
Progress ==
  /\ phase = "next" => pc = "idle" /\ verdict = "none" /\ handed = step - 1
  /\ phase = "await" =>
       /\ pc \in {"idle", "wait_write", "wait_line", "got_line"} \/ (Stopping /\ stopFor = "request")
       /\ verdict = "none" /\ step <= Steps
       /\ IF pc = "idle"
          THEN outcome = "line" => handed = step
          ELSE outcome # "line" /\ handed = step - 1
  /\ phase \in {"closing", "done"} =>
       /\ pc \in {"idle", "fin_wait", "fin_join", "fin_kill_join", "fin_drain", "fin_return"}
            \/ (Stopping /\ stopFor = "finish")
       /\ ~errors => handed = Steps
  /\ phase = "done" => verdict # "none"
  /\ phase = "finish" => errors /\ pc = "idle" /\ verdict = "none"
  /\ result = "PASS" => phase = "done" /\ ~errors /\ verdict = "clean"

(* Every step behind the current one had its answer.                       *)
Answers == \A i \in 1..step - 1 : i <= handed /\ out[i] = Answer(i)

(* With no error recorded the loop ends only behind the last step.         *)
Complete == phase \in {"closing", "done"} /\ ~errors => step = Steps + 1

CaseInv == CaseTypeOK /\ InHand /\ Progress /\ Answers /\ Complete

-----------------------------------------------------------------------------
(* What the loop knows of the session moves only with the main thread.     *)
LEMMA LoopUndisturbed ==
  ASSUME TypeOK, Background
  PROVE  /\ UNCHANGED <<pc, stopFor, outcome, line, taken, handed, verdict>>
         /\ \A i \in 1..Len(out) : out'[i] = out[i]
<1>1. UNCHANGED <<stopFor, outcome>>
  BY DEF Background, Processes, Fork, CloseStdout, Die, Emit, Exit, StdoutReader, ReadLine,
     ReadRefused, ReadAtEnd, ReaderSignals, ReaderEnds, StderrEnds, Writer, WriterWrites,
     WriterFails, callVars
<1> QED
  BY <1>1, BackgroundKeeps

LEMMA CaseBackground ==
  ASSUME IInv, CaseInv, Background, UNCHANGED caseVars
  PROVE  InHand' /\ Progress' /\ Answers' /\ Complete'
<1>1. TypeOK
  BY DEF IInv
<1>2. InHand'
  BY <1>1, LoopUndisturbed DEF CaseInv, InHand, TypeOK
<1>3. Progress'
  BY <1>1, LoopUndisturbed DEF CaseInv, Progress, Stopping, caseVars
<1>4. Answers'
  BY <1>1, LoopUndisturbed DEF CaseInv, CaseTypeOK, Answers, caseVars, TypeOK
<1>5. Complete'
  BY DEF CaseInv, Complete, caseVars
<1> QED
  BY <1>2, <1>3, <1>4, <1>5

LEMMA CaseInCall ==
  ASSUME IInv, CaseInv, InCall, UNCHANGED caseVars
  PROVE  InHand' /\ Progress' /\ Answers' /\ Complete'
<1> USE DEF IInv, TypeOK, CaseInv, InHand, Progress, Stopping, Answers, caseVars, Raise,
      outVars, callVars, endVars
<1>0. Complete'
  BY DEF Complete
<1>1. CASE WaitWritten
  BY <1>0, <1>1 DEF WaitWritten
<1>2. CASE WaitLine
  <2>1. /\ pc = "wait_line" /\ pc' = "got_line"
        /\ \/ line' = EndOfOutput /\ taken' = taken
           \/ line' = out[taken + 1] /\ taken' = taken + 1
        /\ UNCHANGED <<out, handed, outcome, stopFor, verdict, phase, step, errors, result>>
    BY <1>2 DEF WaitLine, Take
  <2>2. InHand'
    BY <2>1
  <2>3. Progress' /\ Answers'
    BY <2>1
  <2> QED
    BY <1>0, <2>2, <2>3
<1>3. CASE GotLine
  <2>1. /\ pc = "got_line" /\ pc' = "idle" /\ phase = "await" /\ handed = step - 1
        /\ UNCHANGED <<out, taken, line, stopFor, verdict, phase, step, errors, result>>
    BY <1>3 DEF GotLine, CaseTypeOK
  <2>2. CASE outcome' = "raised" /\ handed' = handed
    BY <1>0, <2>1, <2>2
  <2>3. CASE outcome' = "line" /\ handed' = handed + 1 /\ stdoutError = "none" /\ line # EndOfOutput
    <3>1. taken = handed + 1 /\ line = out[taken]
      BY <2>1, <2>3 DEF Accounted
    <3>2. InHand'
      BY <2>1, <2>3, <3>1
    <3>3. Progress'
      BY <2>1, <2>3 DEF CaseTypeOK
    <3>4. Answers'
      BY <2>1, <2>3 DEF CaseTypeOK
    <3> QED
      BY <1>0, <3>2, <3>3, <3>4
  <2> QED
    BY <1>3, <2>2, <2>3 DEF GotLine
<1>4. CASE ExchangeExpires
  BY <1>0, <1>4 DEF ExchangeExpires
<1>5. CASE LeaderReaped \/ TermExpires \/ KillExpires
  BY <1>0, <1>5 DEF LeaderReaped, TermExpires, KillExpires
<1>6. CASE FinalKill
  BY <1>0, <1>6 DEF FinalKill
<1>7. CASE FinishWait \/ ShutdownExpires
  BY <1>0, <1>7 DEF FinishWait, ShutdownExpires
<1>8. CASE FinishJoin \/ JoinExpires \/ KillJoinExpires \/ DrainEnds
  BY <1>0, <1>8 DEF FinishJoin, JoinExpires, KillJoinExpires, DrainEnds
<1>9. CASE DrainLine
  <2>1. /\ pc = "fin_drain" /\ pc' = pc
        /\ UNCHANGED <<out, handed, outcome, stopFor, verdict, phase, step, errors, result>>
    BY <1>9 DEF DrainLine
  <2>2. InHand' /\ Progress' /\ Answers'
    BY <2>1
  <2> QED
    BY <1>0, <2>2
<1>10. CASE FinishReturns
  <2>1. /\ pc = "fin_return" /\ pc' = "idle"
        /\ UNCHANGED <<out, line, taken, handed, outcome, stopFor, phase, step, errors, result>>
    BY <1>10 DEF FinishReturns
  <2>2. verdict = "none" /\ verdict' # "none"
    BY <1>10, <2>1 DEF FinishReturns, FinishResult, Finishing
  <2>3. phase \in {"closing", "done"}
    BY <2>1, <2>2 DEF CaseTypeOK
  <2>4. phase = "closing" /\ result # "PASS"
    BY <2>2, <2>3
  <2>5. InHand' /\ Answers'
    BY <2>1, <2>2
  <2>6. Progress'
    BY <2>1, <2>2, <2>4
  <2> QED
    BY <1>0, <2>5, <2>6
<1> QED
  BY <1>1, <1>2, <1>3, <1>4, <1>5, <1>6, <1>7, <1>8, <1>9, <1>10 DEF InCall

LEMMA CaseLoop ==
  ASSUME IInv, CaseInv, Loop
  PROVE  InHand' /\ Progress' /\ Answers' /\ Complete'
<1> USE SessionAssumption DEF IInv, TypeOK, CaseInv, CaseTypeOK, InHand, Progress, Stopping,
      Answers, Complete, outVars, callVars, endVars, vars
<1>1. CASE TemplateFails
  BY <1>1 DEF TemplateFails
<1>2. CASE SendStep
  BY <1>2 DEF SendStep, Request, RequestRefused
<1>3. CASE InvalidResponse
  BY <1>3 DEF InvalidResponse
<1>4. CASE ValidResponse
  BY <1>4 DEF ValidResponse
<1>5. CASE CloseSession
  BY <1>5 DEF CloseSession, Finish
<1>6. CASE Report
  BY <1>6 DEF Report
<1> QED
  BY <1>1, <1>2, <1>3, <1>4, <1>5, <1>6 DEF Loop

(* Seen from the session, the loop only makes calls.                       *)
LEMMA SessionStep ==
  ASSUME [CaseNext]_allVars PROVE [Next]_vars
BY DEF CaseNext, Loop, TemplateFails, SendStep, InvalidResponse, ValidResponse, CloseSession,
   Report, Next, Calls, allVars

LEMMA CaseTypeStep ==
  ASSUME IInv', CaseInv, [CaseNext]_allVars PROVE CaseTypeOK'
<1>1. TypeOK'
  BY DEF IInv
<1>2. /\ phase' \in {"next", "await", "finish", "closing", "done"} /\ step' \in 1..Steps + 1
      /\ errors' \in BOOLEAN /\ result' \in {"none", "PASS", "FAIL"}
  <2> USE SessionAssumption DEF CaseInv, CaseTypeOK
  <2>1. CASE UNCHANGED caseVars
    BY <2>1 DEF caseVars
  <2>2. CASE TemplateFails \/ InvalidResponse \/ Report \/ CloseSession
    BY <2>2 DEF TemplateFails, InvalidResponse, Report, CloseSession
  <2>3. CASE SendStep
    BY <2>3 DEF SendStep
  <2>4. CASE ValidResponse
    <3>1. step + 1 \in 1..Steps + 1
      BY <2>4 DEF ValidResponse, Progress
    <3>2. errors' \in BOOLEAN
      BY <2>4, Zenon DEF ValidResponse
    <3> QED
      BY <2>4, <3>1, <3>2 DEF ValidResponse
  <2> QED
    BY <2>1, <2>2, <2>3, <2>4 DEF CaseNext, Loop, allVars, caseVars
<1> QED
  BY <1>1, <1>2 DEF CaseTypeOK

LEMMA CaseInvInit ==
  CaseInit => IInv /\ CaseInv
<1> SUFFICES ASSUME CaseInit PROVE IInv /\ CaseInv
  OBVIOUS
<1>1. IInv
  BY InvInit DEF CaseInit
<1>2. CaseTypeOK
  <2>1. TypeOK
    BY <1>1 DEF IInv
  <2>2. step \in 1..Steps + 1
    BY SessionAssumption DEF CaseInit
  <2> QED
    BY <2>1, <2>2 DEF CaseTypeOK, CaseInit
<1>3. InHand /\ Progress /\ Answers /\ Complete
  BY SessionAssumption DEF CaseInit, Init, InHand, Progress, Answers, Complete
<1> QED
  BY <1>1, <1>2, <1>3 DEF CaseInv

LEMMA CaseInvStep ==
  IInv /\ CaseInv /\ [CaseNext]_allVars => IInv' /\ CaseInv'
<1> SUFFICES ASSUME IInv, CaseInv, [CaseNext]_allVars PROVE IInv' /\ CaseInv'
  OBVIOUS
<1>1. IInv'
  BY SessionStep, InvStep
<1>2. CaseTypeOK'
  BY <1>1, CaseTypeStep
<1>3. ASSUME UNCHANGED allVars PROVE InHand' /\ Progress' /\ Answers' /\ Complete'
  <2>1. UNCHANGED <<out, taken, pc, stopFor, line, outcome, handed, verdict, phase, step, errors, result>>
    BY <1>3 DEF allVars, caseVars, vars, outVars, callVars, endVars
  <2>2. InHand /\ Progress /\ Answers /\ Complete
    BY DEF CaseInv
  <2>3. InHand' /\ Progress'
    BY <2>1, <2>2 DEF InHand, Progress, Stopping
  <2>4. Answers' /\ Complete'
    BY <2>1, <2>2 DEF Answers, Complete
  <2> QED
    BY <2>3, <2>4
<1>4. ASSUME CaseNext PROVE InHand' /\ Progress' /\ Answers' /\ Complete'
  BY <1>4, CaseBackground, CaseInCall, CaseLoop DEF CaseNext
<1> QED
  BY <1>1, <1>2, <1>3, <1>4 DEF CaseInv

(* The loop and the session it runs keep their types.                      *)
THEOREM CaseTypeCorrect == CaseSpec => []CaseTypeOK
<1>1. IInv /\ CaseInv => CaseTypeOK
  BY DEF CaseInv
<1> QED
  BY <1>1, CaseInvInit, CaseInvStep, PTL DEF CaseSpec

(* A case is reported PASS only for an output that is one correlated       *)
(* answer for each step, in order, and blank lines behind them.            *)
THEOREM PassIsEarned == CaseSpec => []PassEarned
<1>1. IInv /\ CaseInv => PassEarned
  <2> SUFFICES ASSUME IInv, CaseInv, result = "PASS"
               PROVE  /\ Len(out) >= Steps
                      /\ \A i \in 1..Len(out) :
                           IF i <= Steps THEN out[i] = Answer(i) ELSE out[i].kind = "blank"
                      /\ st["leader"] = "ok" /\ stdoutError = "none"
    BY DEF PassEarned
  <2>1. verdict = "clean" /\ step = Steps + 1 /\ handed = Steps
    BY DEF CaseInv, Progress, Complete
  <2>2. /\ st["leader"] = "ok" /\ stdoutError = "none"
        /\ \A i \in handed + 1..Len(out) : out[i].kind = "blank"
    BY <2>1, CleanIsExact DEF CleanMeansExact
  <2>3. Steps \in Nat /\ Len(out) \in Nat /\ handed <= Len(out)
    BY SessionAssumption DEF IInv, TypeOK
  <2>4. \A i \in 1..Steps : out[i] = Answer(i)
    BY <2>1, <2>3 DEF CaseInv, Answers
  <2> QED
    BY <2>1, <2>2, <2>3, <2>4
<1> QED
  BY <1>1, CaseInvInit, CaseInvStep, PTL DEF CaseSpec

=============================================================================
