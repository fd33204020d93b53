--------------------------- MODULE ActualHubBound ---------------------------
(***************************************************************************)
(* run_actual_hub of conformance/runner.py on a POSIX host: the acceptance *)
(* command runs as the leader of a process group of its own, is waited for *)
(* until the total deadline, and however the wait ends, by the command, by *)
(* the deadline or by an interrupt of the user, the group is asked to stop *)
(* and then killed.  The command and its descendants fork, leave the group *)
(* and exit as they like, and any of them may ignore SIGTERM.              *)
(***************************************************************************)
EXTENDS Naturals, FiniteSets

CONSTANTS
  Descendants,      \* processes the command may start, in its group or out of it
  MaxInterrupts     \* bound: interrupts of the user

ASSUME BoundAssumption ==
  /\ "command" \notin Descendants /\ IsFiniteSet(Descendants) /\ MaxInterrupts \in Nat

Procs == {"command"} \cup Descendants

VARIABLES
  running, grouped,     \* the processes that run, and those of the command's group
  started,              \* those that ever ran
  killed,               \* those with a pending SIGKILL
  bound_pc,                   \* "wait", "stop", "grace", "kill", "reap" or "done"
  ended,              \* "returned", "deadline" or "interrupted"
  interrupts

processes == <<running, grouped, started, killed>>
control == <<bound_pc, ended, interrupts>>
bound_vars == <<processes, control>>

Members == running \cap grouped

BoundInit ==
  /\ running = {"command"} /\ grouped = {"command"} /\ started = {"command"} /\ killed = {}
  /\ bound_pc = "wait" /\ ended = "none" /\ interrupts = 0

-----------------------------------------------------------------------------
(* The processes.  A pending SIGKILL interrupts a fork.                    *)
Fork(p, q) ==
  /\ p \in running \ killed /\ q \notin started
  /\ running' = running \cup {q} /\ started' = started \cup {q}
  /\ grouped' = IF p \in grouped THEN grouped \cup {q} ELSE grouped
  /\ UNCHANGED <<killed, control>>

Leave(p) ==
  /\ p \in Members \ killed /\ p # "command"
  /\ grouped' = grouped \ {p} /\ UNCHANGED <<running, started, killed, control>>

Exit(p) ==
  /\ p \in running
  /\ running' = running \ {p} /\ killed' = killed \ {p}
  /\ UNCHANGED <<grouped, started, control>>

Die(p) == p \in killed /\ Exit(p)

-----------------------------------------------------------------------------
(* run_actual_hub.                                                         *)
Goto(next, as) == bound_pc' = next /\ ended' = as /\ UNCHANGED interrupts

Returned == bound_pc = "wait" /\ "command" \notin running /\ Goto("stop", "returned") /\ UNCHANGED processes
Deadline == bound_pc = "wait" /\ Goto("stop", "deadline") /\ UNCHANGED processes

(* An interrupt ends any of the three waits: the first goes to the finally *)
(* block, the second to the one inside it, the third to the caller.        *)
AfterInterrupt == [wait |-> "stop", grace |-> "kill", reap |-> "done"]
Interrupt ==
  /\ interrupts < MaxInterrupts /\ bound_pc \in DOMAIN AfterInterrupt
  /\ bound_pc' = AfterInterrupt[bound_pc] /\ ended' = "interrupted" /\ interrupts' = interrupts + 1
  /\ UNCHANGED processes

(* os.killpg with SIGTERM ends the members that do not ignore it; with no  *)
(* member left it finds no process.                                        *)
SendTerm ==
  /\ bound_pc = "stop" /\ Goto("grace", ended)
  /\ \E gone \in SUBSET Members : running' = running \ gone
  /\ UNCHANGED <<grouped, started, killed>>

(* The command ended, or half a second ran out.                            *)
GraceEnds == bound_pc = "grace" /\ Goto("kill", ended) /\ UNCHANGED processes

(* Mutant: a command that has ended is taken for the end of its group. *)
TargetsWithCommand == IF "command" \in running THEN Members ELSE {}

Targets == Members

SendKill ==
  /\ bound_pc = "kill" /\ Goto("reap", ended)
  /\ killed' = killed \cup Targets /\ UNCHANGED <<running, grouped, started>>

Reaped == bound_pc = "reap" /\ "command" \notin running /\ Goto("done", ended) /\ UNCHANGED processes

Runner == Returned \/ Deadline \/ SendTerm \/ GraceEnds \/ SendKill \/ Reaped
Processes ==
  \E p \in Procs : Leave(p) \/ Exit(p) \/ Die(p) \/ \E q \in Descendants : Fork(p, q)
BoundNext == Runner \/ Interrupt \/ Processes

(* The deadlines pass and the kernel delivers its signals; the processes   *)
(* need not do anything.                                                   *)
BoundFairness == WF_bound_vars(Runner) /\ \A p \in Procs : WF_bound_vars(Die(p))
BoundSpec == BoundInit /\ [][BoundNext]_bound_vars /\ BoundFairness

-----------------------------------------------------------------------------
(* When run_actual_hub ends, however it ends, every process still in the   *)
(* command's group is doomed, the members a command left behind as it      *)
(* ended too (runner.py:907, 913-933).                                     *)
NothingSpared == bound_pc = "done" => Members \subseteq killed

(* It ends and its group is empty for ever, whatever the command and its   *)
(* descendants ignore.                                                     *)
GroupGone == <>[](bound_pc = "done" /\ Members = {})
=============================================================================
