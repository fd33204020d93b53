------------------------------- MODULE CaseRun -------------------------------
(***************************************************************************)
(* One profile/case pair of run() in conformance/runner.py: the loop over  *)
(* the steps of a case, composed with the AdapterSession it opens, and the *)
(* PASS or FAIL the runner prints for it.                                  *)
(***************************************************************************)
EXTENDS AdapterSession

VARIABLES
  phase,   \* where the loop is: "next", "await", "finish", "closing" or "done"
  step,    \* index of the current step
  errors,  \* case_errors is not empty
  result   \* "none", then "PASS" or "FAIL"

caseVars == <<phase, step, errors, result>>
allVars == <<vars, caseVars>>

-----------------------------------------------------------------------------
(* A template names a value of an earlier response that does not have it.  *)
TemplateFails ==
  /\ phase = "next" /\ step \in 2..Steps /\ ~Cooperative
  /\ errors' = TRUE /\ phase' = "finish"
  /\ UNCHANGED <<vars, step, result>>

SendStep ==
  /\ phase = "next" /\ step <= Steps
  /\ Request \/ RequestRefused
  /\ phase' = "await"
  /\ UNCHANGED <<step, errors, result>>

(* request raised, or the line is not the correlated answer of this step:  *)
(* the loop breaks.                                                        *)
InvalidResponse ==
  /\ phase = "await" /\ pc = "idle"
  /\ outcome = "raised" \/ line # Answer(step)
  /\ errors' = TRUE /\ phase' = "finish"
  /\ UNCHANGED <<vars, step, result>>

(* Mutant: any answer of the case is taken for the one of this step. *)
UncorrelatedResponse ==
  /\ phase = "await" /\ pc = "idle"
  /\ outcome = "line" /\ line.kind = "answer"
  /\ step' = step + 1 /\ phase' = "next"
  /\ UNCHANGED <<vars, errors, result>>

(* A correlated answer: a failed expectation is recorded and the case goes *)
(* on to its next step.                                                    *)
ValidResponse ==
  /\ phase = "await" /\ pc = "idle"
  /\ outcome = "line" /\ line = Answer(step)
  /\ IF Cooperative THEN UNCHANGED errors ELSE errors' \in {errors, TRUE}
  /\ step' = step + 1 /\ phase' = "next"
  /\ UNCHANGED <<vars, result>>

CloseSession ==
  /\ phase = "finish" \/ (phase = "next" /\ step > Steps)
  /\ Finish
  /\ phase' = "closing"
  /\ UNCHANGED <<step, errors, result>>

Report ==
  /\ phase = "closing" /\ verdict # "none"
  /\ result' = IF errors \/ verdict # "clean" THEN "FAIL" ELSE "PASS"
  /\ phase' = "done"
  /\ UNCHANGED <<vars, step, errors>>

CaseInit == Init /\ phase = "next" /\ step = 1 /\ errors = FALSE /\ result = "none"

Loop == TemplateFails \/ SendStep \/ InvalidResponse \/ ValidResponse \/ CloseSession \/ Report
CaseNext ==
  \/ Background /\ UNCHANGED caseVars
  \/ InCall /\ UNCHANGED caseVars
  \/ Loop

CaseSpec == CaseInit /\ [][CaseNext]_allVars

(* The runner's threads are scheduled and its timeouts run out.            *)
CaseFairness ==
  /\ WF_allVars(Loop)
  /\ WF_allVars(InCall /\ UNCHANGED caseVars)
  /\ WF_allVars(StdoutReader /\ UNCHANGED caseVars)
  /\ WF_allVars(StderrEnds /\ UNCHANGED caseVars)
  /\ WF_allVars(WriterFails /\ UNCHANGED caseVars)
  /\ \A p \in Procs : WF_allVars(Die(p) /\ UNCHANGED caseVars)

(* A cooperative adapter also reads its requests, answers each one and     *)
(* exits at the end of its stdin.                                          *)
AdapterFairness ==
  /\ WF_allVars(WriterWrites /\ UNCHANGED caseVars)
  /\ WF_allVars(Processes /\ UNCHANGED caseVars)

FairCaseSpec == CaseSpec /\ CaseFairness
CooperativeSpec == FairCaseSpec /\ AdapterFairness

-----------------------------------------------------------------------------
CaseTypeOK ==
  /\ TypeOK
  /\ phase \in {"next", "await", "finish", "closing", "done"}
  /\ step \in 1..Steps + 1
  /\ errors \in BOOLEAN
  /\ result \in {"none", "PASS", "FAIL"}

(* A case passes only if the adapter's output began with one correlated    *)
(* answer for each step, in the order of the steps, and nothing but blank  *)
(* lines followed: no line is missed, repeated, out of order, or left over *)
(* unread, and none was refused, however the threads interleave.           *)
PassEarned ==
  result = "PASS" =>
    /\ Len(out) >= Steps
    /\ \A i \in 1..Len(out) :
         IF i <= Steps THEN out[i] = Answer(i) ELSE out[i].kind = "blank"
    /\ st["leader"] = "ok" /\ stdoutError = "none"

(* Whatever the adapter does, the case is reported: a stalled or noisy     *)
(* adapter never hangs the gate.                                           *)
CaseSettles == <>(phase = "done")

(* An adapter that answers each request once and exits at the end of its   *)
(* stdin passes when no timeout runs out: the harness fails no good case.  *)
CooperativePasses == <>(result = "PASS")

=============================================================================
