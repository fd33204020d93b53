-------------------------- MODULE MatrixAdmission ---------------------------
(***************************************************************************)
(* The admission of one matrix case by matrix_contract.py, over what a     *)
(* session really did.  The controller verifies, stops and starts the Hub  *)
(* and gives every operation the next sequence number; the Hub may also    *)
(* come back in a new generation that nobody started.  Only rows of a      *)
(* running Hub are exported, and rows may be missing from the export.  The *)
(* validator sees the export, the invocation that the runner recorded and  *)
(* the evidence of the adapter, and must tell from them what happened.     *)
(***************************************************************************)
EXTENDS Integers, Sequences, FiniteSets, FiniteSetsExt

CONSTANTS
  Cases,            \* the cases; Restart and Service are two of them
  Restart, Service,
  Operation,        \* the operation of every case
  Kind,             \* its kind of evidence
  Facts,            \* the facts that the context lets expect
  RequiredExchanges,         \* the exchanges that distinguish it
  AllSessions, OwnSession, \* the sessions, and the one that is validated
  MaxSequence,      \* bound: operations of a session
  Variants(_)       \* what may become of the documents of an honest adapter

(* Two cases differ in their operation or in what they must have found.    *)
ASSUME CaseAssumption ==
  /\ {Restart, Service} \subseteq Cases /\ OwnSession \in AllSessions /\ MaxSequence \in Nat \ {0}
  /\ \A c, d \in Cases : Operation[c] = Operation[d] /\ Facts[c] = Facts[d] => c = d
  /\ \A c \in Cases : RequiredExchanges[c] \in Seq(STRING)

FirstError(checks) ==
  LET failing == {i \in DOMAIN checks : checks[i][2]}
  IN  IF failing = {} THEN "accepted" ELSE checks[Min(failing)][1]

VARIABLES
  log,          \* the operations: [operation, running, generation, store, origin, stopped]
  generation,   \* of the Hub that runs now, 0 when it is stopped
  latest,       \* the youngest generation there has been
  store,        \* the store it has
  documents,    \* [case, invocation, raw, valid] as validated, or <<>>
  exported,     \* the sequence numbers exported
  code          \* the validator's decision

admission_vars == <<log, generation, latest, store, documents, exported, code>>

-----------------------------------------------------------------------------
(* The controller and the Hub, as the validator must suppose them.         *)
Running == {n \in DOMAIN log : log[n].running}
Stopped == {n \in DOMAIN log : log[n].operation = "stop"}
Record(operation, running, g, s, origin, stopped) ==
  log' = Append(log, [operation |-> operation, running |-> running, generation |-> g, store |-> s,
                      origin |-> origin, stopped |-> stopped])
OpenWindow == code = "none" /\ Len(log) < MaxSequence /\ UNCHANGED <<documents, exported, code>>

AdmissionInit ==
  /\ log = <<[operation |-> "start", running |-> TRUE, generation |-> 1, store |-> 1,
              origin |-> 0, stopped |-> 0]>>
  /\ generation = 1 /\ latest = 1 /\ store = 1
  /\ documents = <<>> /\ exported = {} /\ code = "none"

VerifyRows ==
  /\ OpenWindow /\ generation # 0
  /\ Record("verify", TRUE, generation, store, 0, 0)
  /\ UNCHANGED <<generation, latest, store>>

StopHub ==
  /\ OpenWindow /\ generation # 0
  /\ Record("stop", FALSE, generation, store, 0, 0)
  /\ generation' = 0
  /\ UNCHANGED <<latest, store>>

StartHub ==
  /\ OpenWindow /\ generation = 0
  /\ \E s \in {store, store + 1} :
       /\ s <= 2
       /\ Record("start", TRUE, latest + 1, s, Max(Running), Max(Stopped))
       /\ store' = s
  /\ generation' = latest + 1 /\ latest' = latest + 1

(* The Hub died and came back by itself; twice between two operations is   *)
(* no different from once.                                                 *)
Return ==
  /\ OpenWindow /\ generation # 0 /\ generation = log[Len(log)].generation
  /\ generation' = latest + 1 /\ latest' = latest + 1
  /\ UNCHANGED <<log, store>>

(***************************************************************************)
(* _restart_controller_join on the exported rows from before to after.     *)
(***************************************************************************)
Window(rows, before, after) == rows \cap before..after
Previous(rows, before, n) == Max({m \in rows : before <= m /\ m < n})

(* Mutant: a start need not name the row just before it. *)
StartJoinedAnywhere(rows, before, after, n) ==
  /\ before <= log[n].origin /\ log[n].origin < log[n].stopped
  /\ log[n].generation # log[Previous(rows, before, n)].generation
StartJoined(rows, before, after, n) ==
  /\ log[n].origin = Previous(rows, before, n)
  /\ before <= log[n].origin /\ log[n].origin < log[n].stopped /\ log[n].stopped < n /\ n <= after
  /\ log[n].stopped \notin rows
  /\ log[n].generation # log[Previous(rows, before, n)].generation

RestartJoin(rows, before, after) ==
  LET window == Window(rows, before, after)
      later == window \ {before}
      starts == {n \in later : log[n].operation = "start"}
  IN  /\ before < after
      /\ \A n \in window : log[n].store = log[before].store
      /\ \A n \in starts : StartJoined(rows, before, after, n)
      /\ \A n \in later \ starts : log[n].generation = log[Previous(rows, before, n)].generation
      /\ starts # {}
      /\ log[Max(window)].generation # log[before].generation

(***************************************************************************)
(* _admit.  documents is what the runner hands over: valid holds the parts *)
(* that are sound in themselves (shapes, actor, source, digests).          *)
(***************************************************************************)
Parts == <<<<"context", "wrong_context">>, <<"actor", "wrong_actor">>,
           <<"manifest", "installed_manifest_mismatch">>, <<"source", "wrong_source_role">>>>

Identified(c, raw) ==
  raw.session = OwnSession /\ raw.actor = "own" /\ raw.operation = Operation[c.id] /\ raw.manifest = "own"
Identity(c, raw) == Identified(c, raw)

(* What the case must have found, and the exchanges it must have made.     *)
Expected(id) == Facts[id]
RequestsMatch(id, requests) == [i \in DOMAIN requests |-> requests[i].exchange] = RequiredExchanges[id]

ClosedDown == [status |-> "passed", transport |-> TRUE, fixture |-> TRUE, process |-> TRUE]
IdsOf(requests) ==
  LET withId == {i \in DOMAIN requests : requests[i].id # <<>>}
  IN  [k \in 1..Cardinality(withId) |->
         requests[CHOOSE i \in withId : Cardinality({j \in withId : j <= i}) = k].id]
Distinct(s) == \A i, j \in DOMAIN s : i # j => s[i] # s[j]

Admit(d, rows) ==
  LET c == d.case
      inv == d.invocation
      raw == d.raw
      part(i) == Parts[i][1] \notin d.valid
      parts == FirstError([i \in DOMAIN Parts |-> <<Parts[i][2], part(i)>>])
      anchored == 0 < inv.before /\ inv.before <= inv.after /\ {inv.before, inv.after} \subseteq rows
      ids == IdsOf(raw.requests)
  IN  IF c.id \notin Cases THEN "unknown_case" ELSE FirstError(<<
        <<parts, parts # "accepted">>,
        <<"case_shape", c.status # (IF c.id = Service THEN "pending" ELSE "passed") \/ c.kind # Kind[c.id]>>,
        <<"literal_mismatch", c.expected # c.actual \/ c.actual # Expected(c.id)>>,
        <<"invocation_missing", inv.case # c.id>>,
        <<"wrong_actor", inv.actor # "own">>,
        <<"operation_mismatch", inv.operation # Operation[c.id]>>,
        <<"sequence_mismatch", ~anchored>>,
        <<"controller_mismatch", c.id = Restart /\ anchored /\ ~RestartJoin(rows, inv.before, inv.after)>>,
        <<"raw_missing", raw.id # inv.evidence>>,
        <<"raw_identity_mismatch", ~Identity(c, raw)>>,
        <<"sequence_mismatch", raw.before # inv.before \/ raw.after # inv.after>>,
        <<"raw_fact_mismatch", raw.facts # Expected(c.id)>>,
        <<"raw_identity_mismatch", "credential" \notin d.valid>>,
        <<"cleanup_failure", raw.cleanup # ClosedDown>>,
        <<"request_mismatch", "requests" \notin d.valid \/ raw.ids # ids \/ ~Distinct(ids) \/ ids # inv.ids>>,
        <<"request_mismatch", c.transcript # raw.requests>>,
        <<"request_mismatch", ~RequestsMatch(c.id, raw.requests)>>,
        <<"runner_owned_service_runtime", c.id = Service>> >>)

(* The documents of an adapter that did the case from before to after.     *)
AllValid == {"context", "actor", "manifest", "source", "credential", "requests"}
Evidence(session, id, before, after) ==
  LET requests == [i \in DOMAIN RequiredExchanges[id] |->
                     [exchange |-> RequiredExchanges[id][i], id |-> <<session, id, before, after, i>>]]
  IN  [of |-> <<session, id, before, after>>, id |-> <<id, before>>, session |-> session, actor |-> "own",
       operation |-> Operation[id], manifest |-> "own", before |-> before, after |-> after,
       facts |-> Facts[id], cleanup |-> ClosedDown, requests |-> requests, ids |-> IdsOf(requests)]
Honest(id, before, after) ==
  LET raw == Evidence(OwnSession, id, before, after)
  IN  [case |-> [id |-> id, status |-> IF id = Service THEN "pending" ELSE "passed", kind |-> Kind[id],
                 expected |-> Facts[id], actual |-> Facts[id], transcript |-> raw.requests],
       invocation |-> [case |-> id, actor |-> "own", operation |-> Operation[id], before |-> before,
                       after |-> after, evidence |-> <<id, before>>, ids |-> raw.ids],
       raw |-> raw, valid |-> AllValid]

(* Documents may be altered, exchanged or taken from another session, but  *)
(* evidence says truly of which session, operation and window it is, and   *)
(* altered facts are those of no case.                                     *)
Truthful(d) ==
  /\ Len(d.raw.requests) \in Nat /\ DOMAIN d.raw.requests = 1..Len(d.raw.requests)
  /\ \E c \in Cases :
       /\ d.raw.of = <<d.raw.session, c, d.raw.before, d.raw.after>>
       /\ d.raw.operation = Operation[c]
       /\ d.raw.facts \in {Facts[other] : other \in Cases} => d.raw.facts = Facts[c]
ASSUME EvidenceAssumption ==
  \A id \in Cases, before, after \in 1..MaxSequence :
    \A d \in Variants(Honest(id, before, after)) : Truthful(d)

AdmitCase ==
  /\ code = "none"
  /\ \E id \in Cases, before, after \in DOMAIN log :
       \/ /\ documents' = Honest(id, before, after)
          /\ exported' \in SUBSET Running
       \/ /\ documents' \in Variants(Honest(id, before, after))
          /\ exported' = Running
  /\ code' = Admit(documents', exported')
  /\ UNCHANGED <<log, generation, latest, store>>

AdmissionNext == VerifyRows \/ StopHub \/ StartHub \/ Return \/ AdmitCase

AdmissionSpec == AdmissionInit /\ [][AdmissionNext]_admission_vars

-----------------------------------------------------------------------------
(* Within the window the Hub was stopped and started again, with one store *)
(* throughout, and no other change of its generation lies in it.           *)
RestartSeen(before, after) ==
  LET up == Running \cap before..after
  IN  /\ \E n \in Stopped : before < n /\ n < after
      /\ \A n \in up : log[n].store = log[before].store
      /\ \A n \in up \ {before} :
           log[n].generation # log[Max({m \in up : m < n})].generation =>
             log[n].operation = "start"

(* No restart lies in the window, or a change that no start explains.      *)
RestartUnseen(before, after) ==
  LET up == Running \cap before..after
  IN  \/ \E n \in up : log[n].store # log[before].store
      \/ \A n \in Stopped : ~(before < n /\ n < after)
      \/ \E n \in up \ {before} :
           /\ log[n].generation # log[Max({m \in up : m < n})].generation
           /\ log[n].operation # "start" \/ \A m \in Stopped : ~(log[n].origin < m /\ m < n)

(* A restart is admitted only when it really happened within the window,   *)
(* in whatever rows were exported.                                         *)
RestartReal ==
  code = "accepted" /\ documents.case.id = Restart =>
    RestartSeen(documents.invocation.before, documents.invocation.after)

(* And it is admitted whenever the ordinary producer exported every row of *)
(* such a window, however many restarts there were.                        *)
RestartAdmitted ==
  code = "controller_mismatch" /\ exported = Running =>
    RestartUnseen(documents.invocation.before, documents.invocation.after)

(* Evidence counts only for the case, the session and the window in which  *)
(* it was taken, and no exchange in it is counted twice.                   *)
OwnEvidence ==
  code \in {"accepted", "runner_owned_service_runtime"} =>
    /\ documents.raw.of = <<OwnSession, documents.case.id, documents.invocation.before, documents.invocation.after>>
    /\ \A i, j \in DOMAIN documents.raw.requests :
         i # j => documents.raw.requests[i].id # documents.raw.requests[j].id
                    \/ documents.raw.requests[i].id = <<>>

(* Restarts are admitted exactly when they happened, and no case with the  *)
(* evidence of another (matrix_contract.py:426-600).                       *)
AdmissionExact == RestartReal /\ RestartAdmitted /\ OwnEvidence
=============================================================================
