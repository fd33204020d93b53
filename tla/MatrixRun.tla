------------------------------ MODULE MatrixRun ------------------------------
(***************************************************************************)
(* MatrixCases of conformance/hub_matrix.py: one run of the acceptance     *)
(* matrix, its cases in the order of run(), against an installed host and  *)
(* its Hub.  A lifecycle operation is one step, which is what ControlClient *)
(* promises: it is performed at most once, and a client that does not      *)
(* learn its result asks for nothing more.                                 *)
(*                                                                         *)
(* Host and Hub are outside the repository: they are modelled from the     *)
(* requests the run makes, the answers it requires and the synthetic host  *)
(* of tests/test_hub_matrix.py, with lasting defects of the Hub (bugs) and *)
(* passing faults of either (Faults).                                      *)
(***************************************************************************)
EXTENDS Integers, Sequences

CONSTANTS
  Defects,    \* the sets of defects the Hub may have
  Faults,     \* kinds of passing fault
  MaxFaults   \* bound: passing faults in one run

(* The ways in which the Hub may lastingly differ from the contract.       *)
AllDefects ==
  {"any_secret", "reusable", "no_grace", "no_retry", "same_token", "other_device", "deaf_revoke",
   "partial_revoke", "same_device", "no_restart", "stays_up", "forgets", "loose_cursor", "open",
   "other_build"}

ASSUME MatrixAssumption ==
  /\ Defects \subseteq SUBSET AllDefects
  /\ Faults \subseteq {"error", "wrong", "reject", "lose", "expire"}
  /\ MaxFaults \in Nat

VARIABLES
  (* the run *)
  phase,    \* "between" cases, in a "case", "done" or "aborted" by an exception
  why,      \* what aborted it
  results,  \* what capture recorded, in the order of the run
  step,     \* index of the next step of the current case
  good,     \* no value observed in this case differs from the expected one
  start,    \* the proof, generation and device when capture began
  token, device, pages, invitation,   \* attributes of MatrixCases
  old,      \* old_token of rotate
  proof,    \* sequence of self.proof
  seen,     \* generation of self.descriptor
  (* the host and its Hub *)
  up,         \* the service runs
  generation, \* of the service
  observed,   \* observations the host has made
  invited,    \* the last invitation issued
  stale,      \* it expired
  claimed,    \* invitations used
  live,       \* credentials the Hub knows
  issued,     \* credentials issued
  bugs,       \* its lasting defects
  faults,     \* passing faults so far
  touched     \* history: the first observation due after the case's last change of the host

caseVars == <<results, step, good, start, touched>>
clientVars == <<token, device, pages, old>>
viewVars == <<proof, seen, invitation>>
hostVars == <<up, generation, observed, invited, stale>>
hubVars == <<claimed, live, issued>>
vars == <<phase, why, caseVars, clientVars, viewVars, hostVars, hubVars, bugs, faults>>

NoToken == [device |-> 0, serial |-> 0]

-----------------------------------------------------------------------------
(* The cases, each the sequence of its steps.  A step asks for a lifecycle *)
(* operation, makes an HTTP exchange or checks something locally.          *)

Step(do, what, bearer, want) == [do |-> do, what |-> what, bearer |-> bearer, want |-> want]
Op(o) == Step("control", o, "none", "none")
Http(what, bearer, want) == Step("http", what, bearer, want)
Local(what) == Step("local", what, "none", "none")

(* credential_exchange: no credential leaves without a fresh observation.  *)
Cred(what, bearer, want) == <<Op("verify"), Http(what, bearer, want)>>
Public == Http("public", "none", "ok")
Facts == Http("facts", "none", "ok")
ReadToken == Cred("read", "token", "ok")
Values == Cred("values", "token", "ok")
Page == Cred("page", "token", "ok")

Claim == <<Op("verify"), Local("unexpired"), Http("claim", "none", "ok")>>
Rotate == Cred("rotate", "old", "ok")

Identity == <<Local("identity")>>
Discovery == <<Facts>>
Unauthenticated == <<Public, Public, Public, Local("no_token")>>
BadInvitation == <<Local("unexpired")>> \o Cred("bad_claim", "none", "refused")
(* _claim verifies, then refuses the expired invitation before the network. *)
ExpiredInvitation == <<Op("verify")>>
RealAuth == Claim \o Values
Replayed == Cred("claim", "none", "refused")
UnknownVehicle == ReadToken
CurrentValues == Values \o Values
(* Mutant: one page more than the fixture has. *)
DriveFourPages == Page \o Page \o Page \o Page
DrivePages == Page \o Page \o Page
TerminalCursor == Cred("after_second", "token", "ok")
Etag == <<Local("pages")>> \o ReadToken \o Cred("after_first", "token", "ok")
WrongCursor == Cred("foreign_cursor", "token", "ok")
Unsupported == <<Local("unsupported")>>
(* Mutant: the lost response is not retried. *)
RotationOnce == <<Local("keep")>> \o Rotate \o ReadToken \o Cred("read", "old", "ok")
Rotation ==
  <<Local("keep")>> \o Rotate \o ReadToken \o Cred("read", "old", "ok") \o Rotate \o ReadToken
Revocation == <<Op("revoke")>> \o Cred("read", "token", "refused")
Reauthenticate == <<Op("pair")>> \o Claim \o ReadToken \o <<Local("new_device")>>
Restart == <<Op("stop"), Op("start"), Facts>> \o ReadToken \o <<Local("new_process")>>
Outage == <<Op("stop"), Http("read", "token", "unavailable"), Op("start")>> \o ReadToken

(* In the order of the capture calls, which is not the order of CASE_IDS.  *)
Cases ==
  << Identity, Identity, Discovery, Unauthenticated,
     BadInvitation, ExpiredInvitation, RealAuth, Replayed,
     UnknownVehicle, CurrentValues,
     DrivePages, TerminalCursor, Etag, WrongCursor, WrongCursor,
     Unsupported, Rotation, Revocation, Reauthenticate, Restart, Outage >>

Script == Cases[Len(results) + 1]
Now == Script[step]
At(kind) == phase = "case" /\ step <= Len(Script) /\ Now.do = kind

-----------------------------------------------------------------------------
(* capture *)

(* A matrix error ends the case, any other exception ends the run.         *)
Record(status, after) ==
  /\ results' = Append(results, [status |-> status, before |-> start.proof, after |-> after,
                                 device |-> device', touched |-> touched'])
  /\ phase' = "between" /\ step' = 0 /\ good' = TRUE /\ UNCHANGED <<start, why>>
Fail == Record("failed", proof')
Proceed == step' = step + 1 /\ UNCHANGED <<phase, why, results, start>>
Abort(reason) == phase' = "aborted" /\ why' = reason /\ UNCHANGED <<results, step, good, start>>

FinishCase ==
  /\ phase = "case" /\ step > Len(Script)
  /\ UNCHANGED <<touched, clientVars, viewVars, hostVars, hubVars, bugs, faults>>
  /\ Record(IF good THEN "passed" ELSE "failed", proof)

FinishRun ==
  /\ phase = "between" /\ Len(results) = Len(Cases)
  /\ phase' = "done"
  /\ UNCHANGED <<why, caseVars, clientVars, viewVars, hostVars, hubVars, bugs, faults>>

Fault(kind) == kind \in Faults /\ faults < MaxFaults /\ faults' = faults + 1

-----------------------------------------------------------------------------
(* Lifecycle operations, as the host performs them *)

Accepts(o) == up = (o # "start")

Credentials(d) == {c \in live : c.device = d}
Newest(C) == {c \in C : \A d \in C : d.serial <= c.serial}
Revoked ==
  IF "deaf_revoke" \in bugs THEN {}
  ELSE IF "partial_revoke" \in bugs THEN Newest(Credentials(device)) ELSE Credentials(device)

NextGeneration(o) ==
  CASE o = "start" -> {IF "no_restart" \in bugs THEN generation ELSE generation + 1}
    [] o \in {"pair", "revoke"} -> {generation, generation + 1}
    [] OTHER -> {generation}

Performs(o) ==
  /\ up' = (o # "stop")
  /\ generation' \in NextGeneration(o)
  /\ observed' = IF o = "stop" THEN observed ELSE observed + 1
  /\ invited' = IF o = "pair" THEN invited + 1 ELSE invited
  /\ stale' = (stale /\ o # "pair")
  /\ live' = IF "forgets" \in bugs /\ generation' # generation THEN {}
             ELSE IF o = "revoke" THEN live \ Revoked ELSE live
  /\ UNCHANGED <<claimed, issued>>

(* Mutant: the proof of a result is not kept. *)
AdmitLate == proof' = proof /\ seen' = generation' /\ invitation' = invited'
(* _admit_running: all of the view is taken before the invitations are     *)
(* validated, which may raise.                                             *)
Admit == proof' = observed' /\ seen' = generation' /\ invitation' = invited'

(* The result of o is learnt and is in order, or raises a matrix error.    *)
Learnt(o) ==
  /\ Accepts(o) /\ Performs(o)
  /\ IF o = "stop" THEN UNCHANGED viewVars ELSE Admit /\ ~stale'
  /\ UNCHANGED faults
Raised(o) ==
  /\ Accepts(o) /\ Performs(o)
  /\ \/ o # "stop" /\ Admit /\ stale' /\ UNCHANGED faults
     \/ UNCHANGED viewVars /\ Fault("reject")

(* The attachment fails: the operation may have been performed.            *)
Lost(o) ==
  /\ Fault("lose") /\ UNCHANGED viewVars
  /\ (Accepts(o) /\ Performs(o)) \/ UNCHANGED <<hostVars, hubVars>>
  /\ Abort("lost")
Refused(o) ==
  /\ ~Accepts(o)
  /\ UNCHANGED <<viewVars, hostVars, hubVars, faults>>
  /\ Abort(IF o = "verify" THEN "stopped" ELSE "out_of_turn")

(* Mutant: capture relies on the observation of the case before. *)
BeginUnverified ==
  /\ phase = "between" /\ Len(results) < Len(Cases)
  /\ phase' = "case" /\ step' = 1 /\ good' = TRUE /\ touched' = 0
  /\ start' = [proof |-> proof, generation |-> seen, device |-> device]
  /\ UNCHANGED <<why, results, clientVars, viewVars, hostVars, hubVars, bugs, faults>>

(* The observation of capture itself is outside its try.                   *)
BeginCase ==
  /\ phase = "between" /\ Len(results) < Len(Cases)
  /\ UNCHANGED <<clientVars, bugs>>
  /\ \/ /\ Learnt("verify")
        /\ phase' = "case" /\ step' = 1 /\ good' = TRUE /\ touched' = 0
        /\ start' = [proof |-> proof', generation |-> seen', device |-> device]
        /\ UNCHANGED <<why, results>>
     \/ Raised("verify") /\ Abort("inadmissible") /\ UNCHANGED touched
     \/ Lost("verify") /\ UNCHANGED touched
     \/ Refused("verify") /\ UNCHANGED touched

ControlStep ==
  /\ At("control")
  /\ Now.what = "revoke" => device # 0
  /\ UNCHANGED <<clientVars, bugs>>
  /\ touched' = IF Now.what = "verify" THEN touched ELSE observed + 1
  /\ \/ Learnt(Now.what) /\ Proceed /\ UNCHANGED good
     \/ Raised(Now.what) /\ Fail
     \/ Lost(Now.what)
     \/ Refused(Now.what)

(* revoke takes a device id: None is a ValueError.                         *)
NoDevice ==
  /\ At("control") /\ Now.what = "revoke" /\ device = 0
  /\ Abort("no_device")
  /\ UNCHANGED <<touched, clientVars, viewVars, hostVars, hubVars, bugs, faults>>

-----------------------------------------------------------------------------
(* HTTP exchanges *)

Bearer == CASE Now.bearer = "token" -> token [] Now.bearer = "old" -> old [] OTHER -> NoToken
Known == Bearer \in live \/ (Bearer = NoToken /\ "open" \in bugs)
Claimable == ~stale /\ (invitation \notin claimed \/ "reusable" \in bugs)
Superseded == \E c \in Credentials(Bearer.device) : c.serial > Bearer.serial

(* The Hub gives the answer the contract has for a request in good order.  *)
Grants(what) ==
  CASE what \in {"public", "facts"} -> TRUE
    [] what \in {"read", "values", "page"} -> Known
    [] what = "after_first" -> Known /\ pages >= 1
    [] what = "after_second" -> Known /\ pages >= 2
    [] what = "foreign_cursor" -> Known /\ ("loose_cursor" \notin bugs \/ pages = 0)
    [] what = "claim" -> Claimable
    [] what = "bad_claim" -> Claimable /\ "any_secret" \in bugs
    [] what = "rotate" -> Known /\ ~("no_retry" \in bugs /\ Superseded)

Answer ==
  IF ~up /\ "stays_up" \notin bugs THEN "unavailable"
  ELSE IF Grants(Now.what) THEN "ok" ELSE "refused"

Credential ==
  CASE Now.what \in {"claim", "bad_claim"} ->
         [device |-> IF "same_device" \in bugs THEN 1 ELSE issued + 1, serial |-> issued + 1]
    [] Now.what = "rotate" /\ "same_token" \in bugs -> Bearer
    [] OTHER -> [device |-> IF "other_device" \in bugs THEN issued + 1 ELSE Bearer.device,
                 serial |-> issued + 1]

Serve ==
  IF Answer = "ok" /\ Now.what \in {"claim", "bad_claim", "rotate"}
  THEN /\ issued' = issued + 1
       /\ claimed' = IF Now.what = "rotate" THEN claimed ELSE claimed \cup {invitation}
       /\ live' = (IF Now.what = "rotate" /\ "no_grace" \in bugs THEN live \ {Bearer} ELSE live)
                    \cup {Credential}
  ELSE UNCHANGED hubVars

(* A rotation must replace the bearer and keep the device.                 *)
Replaces == Credential # old /\ Credential.device = device
(* Mutant: the new bearer is adopted before the rotation is checked. *)
AdoptFirst ==
  IF Now.what \in {"claim", "rotate"}
  THEN /\ token' = Credential
       /\ IF Now.what = "rotate" /\ ~Replaces THEN UNCHANGED device /\ Fail
          ELSE device' = Credential.device /\ Proceed /\ UNCHANGED good
       /\ UNCHANGED pages
  ELSE /\ pages' = IF Now.what = "page" THEN pages + 1 ELSE pages
       /\ UNCHANGED <<token, device, good>> /\ Proceed
Adopt ==
  IF Now.what = "rotate" /\ ~Replaces THEN UNCHANGED <<token, device, pages>> /\ Fail
  ELSE IF Now.what \in {"claim", "rotate"}
  THEN token' = Credential /\ device' = Credential.device /\ UNCHANGED <<pages, good>> /\ Proceed
  ELSE /\ pages' = IF Now.what = "page" THEN pages + 1 ELSE pages
       /\ UNCHANGED <<token, device, good>> /\ Proceed

(* Exchanges whose values, and not only whose success, enter the result.   *)
Compared == {"facts", "values", "page", "after_first", "after_second"}

HttpStep ==
  /\ At("http")
  /\ UNCHANGED <<old, touched, viewVars, hostVars, bugs>>
  /\ \/ /\ Serve /\ UNCHANGED faults
        /\ IF Answer # Now.want THEN UNCHANGED <<token, device, pages>> /\ Fail
           ELSE IF Answer = "ok" THEN Adopt
           ELSE UNCHANGED <<token, device, pages, good>> /\ Proceed
     (* The exchange fails, before the Hub served it or after.              *)
     \/ /\ Fault("error") /\ (Serve \/ UNCHANGED hubVars)
        /\ UNCHANGED <<token, device, pages>> /\ Fail
     (* A value the case reports is not the expected one.                   *)
     \/ /\ Fault("wrong") /\ Answer = "ok" /\ Now.what \in Compared
        /\ good' = FALSE /\ Proceed
        /\ pages' = IF Now.what = "page" THEN pages + 1 ELSE pages
        /\ UNCHANGED <<hubVars, token, device>>

-----------------------------------------------------------------------------
(* Local checks: the first two raise, the others enter the actual value.   *)

LocalStep ==
  /\ At("local")
  /\ old' = IF Now.what = "keep" THEN token ELSE old
  /\ UNCHANGED <<touched, token, device, pages, viewVars, hostVars, hubVars, bugs, faults>>
  /\ LET holds == CASE Now.what = "unexpired" -> ~stale
                    [] Now.what = "pages" -> pages > 0
                    [] Now.what = "identity" -> "other_build" \notin bugs
                    [] Now.what = "no_token" -> token = NoToken
                    [] Now.what = "new_device" -> device # start.device
                    [] Now.what = "new_process" -> seen # start.generation
                    [] OTHER -> TRUE
     IN IF ~holds /\ Now.what \in {"unexpired", "pages"} THEN Fail
        ELSE good' = (good /\ holds) /\ Proceed

InvitationExpires ==
  /\ phase \in {"between", "case"} /\ ~stale
  /\ Fault("expire") /\ stale' = TRUE
  /\ UNCHANGED <<phase, why, caseVars, clientVars, viewVars, up, generation, observed, invited,
                 hubVars, bugs>>

-----------------------------------------------------------------------------
(* The constructor has made its first observation.                         *)
Init ==
  /\ phase = "between" /\ why = "none" /\ results = <<>>
  /\ step = 0 /\ good = TRUE /\ start = [proof |-> 0, generation |-> 0, device |-> 0] /\ touched = 0
  /\ token = NoToken /\ device = 0 /\ pages = 0 /\ old = NoToken
  /\ proof = 1 /\ seen = 1 /\ invitation = 1
  /\ up = TRUE /\ generation = 1 /\ observed = 1 /\ invited = 1 /\ stale = FALSE
  /\ claimed = {} /\ live = {} /\ issued = 0
  /\ bugs \in Defects /\ faults = 0

Next ==
  \/ BeginCase \/ ControlStep \/ NoDevice \/ HttpStep \/ LocalStep
  \/ FinishCase \/ FinishRun \/ InvitationExpires

Spec == Init /\ [][Next]_vars

-----------------------------------------------------------------------------
Tokens == [device : Nat, serial : Nat]

(* Every variable has its type.                                            *)
TypeOK ==
  /\ phase \in {"between", "case", "done", "aborted"}
  /\ why \in {"none", "lost", "stopped", "out_of_turn", "inadmissible", "no_device"}
  /\ results \in Seq([status : {"passed", "failed"}, before : Nat, after : Nat, device : Nat, touched : Nat])
  /\ Len(results) <= Len(Cases)
  /\ step \in Nat /\ good \in BOOLEAN
  /\ start \in [proof : Nat, generation : Nat, device : Nat] /\ touched \in Nat
  /\ token \in Tokens /\ old \in Tokens /\ device \in Nat /\ pages \in 0..3
  /\ proof \in Nat /\ seen \in Nat /\ invitation \in Nat
  /\ up \in BOOLEAN /\ generation \in Nat /\ observed \in Nat /\ invited \in Nat /\ stale \in BOOLEAN
  /\ claimed \subseteq Nat /\ live \subseteq Tokens /\ issued \in Nat
  /\ faults \in 0..MaxFaults

(* What a run in which every case passed shows of the Hub: it has none of  *)
(* the modelled defects but two, and the run ends with the service up and  *)
(* a credential it knows.  No case sends a revoked device's earlier bearer *)
(* or a protected request without a bearer, so those two stay unseen.      *)
Unseen == {"partial_revoke", "open"}
Passed == phase = "done" /\ \A i \in 1..Len(results) : results[i].status = "passed"
PassSound == Passed => bugs \subseteq Unseen /\ up /\ token \in live

(* The device the run names, in revoke and in its evidence, is the one its *)
(* bearer belongs to, after any failed, lost or refused claim or rotation. *)
CredentialsInStep == device = token.device

(* The anchors of the cases are disjoint and ascending, and those of a     *)
(* passed case enclose every change of the host the case made.             *)
AnchorsEnclose ==
  \A i \in 1..Len(results) :
    /\ results[i].before <= results[i].after
    /\ i > 1 => results[i - 1].after < results[i].before
    /\ results[i].status = "passed" /\ results[i].touched > 0 =>
         results[i].before < results[i].touched /\ results[i].touched <= results[i].after

(* Whatever case failed half way, the host is never asked to stop, start,  *)
(* pair or revoke in a state in which it cannot.                           *)
NeverOutOfTurn == why # "out_of_turn"

=============================================================================
