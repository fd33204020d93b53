--------------------------- MODULE MatrixRunProofs ---------------------------
(***************************************************************************)
(* Theorems about a matrix run, for any defects of the Hub and any number  *)
(* of passing faults: the device the run names is its bearer's, the        *)
(* anchors of its cases enclose what the cases did, no operation is asked  *)
(* for out of turn, every variable keeps its type, and a run that passed   *)
(* was made with a Hub that has none of the defects the cases can see.     *)
(***************************************************************************)
EXTENDS MatrixRun, SequenceTheorems, TLAPS

-----------------------------------------------------------------------------
(* The device in the run's hands is its bearer's, whatever failed.         *)
THEOREM CredentialsKept == Spec => []CredentialsInStep
<1>1. Init => CredentialsInStep
  BY DEF Init, CredentialsInStep, NoToken
<1>2. CredentialsInStep /\ [Next]_vars => CredentialsInStep'
  <2> SUFFICES ASSUME CredentialsInStep, [Next]_vars PROVE CredentialsInStep'
    OBVIOUS
  <2>1. CASE UNCHANGED <<token, device>>
    BY <2>1 DEF CredentialsInStep
  <2>2. CASE HttpStep
    BY <2>2 DEF HttpStep, Adopt, CredentialsInStep
  <2> QED
    BY <2>1, <2>2 DEF Next, BeginCase, ControlStep, NoDevice, LocalStep, FinishCase, FinishRun,
       InvitationExpires, clientVars, vars
<1> QED
  BY <1>1, <1>2, PTL DEF Spec

-----------------------------------------------------------------------------
(* The scripts: a case that stops the service makes a later observation.   *)

Observes(s) == s.do = "control" /\ s.what # "stop"
Words ==
  {"stop", "start", "pair", "revoke", "verify", "public", "facts", "read", "values", "page", "claim",
   "bad_claim", "rotate", "after_first", "after_second", "foreign_cursor", "unexpired", "identity",
   "no_token", "pages", "unsupported", "keep", "new_device", "new_process"}
Bearers == {"none", "token", "old"}
Wants == {"none", "ok", "refused", "unavailable"}
StepSet == [do : {"control", "http", "local"}, what : Words, bearer : Bearers, want : Wants]
(* Steps that neither stop or start the service nor turn a page.           *)
Apart == {"stop", "start", "page"}
Quiet == {s \in StepSet : s.what \notin Apart}
Calm == {s \in StepSet : s.what \notin {"stop", "start"}}
StopsObserved(S) ==
  /\ Len(S) \in Nat
  /\ \A i \in 1..Len(S) : S[i].what = "stop" => \E k \in i + 1..Len(S) : Observes(S[k])

LEMMA QuietObserved ==
  ASSUME NEW S \in Seq(Quiet) PROVE StopsObserved(S)
BY DEF Quiet, Apart, StopsObserved

LEMMA QuietConcat ==
  ASSUME NEW S \in Seq(Quiet), NEW T \in Seq(Quiet) PROVE S \o T \in Seq(Quiet)
OBVIOUS

LEMMA QuietCred ==
  ASSUME NEW w \in Words, w \notin Apart, NEW b \in Bearers, NEW a \in Wants
  PROVE  /\ Op("verify") \in Quiet /\ Http(w, b, a) \in Quiet /\ Local(w) \in Quiet
         /\ Cred(w, b, a) \in Seq(Quiet)
<1>1. Op("verify") \in Quiet /\ Http(w, b, a) \in Quiet /\ Local(w) \in Quiet
  BY DEF Op, Http, Local, Step, Quiet, Apart, StepSet, Words, Bearers, Wants
<1>2. <<Op("verify"), Http(w, b, a)>> \in Seq(Quiet)
  BY <1>1
<1> QED
  BY <1>1, <1>2 DEF Cred

LEMMA QuietParts ==
  /\ Op("revoke") \in Quiet /\ Op("pair") \in Quiet
  /\ Public \in Quiet /\ Facts \in Quiet
  /\ ReadToken \in Seq(Quiet) /\ Values \in Seq(Quiet)
  /\ Rotate \in Seq(Quiet) /\ Claim \in Seq(Quiet)
<1>1. Op("revoke") \in Quiet /\ Op("pair") \in Quiet
  BY DEF Op, Step, Quiet, Apart, StepSet, Words, Bearers, Wants
<1>2. Public \in Quiet /\ Facts \in Quiet
  BY QuietCred DEF Public, Facts, Apart, Words, Bearers, Wants
<1>3. ReadToken \in Seq(Quiet) /\ Values \in Seq(Quiet) /\ Rotate \in Seq(Quiet)
  BY QuietCred DEF ReadToken, Values, Rotate, Apart, Words, Bearers, Wants
<1>4. Op("verify") \in Quiet /\ Local("unexpired") \in Quiet /\ Http("claim", "none", "ok") \in Quiet
  BY QuietCred DEF Apart, Words, Bearers, Wants
<1> QED
  BY <1>1, <1>2, <1>3, <1>4 DEF Claim

(* All cases but the last two leave the service up, and all but one leave  *)
(* the pages alone.                                                        *)
LEMMA QuietCases ==
  {Identity, Discovery, Unauthenticated, BadInvitation, ExpiredInvitation, RealAuth, Replayed,
   UnknownVehicle, CurrentValues, TerminalCursor, Etag, WrongCursor, Unsupported,
   Rotation, Revocation, Reauthenticate} \subseteq Seq(Quiet)
<1>1. Op("verify") \in Quiet
  BY QuietCred DEF Apart, Words, Bearers, Wants
<1>2. Local("identity") \in Quiet /\ Local("no_token") \in Quiet /\ Local("unexpired") \in Quiet
      /\ Local("pages") \in Quiet /\ Local("unsupported") \in Quiet /\ Local("keep") \in Quiet
      /\ Local("new_device") \in Quiet
  BY QuietCred DEF Apart, Words, Bearers, Wants
<1>3. /\ <<Local("unexpired")>> \in Seq(Quiet) /\ <<Local("pages")>> \in Seq(Quiet)
      /\ <<Local("keep")>> \in Seq(Quiet) /\ <<Local("new_device")>> \in Seq(Quiet)
      /\ <<Op("revoke")>> \in Seq(Quiet) /\ <<Op("pair")>> \in Seq(Quiet)
  BY <1>2, QuietParts
<1>4. /\ Identity \in Seq(Quiet) /\ Discovery \in Seq(Quiet) /\ Unauthenticated \in Seq(Quiet)
      /\ ExpiredInvitation \in Seq(Quiet) /\ Unsupported \in Seq(Quiet)
  BY <1>1, <1>2, QuietParts DEF Identity, Discovery, Unauthenticated, ExpiredInvitation, Unsupported
<1>5. BadInvitation \in Seq(Quiet)
  <2>1. Cred("bad_claim", "none", "refused") \in Seq(Quiet)
    BY QuietCred DEF Apart, Words, Bearers, Wants
  <2> QED
    BY <2>1, <1>3, QuietConcat DEF BadInvitation
<1>6. Replayed \in Seq(Quiet) /\ TerminalCursor \in Seq(Quiet) /\ WrongCursor \in Seq(Quiet)
  BY QuietCred DEF Replayed, TerminalCursor, WrongCursor, Apart, Words, Bearers, Wants
<1>7. /\ RealAuth \in Seq(Quiet) /\ UnknownVehicle \in Seq(Quiet) /\ CurrentValues \in Seq(Quiet)
  BY QuietParts, QuietConcat DEF RealAuth, UnknownVehicle, CurrentValues
<1>8. Etag \in Seq(Quiet)
  <2>1. Cred("after_first", "token", "ok") \in Seq(Quiet)
    BY QuietCred DEF Apart, Words, Bearers, Wants
  <2> QED
    BY <2>1, <1>3, QuietParts, QuietConcat DEF Etag
<1>9. Rotation \in Seq(Quiet)
  <2>1. Cred("read", "old", "ok") \in Seq(Quiet)
    BY QuietCred DEF Apart, Words, Bearers, Wants
  <2> QED
    BY <2>1, <1>3, QuietParts, QuietConcat DEF Rotation
<1>10. Revocation \in Seq(Quiet)
  <2>1. Cred("read", "token", "refused") \in Seq(Quiet)
    BY QuietCred DEF Apart, Words, Bearers, Wants
  <2> QED
    BY <2>1, <1>3, QuietConcat DEF Revocation
<1>11. Reauthenticate \in Seq(Quiet)
  BY <1>3, QuietParts, QuietConcat DEF Reauthenticate
<1> QED
  BY <1>4, <1>5, <1>6, <1>7, <1>8, <1>9, <1>10, <1>11

LEMMA HeadAndTail ==
  ASSUME NEW X, NEW S \in Seq(X), NEW T \in Seq(X)
  PROVE  /\ Len(S \o T) = Len(S) + Len(T) /\ Len(S) \in Nat /\ Len(T) \in Nat
         /\ \A k \in 1..Len(S) : (S \o T)[k] = S[k]
         /\ \A k \in 1..Len(T) : (S \o T)[Len(S) + k] = T[k]
         /\ S \o T \in Seq(X)
OBVIOUS

(* A stop stays observed whatever quiet steps follow. *)
LEMMA ObservedConcat ==
  ASSUME NEW S \in Seq(StepSet), StopsObserved(S), NEW T \in Seq(Quiet)
  PROVE  StopsObserved(S \o T)
<1>0. Len(S \o T) \in Nat
  OBVIOUS
<1> SUFFICES ASSUME NEW i \in 1..Len(S \o T), (S \o T)[i].what = "stop"
             PROVE  \E k \in i + 1..Len(S \o T) : Observes((S \o T)[k])
  BY <1>0 DEF StopsObserved
<1>1. T \in Seq(StepSet) /\ \A k \in 1..Len(T) : T[k].what # "stop"
  BY DEF Quiet, Apart
<1>2. /\ Len(S \o T) = Len(S) + Len(T) /\ Len(S) \in Nat /\ Len(T) \in Nat
      /\ \A k \in 1..Len(S) : (S \o T)[k] = S[k]
      /\ \A k \in 1..Len(T) : (S \o T)[Len(S) + k] = T[k]
  BY <1>1, HeadAndTail
<1>3. i <= Len(S)
  <2> SUFFICES ASSUME i > Len(S) PROVE FALSE
    BY <1>2
  <2>1. i - Len(S) \in 1..Len(T) /\ Len(S) + (i - Len(S)) = i
    BY <1>2
  <2> QED
    BY <2>1, <1>2, <1>1
<1>4. PICK k \in i + 1..Len(S) : Observes(S[k])
  BY <1>2, <1>3 DEF StopsObserved
<1>5. k \in i + 1..Len(S \o T) /\ k \in 1..Len(S)
  BY <1>2, <1>3
<1> QED
  BY <1>2, <1>4, <1>5

LEMMA TripleObserved ==
  ASSUME NEW a \in StepSet, NEW b \in StepSet, NEW c \in StepSet, Observes(b) \/ Observes(c),
         b.what # "stop", c.what # "stop"
  PROVE  <<a, b, c>> \in Seq(StepSet) /\ StopsObserved(<<a, b, c>>)
<1> HIDE DEF Observes
<1> QED
  BY DEF StopsObserved

(* Q is T after S. *)
Joins(Q, S, T) ==
  /\ Len(Q) = Len(S) + Len(T)
  /\ \A k \in 1..Len(S) : Q[k] = S[k]
  /\ \A k \in 1..Len(T) : Q[Len(S) + k] = T[k]

LEMMA ConcatJoins ==
  ASSUME NEW X, NEW S \in Seq(X), NEW T \in Seq(X)
  PROVE  S \o T \in Seq(X) /\ Joins(S \o T, S, T)
BY HeadAndTail DEF Joins

LEMMA Thrice ==
  ASSUME NEW X, NEW S \in Seq(X), Len(S) = 2
  PROVE  /\ S \o S \o S \in Seq(X) /\ Len(S \o S \o S) = 6
         /\ (S \o S \o S)[1] = S[1] /\ (S \o S \o S)[3] = S[1] /\ (S \o S \o S)[5] = S[1]
<1> DEFINE R == S \o S
           Q == R \o S
<1>1. R \in Seq(X) /\ Joins(R, S, S)
  BY ConcatJoins
<1> HIDE DEF R
<1>2. Q \in Seq(X) /\ Joins(Q, R, S)
  BY <1>1, ConcatJoins
<1> HIDE DEF Q
<1>3. R[1] = S[1] /\ R[3] = S[1] /\ Len(R) = 4
  BY <1>1 DEF Joins
<1>4. Q \in Seq(X) /\ Len(Q) = 6 /\ Q[1] = S[1] /\ Q[3] = S[1] /\ Q[5] = S[1]
  BY <1>2, <1>3 DEF Joins
<1> QED
  BY <1>4 DEF Q, R

(* The pages are asked for at the even steps of their case.                *)
LEMMA PagesShape ==
  /\ DrivePages \in Seq(Calm) /\ Len(DrivePages) = 6
  /\ \A k \in 1..6 : DrivePages[k].what = "page" => k \in {2, 4, 6}
<1> DEFINE v == Op("verify")
           p == Http("page", "token", "ok")
<1>1. v \in Calm /\ p \in Calm
  BY DEF Op, Http, Step, Calm, StepSet, Words, Bearers, Wants
<1>2. v.what # "page"
  BY DEF Op, Step
<1> HIDE DEF v, p
<1>3. Page \in Seq(Calm) /\ Len(Page) = 2 /\ Page[1].what # "page"
  <2>1. Page = <<v, p>>
    BY DEF Page, Cred, v, p
  <2> QED
    BY <1>1, <1>2, <2>1
<1>4. /\ DrivePages \in Seq(Calm) /\ Len(DrivePages) = 6
      /\ DrivePages[1] = Page[1] /\ DrivePages[3] = Page[1] /\ DrivePages[5] = Page[1]
  BY <1>3, Thrice DEF DrivePages
<1>5. \A k \in 1..6 : k \in {1, 2, 3, 4, 5, 6}
  OBVIOUS
<1> QED
  BY <1>3, <1>4, <1>5

LEMMA CasesObserved ==
  Len(Cases) = 21 /\ \A c \in 1..21 : StopsObserved(Cases[c])
<1>0. Op("stop") \in StepSet
  BY DEF Op, Step, StepSet, Words, Bearers, Wants
<1>1. StopsObserved(Restart)
  <2>0. Op("start") \in StepSet /\ Op("start").what # "stop" /\ Facts.what # "stop"
    BY QuietParts DEF Op, Step, Quiet, Apart, StepSet, Words, Bearers, Wants
  <2>1. Observes(Op("start")) /\ Local("new_process") \in Quiet
    BY QuietCred DEF Op, Step, Quiet, Apart, StepSet, Words, Bearers, Wants, Observes
  <2>2. ReadToken \o <<Local("new_process")>> \in Seq(Quiet)
    BY <2>1, QuietParts
  <2>3. /\ <<Op("stop"), Op("start"), Facts>> \in Seq(StepSet)
        /\ StopsObserved(<<Op("stop"), Op("start"), Facts>>)
    BY <1>0, <2>0, <2>1, QuietParts, TripleObserved DEF Quiet
  <2>4. Restart = <<Op("stop"), Op("start"), Facts>> \o (ReadToken \o <<Local("new_process")>>)
    <3>1. ReadToken \in Seq(StepSet) /\ <<Local("new_process")>> \in Seq(StepSet)
      BY <2>1, QuietParts DEF Quiet
    <3> QED
      BY <2>3, <3>1, ConcatAssociative DEF Restart
  <2> QED
    BY <2>1, <2>2, <2>3, <2>4, QuietParts, ObservedConcat
<1>2. StopsObserved(Outage)
  <2>1. Op("start") \in StepSet /\ Op("start").what # "stop" /\ Observes(Op("start"))
    BY DEF Op, Step, Quiet, Apart, StepSet, Words, Bearers, Wants, Observes
  <2>2. Http("read", "token", "unavailable") \in Quiet
    BY QuietCred DEF Apart, Words, Bearers, Wants
  <2>3. /\ <<Op("stop"), Http("read", "token", "unavailable"), Op("start")>> \in Seq(StepSet)
        /\ StopsObserved(<<Op("stop"), Http("read", "token", "unavailable"), Op("start")>>)
    BY <1>0, <2>1, <2>2, TripleObserved DEF Quiet, Apart
  <2> QED
    BY <2>1, <2>2, <2>3, QuietParts, ObservedConcat DEF Outage
<1>4. StopsObserved(DrivePages)
  <2>1. Len(DrivePages) = 6 /\ \A k \in 1..6 : DrivePages[k] \in Calm
    BY PagesShape
  <2>2. \A k \in 1..6 : DrivePages[k].what # "stop"
    BY <2>1 DEF Calm
  <2> QED
    BY <2>1, <2>2 DEF StopsObserved
<1>3. \A S \in {Identity, Discovery, Unauthenticated, BadInvitation, ExpiredInvitation, RealAuth,
               Replayed, UnknownVehicle, CurrentValues, DrivePages, TerminalCursor, Etag,
               WrongCursor, Unsupported, Rotation, Revocation, Reauthenticate, Restart, Outage} :
        StopsObserved(S)
  BY <1>1, <1>2, <1>4, QuietCases, QuietObserved
<1> QED
  BY <1>3 DEF Cases

-----------------------------------------------------------------------------
(* The anchors *)

Anchors == [status : {"passed", "failed"}, before : Nat, after : Nat, device : Nat, touched : Nat]

Typed ==
  /\ phase \in {"between", "case", "done", "aborted"}
  /\ results \in Seq(Anchors) /\ step \in Nat
  /\ proof \in Nat /\ observed \in Nat /\ touched \in Nat /\ start.proof \in Nat
  /\ device \in Nat /\ token.device \in Nat /\ old.device \in Nat /\ issued \in Nat

Last == results[Len(results)]
(* What is to come in this case makes an observation. *)
WillObserve == \E k \in step..Len(Script) : Observes(Script[k])

Begun ==
  /\ Len(results) < 21 /\ step >= 1
  /\ start.proof <= proof
  /\ Len(results) > 0 => Last.after < start.proof
  /\ touched > 0 => start.proof < touched
  /\ touched <= observed + 1
  /\ touched > proof => WillObserve

Anchored ==
  /\ Typed
  /\ proof <= observed
  /\ AnchorsEnclose
  /\ phase = "between" /\ Len(results) > 0 => Last.after <= proof
  /\ phase = "case" => Begun

LEMMA TypedInit == Init => Typed
BY DEF Init, Typed, NoToken

LEMMA RecordTyped ==
  ASSUME Typed, device' \in Nat /\ touched' \in Nat, NEW s \in {"passed", "failed"},
         NEW a \in Nat, Record(s, a)
  PROVE  results' \in Seq(Anchors) /\ phase' = "between" /\ step' \in Nat /\ start' = start
<1>1. [status |-> s, before |-> start.proof, after |-> a, device |-> device', touched |-> touched'] \in Anchors
  BY DEF Typed, Anchors
<1> QED
  BY <1>1 DEF Record, Typed

LEMMA CredentialTyped ==
  ASSUME Typed PROVE Credential.device \in Nat
BY DEF Typed, Credential, Bearer, NoToken

LEMMA LearntView ==
  ASSUME NEW o, observed \in Nat, Learnt(o)
  PROVE  /\ o = "stop" => proof' = proof /\ observed' = observed
         /\ o # "stop" => proof' = observed + 1 /\ observed' = observed + 1
BY DEF Learnt, Performs, Admit, viewVars

(* An operation without its result in order moves the proof only to what   *)
(* the host has observed.                                                  *)
LEMMA RaisedView ==
  ASSUME NEW o, observed \in Nat, proof \in Nat, proof <= observed, Raised(o) \/ Lost(o) \/ Refused(o)
  PROVE  /\ proof' \in Nat /\ observed' \in Nat /\ proof <= proof' /\ proof' <= observed'
         /\ observed <= observed'
BY DEF Raised, Lost, Refused, Performs, Admit, viewVars, hostVars

LEMMA ControlKeeps ==
  ASSUME NEW o, Learnt(o) \/ Raised(o) \/ Lost(o) \/ Refused(o)
  PROVE  issued' = issued
BY DEF Learnt, Raised, Lost, Refused, Performs, hubVars

LEMMA TypedNext == Typed /\ proof <= observed /\ [Next]_vars => Typed'
<1> SUFFICES ASSUME Typed, proof <= observed, [Next]_vars PROVE Typed'
  OBVIOUS
<1>1. CASE UNCHANGED vars
  BY <1>1 DEF Typed, vars, caseVars, clientVars, viewVars, hostVars, hubVars
<1>2. CASE BeginCase
  <2>1. /\ device' = device /\ token' = token /\ old' = old /\ issued' = issued
        /\ results' = results /\ step' \in Nat /\ touched' \in Nat
    <3>1. step \in Nat /\ touched \in Nat
      BY DEF Typed
    <3> QED
      BY <1>2, <3>1, ControlKeeps DEF BeginCase, Lost, Refused, clientVars, Abort
  <2>2. proof' \in Nat /\ observed' \in Nat
    BY <1>2, LearntView, RaisedView DEF BeginCase, Typed
  <2>3. start'.proof \in Nat /\ phase' \in {"case", "aborted"}
    BY <1>2, <2>2 DEF BeginCase, Lost, Refused, Abort, Typed
  <2> QED
    BY <2>1, <2>2, <2>3 DEF Typed
<1>3. CASE ControlStep
  <2>1. device' = device /\ token' = token /\ old' = old /\ issued' = issued /\ touched' \in Nat
    BY <1>3, ControlKeeps DEF ControlStep, clientVars, Typed
  <2>2. proof' \in Nat /\ observed' \in Nat
    BY <1>3, LearntView, RaisedView DEF ControlStep, Typed
  <2>3. CASE Proceed
    BY <2>1, <2>2, <2>3 DEF Proceed, Typed
  <2>4. CASE Fail
    BY <2>1, <2>2, <2>4, RecordTyped DEF Fail, Typed
  <2>5. CASE \E r : Abort(r)
    BY <2>1, <2>2, <2>5 DEF Abort, Typed
  <2> QED
    BY <1>3, <2>3, <2>4, <2>5 DEF ControlStep, Lost, Refused
<1>4. CASE NoDevice
  BY <1>4 DEF NoDevice, Abort, Typed, clientVars, viewVars, hostVars, hubVars
<1>5. CASE HttpStep
  <2>1. /\ proof' = proof /\ observed' = observed /\ touched' = touched /\ old' = old
        /\ issued' \in Nat
    BY <1>5 DEF HttpStep, Serve, viewVars, hostVars, hubVars, Typed
  <2>2. device' \in Nat /\ token'.device \in Nat
    BY <1>5, CredentialTyped DEF HttpStep, Adopt, Typed
  <2>3. Proceed \/ Fail
    BY <1>5 DEF HttpStep, Adopt
  <2>4. CASE Proceed
    BY <2>1, <2>2, <2>4 DEF Proceed, Typed
  <2>5. CASE Fail
    BY <2>1, <2>2, <2>5, RecordTyped DEF Fail, Typed
  <2> QED
    BY <2>3, <2>4, <2>5
<1>6. CASE LocalStep
  <2>1. /\ proof' = proof /\ observed' = observed /\ touched' = touched /\ issued' = issued
        /\ device' = device /\ token' = token /\ old'.device \in Nat
    BY <1>6 DEF LocalStep, viewVars, hostVars, hubVars, Typed
  <2>2. Proceed \/ Fail
    BY <1>6 DEF LocalStep
  <2>3. CASE Proceed
    BY <2>1, <2>3 DEF Proceed, Typed
  <2>4. CASE Fail
    BY <2>1, <2>4, RecordTyped DEF Fail, Typed
  <2> QED
    BY <2>2, <2>3, <2>4
<1>7. CASE FinishCase
  <2>1. /\ proof' = proof /\ observed' = observed /\ touched' = touched /\ issued' = issued
        /\ device' = device /\ token' = token /\ old' = old
    BY <1>7 DEF FinishCase, clientVars, viewVars, hostVars, hubVars
  <2>2. Record("passed", proof) \/ Record("failed", proof)
    BY <1>7 DEF FinishCase
  <2> QED
    BY <2>1, <2>2, RecordTyped DEF Typed
<1>8. CASE FinishRun
  BY <1>8 DEF FinishRun, Typed, caseVars, clientVars, viewVars, hostVars, hubVars
<1>9. CASE InvitationExpires
  BY <1>9 DEF InvitationExpires, Typed, caseVars, clientVars, viewVars, hubVars
<1> QED
  BY <1>1, <1>2, <1>3, <1>4, <1>5, <1>6, <1>7, <1>8, <1>9 DEF Next

LEMMA RecordKeeps ==
  ASSUME Typed, AnchorsEnclose, Begun, Typed',
         NEW s \in {"passed", "failed"}, NEW a \in Nat, Record(s, a), proof <= a, a <= proof',
         s = "passed" => touched' = touched /\ touched <= a
  PROVE  AnchorsEnclose' /\ (Len(results) > 0 => Last.after <= proof)'
<1> DEFINE r == [status |-> s, before |-> start.proof, after |-> a,
                 device |-> device', touched |-> touched']
<1>1. r \in Anchors /\ results \in Seq(Anchors)
  BY DEF Typed, Anchors
<1>0. results' = Append(results, r)
  BY DEF Record
<1>2. /\ Len(results') = Len(results) + 1 /\ Len(results) \in Nat /\ results'[Len(results) + 1] = r
      /\ \A i \in 1..Len(results) : results'[i] = results[i]
  <2> HIDE DEF r
  <2> QED
    BY <1>0, <1>1
<1>3. r.before = start.proof /\ r.after = a /\ r.touched = touched' /\ r.status = s
  OBVIOUS
<1> HIDE DEF r
<1>4. start.proof \in Nat /\ proof \in Nat /\ touched \in Nat
  BY DEF Typed
<1>5. /\ start.proof <= a
      /\ (Len(results) > 0 => results[Len(results)].after < start.proof)
      /\ (touched > 0 => start.proof < touched)
  BY <1>4 DEF Begun, Last
<1>6. ASSUME NEW i \in 1..Len(results')
      PROVE  /\ results'[i].before <= results'[i].after
             /\ i > 1 => results'[i - 1].after < results'[i].before
             /\ results'[i].status = "passed" /\ results'[i].touched > 0 =>
                  results'[i].before < results'[i].touched /\ results'[i].touched <= results'[i].after
  <2>1. CASE i = Len(results) + 1
    <3>1. i > 1 => results'[i - 1] = results[Len(results)] /\ Len(results) > 0
      BY <2>1, <1>2
    <3> QED
      BY <2>1, <3>1, <1>2, <1>3, <1>4, <1>5
  <2>2. CASE i \in 1..Len(results)
    <3>1. results'[i] = results[i] /\ (i > 1 => results'[i - 1] = results[i - 1])
      BY <2>2, <1>2
    <3> QED
      BY <2>2, <3>1 DEF AnchorsEnclose
  <2> QED
    BY <2>1, <2>2, <1>2
<1>7. Last' = r
  BY <1>2 DEF Last
<1>8. AnchorsEnclose'
  BY <1>6 DEF AnchorsEnclose
<1> QED
  BY <1>3, <1>7, <1>8

(* A case under way: its script is one of the run's, so a stop in it is    *)
(* followed by an observation.                                             *)
LEMMA ScriptObserved ==
  ASSUME Typed, Len(results) < 21
  PROVE  StopsObserved(Script)
<1>1. Len(results) \in Nat
  BY DEF Typed
<1>2. \A n \in Nat : n < 21 => n + 1 \in 1..21
  OBVIOUS
<1>3. Len(results) + 1 \in 1..21
  BY <1>1, <1>2, Zenon
<1> QED
  BY <1>3, CasesObserved DEF Script

LEMMA BeginAnchored ==
  ASSUME Anchored, Typed', BeginCase PROVE Anchored'
<1>1. /\ phase = "between" /\ Len(results) < 21 /\ results' = results /\ AnchorsEnclose
      /\ proof \in Nat /\ observed \in Nat /\ proof <= observed /\ proof' \in Nat /\ observed' \in Nat
  BY CasesObserved DEF BeginCase, Anchored, Typed, Abort, Lost, Refused
<1>2. AnchorsEnclose'
  BY <1>1 DEF AnchorsEnclose
<1>3. CASE phase' = "aborted"
  <2>1. proof' <= observed'
    BY <1>1, <1>3, RaisedView DEF BeginCase
  <2> QED
    BY <1>2, <1>3, <2>1 DEF Anchored
<1>4. CASE phase' # "aborted"
  <2>1. /\ phase' = "case" /\ step' = 1 /\ touched' = 0 /\ start'.proof = proof' /\ Learnt("verify")
    BY <1>4 DEF BeginCase, Abort, Lost, Refused
  <2>2. proof' = observed + 1 /\ observed' = observed + 1
    BY <1>1, <2>1, LearntView
  <2>3. Len(results) > 0 => Last.after <= proof /\ Last.after \in Nat
    <3>1. Len(results) > 0 => Last \in Anchors
      BY DEF Anchored, Typed, Last
    <3> QED
      BY <1>1, <3>1 DEF Anchored, Anchors
  <2>4. Last' = Last
    BY <1>1 DEF Last
  <2>5. Begun'
    BY <1>1, <2>1, <2>2, <2>3, <2>4 DEF Begun
  <2> QED
    BY <1>2, <2>1, <2>2, <2>5 DEF Anchored
<1> QED
  BY <1>3, <1>4

LEMMA FinishAnchored ==
  ASSUME Anchored, Typed', FinishCase PROVE Anchored'
<1>1. /\ phase = "case" /\ step > Len(Script) /\ Begun /\ Typed
      /\ proof' = proof /\ observed' = observed /\ touched' = touched
  BY DEF FinishCase, Anchored, viewVars, hostVars
<1>2. touched <= proof
  <2>1. Len(Script) \in Nat /\ step \in Nat /\ touched \in Nat /\ proof \in Nat
    BY <1>1, ScriptObserved DEF Begun, Typed, StopsObserved
  <2> QED
    BY <1>1, <2>1 DEF Begun, WillObserve
<1>3. PICK s \in {"passed", "failed"} : Record(s, proof)
  BY DEF FinishCase
<1>4. AnchorsEnclose' /\ (Len(results) > 0 => Last.after <= proof)'
  BY <1>1, <1>2, <1>3, RecordKeeps DEF Anchored, Typed
<1> QED
  BY <1>1, <1>3, <1>4 DEF Anchored, Record

(* A step that changes nothing of the host's. *)
LEMMA QuietStepAnchored ==
  ASSUME Anchored, Typed', phase = "case", proof' = proof, observed' = observed, touched' = touched,
         step \in 1..Len(Script), ~Observes(Now), Proceed \/ Fail \/ \E r : Abort(r)
  PROVE  Anchored'
<1>1. /\ Begun /\ Typed /\ AnchorsEnclose /\ proof <= observed /\ proof \in Nat /\ step \in Nat
  BY DEF Anchored, Typed
<1>2. CASE Proceed
  <2>1. /\ results' = results /\ start' = start /\ phase' = "case" /\ step' = step + 1
    BY <1>2 DEF Proceed
  <2>2. AnchorsEnclose' /\ Last' = Last /\ Script' = Script
    <3>1. AnchorsEnclose'
      BY <1>1, <2>1 DEF AnchorsEnclose
    <3> QED
      BY <2>1, <3>1 DEF Last, Script
  <2>3. WillObserve => WillObserve'
    <3> SUFFICES ASSUME NEW k \in step..Len(Script), Observes(Script[k]) PROVE WillObserve'
      BY DEF WillObserve
    <3>1. k \in step'..Len(Script') /\ Script'[k] = Script[k]
      BY <1>1, <2>1, <2>2 DEF Now
    <3> QED
      BY <3>1 DEF WillObserve, Observes
  <2> QED
    BY <1>1, <2>1, <2>2, <2>3 DEF Anchored, Begun
<1>3. CASE Fail
  <2>1. AnchorsEnclose' /\ (Len(results) > 0 => Last.after <= proof)'
    BY <1>1, <1>3, RecordKeeps DEF Fail
  <2> QED
    BY <1>1, <1>3, <2>1 DEF Anchored, Fail, Record
<1>4. CASE \E r : Abort(r)
  BY <1>1, <1>4 DEF Anchored, Abort, AnchorsEnclose
<1> QED
  BY <1>2, <1>3, <1>4

LEMMA ControlAnchored ==
  ASSUME Anchored, Typed', ControlStep PROVE Anchored'
<1> DEFINE o == Now.what
<1>1. /\ phase = "case" /\ step <= Len(Script) /\ Begun /\ Typed /\ AnchorsEnclose /\ proof <= observed
      /\ proof \in Nat /\ observed \in Nat /\ step \in Nat /\ touched \in Nat
      /\ proof' \in Nat /\ observed' \in Nat /\ Now.do = "control"
      /\ touched' = IF o = "verify" THEN touched ELSE observed + 1
  BY DEF ControlStep, At, Anchored, Typed
<1>2. CASE Learnt(o) /\ Proceed
  <2>1. /\ results' = results /\ start' = start /\ phase' = "case" /\ step' = step + 1
    BY <1>1, <1>2 DEF Proceed
  <2>2. AnchorsEnclose' /\ Last' = Last /\ Script' = Script
    <3>1. AnchorsEnclose'
      BY <1>1, <2>1 DEF AnchorsEnclose
    <3> QED
      BY <2>1, <3>1 DEF Last, Script
  <2>3. proof' <= observed' /\ proof <= proof' /\ touched' <= observed' + 1
        /\ (touched' > 0 => start.proof < touched')
        /\ (touched' > proof' => o = "stop")
    <3>1. start.proof <= proof /\ (touched > 0 => start.proof < touched) /\ touched <= observed + 1
          /\ start.proof \in Nat
      BY <1>1 DEF Begun, Typed
    <3>2. \/ o = "stop" /\ proof' = proof /\ observed' = observed
          \/ o # "stop" /\ proof' = observed + 1 /\ observed' = observed + 1
      BY <1>1, <1>2, LearntView
    <3>3. /\ touched' = touched \/ touched' = observed + 1
          /\ proof \in Nat /\ observed \in Nat /\ touched \in Nat /\ proof <= observed
      BY <1>1
    <3> HIDE DEF o
    <3>4. CASE o = "stop" /\ proof' = proof /\ observed' = observed
      BY <3>1, <3>3, <3>4
    <3>5. CASE o # "stop" /\ proof' = observed + 1 /\ observed' = observed + 1
      BY <3>1, <3>3, <3>5
    <3> QED
      BY <3>2, <3>4, <3>5
  <2>4. o = "stop" => WillObserve'
    <3> SUFFICES ASSUME o = "stop" PROVE WillObserve'
      OBVIOUS
    <3>0. Typed /\ Len(results) < 21 /\ step >= 1 /\ step \in Nat /\ step <= Len(Script)
      BY <1>1 DEF Begun
    <3>1. step \in 1..Len(Script) /\ StopsObserved(Script)
      <4>1. StopsObserved(Script)
        BY <3>0, ScriptObserved
      <4> QED
        BY <3>0, <4>1 DEF StopsObserved
    <3>2. PICK k \in step + 1..Len(Script) : Observes(Script[k])
      BY <3>1 DEF StopsObserved, Now
    <3>3. k \in step'..Len(Script') /\ Script'[k] = Script[k]
      BY <2>1, <2>2
    <3> QED
      BY <3>2, <3>3 DEF WillObserve, Observes
  <2>5. Begun'
    <3>1. /\ Len(results) < 21 /\ start.proof <= proof /\ start.proof \in Nat /\ step >= 1
          /\ (Len(results) > 0 => Last.after < start.proof)
      BY <1>1 DEF Begun, Typed
    <3>2. start.proof <= proof' /\ step' >= 1
      BY <1>1, <2>1, <2>3, <3>1
    <3>3. Len(results') < 21 /\ (Len(results') > 0 => Last'.after < start'.proof)
      BY <2>1, <2>2, <3>1
    <3>4. touched' > proof' => WillObserve'
      BY <2>3, <2>4
    <3> QED
      BY <2>1, <2>3, <3>2, <3>3, <3>4 DEF Begun
  <2> QED
    BY <2>1, <2>2, <2>3, <2>5 DEF Anchored
<1>3. CASE Raised(o) /\ Fail
  <2>1. proof <= proof' /\ proof' <= observed'
    BY <1>1, <1>3, RaisedView
  <2>2. AnchorsEnclose' /\ (Len(results) > 0 => Last.after <= proof)'
    BY <1>1, <1>3, <2>1, RecordKeeps DEF Fail
  <2> QED
    BY <1>1, <1>3, <2>1, <2>2 DEF Anchored, Fail, Record
<1>4. CASE Lost(o) \/ Refused(o)
  <2>1. proof' <= observed'
    BY <1>1, <1>4, RaisedView
  <2>2. phase' = "aborted" /\ results' = results
    BY <1>4 DEF Lost, Refused, Abort
  <2> QED
    BY <1>1, <2>1, <2>2 DEF Anchored, AnchorsEnclose
<1> QED
  BY <1>2, <1>3, <1>4 DEF ControlStep

LEMMA AnchoredAlways == Spec => []Anchored
<1>1. Init => Anchored
  <2> SUFFICES ASSUME Init PROVE Anchored
    OBVIOUS
  <2> QED
    BY TypedInit DEF Init, Anchored, AnchorsEnclose
<1>2. Anchored /\ [Next]_vars => Anchored'
  <2> SUFFICES ASSUME Anchored, [Next]_vars PROVE Anchored'
    OBVIOUS
  <2>0. Typed' /\ Typed
    BY TypedNext DEF Anchored
  <2>1. CASE UNCHANGED vars
    BY <2>0, <2>1 DEF Anchored, AnchorsEnclose, Begun, Last, WillObserve, Script, vars, caseVars,
       viewVars, hostVars
  <2>2. CASE BeginCase
    BY <2>0, <2>2, BeginAnchored
  <2>3. CASE ControlStep
    BY <2>0, <2>3, ControlAnchored
  <2>4. CASE NoDevice
    <3>1. phase' = "aborted" /\ results' = results /\ proof' = proof /\ observed' = observed
      BY <2>4 DEF NoDevice, Abort, viewVars, hostVars
    <3> QED
      BY <2>0, <3>1 DEF Anchored, AnchorsEnclose
  <2>5. CASE HttpStep \/ LocalStep
    <3>1. /\ phase = "case" /\ proof' = proof /\ observed' = observed /\ touched' = touched
          /\ step <= Len(Script) /\ Now.do # "control"
      BY <2>5 DEF HttpStep, LocalStep, At, viewVars, hostVars
    <3>2. step \in 1..Len(Script) /\ ~Observes(Now)
      <4>1. Len(results) < 21 /\ step >= 1 /\ step \in Nat
        BY <2>0, <3>1 DEF Anchored, Begun, Typed
      <4>2. StopsObserved(Script)
        BY <2>0, <4>1, ScriptObserved
      <4> QED
        BY <3>1, <4>1, <4>2 DEF StopsObserved, Observes
    <3>3. Proceed \/ Fail
      BY <2>5 DEF HttpStep, LocalStep, Adopt
    <3> QED
      BY <2>0, <3>1, <3>2, <3>3, QuietStepAnchored
  <2>6. CASE FinishCase
    BY <2>0, <2>6, FinishAnchored
  <2>7. CASE FinishRun
    BY <2>0, <2>7 DEF FinishRun, Anchored, AnchorsEnclose, caseVars, viewVars, hostVars
  <2>8. CASE InvitationExpires
    BY <2>0, <2>8 DEF InvitationExpires, Anchored, AnchorsEnclose, Begun, Last, WillObserve, Script,
       caseVars, viewVars
  <2> QED
    BY <2>1, <2>2, <2>3, <2>4, <2>5, <2>6, <2>7, <2>8 DEF Next
<1> QED
  BY <1>1, <1>2, PTL DEF Spec

(* The anchors of the cases ascend, are disjoint and, in a passed case,    *)
(* enclose what the case changed of the host.                              *)
THEOREM AnchorsKept == Spec => []AnchorsEnclose
<1>1. Anchored => AnchorsEnclose
  BY DEF Anchored
<1> QED
  BY <1>1, AnchoredAlways, PTL

-----------------------------------------------------------------------------
(* The operations of a case come in their turn.  d is the step at which a  *)
(* script that stops the service starts it again, 0 when it does neither:  *)
(* it stops the service only at its first step, starts it only at d and    *)
(* asks for no operation in between.                                       *)
Turns(S, d) ==
  /\ Len(S) \in Nat
  /\ \A k \in 1..Len(S) :
       /\ S[k].what = "stop" <=> k = 1 /\ d > 1
       /\ S[k].what = "start" <=> k = d
       /\ S[k].what \in {"stop", "start"} => S[k].do = "control"
       /\ 1 < k /\ k < d => S[k].do # "control"
PageFree(S) == \A k \in 1..Len(S) : S[k].what # "page"

LEMMA CalmTurns ==
  ASSUME NEW S \in Seq(Calm) PROVE Turns(S, 0)
<1>1. Len(S) \in Nat /\ \A k \in 1..Len(S) : S[k] \in Calm /\ k > 0
  OBVIOUS
<1> QED
  BY <1>1 DEF Turns, Calm

LEMMA QuietTurns ==
  ASSUME NEW S \in Seq(Quiet) PROVE Turns(S, 0) /\ PageFree(S)
<1>1. Len(S) \in Nat /\ \A k \in 1..Len(S) : S[k] \in Quiet /\ k > 0
  OBVIOUS
<1> QED
  BY <1>1 DEF Turns, PageFree, Quiet, Apart

(* A script keeps its shape whatever quiet steps follow. *)
LEMMA TurnsConcat ==
  ASSUME NEW d \in {2, 3}, NEW S \in Seq(StepSet), Turns(S, d), PageFree(S), d <= Len(S),
         NEW T \in Seq(Quiet)
  PROVE  Turns(S \o T, d) /\ PageFree(S \o T)
<1> DEFINE Q == S \o T
<1>1. T \in Seq(StepSet) /\ \A k \in 1..Len(T) : T[k].what \notin Apart
  BY DEF Quiet
<1>2. Q \in Seq(StepSet) /\ Joins(Q, S, T) /\ Len(S) \in Nat /\ Len(T) \in Nat
  BY <1>1, ConcatJoins
<1> HIDE DEF Q
<1>3. ASSUME NEW k \in 1..Len(Q)
      PROVE  /\ Q[k].what = "stop" <=> k = 1 /\ d > 1
             /\ Q[k].what = "start" <=> k = d
             /\ Q[k].what \in {"stop", "start"} => Q[k].do = "control"
             /\ 1 < k /\ k < d => Q[k].do # "control"
             /\ Q[k].what # "page"
  <2>1. CASE k \in 1..Len(S)
    <3>1. Q[k] = S[k]
      BY <1>2, <2>1 DEF Joins
    <3> QED
      BY <2>1, <3>1 DEF Turns, PageFree
  <2>2. CASE k > Len(S)
    <3>1. k - Len(S) \in 1..Len(T) /\ Len(S) + (k - Len(S)) = k
      BY <1>2, <2>2 DEF Joins
    <3>2. Q[k] = T[k - Len(S)]
      BY <1>2, <3>1 DEF Joins
    <3>3. Q[k].what \notin Apart
      BY <1>1, <3>1, <3>2
    <3>4. k > d /\ k > 1
      BY <1>2, <2>2
    <3> QED
      BY <3>3, <3>4 DEF Apart
  <2> QED
    BY <1>2, <2>1, <2>2
<1>4. Turns(Q, d) /\ PageFree(Q)
  BY <1>2, <1>3 DEF Turns, PageFree, Joins
<1> QED
  BY <1>4 DEF Q

LEMMA RestartTurns == Turns(Restart, 2) /\ PageFree(Restart)
<1> DEFINE a == Op("stop")
           b == Op("start")
           R == <<a, b, Facts>>
           T == ReadToken \o <<Local("new_process")>>
<1>1. /\ a \in StepSet /\ b \in StepSet /\ Facts \in StepSet
      /\ a.what = "stop" /\ a.do = "control" /\ b.what = "start" /\ b.do = "control"
      /\ Facts.what = "facts"
  BY DEF Op, Facts, Http, Step, StepSet, Words, Bearers, Wants
<1> HIDE DEF a, b
<1>2. R \in Seq(StepSet) /\ Len(R) = 3 /\ R[1] = a /\ R[2] = b /\ R[3] = Facts
  BY <1>1
<1> HIDE DEF R
<1>3. Turns(R, 2) /\ PageFree(R)
  <2>1. \A k \in 1..3 : k = 1 \/ k = 2 \/ k = 3
    OBVIOUS
  <2> QED
    BY <1>1, <1>2, <2>1 DEF Turns, PageFree
<1>4. Local("new_process") \in Quiet
  BY QuietCred DEF Apart, Words, Bearers, Wants
<1>5. T \in Seq(Quiet) /\ ReadToken \in Seq(StepSet) /\ <<Local("new_process")>> \in Seq(StepSet)
  <2>1. <<Local("new_process")>> \in Seq(Quiet)
    BY <1>4
  <2>2. T \in Seq(Quiet)
    BY <2>1, QuietParts, QuietConcat
  <2> QED
    BY <2>1, <2>2, QuietParts DEF Quiet
<1>6. Restart = R \o T
  BY <1>2, <1>5, ConcatAssociative DEF Restart, R, a, b
<1> HIDE DEF T
<1>7. 2 \in {2, 3} /\ 2 <= Len(R)
  BY <1>2
<1>8. Turns(R \o T, 2) /\ PageFree(R \o T)
  BY <1>2, <1>3, <1>5, <1>7, TurnsConcat, Zenon
<1> QED
  BY <1>6, <1>8

LEMMA OutageTurns == Turns(Outage, 3) /\ PageFree(Outage)
<1> DEFINE a == Op("stop")
           b == Http("read", "token", "unavailable")
           c == Op("start")
           R == <<a, b, c>>
<1>1. /\ a \in StepSet /\ b \in StepSet /\ c \in StepSet
      /\ a.what = "stop" /\ a.do = "control" /\ c.what = "start" /\ c.do = "control"
      /\ b.what = "read" /\ b.do = "http"
  BY DEF Op, Http, Step, StepSet, Words, Bearers, Wants
<1> HIDE DEF a, b, c
<1>2. R \in Seq(StepSet) /\ Len(R) = 3 /\ R[1] = a /\ R[2] = b /\ R[3] = c
  BY <1>1
<1>3. Outage = R \o ReadToken
  BY DEF Outage, R, a, b, c
<1> HIDE DEF R
<1>4. Turns(R, 3) /\ PageFree(R)
  <2>1. \A k \in 1..3 : k = 1 \/ k = 2 \/ k = 3
    OBVIOUS
  <2> QED
    BY <1>1, <1>2, <2>1 DEF Turns, PageFree
<1> DEFINE T == ReadToken
<1>5. T \in Seq(Quiet)
  BY QuietParts
<1> HIDE DEF T
<1>6. 3 \in {2, 3} /\ 3 <= Len(R)
  BY <1>2
<1>7. Turns(R \o T, 3) /\ PageFree(R \o T)
  BY <1>2, <1>4, <1>5, <1>6, TurnsConcat, Zenon
<1> QED
  BY <1>3, <1>7 DEF T

Shaped(S) == \E d \in {0, 2, 3} : Turns(S, d)

LEMMA CasesShaped ==
  \A c \in 1..21 : Shaped(Cases[c]) /\ (c = 11 \/ PageFree(Cases[c]))
<1>1. ASSUME NEW S \in Seq(Quiet) PROVE Shaped(S) /\ PageFree(S)
  BY QuietTurns DEF Shaped
<1>2. Shaped(Restart) /\ PageFree(Restart)
  BY RestartTurns DEF Shaped
<1>3. Shaped(Outage) /\ PageFree(Outage)
  BY OutageTurns DEF Shaped
<1>4. Shaped(DrivePages)
  BY PagesShape, CalmTurns DEF Shaped
<1>5. \A S \in {Identity, Discovery, Unauthenticated, BadInvitation, ExpiredInvitation, RealAuth,
               Replayed, UnknownVehicle, CurrentValues, TerminalCursor, Etag,
               WrongCursor, Unsupported, Rotation, Revocation, Reauthenticate} :
        Shaped(S) /\ PageFree(S)
  BY <1>1, QuietCases
<1> HIDE DEF Shaped, PageFree
<1> QED
  BY <1>2, <1>3, <1>4, <1>5 DEF Cases

LEMMA ScriptShaped ==
  ASSUME Typed, Len(results) < 21
  PROVE  Shaped(Script) /\ (Len(results) = 10 \/ PageFree(Script))
<1>1. Len(results) \in Nat
  BY DEF Typed
<1>2. \A n \in Nat : n < 21 => n + 1 \in 1..21 /\ (n + 1 = 11 => n = 10)
  OBVIOUS
<1>3. Len(results) + 1 \in 1..21 /\ (Len(results) + 1 = 11 => Len(results) = 10)
  BY <1>1, <1>2, Zenon
<1> QED
  BY <1>3, CasesShaped DEF Script

-----------------------------------------------------------------------------
(* The types *)

Starts == [proof : Nat, generation : Nat, device : Nat]
HostTyped ==
  /\ up \in BOOLEAN /\ generation \in Nat /\ observed \in Nat /\ invited \in Nat /\ stale \in BOOLEAN
  /\ claimed \subseteq Nat /\ live \subseteq Tokens /\ issued \in Nat
ClientTyped == token \in Tokens /\ old \in Tokens /\ device \in Nat
ViewTyped == proof \in Nat /\ seen \in Nat /\ invitation \in Nat
RunTyped ==
  /\ phase \in {"between", "case", "done", "aborted"}
  /\ why \in {"none", "lost", "stopped", "out_of_turn", "inadmissible", "no_device"}
  /\ Len(results) <= 21 /\ good \in BOOLEAN /\ start \in Starts /\ faults \in 0..MaxFaults
(* Pages are turned in one case only, at every other of its steps.         *)
PagesTurned ==
  /\ pages \in 0..3
  /\ phase = "between" /\ Len(results) <= 10 => pages = 0
  /\ phase = "case" /\ Len(results) < 10 => pages = 0
  /\ phase = "case" /\ Len(results) = 10 => 2 * pages < step

AllTyped == HostTyped /\ ClientTyped /\ ViewTyped /\ RunTyped /\ PagesTurned

(* An operation, performed or not, keeps the types of host, Hub and view.  *)
LEMMA PerformsTyped ==
  ASSUME HostTyped, NEW o, Performs(o) PROVE HostTyped'
<1>1. generation' \in Nat
  BY DEF Performs, NextGeneration, HostTyped
<1>2. live' \subseteq Tokens
  BY DEF Performs, HostTyped
<1>3. up' \in BOOLEAN /\ stale' \in BOOLEAN
  BY DEF Performs
<1>4. observed' \in Nat /\ invited' \in Nat /\ claimed' \subseteq Nat /\ issued' \in Nat
  BY DEF Performs, HostTyped
<1> QED
  BY <1>1, <1>2, <1>3, <1>4 DEF HostTyped

LEMMA OperationTyped ==
  ASSUME HostTyped, ViewTyped, NEW o, Learnt(o) \/ Raised(o) \/ Lost(o) \/ Refused(o)
  PROVE  HostTyped' /\ ViewTyped'
<1>1. HostTyped'
  <2>1. CASE Performs(o)
    BY <2>1, PerformsTyped
  <2>2. CASE UNCHANGED <<hostVars, hubVars>>
    BY <2>2 DEF HostTyped, hostVars, hubVars
  <2> QED
    BY <2>1, <2>2 DEF Learnt, Raised, Lost, Refused
<1>2. ViewTyped'
  <2>1. CASE Admit
    BY <1>1, <2>1 DEF Admit, HostTyped, ViewTyped
  <2>2. CASE UNCHANGED viewVars
    BY <2>2 DEF ViewTyped, viewVars
  <2> QED
    BY <2>1, <2>2 DEF Learnt, Raised, Lost, Refused
<1> QED
  BY <1>1, <1>2

LEMMA FaultTyped ==
  ASSUME RunTyped, NEW k, Fault(k) \/ faults' = faults
  PROVE  faults' \in 0..MaxFaults
BY MatrixAssumption DEF Fault, RunTyped

LEMMA OperationFaults ==
  ASSUME RunTyped, NEW o, Learnt(o) \/ Raised(o) \/ Lost(o) \/ Refused(o)
  PROVE  faults' \in 0..MaxFaults
BY FaultTyped DEF Learnt, Raised, Lost, Refused

(* The ways a step of a case leaves the run: at the next step, between     *)
(* cases with one result more, or aborted.                                 *)
Left(aborts) ==
  \/ Proceed /\ good' \in BOOLEAN
  \/ \E s \in {"passed", "failed"}, a \in Nat : Record(s, a)
  \/ \E r \in aborts : Abort(r)
Reasons == {"lost", "stopped", "out_of_turn", "inadmissible", "no_device"}

LEMMA LeftTyped ==
  ASSUME RunTyped, Typed, Len(results) < 21, Left(Reasons), faults' \in 0..MaxFaults
  PROVE  RunTyped'
<1>1. CASE Proceed /\ good' \in BOOLEAN
  BY <1>1 DEF Proceed, RunTyped
<1>2. ASSUME NEW s \in {"passed", "failed"}, NEW a \in Nat, Record(s, a) PROVE RunTyped'
  <2>1. Len(results') = Len(results) + 1
    BY <1>2 DEF Record, Typed
  <2>2. Len(results) \in Nat
    BY DEF Typed
  <2> QED
    BY <1>2, <2>1, <2>2 DEF Record, RunTyped
<1>3. ASSUME NEW r \in Reasons, Abort(r) PROVE RunTyped'
  BY <1>3 DEF Abort, RunTyped, Reasons
<1> QED
  BY <1>1, <1>2, <1>3 DEF Left

(* A step that turns no page. *)
LEMMA LeftPages ==
  ASSUME PagesTurned, Typed, phase = "case", Left(Reasons), pages' = pages
  PROVE  PagesTurned'
<1>0. Len(results) \in Nat /\ step \in Nat /\ pages \in 0..3
  BY DEF Typed, PagesTurned
<1>1. CASE Proceed
  BY <1>0, <1>1 DEF Proceed, PagesTurned
<1>2. ASSUME NEW s, NEW a, Record(s, a) PROVE PagesTurned'
  <2>1. Len(results') = Len(results) + 1
    BY <1>2 DEF Record, Typed
  <2> QED
    BY <1>0, <1>2, <2>1 DEF Record, PagesTurned
<1>3. ASSUME NEW r, Abort(r) PROVE PagesTurned'
  BY <1>3 DEF Abort, PagesTurned
<1> QED
  BY <1>1, <1>2, <1>3 DEF Left

LEMMA OperationLeft ==
  ASSUME RunTyped, Typed', NEW o,
         \/ Learnt(o) /\ Proceed /\ UNCHANGED good
         \/ Raised(o) /\ Fail
         \/ Lost(o)
         \/ Refused(o)
  PROVE  Left(Reasons)
<1>1. CASE Proceed /\ UNCHANGED good
  BY <1>1 DEF Left, RunTyped
<1>2. CASE Fail
  BY <1>2 DEF Left, Fail, Typed
<1>3. CASE Lost(o) \/ Refused(o)
  BY <1>3 DEF Left, Lost, Refused, Reasons
<1> QED
  BY <1>1, <1>2, <1>3

LEMMA TokensInHand ==
  ASSUME HostTyped, ClientTyped
  PROVE  Credential \in Tokens /\ Credential.device \in Nat /\ Bearer \in Tokens
<1>1. Bearer \in Tokens
  BY DEF ClientTyped, Bearer, NoToken, Tokens
<1>2. Credential \in Tokens
  BY <1>1 DEF HostTyped, Credential, Tokens
<1> QED
  BY <1>1, <1>2 DEF Tokens

(* Pages are asked for only in the case of the pages, and there only while *)
(* fewer than three are in hand.                                           *)
LEMMA PageInTurn ==
  ASSUME PagesTurned, Typed, Begun, phase = "case", step <= Len(Script), Now.what = "page"
  PROVE  Len(results) = 10 /\ pages \in 0..2 /\ 2 * (pages + 1) < step + 1
<1>1. Len(results) < 21 /\ step >= 1 /\ step \in Nat
  BY DEF Begun, Typed
<1>2. step \in 1..Len(Script)
  BY <1>1, ScriptShaped DEF Shaped, Turns
<1>3. Len(results) = 10
  BY <1>1, <1>2, ScriptShaped DEF PageFree, Now
<1>4. Script = DrivePages
  BY <1>3 DEF Script, Cases
<1>5. step \in {2, 4, 6}
  <2>1. step \in 1..6 /\ DrivePages[step].what = "page"
    BY <1>2, <1>4, PagesShape DEF Now
  <2> QED
    BY <2>1, PagesShape
<1>6. pages \in 0..3 /\ 2 * pages < step
  BY <1>3 DEF PagesTurned
<1> QED
  BY <1>3, <1>5, <1>6

LEMMA HttpPages ==
  ASSUME PagesTurned, Typed, Begun, phase = "case", step <= Len(Script), Proceed,
         pages' = IF Now.what = "page" THEN pages + 1 ELSE pages
  PROVE  PagesTurned'
<1>1. CASE Now.what = "page"
  <2>1. Len(results) = 10 /\ pages \in 0..2 /\ 2 * (pages + 1) < step + 1
    BY <1>1, PageInTurn
  <2> QED
    BY <1>1, <2>1 DEF Proceed, PagesTurned
<1>2. CASE Now.what # "page"
  <2>1. pages \in 0..3 /\ step \in Nat
    BY DEF PagesTurned, Typed
  <2> QED
    BY <1>2, <2>1 DEF Proceed, PagesTurned
<1> QED
  BY <1>1, <1>2

(* What an exchange leaves: the Hub's tables, the client's credential and  *)
(* the way it leaves the case.                                             *)
LEMMA HttpTyped ==
  ASSUME AllTyped, Anchored, Typed', HttpStep
  PROVE  AllTyped'
<1>1. /\ phase = "case" /\ step <= Len(Script) /\ Typed /\ Begun
      /\ Credential \in Tokens /\ Credential.device \in Nat
  BY TokensInHand DEF AllTyped, Anchored, HttpStep, At
<1>2. HostTyped'
  <2>1. up' = up /\ generation' = generation /\ observed' = observed /\ invited' = invited /\ stale' = stale
    BY DEF HttpStep, hostVars
  <2>2. CASE UNCHANGED hubVars
    BY <2>1, <2>2 DEF AllTyped, HostTyped, hubVars
  <2>3. CASE Serve
    <3>1. issued' \in Nat
      BY <2>3 DEF Serve, hubVars, AllTyped, HostTyped
    <3>2. claimed' \subseteq Nat
      BY <2>3 DEF Serve, hubVars, AllTyped, HostTyped, ViewTyped
    <3>3. live' \subseteq Tokens
      BY <1>1, <2>3 DEF Serve, hubVars, AllTyped, HostTyped
    <3> QED
      BY <2>1, <3>1, <3>2, <3>3 DEF AllTyped, HostTyped
  <2> QED
    BY <2>2, <2>3 DEF HttpStep
<1>3. ClientTyped'
  <2>1. old' = old
    BY DEF HttpStep
  <2>2. token' \in {token, Credential} /\ device' \in {device, Credential.device}
    BY DEF HttpStep, Adopt
  <2> QED
    BY <1>1, <2>1, <2>2 DEF AllTyped, ClientTyped
<1>4. ViewTyped'
  BY DEF HttpStep, viewVars, AllTyped, ViewTyped
<1>5. faults' \in 0..MaxFaults
  BY FaultTyped DEF HttpStep, AllTyped
<1>6. Left(Reasons)
  <2>1. Fail \/ (Proceed /\ good' \in {good, FALSE})
    BY DEF HttpStep, Adopt
  <2>2. good \in BOOLEAN
    BY DEF AllTyped, RunTyped
  <2>3. proof' \in Nat
    BY DEF Typed
  <2> QED
    BY <2>1, <2>2, <2>3 DEF Left, Fail
<1>7. RunTyped'
  BY <1>1, <1>5, <1>6, LeftTyped DEF AllTyped, Begun
<1>8. PagesTurned'
  <2>1. \/ pages' = pages
        \/ Proceed /\ pages' = IF Now.what = "page" THEN pages + 1 ELSE pages
    BY DEF HttpStep, Adopt
  <2> QED
    BY <1>1, <1>6, <2>1, LeftPages, HttpPages DEF AllTyped
<1> QED
  BY <1>2, <1>3, <1>4, <1>7, <1>8 DEF AllTyped

LEMMA BeginTyped ==
  ASSUME AllTyped, Anchored, Typed', BeginCase
  PROVE  AllTyped'
<1>1. HostTyped' /\ ViewTyped' /\ faults' \in 0..MaxFaults
  BY OperationTyped, OperationFaults DEF BeginCase, AllTyped
<1>2. ClientTyped' /\ pages' = pages /\ device \in Nat
  BY DEF BeginCase, clientVars, AllTyped, ClientTyped
<1>3. phase = "between" /\ results' = results /\ Len(results) \in Nat /\ pages \in 0..3
  BY DEF BeginCase, Abort, Lost, Refused, AllTyped, PagesTurned, Anchored, Typed
<1>4. CASE phase' = "aborted"
  <2>1. why' \in Reasons /\ good' = good /\ start' = start
    BY <1>4 DEF BeginCase, Abort, Lost, Refused, Reasons
  <2> QED
    BY <1>1, <1>2, <1>3, <1>4, <2>1 DEF AllTyped, RunTyped, PagesTurned, Reasons
<1>5. CASE phase' # "aborted"
  <2>1. /\ phase' = "case" /\ step' = 1 /\ good' = TRUE /\ why' = why
        /\ start' = [proof |-> proof', generation |-> seen', device |-> device]
    BY <1>5 DEF BeginCase, Abort, Lost, Refused
  <2>2. start' \in Starts
    BY <1>1, <1>2, <2>1 DEF ViewTyped, Starts
  <2>3. RunTyped'
    BY <1>1, <1>3, <2>1, <2>2 DEF AllTyped, RunTyped
  <2>4. PagesTurned'
    <3>1. Len(results) <= 10 => pages = 0
      BY <1>3 DEF AllTyped, PagesTurned
    <3>2. Len(results') = Len(results) /\ pages' = pages /\ pages \in 0..3 /\ Len(results) \in Nat
      BY <1>2, <1>3
    <3>3. CASE Len(results) <= 10
      BY <2>1, <3>1, <3>2, <3>3 DEF PagesTurned
    <3>4. CASE ~(Len(results) <= 10)
      <4>1. ~(Len(results') <= 10) /\ ~(Len(results') < 10) /\ Len(results') # 10
        BY <3>2, <3>4
      <4>2. pages' \in 0..3
        BY <3>2
      <4> QED
        BY <4>1, <4>2 DEF PagesTurned
    <3> QED
      BY <3>3, <3>4
  <2> QED
    BY <1>1, <1>2, <2>3, <2>4 DEF AllTyped
<1> QED
  BY <1>4, <1>5

LEMMA ControlTyped ==
  ASSUME AllTyped, Anchored, Typed', ControlStep
  PROVE  AllTyped'
<1>1. phase = "case" /\ Typed /\ Begun
  BY DEF ControlStep, At, Anchored
<1>2. HostTyped' /\ ViewTyped' /\ faults' \in 0..MaxFaults
  BY OperationTyped, OperationFaults DEF ControlStep, AllTyped
<1>3. ClientTyped' /\ pages' = pages
  BY DEF ControlStep, clientVars, AllTyped, ClientTyped
<1>4. Left(Reasons)
  BY OperationLeft DEF ControlStep, AllTyped
<1> QED
  BY <1>1, <1>2, <1>3, <1>4, LeftTyped, LeftPages DEF AllTyped, Begun

LEMMA LocalTyped ==
  ASSUME AllTyped, Anchored, Typed', LocalStep
  PROVE  AllTyped'
<1>1. phase = "case" /\ Typed /\ Begun
  BY DEF LocalStep, At, Anchored
<1>2. HostTyped' /\ ViewTyped' /\ faults' \in 0..MaxFaults
  BY DEF LocalStep, AllTyped, HostTyped, ViewTyped, RunTyped, hostVars, hubVars, viewVars
<1>3. ClientTyped' /\ pages' = pages
  BY DEF LocalStep, AllTyped, ClientTyped
<1>4. Left(Reasons)
  <2>1. Fail \/ (Proceed /\ good' \in BOOLEAN)
    BY DEF LocalStep
  <2>2. proof' \in Nat
    BY DEF Typed
  <2> QED
    BY <2>1, <2>2 DEF Left, Fail
<1> QED
  BY <1>1, <1>2, <1>3, <1>4, LeftTyped, LeftPages DEF AllTyped, Begun

LEMMA AllTypedAlways == Spec => []AllTyped
<1>1. Init => AllTyped
  <2> SUFFICES ASSUME Init PROVE AllTyped
    OBVIOUS
  <2>1. HostTyped /\ ViewTyped
    BY DEF Init, HostTyped, ViewTyped
  <2>2. ClientTyped
    BY DEF Init, ClientTyped, NoToken, Tokens
  <2>3. RunTyped /\ PagesTurned
    BY MatrixAssumption DEF Init, RunTyped, PagesTurned, Starts
  <2> QED
    BY <2>1, <2>2, <2>3 DEF AllTyped
<1>2. AllTyped /\ Anchored /\ [Next]_vars => AllTyped'
  <2> SUFFICES ASSUME AllTyped, Anchored, [Next]_vars PROVE AllTyped'
    OBVIOUS
  <2>0. Typed' /\ Typed
    BY TypedNext DEF Anchored
  <2>1. CASE UNCHANGED vars
    BY <2>1 DEF AllTyped, HostTyped, ViewTyped, ClientTyped, RunTyped, PagesTurned, vars, caseVars,
       clientVars, viewVars, hostVars, hubVars
  <2>2. CASE BeginCase
    BY <2>0, <2>2, BeginTyped
  <2>3. CASE ControlStep
    BY <2>0, <2>3, ControlTyped
  <2>4. CASE HttpStep
    BY <2>0, <2>4, HttpTyped
  <2>5. CASE LocalStep
    BY <2>0, <2>5, LocalTyped
  <2>6. CASE NoDevice \/ FinishCase
    <3>1. phase = "case" /\ Begun
      BY <2>6 DEF NoDevice, FinishCase, At, Anchored
    <3>2. HostTyped' /\ ViewTyped' /\ faults' \in 0..MaxFaults
      BY <2>6 DEF NoDevice, FinishCase, AllTyped, HostTyped, ViewTyped, RunTyped, hostVars, hubVars,
         viewVars
    <3>3. ClientTyped' /\ pages' = pages
      BY <2>6 DEF NoDevice, FinishCase, AllTyped, ClientTyped, clientVars
    <3>4. Left(Reasons)
      BY <2>0, <2>6 DEF NoDevice, FinishCase, Left, Reasons, Typed
    <3> QED
      BY <2>0, <3>1, <3>2, <3>3, <3>4, LeftTyped, LeftPages DEF AllTyped, Begun
  <2>7. CASE FinishRun \/ InvitationExpires
    <3>1. HostTyped' /\ ViewTyped' /\ ClientTyped'
      BY <2>7 DEF FinishRun, InvitationExpires, AllTyped, HostTyped, ViewTyped, ClientTyped,
         hostVars, hubVars, viewVars, clientVars
    <3>2. faults' \in 0..MaxFaults
      BY <2>7, FaultTyped DEF FinishRun, InvitationExpires, AllTyped
    <3>3. RunTyped'
      BY <2>7, <3>2 DEF FinishRun, InvitationExpires, AllTyped, RunTyped, caseVars
    <3>4. PagesTurned'
      BY <2>7 DEF FinishRun, InvitationExpires, AllTyped, PagesTurned, caseVars, clientVars
    <3> QED
      BY <3>1, <3>2, <3>3, <3>4 DEF AllTyped
  <2> QED
    BY <2>1, <2>2, <2>3, <2>4, <2>5, <2>6, <2>7 DEF Next
<1> QED
  BY <1>1, <1>2, AnchoredAlways, PTL DEF Spec

(* Every variable keeps its type, whatever the defects and the faults: in  *)
(* particular there is never a page more than the fixture has.             *)
THEOREM TypesKept == Spec => []TypeOK
<1>1. Typed /\ AllTyped => TypeOK
  <2>1. Len(Cases) = 21
    BY CasesObserved
  <2> QED
    BY <2>1 DEF Typed, AllTyped, HostTyped, ViewTyped, ClientTyped, RunTyped, PagesTurned, TypeOK,
       Anchors, Starts
<1>2. Anchored => Typed
  BY DEF Anchored
<1> QED
  BY <1>1, <1>2, AllTypedAlways, AnchoredAlways, PTL

-----------------------------------------------------------------------------
(* The service runs except between the stop of a case and its start.       *)
InTurn ==
  phase = "case" =>
    \E d \in {0, 2, 3} : Turns(Script, d) /\ (up <=> ~(1 < step /\ step <= d))
Orderly == NeverOutOfTurn /\ InTurn

(* What a learnt operation leaves, and which refusal it can meet.          *)
LEMMA ControlOrderly ==
  ASSUME Orderly, Anchored, TypeOK, ControlStep PROVE Orderly'
<1> DEFINE o == Now.what
<1>1. /\ phase = "case" /\ step <= Len(Script) /\ Now.do = "control"
      /\ Typed /\ Len(results) < 21 /\ step >= 1 /\ step \in Nat
  BY DEF ControlStep, At, Anchored, Typed, Begun
<1>2. PICK d \in {0, 2, 3} : Turns(Script, d) /\ (up <=> ~(1 < step /\ step <= d))
  BY <1>1 DEF Orderly, InTurn
<1>3. /\ step \in 1..Len(Script)
      /\ o = "stop" <=> step = 1 /\ d > 1
      /\ o = "start" <=> step = d
      /\ ~(1 < step /\ step < d)
  BY <1>1, <1>2 DEF Turns, Now
<1>4. Accepts(o)
  <2>1. o = "start" => ~up
    BY <1>2, <1>3
  <2>2. o # "start" => up
    BY <1>1, <1>2, <1>3
  <2> QED
    BY <2>1, <2>2 DEF Accepts, TypeOK
<1> HIDE DEF o
<1>5. CASE Learnt(o) /\ Proceed
  <2>1. up' = (o # "stop")
    BY <1>5 DEF Learnt, Performs
  <2>2. phase' = "case" /\ step' = step + 1 /\ results' = results /\ why' = why
    BY <1>1, <1>5 DEF Proceed
  <2>3. up' <=> ~(1 < step' /\ step' <= d)
    <3>1. CASE o = "stop"
      <4>1. 1 < step + 1 /\ step + 1 <= d
        BY <1>1, <1>3, <3>1
      <4> QED
        BY <2>1, <2>2, <3>1, <4>1
    <3>2. CASE o # "stop"
      <4>1. ~(1 < step + 1 /\ step + 1 <= d)
        BY <1>1, <1>3, <3>2
      <4> QED
        BY <2>1, <2>2, <3>2, <4>1
    <3> QED
      BY <3>1, <3>2
  <2>4. Turns(Script', d)
    BY <1>2, <2>2 DEF Script
  <2> QED
    BY <2>2, <2>3, <2>4 DEF Orderly, NeverOutOfTurn, InTurn
<1>6. CASE Fail
  BY <1>6 DEF Fail, Record, Orderly, NeverOutOfTurn, InTurn
<1>7. CASE Lost(o)
  BY <1>7 DEF Lost, Abort, Orderly, NeverOutOfTurn, InTurn
<1>8. ~Refused(o)
  BY <1>4 DEF Refused
<1> QED
  BY <1>5, <1>6, <1>7, <1>8 DEF ControlStep, o

(* An exchange or a local check leaves the service as it is, and is never  *)
(* the step that stops or starts it.                                       *)
LEMMA LocalOrderly ==
  ASSUME Orderly, Anchored, phase = "case", step <= Len(Script), Now.do # "control",
         up' = up, Proceed \/ Fail
  PROVE  Orderly'
<1>1. CASE Fail
  BY <1>1 DEF Fail, Record, Orderly, NeverOutOfTurn, InTurn
<1>2. CASE Proceed
  <2>1. Typed /\ Len(results) < 21 /\ step >= 1 /\ step \in Nat
    BY DEF Anchored, Typed, Begun
  <2>2. PICK d \in {0, 2, 3} : Turns(Script, d) /\ (up <=> ~(1 < step /\ step <= d))
    BY DEF Orderly, InTurn
  <2>3. ~(step = 1 /\ d > 1) /\ step # d
    BY <2>1, <2>2 DEF Turns, Now
  <2>4. phase' = "case" /\ step' = step + 1 /\ results' = results /\ why' = why
    BY <1>2 DEF Proceed
  <2>5. up' <=> ~(1 < step' /\ step' <= d)
    BY <2>1, <2>2, <2>3, <2>4
  <2>6. Turns(Script', d)
    BY <2>2, <2>4 DEF Script
  <2> QED
    BY <2>4, <2>5, <2>6 DEF Orderly, NeverOutOfTurn, InTurn
<1> QED
  BY <1>1, <1>2

LEMMA BeginOrderly ==
  ASSUME Orderly, Anchored, BeginCase PROVE Orderly'
<1>1. Typed /\ results' = results /\ Len(results) < 21
  BY CasesObserved DEF BeginCase, Anchored, Abort, Lost, Refused
<1>2. CASE phase' = "aborted"
  <2>1. why' \in {why, "inadmissible", "lost", "stopped"}
    BY <1>2 DEF BeginCase, Abort, Lost, Refused
  <2> QED
    BY <1>2, <2>1 DEF Orderly, NeverOutOfTurn, InTurn
<1>3. CASE phase' # "aborted"
  <2>1. phase' = "case" /\ step' = 1 /\ why' = why /\ up' = TRUE
    BY <1>3 DEF BeginCase, Abort, Lost, Refused, Learnt, Performs
  <2>2. PICK d \in {0, 2, 3} : Turns(Script, d)
    BY <1>1, ScriptShaped DEF Shaped
  <2>3. Turns(Script', d)
    BY <1>1, <2>2 DEF Script
  <2> QED
    BY <2>1, <2>3 DEF Orderly, NeverOutOfTurn, InTurn
<1> QED
  BY <1>2, <1>3

(* Whatever failed, was lost or was refused half way through a case: the   *)
(* host is never asked to stop, start, pair or revoke when it cannot.      *)
THEOREM TurnsKept == Spec => []NeverOutOfTurn
<1>1. Init => Orderly
  BY DEF Init, Orderly, NeverOutOfTurn, InTurn
<1>2. Orderly /\ Anchored /\ TypeOK /\ [Next]_vars => Orderly'
  <2> SUFFICES ASSUME Orderly, Anchored, TypeOK, [Next]_vars PROVE Orderly'
    OBVIOUS
  <2>1. CASE UNCHANGED vars
    BY <2>1 DEF Orderly, NeverOutOfTurn, InTurn, Script, vars, caseVars, hostVars
  <2>2. CASE BeginCase
    BY <2>2, BeginOrderly
  <2>3. CASE ControlStep
    BY <2>3, ControlOrderly
  <2>4. CASE NoDevice
    BY <2>4 DEF NoDevice, Abort, Orderly, NeverOutOfTurn, InTurn
  <2>5. CASE HttpStep \/ LocalStep
    <3>1. phase = "case" /\ step <= Len(Script) /\ Now.do # "control" /\ up' = up
      BY <2>5 DEF HttpStep, LocalStep, At, hostVars
    <3>2. Proceed \/ Fail
      BY <2>5 DEF HttpStep, LocalStep, Adopt
    <3> QED
      BY <3>1, <3>2, LocalOrderly
  <2>6. CASE FinishCase \/ FinishRun
    BY <2>6 DEF FinishCase, FinishRun, Record, Orderly, NeverOutOfTurn, InTurn
  <2>7. CASE InvitationExpires
    BY <2>7 DEF InvitationExpires, Orderly, NeverOutOfTurn, InTurn, Script, caseVars
  <2> QED
    BY <2>1, <2>2, <2>3, <2>4, <2>5, <2>6, <2>7 DEF Next
<1>3. Orderly => NeverOutOfTurn
  BY DEF Orderly
<1> QED
  BY <1>1, <1>2, <1>3, AnchoredAlways, TypesKept, PTL DEF Spec

-----------------------------------------------------------------------------
(* The steps of the cases that tell something about the Hub, and where the *)
(* credentials, the invitation and the service change hands.               *)
Acts == {"claim", "bad_claim", "rotate", "pair", "revoke", "stop", "start"}
Tame == {s \in StepSet : s.what \notin Acts}

LEMMA TameSteps ==
  ASSUME NEW w \in Words, w \notin Acts, NEW b \in Bearers, NEW a \in Wants
  PROVE  /\ Op("verify") \in Tame /\ Http(w, b, a) \in Tame /\ Local(w) \in Tame
         /\ Cred(w, b, a) \in Seq(Tame) /\ Cred(w, b, a) \in Seq(StepSet)
         /\ Cred(w, b, a) = <<Op("verify"), Http(w, b, a)>>
<1>1. Op("verify") \in Tame /\ Http(w, b, a) \in Tame /\ Local(w) \in Tame
  BY DEF Op, Http, Local, Step, Tame, Acts, StepSet, Words, Bearers, Wants
<1>2. <<Op("verify"), Http(w, b, a)>> \in Seq(Tame)
  BY <1>1
<1>3. \A S \in Seq(Tame) : S \in Seq(StepSet)
  BY DEF Tame
<1> QED
  BY <1>1, <1>2, <1>3 DEF Cred

LEMMA TameConcat ==
  ASSUME NEW S \in Seq(Tame), NEW T \in Seq(Tame) PROVE S \o T \in Seq(Tame)
OBVIOUS

(* The cases in which nothing changes hands.                               *)
LEMMA TameCases ==
  {Identity, Discovery, Unauthenticated, ExpiredInvitation, UnknownVehicle, CurrentValues, DrivePages,
   TerminalCursor, Etag, WrongCursor, Unsupported} \subseteq Seq(Tame)
<1> USE DEF Acts, Words, Bearers, Wants
<1>1. /\ Op("verify") \in Tame /\ Public \in Tame /\ Facts \in Tame
      /\ Local("identity") \in Tame /\ Local("no_token") \in Tame
      /\ Local("pages") \in Tame /\ Local("unsupported") \in Tame
  BY TameSteps DEF Public, Facts
<1>2. /\ ReadToken \in Seq(Tame) /\ Values \in Seq(Tame) /\ Page \in Seq(Tame)
      /\ TerminalCursor \in Seq(Tame) /\ WrongCursor \in Seq(Tame)
      /\ Cred("after_first", "token", "ok") \in Seq(Tame)
  BY TameSteps DEF ReadToken, Values, Page, TerminalCursor, WrongCursor
<1>3. /\ Identity \in Seq(Tame) /\ Discovery \in Seq(Tame) /\ Unauthenticated \in Seq(Tame)
      /\ ExpiredInvitation \in Seq(Tame) /\ Unsupported \in Seq(Tame) /\ <<Local("pages")>> \in Seq(Tame)
  BY <1>1 DEF Identity, Discovery, Unauthenticated, ExpiredInvitation, Unsupported
<1>4. UnknownVehicle \in Seq(Tame) /\ CurrentValues \in Seq(Tame) /\ DrivePages \in Seq(Tame)
  BY <1>2, TameConcat DEF UnknownVehicle, CurrentValues, DrivePages
<1>5. Etag \in Seq(Tame)
  BY <1>2, <1>3, TameConcat DEF Etag
<1> QED
  BY <1>2, <1>3, <1>4, <1>5

LEMMA ShortScripts ==
  /\ Identity = <<Local("identity")>>
  /\ Replayed = <<Op("verify"), Http("claim", "none", "refused")>>
  /\ WrongCursor = <<Op("verify"), Http("foreign_cursor", "token", "ok")>>
  /\ Len(BadInvitation) = 3 /\ BadInvitation[1] = Local("unexpired") /\ BadInvitation[2] = Op("verify")
     /\ BadInvitation[3] = Http("bad_claim", "none", "refused")
  /\ Len(Revocation) = 3 /\ Revocation[1] = Op("revoke") /\ Revocation[2] = Op("verify")
     /\ Revocation[3] = Http("read", "token", "refused")
  /\ Len(Etag) >= 1 /\ Etag[1] = Local("pages")
BY DEF Identity, Replayed, WrongCursor, BadInvitation, Revocation, Etag, Cred, ReadToken

LEMMA RealAuthScript ==
  /\ Len(RealAuth) = 5 /\ RealAuth[1] = Op("verify") /\ RealAuth[2] = Local("unexpired")
  /\ RealAuth[3] = Http("claim", "none", "ok") /\ RealAuth[4] = Op("verify")
  /\ RealAuth[5] = Http("values", "token", "ok")
BY DEF RealAuth, Claim, Values, Cred

LEMMA RotationScript ==
  /\ Len(Rotation) = 11
  /\ Rotation[1] = Local("keep") /\ Rotation[2] = Op("verify") /\ Rotation[3] = Http("rotate", "old", "ok")
  /\ Rotation[4] = Op("verify") /\ Rotation[5] = Http("read", "token", "ok")
  /\ Rotation[6] = Op("verify") /\ Rotation[7] = Http("read", "old", "ok")
  /\ Rotation[8] = Op("verify") /\ Rotation[9] = Http("rotate", "old", "ok")
  /\ Rotation[10] = Op("verify") /\ Rotation[11] = Http("read", "token", "ok")
BY DEF Rotation, Rotate, ReadToken, Cred

LEMMA ReauthenticateScript ==
  /\ Len(Reauthenticate) = 7
  /\ Reauthenticate[1] = Op("pair") /\ Reauthenticate[2] = Op("verify")
  /\ Reauthenticate[3] = Local("unexpired") /\ Reauthenticate[4] = Http("claim", "none", "ok")
  /\ Reauthenticate[5] = Op("verify") /\ Reauthenticate[6] = Http("read", "token", "ok")
  /\ Reauthenticate[7] = Local("new_device")
BY DEF Reauthenticate, Claim, ReadToken, Cred

LEMMA RestartScript ==
  /\ Len(Restart) = 6 /\ Restart[1] = Op("stop") /\ Restart[2] = Op("start") /\ Restart[3] = Facts
  /\ Restart[4] = Op("verify") /\ Restart[5] = Http("read", "token", "ok")
  /\ Restart[6] = Local("new_process")
BY DEF Restart, ReadToken, Cred

LEMMA OutageScript ==
  /\ Len(Outage) = 5 /\ Outage[1] = Op("stop") /\ Outage[2] = Http("read", "token", "unavailable")
  /\ Outage[3] = Op("start") /\ Outage[4] = Op("verify") /\ Outage[5] = Http("read", "token", "ok")
BY DEF Outage, ReadToken, Cred

(* The step that the run is at.                                            *)
Place(c, k) == Len(results) = c - 1 /\ step = k
Under == Len(results) \in 0..20 /\ step \in 1..Len(Script)

LEMMA CaseOf ==
  ASSUME Len(results) \in 0..20
  PROVE  /\ Len(results) = 0 => Script = Identity
         /\ Len(results) = 4 => Script = BadInvitation
         /\ Len(results) = 6 => Script = RealAuth
         /\ Len(results) = 7 => Script = Replayed
         /\ Len(results) = 12 => Script = Etag
         /\ Len(results) \in {13, 14} => Script = WrongCursor
         /\ Len(results) = 16 => Script = Rotation
         /\ Len(results) = 17 => Script = Revocation
         /\ Len(results) = 18 => Script = Reauthenticate
         /\ Len(results) = 19 => Script = Restart
         /\ Len(results) = 20 => Script = Outage
         /\ Len(results) \notin {4, 6, 7, 16, 17, 18, 19, 20} => Script \in Seq(Tame)
<1> DEFINE n == Len(results)
<1>1. n \in {0, 1, 2, 3, 4, 5, 6, 7, 8, 9, 10, 11, 12, 13, 14, 15, 16, 17, 18, 19, 20}
  OBVIOUS
<1>2. Script = Cases[n + 1]
  BY DEF Script
<1> HIDE DEF n
<1>3. \A S \in {Identity, Discovery, Unauthenticated, ExpiredInvitation, UnknownVehicle, CurrentValues,
               DrivePages, TerminalCursor, Etag, WrongCursor, Unsupported} : S \in Seq(Tame)
  BY TameCases
<1>4. n \notin {4, 6, 7, 16, 17, 18, 19, 20} =>
        Script \in {Identity, Discovery, Unauthenticated, ExpiredInvitation, UnknownVehicle, CurrentValues,
                    DrivePages, TerminalCursor, Etag, WrongCursor, Unsupported}
  BY <1>1, <1>2 DEF Cases
<1>5. /\ n = 0 => Script = Identity
      /\ n = 4 => Script = BadInvitation
      /\ n = 6 => Script = RealAuth
      /\ n = 7 => Script = Replayed
      /\ n = 12 => Script = Etag
      /\ n \in {13, 14} => Script = WrongCursor
      /\ n = 16 => Script = Rotation
      /\ n = 17 => Script = Revocation
      /\ n = 18 => Script = Reauthenticate
      /\ n = 19 => Script = Restart
      /\ n = 20 => Script = Outage
  BY <1>2 DEF Cases
<1> QED
  BY <1>3, <1>4, <1>5 DEF n

LEMMA Doings ==
  ASSUME Under
  PROVE  /\ Place(1, 1) => Now = Local("identity")
         /\ Place(5, 3) => Now = Http("bad_claim", "none", "refused")
         /\ Place(7, 3) => Now = Http("claim", "none", "ok")
         /\ Place(8, 2) => Now = Http("claim", "none", "refused")
         /\ Place(13, 1) => Now = Local("pages")
         /\ Place(14, 2) => Now = Http("foreign_cursor", "token", "ok")
         /\ Place(17, 1) => Now = Local("keep")
         /\ Place(17, 3) \/ Place(17, 9) => Now = Http("rotate", "old", "ok")
         /\ Place(17, 7) => Now = Http("read", "old", "ok")
         /\ Place(18, 1) => Now = Op("revoke")
         /\ Place(18, 3) => Now = Http("read", "token", "refused")
         /\ Place(19, 1) => Now = Op("pair")
         /\ Place(19, 4) => Now = Http("claim", "none", "ok")
         /\ Place(19, 7) => Now = Local("new_device")
         /\ Place(20, 1) \/ Place(21, 1) => Now = Op("stop")
         /\ Place(20, 2) \/ Place(21, 3) => Now = Op("start")
         /\ Place(20, 5) \/ Place(21, 5) => Now = Http("read", "token", "ok")
         /\ Place(20, 6) => Now = Local("new_process")
         /\ Place(21, 2) => Now = Http("read", "token", "unavailable")
<1> USE DEF Place, Now, Under
<1>1. /\ Place(1, 1) => Now = Local("identity")
      /\ Place(5, 3) => Now = Http("bad_claim", "none", "refused")
      /\ Place(8, 2) => Now = Http("claim", "none", "refused")
      /\ Place(13, 1) => Now = Local("pages")
      /\ Place(14, 2) => Now = Http("foreign_cursor", "token", "ok")
      /\ Place(18, 1) => Now = Op("revoke")
      /\ Place(18, 3) => Now = Http("read", "token", "refused")
  BY CaseOf, ShortScripts
<1>2. Place(7, 3) => Now = Http("claim", "none", "ok")
  BY CaseOf, RealAuthScript
<1>3. /\ Place(17, 1) => Now = Local("keep")
      /\ Place(17, 3) \/ Place(17, 9) => Now = Http("rotate", "old", "ok")
      /\ Place(17, 7) => Now = Http("read", "old", "ok")
  BY CaseOf, RotationScript
<1>4. /\ Place(19, 1) => Now = Op("pair")
      /\ Place(19, 4) => Now = Http("claim", "none", "ok")
      /\ Place(19, 7) => Now = Local("new_device")
  BY CaseOf, ReauthenticateScript
<1>5. /\ Place(20, 1) => Now = Op("stop")
      /\ Place(20, 2) => Now = Op("start")
      /\ Place(20, 5) => Now = Http("read", "token", "ok")
      /\ Place(20, 6) => Now = Local("new_process")
  BY CaseOf, RestartScript
<1>6. /\ Place(21, 1) => Now = Op("stop")
      /\ Place(21, 2) => Now = Http("read", "token", "unavailable")
      /\ Place(21, 3) => Now = Op("start")
      /\ Place(21, 5) => Now = Http("read", "token", "ok")
  BY CaseOf, OutageScript
<1> HIDE DEF Place, Now, Under
<1> QED
  BY <1>1, <1>2, <1>3, <1>4, <1>5, <1>6

(* Nothing changes hands elsewhere.                                        *)
LEMMA ActsAt ==
  ASSUME Under, Now.what \in Acts
  PROVE  \/ Place(5, 3) \/ Place(7, 3) \/ Place(8, 2) \/ Place(17, 3) \/ Place(17, 9) \/ Place(18, 1)
         \/ Place(19, 1) \/ Place(19, 4) \/ Place(20, 1) \/ Place(20, 2) \/ Place(21, 1) \/ Place(21, 3)
<1> DEFINE n == Len(results)
<1>0. Len(results) \in 0..20 /\ step \in 1..Len(Script) /\ Now = Script[step]
  BY DEF Under, Now
<1>1. n \in {4, 6, 7, 16, 17, 18, 19, 20}
  <2> SUFFICES ASSUME n \notin {4, 6, 7, 16, 17, 18, 19, 20} PROVE FALSE
    OBVIOUS
  <2>1. Script \in Seq(Tame)
    BY <1>0, CaseOf
  <2>2. Now \in Tame
    BY <1>0, <2>1
  <2> QED
    BY <2>2 DEF Tame
<1> USE DEF Acts, Op, Http, Local, Step
<1>2. CASE n = 4
  <2>1. step \in 1..3 /\ Now = BadInvitation[step]
    BY <1>0, <1>2, CaseOf, ShortScripts
  <2>2. step = 1 \/ step = 2 \/ step = 3
    BY <2>1
  <2> QED
    BY <1>2, <2>1, <2>2, ShortScripts DEF Place
<1>3. CASE n = 6
  <2>1. step \in 1..5 /\ Now = RealAuth[step]
    BY <1>0, <1>3, CaseOf, RealAuthScript
  <2>2. step = 1 \/ step = 2 \/ step = 3 \/ step = 4 \/ step = 5
    BY <2>1
  <2> QED
    BY <1>3, <2>1, <2>2, RealAuthScript DEF Place
<1>4. CASE n = 7
  <2>1. step \in 1..2 /\ Now = Replayed[step]
    BY <1>0, <1>4, CaseOf, ShortScripts
  <2>2. step = 1 \/ step = 2
    BY <2>1
  <2> QED
    BY <1>4, <2>1, <2>2, ShortScripts DEF Place
<1>5. CASE n = 16
  <2>1. step \in 1..11 /\ Now = Rotation[step]
    BY <1>0, <1>5, CaseOf, RotationScript
  <2>2. \/ step = 1 \/ step = 2 \/ step = 3 \/ step = 4 \/ step = 5 \/ step = 6
        \/ step = 7 \/ step = 8 \/ step = 9 \/ step = 10 \/ step = 11
    BY <2>1
  <2> QED
    BY <1>5, <2>1, <2>2, RotationScript DEF Place
<1>6. CASE n = 17
  <2>1. step \in 1..3 /\ Now = Revocation[step]
    BY <1>0, <1>6, CaseOf, ShortScripts
  <2>2. step = 1 \/ step = 2 \/ step = 3
    BY <2>1
  <2> QED
    BY <1>6, <2>1, <2>2, ShortScripts DEF Place
<1>7. CASE n = 18
  <2>1. step \in 1..7 /\ Now = Reauthenticate[step]
    BY <1>0, <1>7, CaseOf, ReauthenticateScript
  <2>2. step = 1 \/ step = 2 \/ step = 3 \/ step = 4 \/ step = 5 \/ step = 6 \/ step = 7
    BY <2>1
  <2> QED
    BY <1>7, <2>1, <2>2, ReauthenticateScript DEF Place
<1>8. CASE n = 19
  <2>1. step \in 1..6 /\ Now = Restart[step]
    BY <1>0, <1>8, CaseOf, RestartScript
  <2>2. step = 1 \/ step = 2 \/ step = 3 \/ step = 4 \/ step = 5 \/ step = 6
    BY <2>1
  <2> QED
    BY <1>8, <2>1, <2>2, RestartScript DEF Place, Facts
<1>9. CASE n = 20
  <2>1. step \in 1..5 /\ Now = Outage[step]
    BY <1>0, <1>9, CaseOf, OutageScript
  <2>2. step = 1 \/ step = 2 \/ step = 3 \/ step = 4 \/ step = 5
    BY <2>1
  <2> QED
    BY <1>9, <2>1, <2>2, OutageScript DEF Place
<1> QED
  BY <1>1, <1>2, <1>3, <1>4, <1>5, <1>6, <1>7, <1>8, <1>9

-----------------------------------------------------------------------------
(* What a run without a fault so far has shown of the Hub.  Past(c, k): the *)
(* run is past step k of case c; past its step 0, the case has begun.      *)
Past(c, k) == Len(results) >= c \/ (Len(results) = c - 1 /\ step > k)
Flawless == phase # "aborted" /\ good /\ \A i \in 1..Len(results) : results[i].status = "passed"

(* Between two cases no step is in hand, and a run is done behind its last *)
(* case.                                                                   *)
Placed ==
  /\ phase \in {"between", "done"} => step = 0 /\ good
  /\ phase = "done" => Len(results) = 21

ViewKept == invitation = invited /\ seen = generation

(* From the first claim on the run has a device, which stays the first one *)
(* if the Hub knows one only, and an invitation that was used; nothing was *)
(* used before.                                                            *)
Claims ==
  /\ ~Past(7, 3) => claimed = {}
  /\ Past(7, 3) /\ ~Past(8, 2) => invitation \in claimed
  /\ Past(7, 3) => token.device >= 1 /\ token.serial <= issued /\ device <= issued
  /\ Past(7, 3) /\ "same_device" \in bugs => device = 1

(* The defects that single answers rule out.  A Hub with either defect of  *)
(* invitations passes if they expired just then; but an expired invitation *)
(* lets no further case begin.                                             *)
Early ==
  /\ Past(1, 1) => "other_build" \notin bugs
  /\ Past(5, 3) /\ "any_secret" \in bugs => stale /\ ~Past(6, 0)
  /\ Past(8, 2) /\ "reusable" \in bugs => stale /\ ~Past(9, 0)
  /\ Past(13, 1) => pages > 0
  /\ Past(14, 2) => "loose_cursor" \notin bugs

(* The two bearers of a rotation: the new one is known and younger, the    *)
(* old one has the same device.                                            *)
Rotated ==
  /\ Past(17, 1) /\ ~Past(17, 11) => old.device = device /\ old.device >= 1 /\ old.serial <= issued
  /\ Past(17, 1) /\ ~Past(17, 3) => old = token
  /\ Past(17, 3) => "same_token" \notin bugs /\ "other_device" \notin bugs
  /\ Past(17, 3) /\ ~Past(17, 9) => token.serial > old.serial
  /\ Past(17, 3) /\ ~Past(17, 7) /\ "no_grace" \in bugs => old \notin live
  /\ Past(17, 3) /\ ~Past(18, 1) => token \in live
  /\ Past(17, 7) => "no_grace" \notin bugs
  /\ Past(17, 9) => "no_retry" \notin bugs

(* A revocation that is not done leaves the bearer known, unless the Hub   *)
(* forgot it in a new generation.                                          *)
Replaced ==
  /\ Past(18, 1) /\ ~Past(18, 3) /\ "deaf_revoke" \in bugs /\ "forgets" \notin bugs => token \in live
  /\ Past(18, 3) => "deaf_revoke" \notin bugs \/ "forgets" \in bugs
  /\ Past(19, 0) /\ ~Past(19, 7) /\ "same_device" \in bugs => start.device = 1
  /\ Past(19, 7) => "same_device" \notin bugs

(* A Hub that forgets knows nobody behind a start, if that was one.        *)
Restarted ==
  /\ Past(20, 0) /\ ~Past(20, 6) /\ "no_restart" \in bugs => generation = start.generation
  /\ Past(20, 2) /\ ~Past(20, 5) /\ "forgets" \in bugs /\ "no_restart" \notin bugs => live = {}
  /\ Past(20, 5) /\ "forgets" \in bugs => "no_restart" \in bugs
  /\ Past(20, 6) => "no_restart" \notin bugs
  /\ Past(21, 2) => "stays_up" \notin bugs
  /\ Past(21, 5) => up /\ token \in live

Shown == ViewKept /\ Claims /\ Early /\ Rotated /\ Replaced /\ Restarted
RunShown == Placed /\ bugs \in Defects /\ (Flawless => Shown)

-----------------------------------------------------------------------------
(* The steps after which a run is still without a fault.                   *)
LEMMA FailedRecord ==
  ASSUME Typed, NEW a, Record("failed", a) PROVE ~Flawless'
<1>1. /\ Len(results') = Len(results) + 1 /\ Len(results) \in Nat
      /\ results'[Len(results) + 1].status = "failed"
  BY DEF Typed, Record
<1>2. Len(results) + 1 \in 1..Len(results')
  BY <1>1
<1> QED
  BY <1>1, <1>2 DEF Flawless

(* The run goes on to the next step of its case.                           *)
Moves ==
  /\ Under /\ phase = "case" /\ phase' = "case"
  /\ results' = results /\ step' = step + 1 /\ start' = start /\ bugs' = bugs
  /\ good /\ good'

LEMMA StepUnder ==
  ASSUME Anchored, NEW kind, At(kind)
  PROVE  Under /\ phase = "case" /\ Now.do = kind /\ Typed
<1>1. phase = "case" /\ step <= Len(Script) /\ Now.do = kind /\ Typed /\ Begun
  BY DEF At, Anchored
<1>2. Len(results) \in Nat /\ Len(results) < 21 /\ step \in Nat /\ step >= 1
  BY <1>1 DEF Typed, Begun
<1>3. Len(Script) \in Nat
  BY <1>1, <1>2, ScriptObserved DEF StopsObserved
<1>4. Len(results) \in 0..20
  <2>1. \A n \in Nat : n < 21 => n \in 0..20
    OBVIOUS
  <2> QED
    BY <1>2, <2>1, Zenon
<1>5. step \in 1..Len(Script)
  BY <1>1, <1>2, <1>3
<1> QED
  BY <1>1, <1>4, <1>5 DEF Under

LEMMA CleanControl ==
  ASSUME Anchored, ControlStep, Flawless'
  PROVE  Moves /\ Learnt(Now.what) /\ UNCHANGED clientVars
<1>1. Under /\ phase = "case" /\ Typed
  BY StepUnder DEF ControlStep
<1>2. ~Fail
  BY <1>1, FailedRecord DEF Fail
<1>3. ~Lost(Now.what) /\ ~Refused(Now.what)
  BY DEF Lost, Refused, Abort, Flawless
<1>4. Learnt(Now.what) /\ Proceed /\ UNCHANGED good
  BY <1>2, <1>3 DEF ControlStep
<1>5. good'
  BY DEF Flawless
<1>6. UNCHANGED <<clientVars, bugs>>
  BY DEF ControlStep
<1> QED
  BY <1>1, <1>4, <1>5, <1>6 DEF Moves, Proceed

LEMMA CleanHttp ==
  ASSUME Anchored, TypeOK, HttpStep, Flawless'
  PROVE  /\ Moves /\ Serve /\ Answer = Now.want /\ UNCHANGED <<old, viewVars, hostVars>>
         /\ Answer = "ok" /\ Now.what \in {"claim", "rotate"} =>
              token' = Credential /\ device' = Credential.device /\ pages' = pages
         /\ Answer = "ok" /\ Now.what = "rotate" => Replaces
         /\ ~(Answer = "ok" /\ Now.what \in {"claim", "rotate"}) =>
              token' = token /\ device' = device /\ pages' \in {pages, pages + 1}
<1>1. Under /\ phase = "case" /\ Typed
  BY StepUnder DEF HttpStep
<1>2. ~Fail
  BY <1>1, FailedRecord DEF Fail
<1>3. good'
  BY DEF Flawless
<1>4. /\ UNCHANGED <<old, viewVars, hostVars, bugs>> /\ Serve
      /\ IF Answer # Now.want THEN UNCHANGED <<token, device, pages>> /\ Fail
         ELSE IF Answer = "ok" THEN Adopt
         ELSE UNCHANGED <<token, device, pages, good>> /\ Proceed
  BY <1>2, <1>3 DEF HttpStep
<1>5. Answer = Now.want
  BY <1>2, <1>4
<1>6. CASE Answer = "ok"
  <2>1. Adopt
    BY <1>4, <1>5, <1>6
  <2>2. Now.what = "rotate" => Replaces
    BY <1>2, <2>1 DEF Adopt
  <2>3. Proceed /\ UNCHANGED good
    BY <1>2, <2>1 DEF Adopt
  <2>4. Now.what \in {"claim", "rotate"} =>
          token' = Credential /\ device' = Credential.device /\ pages' = pages
    BY <1>2, <2>1 DEF Adopt
  <2>5. Now.what \notin {"claim", "rotate"} =>
          token' = token /\ device' = device /\ pages' \in {pages, pages + 1}
    BY <2>1 DEF Adopt
  <2> QED
    BY <1>1, <1>3, <1>4, <1>5, <2>2, <2>3, <2>4, <2>5 DEF Moves, Proceed
<1>7. CASE Answer # "ok"
  BY <1>1, <1>3, <1>4, <1>5, <1>7 DEF Moves, Proceed
<1> QED
  BY <1>6, <1>7

LEMMA CleanLocal ==
  ASSUME Anchored, TypeOK, LocalStep, Flawless'
  PROVE  /\ Moves /\ UNCHANGED <<token, device, pages, viewVars, hostVars, hubVars>>
         /\ old' = IF Now.what = "keep" THEN token ELSE old
         /\ Now.what = "pages" => pages > 0
         /\ Now.what = "identity" => "other_build" \notin bugs
         /\ Now.what = "new_device" => device # start.device
         /\ Now.what = "new_process" => seen # start.generation
<1>1. Under /\ phase = "case" /\ Typed
  BY StepUnder DEF LocalStep
<1>2. ~Fail
  BY <1>1, FailedRecord DEF Fail
<1>3. good'
  BY DEF Flawless
<1> DEFINE holds == CASE Now.what = "unexpired" -> ~stale
                      [] Now.what = "pages" -> pages > 0
                      [] Now.what = "identity" -> "other_build" \notin bugs
                      [] Now.what = "no_token" -> token = NoToken
                      [] Now.what = "new_device" -> device # start.device
                      [] Now.what = "new_process" -> seen # start.generation
                      [] OTHER -> TRUE
<1>4. IF ~holds /\ Now.what \in {"unexpired", "pages"} THEN Fail
      ELSE good' = (good /\ holds) /\ Proceed
  BY Zenon DEF LocalStep
<1>5. /\ Now.what = "pages" => (holds <=> pages > 0)
      /\ Now.what = "identity" => (holds <=> "other_build" \notin bugs)
      /\ Now.what = "new_device" => (holds <=> device # start.device)
      /\ Now.what = "new_process" => (holds <=> seen # start.generation)
  OBVIOUS
<1> HIDE DEF holds
<1>6. good /\ holds /\ Proceed
  BY <1>2, <1>3, <1>4
<1>7. UNCHANGED <<token, device, pages, viewVars, hostVars, hubVars, bugs>>
      /\ old' = IF Now.what = "keep" THEN token ELSE old
  BY DEF LocalStep
<1> QED
  BY <1>1, <1>3, <1>5, <1>6, <1>7 DEF Moves, Proceed

LEMMA LearntKeeps ==
  ASSUME TypeOK, ViewKept, NEW o, Learnt(o)
  PROVE  /\ ViewKept' /\ UNCHANGED <<claimed, issued>>
         /\ o # "pair" => invitation' = invitation /\ stale' = stale
         /\ o \notin {"start", "pair", "revoke"} => generation' = generation /\ live' = live
         /\ o \in {"verify", "pair", "revoke"} => up' = up
         /\ o # "stop" => up' /\ ~stale'
<1>1. Accepts(o) /\ Performs(o) /\ (IF o = "stop" THEN UNCHANGED viewVars ELSE Admit /\ ~stale')
  BY DEF Learnt
<1>2. o \notin {"start", "pair", "revoke"} => generation' = generation /\ live' = live
  BY <1>1 DEF Performs, NextGeneration
<1>3. /\ up' = (o # "stop") /\ (o # "pair" => invited' = invited) /\ stale' = (stale /\ o # "pair")
      /\ UNCHANGED <<claimed, issued>>
  BY <1>1 DEF Performs
<1>4. o \in {"verify", "pair", "revoke"} => up' = up
  BY <1>1, <1>3 DEF Accepts
<1>5. CASE o = "stop"
  <2>1. invitation' = invitation /\ seen' = seen /\ stale' = stale
    BY <1>1, <1>3, <1>5 DEF viewVars, TypeOK
  <2> QED
    BY <1>2, <1>3, <1>4, <1>5, <2>1 DEF ViewKept
<1>6. CASE o # "stop"
  <2>1. invitation' = invited' /\ seen' = generation' /\ ~stale'
    BY <1>1, <1>6 DEF Admit
  <2>2. o # "pair" => stale' = stale
    BY <1>3 DEF TypeOK
  <2> QED
    BY <1>2, <1>3, <1>4, <1>6, <2>1, <2>2 DEF ViewKept
<1> QED
  BY <1>5, <1>6

-----------------------------------------------------------------------------
(* What a step leaves of each part that it does not touch.                 *)
LEMMA PastNext ==
  ASSUME Moves
  PROVE  /\ \A c \in 1..21, k \in 0..11 : Past(c, k)' <=> Past(c, k) \/ Place(c, k)
         /\ \A c \in 1..21 : ~Place(c, 0)
         /\ bugs' = bugs /\ start' = start
<1>1. Len(results) \in 0..20 /\ step \in Nat /\ step >= 1
  BY DEF Moves, Under
<1>2. Len(results') = Len(results) /\ step' = step + 1 /\ bugs' = bugs /\ start' = start
  BY DEF Moves
<1>3. ASSUME NEW c \in 1..21, NEW k \in 0..11 PROVE Past(c, k)' <=> Past(c, k) \/ Place(c, k)
  <2>1. Past(c, k)' <=> Len(results) >= c \/ (Len(results) = c - 1 /\ step + 1 > k)
    BY <1>2 DEF Past
  <2>2. step + 1 > k <=> step > k \/ step = k
    BY <1>1
  <2> QED
    BY <2>1, <2>2 DEF Past, Place
<1>4. \A c \in 1..21 : ~Place(c, 0)
  BY <1>1 DEF Place
<1> QED
  BY <1>2, <1>3, <1>4

LEMMA KeepsClaims ==
  ASSUME Moves, Claims, ~Place(7, 3), UNCHANGED <<token, device, issued, claimed>>,
         invitation' = invitation \/ Len(results) > 7
  PROVE  Claims'
<1>1. (Past(7, 3)' <=> Past(7, 3)) /\ (Past(8, 2) => Past(8, 2)') /\ bugs' = bugs
  BY PastNext
<1>2. invitation' = invitation \/ Past(8, 2)
  BY DEF Moves, Under, Past
<1> QED
  BY <1>1, <1>2 DEF Claims

LEMMA KeepsEarly ==
  ASSUME Moves, Early, ~Place(1, 1), ~Place(5, 3), ~Place(8, 2), ~Place(13, 1), ~Place(14, 2),
         stale' = stale \/ Len(results) > 8, pages \in Nat, pages' \in {pages, pages + 1}
  PROVE  Early'
<1>1. /\ Past(1, 1)' <=> Past(1, 1)
      /\ Past(5, 3)' <=> Past(5, 3)
      /\ Past(6, 0)' <=> Past(6, 0)
      /\ Past(8, 2)' <=> Past(8, 2)
      /\ Past(9, 0)' <=> Past(9, 0)
      /\ Past(13, 1)' <=> Past(13, 1)
      /\ Past(14, 2)' <=> Past(14, 2)
      /\ bugs' = bugs
  BY PastNext
<1>2. stale' = stale \/ (Past(6, 0) /\ Past(9, 0))
  BY DEF Moves, Under, Past
<1>3. pages > 0 => pages' > 0
  OBVIOUS
<1> QED
  BY <1>1, <1>2, <1>3 DEF Early

LEMMA KeepsRotated ==
  ASSUME Moves, Rotated, ~Place(17, 1), ~Place(17, 3), ~Place(17, 7), ~Place(17, 9),
         UNCHANGED <<token, device, old, live, issued>> \/ Len(results) < 16 \/ Len(results) > 17 \/ Place(18, 1)
  PROVE  Rotated'
<1>1. /\ Past(17, 1)' <=> Past(17, 1)
      /\ Past(17, 3)' <=> Past(17, 3)
      /\ Past(17, 7)' <=> Past(17, 7)
      /\ Past(17, 9)' <=> Past(17, 9)
      /\ Past(17, 11) => Past(17, 11)'
      /\ Past(18, 1)' <=> Past(18, 1) \/ Place(18, 1)
      /\ bugs' = bugs
  BY PastNext
<1>2. Len(results) \in 0..20
  BY DEF Moves, Under
<1>3. \/ UNCHANGED <<token, device, old, live, issued>>
      \/ ~Past(17, 1) /\ ~Past(17, 3) /\ ~Past(17, 7) /\ ~Past(17, 9)
      \/ Past(17, 3) /\ Past(17, 7) /\ Past(17, 9) /\ Past(17, 11) /\ (Past(18, 1) \/ Place(18, 1))
  <2>1. CASE Len(results) < 16
    <3>1. ~(Len(results) >= 17) /\ Len(results) # 17 - 1
      <4>1. \A n \in 0..20 : n < 16 => ~(n >= 17) /\ n # 17 - 1
        OBVIOUS
      <4> QED
        BY <1>2, <2>1, <4>1, Zenon
    <3> QED
      BY <3>1 DEF Past
  <2>2. CASE Len(results) > 17
    BY <1>2, <2>2 DEF Past
  <2>3. CASE Place(18, 1)
    BY <1>2, <2>3 DEF Past, Place
  <2> QED
    BY <2>1, <2>2, <2>3
<1> QED
  BY <1>1, <1>3 DEF Rotated

LEMMA KeepsReplaced ==
  ASSUME Moves, Replaced, ~Place(18, 1), ~Place(18, 3), ~Place(19, 7),
         UNCHANGED <<token, live>> \/ Len(results) # 17
  PROVE  Replaced'
<1>1. /\ Past(18, 1)' <=> Past(18, 1)
      /\ Past(18, 3)' <=> Past(18, 3)
      /\ Past(19, 0)' <=> Past(19, 0)
      /\ Past(19, 7)' <=> Past(19, 7)
      /\ bugs' = bugs /\ start' = start
  BY PastNext
<1>2. UNCHANGED <<token, live>> \/ ~Past(18, 1) \/ Past(18, 3)
  BY DEF Moves, Under, Past
<1> QED
  BY <1>1, <1>2 DEF Replaced

LEMMA KeepsRestarted ==
  ASSUME Moves, Restarted, ~Place(20, 2), ~Place(20, 5), ~Place(20, 6), ~Place(21, 2), ~Place(21, 5),
         UNCHANGED <<generation, live>> \/ Len(results) # 19
  PROVE  Restarted'
<1>1. /\ Past(20, 0)' <=> Past(20, 0)
      /\ Past(20, 2)' <=> Past(20, 2)
      /\ Past(20, 5)' <=> Past(20, 5)
      /\ Past(20, 6)' <=> Past(20, 6)
      /\ Past(21, 2)' <=> Past(21, 2)
      /\ Past(21, 5)' <=> Past(21, 5)
      /\ bugs' = bugs /\ start' = start
  BY PastNext
<1>2. Len(results) \in 0..20 /\ step \in 1..Len(Script)
  BY DEF Moves, Under
<1>3. /\ Past(20, 0) /\ ~Past(20, 6) => Len(results) = 19
      /\ Past(20, 2) /\ ~Past(20, 5) => Len(results) = 19
  BY <1>2 DEF Past
<1>4. ~Past(21, 5)
  <2>1. Len(results) = 20 => step \in 1..5
    BY <1>2, CaseOf, OutageScript
  <2>2. ~(Len(results) >= 21) /\ (Len(results) = 21 - 1 => ~(step > 5))
    <3>1. (\A n \in 0..20 : ~(n >= 21)) /\ 21 - 1 = 20 /\ \A k \in 1..5 : ~(k > 5)
      OBVIOUS
    <3> QED
      BY <1>2, <2>1, <3>1, Zenon
  <2> QED
    BY <2>2 DEF Past
<1> QED
  BY <1>1, <1>3, <1>4 DEF Restarted

(* A step at which nothing changes hands and nothing is learnt.            *)
Telling ==
  \/ Place(1, 1) \/ Place(5, 3) \/ Place(7, 3) \/ Place(8, 2) \/ Place(13, 1) \/ Place(14, 2)
  \/ Place(17, 1) \/ Place(17, 3) \/ Place(17, 7) \/ Place(17, 9) \/ Place(18, 1) \/ Place(18, 3)
  \/ Place(19, 1) \/ Place(19, 4) \/ Place(19, 7) \/ Place(20, 2) \/ Place(20, 5)
  \/ Place(20, 6) \/ Place(21, 2) \/ Place(21, 3) \/ Place(21, 5)

LEMMA PlainStep ==
  ASSUME Moves, Shown, TypeOK, ~Telling, ViewKept',
         UNCHANGED <<token, device, old, issued, claimed, live, generation, invitation, stale>>,
         pages' \in {pages, pages + 1}
  PROVE  Shown'
<1>1. Claims'
  BY KeepsClaims DEF Shown, Telling
<1>2. Early'
  <2>1. pages \in Nat
    BY DEF TypeOK
  <2> QED
    BY <2>1, KeepsEarly DEF Shown, Telling
<1>3. Rotated'
  BY KeepsRotated DEF Shown, Telling
<1>4. Replaced'
  BY KeepsReplaced DEF Shown, Telling
<1>5. Restarted'
  BY KeepsRestarted DEF Shown, Telling
<1> QED
  BY <1>1, <1>2, <1>3, <1>4, <1>5 DEF Shown

-----------------------------------------------------------------------------
(* Lifecycle operations.                                                   *)
LEMMA RevokeShown ==
  ASSUME Moves, Shown, TypeOK, Place(18, 1), ViewKept', Learnt("revoke"),
         UNCHANGED <<token, device, pages, old, issued, claimed, invitation, stale>>
  PROVE  Shown'
<1>1. Len(results) = 17 /\ step = 1
  BY DEF Place
<1>2. Claims'
  BY <1>1, KeepsClaims DEF Shown, Place
<1>3. Early'
  BY <1>1, KeepsEarly DEF Shown, TypeOK, Place
<1>4. Rotated'
  BY <1>1, KeepsRotated DEF Shown, Place
<1>5. Restarted'
  BY <1>1, KeepsRestarted DEF Shown, Place
<1>6. Replaced'
  <2>1. Len(results') = 17 /\ step' = 2 /\ bugs' = bugs /\ step = 1
    BY <1>1 DEF Moves, Place
  <2>2. ASSUME "deaf_revoke" \in bugs, "forgets" \notin bugs PROVE token' \in live'
    <3>1. token \in live
      BY <1>1, <2>1 DEF Shown, Rotated, Past
    <3>2. Revoked = {}
      BY <2>2 DEF Revoked
    <3>3. live' = live \ Revoked
      BY <2>2 DEF Learnt, Performs
    <3> QED
      BY <3>1, <3>2, <3>3
  <2> QED
    BY <2>1, <2>2 DEF Replaced, Past
<1> QED
  BY <1>2, <1>3, <1>4, <1>5, <1>6 DEF Shown

LEMMA StartShown ==
  ASSUME Moves, Shown, TypeOK, Place(20, 2), ViewKept', Learnt("start"),
         UNCHANGED <<token, device, pages, old, issued, claimed, invitation, stale>>
  PROVE  Shown'
<1>1. Len(results) = 19 /\ step = 2
  BY DEF Place
<1>2. Claims'
  BY <1>1, KeepsClaims DEF Shown, Place
<1>3. Early'
  BY <1>1, KeepsEarly DEF Shown, TypeOK, Place
<1>4. Rotated'
  BY <1>1, KeepsRotated DEF Shown, Place
<1>5. Replaced'
  BY <1>1, KeepsReplaced DEF Shown, Place
<1>6. Restarted'
  <2>1. Len(results') = 19 /\ step' = 3 /\ bugs' = bugs /\ start' = start /\ step = 2
    BY <1>1 DEF Moves, Place
  <2>2. generation' = IF "no_restart" \in bugs THEN generation ELSE generation + 1
    BY DEF Learnt, Performs, NextGeneration
  <2>3. ASSUME "forgets" \in bugs, "no_restart" \notin bugs PROVE live' = {}
    <3>1. generation' # generation
      BY <2>2, <2>3 DEF TypeOK
    <3> QED
      BY <2>3, <3>1 DEF Learnt, Performs
  <2>4. "no_restart" \in bugs => generation = start.generation
    BY <1>1, <2>1 DEF Shown, Restarted, Past
  <2> QED
    BY <2>1, <2>2, <2>3, <2>4 DEF Restarted, Past
<1> QED
  BY <1>2, <1>3, <1>4, <1>5, <1>6 DEF Shown

(* A pairing and the start behind the outage say nothing themselves.       *)
LEMMA ResumeShown ==
  ASSUME Moves, Shown, TypeOK, Place(19, 1) \/ Place(21, 3), ViewKept',
         UNCHANGED <<token, device, pages, old, issued, claimed>>
  PROVE  Shown'
<1>1. (Len(results) = 18 /\ step = 1) \/ (Len(results) = 20 /\ step = 3)
  BY DEF Place
<1>2. /\ Len(results) > 7 /\ Len(results) > 8 /\ Len(results) > 17 /\ Len(results) # 17 /\ Len(results) # 19
      /\ ~Place(7, 3) /\ ~Place(1, 1) /\ ~Place(5, 3) /\ ~Place(8, 2) /\ ~Place(13, 1) /\ ~Place(14, 2)
      /\ ~Place(17, 1) /\ ~Place(17, 3) /\ ~Place(17, 7) /\ ~Place(17, 9) /\ ~Place(18, 1) /\ ~Place(18, 3)
      /\ ~Place(19, 7) /\ ~Place(20, 2) /\ ~Place(20, 5) /\ ~Place(20, 6) /\ ~Place(21, 2) /\ ~Place(21, 5)
  <2>1. CASE Len(results) = 18 /\ step = 1
    BY <2>1 DEF Place
  <2>2. CASE Len(results) = 20 /\ step = 3
    BY <2>2 DEF Place
  <2> QED
    BY <1>1, <2>1, <2>2
<1>3. Claims'
  BY <1>2, KeepsClaims DEF Shown
<1>4. Early'
  <2>1. pages \in Nat /\ pages' \in {pages, pages + 1}
    BY DEF TypeOK
  <2> QED
    BY <1>2, <2>1, KeepsEarly DEF Shown
<1>5. Rotated'
  BY <1>2, KeepsRotated DEF Shown
<1>6. Replaced'
  BY <1>2, KeepsReplaced DEF Shown
<1>7. Restarted'
  BY <1>2, KeepsRestarted DEF Shown
<1> QED
  BY <1>3, <1>4, <1>5, <1>6, <1>7 DEF Shown

LEMMA ControlShown ==
  ASSUME Anchored, TypeOK, Shown, ControlStep, Flawless' PROVE Shown'
<1>1. Moves /\ Learnt(Now.what) /\ UNCHANGED clientVars
  BY CleanControl
<1>2. Under /\ Now.do = "control"
  BY StepUnder DEF ControlStep
<1>3. /\ ViewKept' /\ UNCHANGED <<claimed, issued>>
      /\ Now.what # "pair" => invitation' = invitation /\ stale' = stale
      /\ Now.what \notin {"start", "pair", "revoke"} => generation' = generation /\ live' = live
  BY <1>1, LearntKeeps DEF Shown
<1>4. UNCHANGED <<token, device, pages, old>>
  BY <1>1 DEF clientVars
<1>5. CASE Now.what \in {"start", "pair", "revoke"}
  <2>1. Place(18, 1) \/ Place(19, 1) \/ Place(20, 2) \/ Place(21, 3)
    <3>1. Now.what \in Acts
      BY <1>5 DEF Acts
    <3> QED
      BY <1>2, <1>5, <3>1, ActsAt, Doings DEF Op, Http, Local, Step
  <2>2. CASE Place(18, 1)
    <3>1. Now.what = "revoke"
      BY <1>2, <2>2, Doings DEF Op, Step
    <3> QED
      BY <1>1, <1>3, <1>4, <2>2, <3>1, RevokeShown
  <2>3. CASE Place(20, 2)
    <3>1. Now.what = "start"
      BY <1>2, <2>3, Doings DEF Op, Step
    <3> QED
      BY <1>1, <1>3, <1>4, <2>3, <3>1, StartShown
  <2>4. CASE Place(19, 1) \/ Place(21, 3)
    BY <1>1, <1>3, <1>4, <2>4, ResumeShown
  <2> QED
    BY <2>1, <2>2, <2>3, <2>4
<1>6. CASE Now.what \notin {"start", "pair", "revoke"}
  <2>1. ~Telling
    BY <1>2, <1>6, Doings DEF Telling, Op, Http, Local, Step
  <2> QED
    BY <1>1, <1>3, <1>4, <1>6, <2>1, PlainStep
<1> QED
  BY <1>5, <1>6

-----------------------------------------------------------------------------
(* Local checks.                                                           *)
LEMMA LocalShown ==
  ASSUME Anchored, TypeOK, CredentialsInStep, Shown, LocalStep, Flawless' PROVE Shown'
<1>1. /\ Moves /\ UNCHANGED <<token, device, pages, viewVars, hostVars, hubVars>>
      /\ old' = IF Now.what = "keep" THEN token ELSE old
      /\ Now.what = "pages" => pages > 0
      /\ Now.what = "identity" => "other_build" \notin bugs
      /\ Now.what = "new_device" => device # start.device
      /\ Now.what = "new_process" => seen # start.generation
  BY CleanLocal
<1>2. Under /\ Now.do = "local"
  BY StepUnder DEF LocalStep
<1>3. /\ UNCHANGED <<token, device, issued, claimed, live, generation, invitation, stale>>
      /\ ViewKept' /\ pages' = pages
  BY <1>1 DEF viewVars, hostVars, hubVars, Shown, ViewKept
<1>4. step' = step + 1 /\ results' = results /\ bugs' = bugs /\ start' = start
      /\ step \in Nat /\ step >= 1 /\ Len(results) \in 0..20
  BY <1>1 DEF Moves, Under
<1>5. /\ Claims'
      /\ ~Place(1, 1) /\ ~Place(13, 1) => Early'
      /\ ~Place(17, 1) => Rotated'
      /\ ~Place(19, 7) => Replaced'
      /\ ~Place(20, 6) => Restarted'
  <2>1. ~Place(7, 3) /\ ~Place(5, 3) /\ ~Place(8, 2) /\ ~Place(14, 2) /\ ~Place(17, 3)
        /\ ~Place(17, 7) /\ ~Place(17, 9) /\ ~Place(18, 1) /\ ~Place(18, 3) /\ ~Place(20, 2)
        /\ ~Place(20, 5) /\ ~Place(21, 2) /\ ~Place(21, 5)
    BY <1>2, Doings DEF Op, Http, Step
  <2>2. Claims'
    BY <1>1, <1>3, <2>1, KeepsClaims DEF Shown
  <2>3. ~Place(1, 1) /\ ~Place(13, 1) => Early'
    BY <1>1, <1>3, <2>1, KeepsEarly DEF Shown, TypeOK
  <2>4. ~Place(17, 1) => Rotated'
    <3>1. ASSUME ~Place(17, 1) PROVE old' = old \/ Len(results) < 16 \/ Len(results) > 17
      <4>0. ASSUME Len(results) = 17 PROVE FALSE
        <5>1. step \in 1..3 /\ Now = Revocation[step]
          BY <1>2, <4>0, CaseOf, ShortScripts DEF Under, Now
        <5>2. step = 1 \/ step = 2 \/ step = 3
          BY <5>1
        <5> QED
          BY <1>2, <5>1, <5>2, ShortScripts DEF Op, Http, Step
      <4>1. ASSUME Now.what = "keep", Len(results) = 16 PROVE FALSE
        <5>1. step \in 1..11 /\ Now = Rotation[step]
          BY <1>2, <4>1, CaseOf, RotationScript DEF Under, Now
        <5>2. step # 1
          BY <3>1, <4>1 DEF Place
        <5>3. \/ step = 2 \/ step = 3 \/ step = 4 \/ step = 5 \/ step = 6
              \/ step = 7 \/ step = 8 \/ step = 9 \/ step = 10 \/ step = 11
          BY <5>1, <5>2
        <5> QED
          BY <1>2, <5>1, <5>3, RotationScript DEF Op, Http, Step
      <4>2. Now.what = "keep" => Len(results) # 16 /\ Len(results) # 17
        BY <4>0, <4>1
      <4>3. \A n \in 0..20 : n # 16 /\ n # 17 => n < 16 \/ n > 17
        OBVIOUS
      <4> QED
        BY <1>1, <1>4, <4>2, <4>3, Zenon
    <3> QED
      BY <1>1, <1>3, <1>4, <2>1, <3>1, KeepsRotated DEF Shown
  <2>5. ~Place(19, 7) => Replaced'
    BY <1>1, <1>3, <2>1, KeepsReplaced DEF Shown
  <2>6. ~Place(20, 6) => Restarted'
    BY <1>1, <1>3, <2>1, KeepsRestarted DEF Shown
  <2> QED
    BY <2>2, <2>3, <2>4, <2>5, <2>6
<1>6. CASE Place(1, 1) \/ Place(13, 1)
  <2>2. ~Place(17, 1) /\ ~Place(19, 7) /\ ~Place(20, 6)
    <3>1. Place(1, 1) => ~Place(17, 1) /\ ~Place(19, 7) /\ ~Place(20, 6)
      BY DEF Place
    <3>2. Place(13, 1) => ~Place(17, 1) /\ ~Place(19, 7) /\ ~Place(20, 6)
      BY DEF Place
    <3> QED
      BY <1>6, <3>1, <3>2
  <2>3. Early'
    <3>1. CASE Place(1, 1)
      <4>1. "other_build" \notin bugs
        BY <1>1, <1>2, <3>1, Doings DEF Local, Step
      <4>2. Len(results') = 0 /\ step' = 2
        BY <1>4, <3>1 DEF Place
      <4> QED
        BY <1>4, <4>1, <4>2 DEF Early, Past
    <3>2. CASE Place(13, 1)
      <4>1. pages' > 0
        BY <1>1, <1>2, <1>3, <3>2, Doings DEF Local, Step
      <4>2. Len(results') = 12 /\ Len(results) = 12 /\ step' = 2 /\ step = 1
        BY <1>4, <3>2 DEF Place
      <4> QED
        BY <1>3, <1>4, <4>1, <4>2 DEF Early, Past, Shown
    <3> QED
      BY <1>6, <3>1, <3>2
  <2> QED
    BY <1>3, <1>5, <2>2, <2>3 DEF Shown
<1>7. CASE Place(17, 1)
  <2>1. Len(results) = 16 /\ step = 1 /\ Len(results') = 16 /\ step' = 2
    BY <1>4, <1>7 DEF Place
  <2>2. ~Place(1, 1) /\ ~Place(13, 1) /\ ~Place(19, 7) /\ ~Place(20, 6)
    BY <2>1 DEF Place
  <2>3. Rotated'
    <3>1. old' = token
      BY <1>1, <1>2, <1>7, Doings DEF Local, Step
    <3>2. token.device >= 1 /\ token.serial <= issued /\ token.device = device
      BY <2>1 DEF Shown, Claims, Past, CredentialsInStep
    <3> QED
      BY <1>3, <2>1, <3>1, <3>2 DEF Rotated, Past
  <2> QED
    BY <1>3, <1>5, <2>2, <2>3 DEF Shown
<1>8. CASE Place(19, 7)
  <2>1. Len(results) = 18 /\ step = 7 /\ Len(results') = 18 /\ step' = 8
    BY <1>4, <1>8 DEF Place
  <2>2. ~Place(1, 1) /\ ~Place(13, 1) /\ ~Place(17, 1) /\ ~Place(20, 6)
    BY <2>1 DEF Place
  <2>3. Replaced'
    <3>1. device # start.device
      BY <1>1, <1>2, <1>8, Doings DEF Local, Step
    <3>2. "same_device" \in bugs => device = 1
      BY <2>1 DEF Shown, Claims, Past
    <3>3. "same_device" \in bugs => start.device = 1
      BY <2>1 DEF Shown, Replaced, Past
    <3>4. "deaf_revoke" \notin bugs \/ "forgets" \in bugs
      BY <2>1 DEF Shown, Replaced, Past
    <3> QED
      BY <1>4, <2>1, <3>1, <3>2, <3>3, <3>4 DEF Replaced, Past
  <2> QED
    BY <1>3, <1>5, <2>2, <2>3 DEF Shown
<1>9. CASE Place(20, 6)
  <2>1. Len(results) = 19 /\ step = 6 /\ Len(results') = 19 /\ step' = 7
    BY <1>4, <1>9 DEF Place
  <2>2. ~Place(1, 1) /\ ~Place(13, 1) /\ ~Place(17, 1) /\ ~Place(19, 7)
    BY <2>1 DEF Place
  <2>3. Restarted'
    <3>1. generation # start.generation
      BY <1>1, <1>2, <1>9, Doings DEF Local, Step, Shown, ViewKept
    <3>2. "no_restart" \in bugs => generation = start.generation
      BY <2>1 DEF Shown, Restarted, Past
    <3>3. "forgets" \in bugs => "no_restart" \in bugs
      BY <2>1 DEF Shown, Restarted, Past
    <3> QED
      BY <1>4, <2>1, <3>1, <3>2, <3>3 DEF Restarted, Past
  <2> QED
    BY <1>3, <1>5, <2>2, <2>3 DEF Shown
<1> QED
  BY <1>3, <1>5, <1>6, <1>7, <1>8, <1>9 DEF Shown

-----------------------------------------------------------------------------
(* HTTP exchanges.  A claim that is granted hands over a credential.       *)
LEMMA ClaimShown ==
  ASSUME Moves, Shown, TypeOK, Place(7, 3) \/ Place(19, 4), Now.what = "claim",
         Serve, Answer = "ok", ViewKept',
         token' = Credential, device' = Credential.device, pages' = pages,
         UNCHANGED <<old, generation, invitation, stale>>
  PROVE  Shown'
<1>1. Len(results') = Len(results) /\ step' = step + 1 /\ bugs' = bugs /\ start' = start
  BY DEF Moves
<1>2. /\ Credential = [device |-> IF "same_device" \in bugs THEN 1 ELSE issued + 1, serial |-> issued + 1]
      /\ issued' = issued + 1 /\ claimed' = claimed \cup {invitation} /\ issued \in Nat
  BY DEF Serve, Credential, TypeOK
<1>3. /\ device' >= 1 /\ device' <= issued' /\ token'.device >= 1 /\ token'.serial <= issued'
      /\ "same_device" \in bugs => device' = 1
  BY <1>2
<1>4. pages \in Nat /\ pages' \in {pages, pages + 1}
  BY DEF TypeOK
<1>5. CASE Place(7, 3)
  <2>1. Len(results) = 6 /\ step = 3 /\ Len(results') = 6 /\ step' = 4
    BY <1>1, <1>5 DEF Place
  <2>2. Claims'
    BY <1>1, <1>2, <1>3, <2>1 DEF Claims, Past
  <2>3. Early'
    BY <1>4, <2>1, KeepsEarly DEF Shown, Place
  <2>4. Rotated'
    BY <2>1, KeepsRotated DEF Shown, Place
  <2>5. Replaced'
    BY <2>1, KeepsReplaced DEF Shown, Place
  <2>6. Restarted'
    BY <2>1, KeepsRestarted DEF Shown, Place
  <2> QED
    BY <2>2, <2>3, <2>4, <2>5, <2>6 DEF Shown
<1>6. CASE Place(19, 4)
  <2>1. Len(results) = 18 /\ step = 4 /\ Len(results') = 18 /\ step' = 5
    BY <1>1, <1>6 DEF Place
  <2>2. Claims'
    BY <1>1, <1>2, <1>3, <2>1 DEF Claims, Past
  <2>3. Early'
    BY <1>4, <2>1, KeepsEarly DEF Shown, Place
  <2>4. Rotated'
    BY <2>1, KeepsRotated DEF Shown, Place
  <2>5. Replaced'
    BY <2>1, KeepsReplaced DEF Shown, Place
  <2>6. Restarted'
    BY <2>1, KeepsRestarted DEF Shown, Place
  <2> QED
    BY <2>2, <2>3, <2>4, <2>5, <2>6 DEF Shown
<1> QED
  BY <1>5, <1>6

(* A rotation that replaces its bearer shows that the Hub gives new ones   *)
(* for the same device; a second one, that a lost answer can be retried.   *)
LEMMA RotateShown ==
  ASSUME Moves, Shown, TypeOK, CredentialsInStep, Place(17, 3) \/ Place(17, 9),
         Now = Http("rotate", "old", "ok"), Serve, Answer = "ok", Replaces, ViewKept',
         token' = Credential, device' = Credential.device, pages' = pages,
         UNCHANGED <<old, generation, invitation, stale>>
  PROVE  Shown'
<1> DEFINE n == Len(results)
           m == Len(results')
<1>1. n = 16 /\ m = 16 /\ step' = step + 1 /\ bugs' = bugs /\ start' = start
      /\ (step = 3 \/ step = 9)
  BY DEF Moves, Place
<1>2. Now.what = "rotate" /\ Now.bearer = "old"
  BY DEF Http, Step
<1>3. Bearer = old /\ issued \in Nat /\ token \in Tokens /\ old \in Tokens /\ device \in Nat /\ live \subseteq Tokens
  BY <1>2 DEF Bearer, TypeOK
<1> HIDE DEF n, m
<1>4. \A k \in 0..11 : /\ Past(17, k) <=> n >= 17 \/ (n = 16 /\ step > k)
                       /\ Past(17, k)' <=> m >= 17 \/ (m = 16 /\ step' > k)
  BY DEF Past, n, m
<1>5. old.device = device /\ old.device >= 1 /\ old.serial <= issued /\ device <= issued
      /\ ("same_device" \in bugs => device = 1)
  <2>1. Past(17, 1) /\ ~Past(17, 11)
    BY <1>1, <1>4
  <2>2. Past(7, 3)
    BY <1>1 DEF Past, n
  <2> QED
    BY <2>1, <2>2 DEF Shown, Rotated, Claims
<1>6. Credential # old /\ Credential.device = device
  BY DEF Replaces
<1>7. "same_token" \notin bugs /\ "other_device" \notin bugs
  <2>1. "same_token" \notin bugs
    BY <1>2, <1>3, <1>6 DEF Credential
  <2>2. Credential = [device |-> IF "other_device" \in bugs THEN issued + 1 ELSE Bearer.device,
                      serial |-> issued + 1]
    BY <1>2, <2>1 DEF Credential
  <2>3. "other_device" \notin bugs
    BY <1>3, <1>5, <1>6, <2>2
  <2> QED
    BY <2>1, <2>3
<1>8. Credential = [device |-> old.device, serial |-> issued + 1]
  BY <1>2, <1>3, <1>7 DEF Credential
<1>9. /\ issued' = issued + 1 /\ claimed' = claimed
      /\ live' = (IF "no_grace" \in bugs THEN live \ {old} ELSE live) \cup {Credential}
  BY <1>2, <1>3 DEF Serve
<1>10. /\ token' \in live' /\ token'.serial > old.serial /\ token'.serial <= issued' /\ token'.device >= 1
       /\ device' = device /\ device' <= issued' /\ old.serial <= issued'
       /\ "no_grace" \in bugs => old \notin live'
  BY <1>3, <1>5, <1>6, <1>8, <1>9 DEF Tokens
<1>11. step = 9 => "no_retry" \notin bugs
  <2> SUFFICES ASSUME step = 9 PROVE "no_retry" \notin bugs
    OBVIOUS
  <2>1. Past(17, 3) /\ ~Past(17, 9) /\ ~Past(18, 1)
    <3>1. ~Past(18, 1)
      BY <1>1 DEF Past, n
    <3> QED
      BY <1>1, <1>4, <3>1
  <2>2. token \in live /\ token.serial > old.serial /\ token.device = old.device
    BY <1>5, <2>1 DEF Shown, Rotated, CredentialsInStep
  <2>3. Superseded
    BY <1>3, <2>2 DEF Superseded, Credentials
  <2>4. Grants("rotate")
    BY <1>2 DEF Answer
  <2>5. Grants("rotate") = (Known /\ ~("no_retry" \in bugs /\ Superseded))
    BY DEF Grants
  <2> QED
    BY <2>3, <2>4, <2>5
<1>12. Rotated'
  <2>1. Past(17, 7)' => "no_grace" \notin bugs
    <3>1. Past(17, 7)' => Past(17, 7)
      BY <1>1, <1>4
    <3> QED
      BY <3>1 DEF Shown, Rotated
  <2>2. Past(17, 9)' => "no_retry" \notin bugs
    <3>1. Past(17, 9)' => step = 9
      BY <1>1, <1>4
    <3> QED
      BY <1>11, <3>1
  <2>3. Past(17, 3)'
    BY <1>1, <1>4
  <2>4. old' = old /\ bugs' = bugs
    BY <1>1
  <2>5. device' = device /\ old.device = device /\ old.device >= 1
    BY <1>5, <1>10
  <2> QED
    BY <1>7, <1>10, <2>1, <2>2, <2>3, <2>4, <2>5 DEF Rotated
<1>13. Claims'
  <2>1. Past(7, 3)' /\ Past(8, 2)'
    BY <1>1 DEF Past, m
  <2> QED
    BY <1>1, <1>5, <1>10, <2>1 DEF Claims
<1>14. /\ Len(results) = 16 /\ pages \in Nat /\ pages' \in {pages, pages + 1}
       /\ ~Place(1, 1) /\ ~Place(5, 3) /\ ~Place(8, 2) /\ ~Place(13, 1) /\ ~Place(14, 2) /\ ~Place(18, 1)
       /\ ~Place(18, 3) /\ ~Place(19, 7) /\ ~Place(20, 2) /\ ~Place(20, 5) /\ ~Place(20, 6) /\ ~Place(21, 2)
       /\ ~Place(21, 5)
  <2>1. Len(results) = 16
    BY <1>1 DEF n
  <2> QED
    BY <2>1 DEF Place, TypeOK
<1>15. Early' /\ Replaced' /\ Restarted'
  BY <1>14, KeepsEarly, KeepsReplaced, KeepsRestarted DEF Shown
<1> QED
  BY <1>12, <1>13, <1>15 DEF Shown

(* What an answer tells that hands nothing over.                           *)
LEMMA AnswerShown ==
  ASSUME Moves, Shown, TypeOK, ViewKept', Now.do = "http", Answer = Now.want,
         ~(Answer = "ok" /\ Now.what \in {"claim", "bad_claim", "rotate"}),
         UNCHANGED <<token, device, old, issued, claimed, live, up, generation, invitation, stale>>,
         pages' \in {pages, pages + 1}
  PROVE  Shown'
<1>1. Under /\ Len(results) \in 0..20 /\ step \in Nat /\ step >= 1
  BY DEF Moves, Under
<1>2. Len(results') = Len(results) /\ step' = step + 1 /\ bugs' = bugs /\ start' = start
  BY DEF Moves
<1>3. ~Place(1, 1) /\ ~Place(7, 3) /\ ~Place(13, 1) /\ ~Place(17, 1) /\ ~Place(17, 3) /\ ~Place(17, 9)
      /\ ~Place(18, 1) /\ ~Place(19, 7) /\ ~Place(20, 2) /\ ~Place(20, 6)
  BY <1>1, Doings DEF Op, Http, Local, Step
<1>4. pages \in Nat /\ NoToken.device = 0 /\ stale' = stale
  BY DEF TypeOK, NoToken
<1>5. Claims'
  BY <1>3, KeepsClaims DEF Shown
<1>6. Early'
  <2>1. CASE Place(5, 3)
    <3>1. Len(results) = 4 /\ step = 3
      BY <2>1 DEF Place
    <3>2. Now.what = "bad_claim" /\ Answer = "refused"
      BY <1>1, <2>1, Doings DEF Http, Step
    <3>3. ~(Claimable /\ "any_secret" \in bugs)
      BY <3>2 DEF Answer, Grants
    <3>4. "any_secret" \in bugs => stale
      <4>1. claimed = {}
        BY <3>1 DEF Shown, Claims, Past
      <4> QED
        BY <3>3, <4>1 DEF Claimable
    <3>5. "other_build" \notin bugs
      BY <3>1 DEF Shown, Early, Past
    <3> QED
      BY <1>2, <1>4, <3>1, <3>4, <3>5 DEF Early, Past
  <2>2. CASE Place(8, 2)
    <3>1. Len(results) = 7 /\ step = 2
      BY <2>2 DEF Place
    <3>2. Now.what = "claim" /\ Answer = "refused"
      BY <1>1, <2>2, Doings DEF Http, Step
    <3>3. ~Claimable
      BY <3>2 DEF Answer, Grants
    <3>4. "reusable" \in bugs => stale
      BY <3>3 DEF Claimable
    <3>5. "other_build" \notin bugs /\ "any_secret" \notin bugs
      BY <3>1 DEF Shown, Early, Past
    <3> QED
      BY <1>2, <1>4, <3>1, <3>4, <3>5 DEF Early, Past
  <2>3. CASE Place(14, 2)
    <3>1. Len(results) = 13 /\ step = 2
      BY <2>3 DEF Place
    <3>2. Now.what = "foreign_cursor" /\ Answer = "ok"
      BY <1>1, <2>3, Doings DEF Http, Step
    <3>3. "loose_cursor" \notin bugs \/ pages = 0
      BY <3>2 DEF Answer, Grants
    <3>4. "other_build" \notin bugs /\ "any_secret" \notin bugs /\ "reusable" \notin bugs /\ pages > 0
      BY <3>1 DEF Shown, Early, Past
    <3>5. "loose_cursor" \notin bugs /\ pages' > 0
      BY <1>4, <3>3, <3>4
    <3> QED
      BY <1>2, <3>4, <3>5 DEF Early
  <2>4. CASE ~Place(5, 3) /\ ~Place(8, 2) /\ ~Place(14, 2)
    BY <1>3, <1>4, <2>4, KeepsEarly DEF Shown
  <2> QED
    BY <2>1, <2>2, <2>3, <2>4
<1>7. Rotated'
  <2>1. CASE Place(17, 7)
    <3>1. Len(results) = 16 /\ step = 7 /\ Len(results') = 16 /\ step' = 8
      BY <1>2, <2>1 DEF Place
    <3>2. Now.what = "read" /\ Now.bearer = "old" /\ Answer = "ok"
      BY <1>1, <2>1, Doings DEF Http, Step
    <3>3. Bearer = old /\ Known
      BY <3>2 DEF Bearer, Answer, Grants
    <3>4. /\ old.device = device /\ old.device >= 1 /\ old.serial <= issued
          /\ "same_token" \notin bugs /\ "other_device" \notin bugs
          /\ token.serial > old.serial /\ token \in live
          /\ "no_grace" \in bugs => old \notin live
      BY <3>1 DEF Shown, Rotated, Past
    <3>5. old \in live
      BY <1>4, <3>3, <3>4 DEF Known
    <3> QED
      BY <1>2, <3>1, <3>4, <3>5 DEF Rotated, Past
  <2>2. CASE ~Place(17, 7)
    BY <1>3, <2>2, KeepsRotated DEF Shown
  <2> QED
    BY <2>1, <2>2
<1>8. Replaced'
  <2>1. CASE Place(18, 3)
    <3>1. Len(results) = 17 /\ step = 3 /\ Len(results') = 17 /\ step' = 4
      BY <1>2, <2>1 DEF Place
    <3>2. Now.what = "read" /\ Now.bearer = "token" /\ Answer = "refused"
      BY <1>1, <2>1, Doings DEF Http, Step
    <3>3. Bearer = token /\ ~Known
      BY <3>2 DEF Bearer, Answer, Grants
    <3>4. "deaf_revoke" \notin bugs \/ "forgets" \in bugs
      BY <3>1, <3>3 DEF Known, Shown, Replaced, Past
    <3> QED
      BY <1>2, <3>1, <3>4 DEF Replaced, Past
  <2>2. CASE ~Place(18, 3)
    BY <1>3, <2>2, KeepsReplaced DEF Shown
  <2> QED
    BY <2>1, <2>2
<1>9. Restarted'
  <2>1. CASE Place(20, 5)
    <3>1. Len(results) = 19 /\ step = 5 /\ Len(results') = 19 /\ step' = 6
      BY <1>2, <2>1 DEF Place
    <3>2. Now.what = "read" /\ Now.bearer = "token" /\ Answer = "ok"
      BY <1>1, <2>1, Doings DEF Http, Step
    <3>3. Bearer = token /\ Known
      BY <3>2 DEF Bearer, Answer, Grants
    <3>4. token.device >= 1
      BY <3>1 DEF Shown, Claims, Past
    <3>5. token \in live
      BY <1>4, <3>3, <3>4 DEF Known
    <3>6. /\ "no_restart" \in bugs => generation = start.generation
          /\ "forgets" \in bugs => "no_restart" \in bugs
      BY <3>1, <3>5 DEF Shown, Restarted, Past
    <3> QED
      BY <1>2, <3>1, <3>6 DEF Restarted, Past
  <2>2. CASE Place(21, 2)
    <3>1. Len(results) = 20 /\ step = 2 /\ Len(results') = 20 /\ step' = 3
      BY <1>2, <2>2 DEF Place
    <3>2. Answer = "unavailable"
      BY <1>1, <2>2, Doings DEF Http, Step
    <3>3. "stays_up" \notin bugs
      BY <3>2 DEF Answer
    <3>4. "no_restart" \notin bugs /\ "forgets" \notin bugs
      BY <3>1 DEF Shown, Restarted, Past
    <3> QED
      BY <1>2, <3>1, <3>3, <3>4 DEF Restarted, Past
  <2>3. CASE Place(21, 5)
    <3>1. Len(results) = 20 /\ step = 5 /\ Len(results') = 20 /\ step' = 6
      BY <1>2, <2>3 DEF Place
    <3>2. Now.what = "read" /\ Now.bearer = "token" /\ Answer = "ok"
      BY <1>1, <2>3, Doings DEF Http, Step
    <3>3. Bearer = token /\ Known
      BY <3>2 DEF Bearer, Answer, Grants
    <3>4. token.device >= 1
      BY <3>1 DEF Shown, Claims, Past
    <3>5. token \in live
      BY <1>4, <3>3, <3>4 DEF Known
    <3>6. "no_restart" \notin bugs /\ "forgets" \notin bugs /\ "stays_up" \notin bugs
      BY <3>1 DEF Shown, Restarted, Past
    <3>7. up
      BY <3>2, <3>6 DEF Answer, TypeOK
    <3> QED
      BY <1>2, <3>1, <3>5, <3>6, <3>7 DEF Restarted, Past
  <2>4. CASE ~Place(20, 5) /\ ~Place(21, 2) /\ ~Place(21, 5)
    BY <1>3, <2>4, KeepsRestarted DEF Shown
  <2> QED
    BY <2>1, <2>2, <2>3, <2>4
<1> QED
  BY <1>5, <1>6, <1>7, <1>8, <1>9 DEF Shown

LEMMA HttpShown ==
  ASSUME Anchored, TypeOK, CredentialsInStep, Shown, HttpStep, Flawless' PROVE Shown'
<1>1. /\ Moves /\ Serve /\ Answer = Now.want /\ UNCHANGED <<old, viewVars, hostVars>>
      /\ Answer = "ok" /\ Now.what \in {"claim", "rotate"} =>
           token' = Credential /\ device' = Credential.device /\ pages' = pages
      /\ Answer = "ok" /\ Now.what = "rotate" => Replaces
      /\ ~(Answer = "ok" /\ Now.what \in {"claim", "rotate"}) =>
           token' = token /\ device' = device /\ pages' \in {pages, pages + 1}
  BY CleanHttp
<1>2. Under /\ Now.do = "http"
  BY StepUnder DEF HttpStep
<1>3. ViewKept' /\ UNCHANGED <<up, generation, invitation, stale>>
  BY <1>1 DEF viewVars, hostVars, Shown, ViewKept
<1>4. CASE Answer = "ok" /\ Now.what \in {"claim", "bad_claim", "rotate"}
  <2>1. Place(7, 3) \/ Place(17, 3) \/ Place(17, 9) \/ Place(19, 4)
    <3>1. Now.what \in Acts /\ Now.want = "ok"
      BY <1>1, <1>4 DEF Acts
    <3> QED
      BY <1>2, <3>1, ActsAt, Doings DEF Op, Http, Step
  <2>2. CASE Place(7, 3) \/ Place(19, 4)
    <3>1. Now.what = "claim"
      BY <1>2, <2>2, Doings DEF Http, Step
    <3> QED
      BY <1>1, <1>3, <1>4, <2>2, <3>1, ClaimShown
  <2>3. CASE Place(17, 3) \/ Place(17, 9)
    <3>1. Now = Http("rotate", "old", "ok") /\ Now.what = "rotate"
      BY <1>2, <2>3, Doings DEF Http, Step
    <3> QED
      BY <1>1, <1>3, <1>4, <2>3, <3>1, RotateShown
  <2> QED
    BY <2>1, <2>2, <2>3
<1>5. CASE ~(Answer = "ok" /\ Now.what \in {"claim", "bad_claim", "rotate"})
  <2>1. UNCHANGED hubVars
    BY <1>1, <1>5 DEF Serve
  <2> QED
    BY <1>1, <1>2, <1>3, <1>5, <2>1, AnswerShown DEF hubVars
<1> QED
  BY <1>4, <1>5

-----------------------------------------------------------------------------
(* The steps around the cases.                                             *)
LEMMA BeginShown ==
  ASSUME Anchored, TypeOK, Placed, Flawless => Shown, BeginCase, Flawless'
  PROVE  Shown'
<1>1. /\ Learnt("verify") /\ UNCHANGED <<token, device, pages, old, bugs>>
      /\ step' = 1 /\ start' = [proof |-> proof', generation |-> seen', device |-> device]
      /\ results' = results /\ phase = "between" /\ Len(results) < Len(Cases)
  <2>1. phase' # "aborted"
    BY DEF Flawless
  <2>2. ~Abort("inadmissible") /\ ~Abort("lost") /\ ~Abort("stopped") /\ ~Abort("out_of_turn")
    BY <2>1 DEF Abort
  <2>3. ~Lost("verify") /\ ~Refused("verify")
    BY <2>2 DEF Lost, Refused
  <2> QED
    BY <2>2, <2>3 DEF BeginCase, clientVars
<1>2. Flawless /\ step = 0
  BY <1>1 DEF Flawless, Placed
<1>3. Shown
  BY <1>2
<1>4. ViewKept' /\ UNCHANGED <<claimed, issued, invitation, stale, generation, live, up>> /\ ~stale'
  BY <1>1, <1>3, LearntKeeps DEF Shown
<1>5. seen' = generation
  BY <1>4 DEF ViewKept
<1> DEFINE n == Len(results)
           m == Len(results')
<1>6. n \in 0..20 /\ m = n
  <2>1. Len(Cases) = 21 /\ n \in Nat
    BY CasesObserved DEF Anchored, Typed
  <2>2. \A x \in Nat : x < 21 => x \in 0..20
    OBVIOUS
  <2>3. n < 21
    BY <1>1, <2>1
  <2> QED
    BY <1>1, <2>1, <2>2, <2>3, Zenon
<1>7. \A c \in 1..21, k \in 0..11 :
        /\ Past(c, k) <=> n >= c \/ (n = c - 1 /\ step > k)
        /\ Past(c, k)' <=> m >= c \/ (m = c - 1 /\ step' > k)
  BY DEF Past
<1> HIDE DEF n, m, Past
<1>8. \A c \in 1..21, k \in 1..11 : Past(c, k)' <=> Past(c, k)
  <2> SUFFICES ASSUME NEW c \in 1..21, NEW k \in 1..11 PROVE Past(c, k)' <=> Past(c, k)
    OBVIOUS
  <2>1. Past(c, k) <=> n >= c
    BY <1>2, <1>6, <1>7
  <2>2. Past(c, k)' <=> n >= c
    <3>1. Past(c, k)' <=> n >= c \/ (n = c - 1 /\ 1 > k)
      <4>1. step' = 1 /\ m = n
        BY <1>1, <1>6
      <4> QED
        BY <1>7, <4>1
    <3>2. ~(1 > k)
      OBVIOUS
    <3> QED
      BY <3>1, <3>2
  <2> QED
    BY <2>1, <2>2
<1>9. Claims'
  BY <1>1, <1>3, <1>4, <1>8 DEF Shown, Claims
<1>10. Early'
  <2>1. /\ Past(1, 1)' => "other_build" \notin bugs
        /\ Past(5, 3)' => "any_secret" \notin bugs
        /\ Past(8, 2)' => "reusable" \notin bugs
        /\ Past(13, 1)' => pages > 0
        /\ Past(14, 2)' => "loose_cursor" \notin bugs
    BY <1>3, <1>4, <1>8 DEF Shown, Early
  <2> QED
    BY <1>1, <2>1 DEF Early
<1>11. Rotated'
  BY <1>1, <1>3, <1>4, <1>8 DEF Shown, Rotated
<1>12. Replaced'
  <2>1. Past(19, 0)' => ("same_device" \in bugs => start'.device = 1)
    <3>1. Past(19, 0)' => Past(7, 3)
      BY <1>1, <1>2, <1>6, <1>7
    <3> QED
      BY <1>1, <1>3, <3>1 DEF Shown, Claims
  <2> QED
    BY <1>1, <1>3, <1>4, <1>8, <2>1 DEF Shown, Replaced
<1>13. Restarted'
  <2>1. generation' = start'.generation
    BY <1>1, <1>4, <1>5
  <2> QED
    BY <1>1, <1>3, <1>4, <1>8, <2>1 DEF Shown, Restarted
<1> QED
  BY <1>4, <1>9, <1>10, <1>11, <1>12, <1>13 DEF Shown

(* A case ends behind its last step, whatever this is.                     *)
LEMMA Behind ==
  ASSUME Len(results) \in 0..20, step \in Nat, step > Len(Script), Len(Script) \in Nat,
         Len(results') = Len(results) + 1, step' = 0
  PROVE  /\ (Past(1, 1)' <=> Past(1, 1)) /\ (Past(5, 3)' <=> Past(5, 3))
         /\ (Past(6, 0)' <=> Past(6, 0)) /\ (Past(7, 3)' <=> Past(7, 3))
         /\ (Past(8, 2)' <=> Past(8, 2)) /\ (Past(9, 0)' <=> Past(9, 0))
         /\ (Past(13, 1)' <=> Past(13, 1)) /\ (Past(14, 2)' <=> Past(14, 2))
         /\ \A k \in 0..11 : Past(17, k)' <=> Past(17, k)
         /\ \A k \in 0..3 : Past(18, k)' <=> Past(18, k)
         /\ \A k \in 0..7 : Past(19, k)' <=> Past(19, k)
         /\ \A k \in 0..6 : Past(20, k)' <=> Past(20, k)
         /\ \A k \in 0..5 : Past(21, k)' <=> Past(21, k)
<1> DEFINE n == Len(results)
           m == Len(results')
<1>1. /\ (n = 0 => step > 1) /\ (n = 4 => step > 3)
      /\ (n = 6 => step > 5) /\ (n = 7 => step > 2)
      /\ (n = 12 => step > 1) /\ (n = 13 => step > 2)
      /\ (n = 16 => step > 11) /\ (n = 17 => step > 3)
      /\ (n = 18 => step > 7) /\ (n = 19 => step > 6) /\ (n = 20 => step > 5)
  <2>1. (n = 0 => step > 1) /\ (n = 4 => step > 3) /\ (n = 7 => step > 2) /\ (n = 17 => step > 3)
    BY CaseOf, ShortScripts
  <2>2. (n = 12 => step > 1) /\ (n = 13 => step > 2)
    <3>1. n = 12 => step > 1
      <4>1. n = 12 => step > Len(Etag) /\ Len(Etag) \in Nat
        BY CaseOf
      <4>2. Len(Etag) >= 1
        BY ShortScripts
      <4> QED
        BY <4>1, <4>2
    <3>2. n = 13 => step > 2
      <4>1. n = 13 => Script = WrongCursor
        BY CaseOf
      <4>2. Len(WrongCursor) = 2
        BY ShortScripts
      <4> QED
        BY <4>1, <4>2
    <3> QED
      BY <3>1, <3>2
  <2>3. n = 6 => step > 5
    BY CaseOf, RealAuthScript
  <2>4. n = 16 => step > 11
    BY CaseOf, RotationScript
  <2>5. n = 18 => step > 7
    BY CaseOf, ReauthenticateScript
  <2>6. (n = 19 => step > 6) /\ (n = 20 => step > 5)
    BY CaseOf, RestartScript, OutageScript
  <2> QED
    BY <2>1, <2>2, <2>3, <2>4, <2>5, <2>6
<1>2. n \in 0..20 /\ m = n + 1 /\ step \in Nat /\ step >= 1 /\ step' = 0
  OBVIOUS
<1>3. \A c \in 1..21, k \in 0..11 :
        /\ Past(c, k) <=> n >= c \/ (n = c - 1 /\ step > k)
        /\ Past(c, k)' <=> m >= c \/ (m = c - 1 /\ step' > k)
  BY DEF Past
<1> HIDE DEF n, m, Past
<1>4. \A c \in 1..21, k \in 0..11 :
        /\ Past(c, k)' <=> n >= c - 1
        /\ (n = c - 1 => step > k) => (Past(c, k) <=> n >= c - 1)
  <2> SUFFICES ASSUME NEW c \in 1..21, NEW k \in 0..11
               PROVE  /\ Past(c, k)' <=> n >= c - 1
                      /\ (n = c - 1 => step > k) => (Past(c, k) <=> n >= c - 1)
    OBVIOUS
  <2>1. Past(c, k)' <=> n >= c - 1
    <3>1. Past(c, k)' <=> n + 1 >= c \/ (n + 1 = c - 1 /\ 0 > k)
      BY <1>2, <1>3
    <3> QED
      BY <1>2, <3>1
  <2>2. (n = c - 1 => step > k) => (Past(c, k) <=> n >= c - 1)
    <3>1. Past(c, k) <=> n >= c \/ (n = c - 1 /\ step > k)
      BY <1>3
    <3>2. n >= c - 1 <=> n >= c \/ n = c - 1
      BY <1>2
    <3> QED
      BY <3>1, <3>2
  <2> QED
    BY <2>1, <2>2
<1>5. \A c \in 1..21, k \in 0..11 : (n = c - 1 => step > k) => (Past(c, k)' <=> Past(c, k))
  BY <1>4
<1>6. /\ (Past(1, 1)' <=> Past(1, 1)) /\ (Past(5, 3)' <=> Past(5, 3))
      /\ (Past(6, 0)' <=> Past(6, 0)) /\ (Past(7, 3)' <=> Past(7, 3))
      /\ (Past(8, 2)' <=> Past(8, 2)) /\ (Past(9, 0)' <=> Past(9, 0))
      /\ (Past(13, 1)' <=> Past(13, 1)) /\ (Past(14, 2)' <=> Past(14, 2))
  <2>1. Past(1, 1)' <=> Past(1, 1)
    <3>1. n = 1 - 1 => step > 1
      BY <1>1, <1>2
    <3> QED
      BY <1>5, <3>1
  <2>2. Past(5, 3)' <=> Past(5, 3)
    <3>1. n = 5 - 1 => step > 3
      BY <1>1, <1>2
    <3> QED
      BY <1>5, <3>1
  <2>3. Past(6, 0)' <=> Past(6, 0)
    <3>1. n = 6 - 1 => step > 0
      BY <1>2
    <3> QED
      BY <1>5, <3>1
  <2>4. Past(7, 3)' <=> Past(7, 3)
    <3>1. n = 7 - 1 => step > 3
      BY <1>1, <1>2
    <3> QED
      BY <1>5, <3>1
  <2>5. Past(8, 2)' <=> Past(8, 2)
    <3>1. n = 8 - 1 => step > 2
      BY <1>1, <1>2
    <3> QED
      BY <1>5, <3>1
  <2>6. Past(9, 0)' <=> Past(9, 0)
    <3>1. n = 9 - 1 => step > 0
      BY <1>2
    <3> QED
      BY <1>5, <3>1
  <2>7. Past(13, 1)' <=> Past(13, 1)
    <3>1. n = 13 - 1 => step > 1
      BY <1>1, <1>2
    <3> QED
      BY <1>5, <3>1
  <2>8. Past(14, 2)' <=> Past(14, 2)
    <3>1. n = 14 - 1 => step > 2
      BY <1>1, <1>2
    <3> QED
      BY <1>5, <3>1
  <2> QED
    BY <2>1, <2>2, <2>3, <2>4, <2>5, <2>6, <2>7, <2>8
<1>7. /\ \A k \in 0..11 : n = 17 - 1 => step > k
      /\ \A k \in 0..3 : n = 18 - 1 => step > k
      /\ \A k \in 0..7 : n = 19 - 1 => step > k
      /\ \A k \in 0..6 : n = 20 - 1 => step > k
      /\ \A k \in 0..5 : n = 21 - 1 => step > k
  <2>1. ASSUME n = 16, NEW k \in 0..11 PROVE step > k
    <3>1. step > 11
      BY <1>1, <2>1
    <3> QED
      BY <1>2, <3>1
  <2>2. ASSUME n = 17, NEW k \in 0..3 PROVE step > k
    <3>1. step > 3
      BY <1>1, <2>2
    <3> QED
      BY <1>2, <3>1
  <2>3. ASSUME n = 18, NEW k \in 0..7 PROVE step > k
    <3>1. step > 7
      BY <1>1, <2>3
    <3> QED
      BY <1>2, <3>1
  <2>4. ASSUME n = 19, NEW k \in 0..6 PROVE step > k
    <3>1. step > 6
      BY <1>1, <2>4
    <3> QED
      BY <1>2, <3>1
  <2>5. ASSUME n = 20, NEW k \in 0..5 PROVE step > k
    <3>1. step > 5
      BY <1>1, <2>5
    <3> QED
      BY <1>2, <3>1
  <2> QED
    BY <2>1, <2>2, <2>3, <2>4, <2>5
<1>8. /\ \A k \in 0..11 : Past(17, k)' <=> Past(17, k)
      /\ \A k \in 0..3 : Past(18, k)' <=> Past(18, k)
      /\ \A k \in 0..7 : Past(19, k)' <=> Past(19, k)
      /\ \A k \in 0..6 : Past(20, k)' <=> Past(20, k)
      /\ \A k \in 0..5 : Past(21, k)' <=> Past(21, k)
  BY <1>5, <1>7
<1> QED
  BY <1>6, <1>8

LEMMA FinishShown ==
  ASSUME Anchored, TypeOK, Flawless => Shown, FinishCase, Flawless' PROVE Shown'
<1>1. /\ phase = "case" /\ step > Len(Script) /\ step' = 0 /\ start' = start
      /\ UNCHANGED <<token, device, pages, old, invitation, seen, generation, invited, stale, up,
                     claimed, live, issued, bugs>>
  BY DEF FinishCase, Record, clientVars, viewVars, hostVars, hubVars
<1>2. Typed /\ Len(results) \in Nat /\ Len(results) < 21 /\ step \in Nat
  BY <1>1 DEF Anchored, Typed, Begun
<1>3. Len(results) \in 0..20
  <2>1. \A x \in Nat : x < 21 => x \in 0..20
    OBVIOUS
  <2> QED
    BY <1>2, <2>1, Zenon
<1>4. Len(Script) \in Nat
  BY <1>2, <1>3, ScriptObserved DEF StopsObserved
<1>5. \E r : /\ results' = Append(results, r)
             /\ r.status = IF good THEN "passed" ELSE "failed"
  BY DEF FinishCase, Record
<1>6. /\ Len(results') = Len(results) + 1
      /\ results'[Len(results) + 1].status = IF good THEN "passed" ELSE "failed"
      /\ \A i \in 1..Len(results) : results'[i] = results[i]
  BY <1>2, <1>5 DEF Typed
<1>7. \A i \in 1..Len(results) + 1 : results'[i].status = "passed"
  BY <1>6 DEF Flawless
<1>8. Flawless
  <2>1. good
    BY <1>2, <1>6, <1>7
  <2>2. \A i \in 1..Len(results) : results[i].status = "passed"
    BY <1>2, <1>6, <1>7
  <2> QED
    BY <1>1, <2>1, <2>2 DEF Flawless
<1>9. Shown
  BY <1>8
<1>10. /\ (Past(1, 1)' <=> Past(1, 1)) /\ (Past(5, 3)' <=> Past(5, 3))
       /\ (Past(6, 0)' <=> Past(6, 0)) /\ (Past(7, 3)' <=> Past(7, 3))
       /\ (Past(8, 2)' <=> Past(8, 2)) /\ (Past(9, 0)' <=> Past(9, 0))
       /\ (Past(13, 1)' <=> Past(13, 1)) /\ (Past(14, 2)' <=> Past(14, 2))
       /\ \A k \in 0..11 : Past(17, k)' <=> Past(17, k)
       /\ \A k \in 0..3 : Past(18, k)' <=> Past(18, k)
       /\ \A k \in 0..7 : Past(19, k)' <=> Past(19, k)
       /\ \A k \in 0..6 : Past(20, k)' <=> Past(20, k)
       /\ \A k \in 0..5 : Past(21, k)' <=> Past(21, k)
  BY <1>1, <1>2, <1>3, <1>4, <1>6, Behind
<1> HIDE DEF Past
<1>11. ViewKept' /\ Claims' /\ Early'
  <2>1. ViewKept'
    BY <1>1, <1>9 DEF Shown, ViewKept
  <2>2. Claims'
    BY <1>1, <1>9, <1>10 DEF Shown, Claims
  <2>3. Early'
    BY <1>1, <1>9, <1>10 DEF Shown, Early
  <2> QED
    BY <2>1, <2>2, <2>3
<1>12. Rotated'
  BY <1>1, <1>9, <1>10 DEF Shown, Rotated
<1>13. Replaced' /\ Restarted'
  BY <1>1, <1>9, <1>10 DEF Shown, Replaced, Restarted
<1> QED
  BY <1>11, <1>12, <1>13 DEF Shown

LEMMA ExpiryShown ==
  ASSUME Flawless => Shown, InvitationExpires, Flawless' PROVE Shown'
<1>1. /\ stale' = TRUE /\ UNCHANGED <<phase, token, device, pages, old, invitation, seen, generation, invited,
                                      up, claimed, live, issued, bugs, results, step, good, start>>
  BY DEF InvitationExpires, caseVars, clientVars, viewVars, hubVars
<1>2. Shown
  BY <1>1 DEF Flawless
<1>3. \A c, k : Past(c, k)' <=> Past(c, k)
  BY <1>1 DEF Past
<1> QED
  BY <1>1, <1>2, <1>3 DEF Shown, ViewKept, Claims, Early, Rotated, Replaced, Restarted

LEMMA StillShown ==
  ASSUME Flawless => Shown, phase # "aborted",
         UNCHANGED <<caseVars, clientVars, viewVars, hostVars, hubVars, bugs>>, Flawless'
  PROVE  Shown'
<1>1. UNCHANGED <<token, device, pages, old, invitation, seen, generation, invited, stale,
                  up, claimed, live, issued, bugs, results, step, good, start>>
  BY DEF caseVars, clientVars, viewVars, hostVars, hubVars
<1>2. Shown
  BY <1>1 DEF Flawless
<1>3. \A c, k : Past(c, k)' <=> Past(c, k)
  BY <1>1 DEF Past
<1> QED
  BY <1>1, <1>2, <1>3 DEF Shown, ViewKept, Claims, Early, Rotated, Replaced, Restarted

-----------------------------------------------------------------------------
LEMMA PlacedKept ==
  ASSUME Placed, [Next]_vars PROVE Placed'
<1>1. ASSUME NEW status, NEW after, Record(status, after) PROVE Placed'
  BY <1>1 DEF Record, Placed
<1>2. ASSUME Proceed \/ (\E r : Abort(r)), phase = "case" PROVE Placed'
  BY <1>2 DEF Proceed, Abort, Placed
<1>3. CASE BeginCase
  BY <1>3 DEF BeginCase, Raised, Lost, Refused, Abort, Placed
<1>4. CASE ControlStep
  <2>1. Proceed \/ Fail \/ \E r : Abort(r)
    BY <1>4 DEF ControlStep, Lost, Refused
  <2> QED
    BY <1>1, <1>2, <1>4, <2>1 DEF Fail, ControlStep, At
<1>5. CASE NoDevice
  BY <1>2, <1>5 DEF NoDevice, At
<1>6. CASE HttpStep
  <2>1. Proceed \/ Fail
    BY <1>6 DEF HttpStep, Adopt
  <2> QED
    BY <1>1, <1>2, <1>6, <2>1 DEF Fail, HttpStep, At
<1>7. CASE LocalStep
  <2>1. Proceed \/ Fail
    BY <1>7 DEF LocalStep
  <2> QED
    BY <1>1, <1>2, <1>7, <2>1 DEF Fail, LocalStep, At
<1>8. CASE FinishCase
  BY <1>1, <1>8 DEF FinishCase
<1>9. CASE FinishRun
  BY <1>9, CasesObserved DEF FinishRun, caseVars, Placed
<1>10. CASE InvitationExpires
  BY <1>10 DEF InvitationExpires, caseVars, Placed
<1>11. CASE UNCHANGED vars
  BY <1>11 DEF vars, caseVars, Placed
<1> QED
  BY <1>3, <1>4, <1>5, <1>6, <1>7, <1>8, <1>9, <1>10, <1>11 DEF Next

LEMMA RunShownAlways == Spec => []RunShown
<1>1. Init => RunShown
  <2> SUFFICES ASSUME Init PROVE RunShown
    OBVIOUS
  <2>1. \A c \in 1..21, k \in 0..11 : ~Past(c, k)
    BY DEF Init, Past
  <2>2. Placed /\ bugs \in Defects /\ ViewKept /\ claimed = {}
    BY DEF Init, Placed, ViewKept
  <2> HIDE DEF Past
  <2> QED
    BY <2>1, <2>2 DEF RunShown, Shown, Claims, Early, Rotated, Replaced, Restarted
<1>2. RunShown /\ Anchored /\ TypeOK /\ CredentialsInStep /\ [Next]_vars => RunShown'
  <2> SUFFICES ASSUME RunShown, Anchored, TypeOK, CredentialsInStep, [Next]_vars PROVE RunShown'
    OBVIOUS
  <2>1. Placed'
    BY PlacedKept DEF RunShown
  <2>2. bugs' \in Defects
    <3>1. bugs' = bugs
      BY DEF Next, BeginCase, ControlStep, NoDevice, HttpStep, LocalStep, FinishCase, FinishRun,
         InvitationExpires, vars
    <3> QED
      BY <3>1 DEF RunShown
  <2>3. ASSUME Flawless' PROVE Shown'
    <3>1. Flawless => Shown
      BY DEF RunShown
    <3>3. CASE BeginCase
      BY <2>3, <3>1, <3>3, BeginShown DEF RunShown
    <3>4. CASE FinishCase
      BY <2>3, <3>1, <3>4, FinishShown
    <3>5. CASE InvitationExpires
      BY <2>3, <3>1, <3>5, ExpiryShown
    <3>6. CASE ControlStep \/ HttpStep \/ LocalStep
      <4>1. Moves /\ phase = "case"
        BY <2>3, <3>6, CleanControl, CleanHttp, CleanLocal DEF Moves
      <4>2. Flawless
        BY <2>3, <4>1 DEF Moves, Flawless
      <4>3. Shown
        BY <3>1, <4>2
      <4> QED
        BY <2>3, <3>6, <4>3, ControlShown, HttpShown, LocalShown
    <3>7. CASE NoDevice
      BY <2>3, <3>7 DEF NoDevice, Abort, Flawless
    <3>8. CASE FinishRun
      <4>1. phase # "aborted" /\ UNCHANGED <<caseVars, clientVars, viewVars, hostVars, hubVars, bugs>>
        BY <3>8 DEF FinishRun
      <4> QED
        BY <2>3, <3>1, <4>1, StillShown
    <3>9. CASE UNCHANGED vars
      <4>1. phase # "aborted" /\ UNCHANGED <<caseVars, clientVars, viewVars, hostVars, hubVars, bugs>>
        BY <2>3, <3>9 DEF vars, Flawless
      <4> QED
        BY <2>3, <3>1, <4>1, StillShown
    <3> QED
      BY <3>3, <3>4, <3>5, <3>6, <3>7, <3>8, <3>9 DEF Next
  <2> QED
    BY <2>1, <2>2, <2>3 DEF RunShown
<1> QED
  BY <1>1, <1>2, AnchoredAlways, TypesKept, CredentialsKept, PTL DEF Spec

(* A run in which every case passed was made with a Hub that has none of   *)
(* the defects the cases can see, and leaves it up and knowing the bearer: *)
(* for any combination of defects and any number of passing faults.        *)
THEOREM PassAlwaysSound == Spec => []PassSound
<1>1. RunShown /\ Anchored => PassSound
  <2> SUFFICES ASSUME RunShown, Anchored, Passed PROVE bugs \subseteq Unseen /\ up /\ token \in live
    BY DEF PassSound
  <2>1. Len(results) = 21 /\ step = 0 /\ Flawless
    BY DEF RunShown, Placed, Passed, Flawless
  <2>2. \A c \in 1..21, k \in 0..11 : Past(c, k)
    BY <2>1 DEF Past
  <2>3. Shown
    BY <2>1 DEF RunShown
  <2> HIDE DEF Past
  <2>4. /\ "other_build" \notin bugs /\ "any_secret" \notin bugs /\ "reusable" \notin bugs
        /\ "loose_cursor" \notin bugs
    BY <2>2, <2>3 DEF Shown, Early
  <2>5. /\ "same_token" \notin bugs /\ "other_device" \notin bugs /\ "no_grace" \notin bugs
        /\ "no_retry" \notin bugs
    BY <2>2, <2>3 DEF Shown, Rotated
  <2>6. /\ "no_restart" \notin bugs /\ "forgets" \notin bugs /\ "stays_up" \notin bugs
        /\ up /\ token \in live
    BY <2>2, <2>3 DEF Shown, Restarted
  <2>7. "deaf_revoke" \notin bugs /\ "same_device" \notin bugs
    BY <2>2, <2>3, <2>6 DEF Shown, Replaced
  <2>8. bugs \subseteq AllDefects
    BY MatrixAssumption DEF RunShown
  <2> QED
    BY <2>4, <2>5, <2>6, <2>7, <2>8 DEF AllDefects, Unseen
<1> QED
  BY <1>1, RunShownAlways, AnchoredAlways, PTL

=============================================================================
