----------------------------- MODULE NativeRun ------------------------------
(***************************************************************************)
(* The native current-Hub run: hub_http.run_network walks one scenario     *)
(* against a running hub, and hub_native_evidence.verify, called three     *)
(* times, ties that hub to the fixture that its launcher described.  The   *)
(* hub may have a defect; it, its launcher and the fixture's files may     *)
(* change while they are looked at; the fixture appends its update and     *)
(* writes a receipt of it while the run waits.  An exchange here is one    *)
(* step: how it ends is HttpExchange's subject.                            *)
(***************************************************************************)
EXTENDS Naturals, Sequences, FiniteSets

CONSTANTS
  Defects,          \* what may be wrong with a hub; "none" is one of them
  Drives, PageSize, \* the drives of the scenario, and the limit of a page
  Patience,         \* ticks the run waits for the receipt
  MaxEvents         \* bound: changes of the fixture while the run goes on

ASSUME NativeAssumption ==
  /\ "none" \in Defects
  /\ {Drives, PageSize, Patience} \subseteq Nat \ {0} /\ MaxEvents \in Nat

(* The defects that the hub of this module can have, and a first page that *)
(* is not the last: the cursor behind it is used again                     *)
(* (hub_http.py:431, 443).                                                 *)
ASSUME ScenarioAssumption ==
  /\ Defects \subseteq
       {"none", "another-hub", "any-bearer", "replays", "another-vehicle", "repeats-a-page",
        "endless-pages", "no-304", "loose-cursor", "loose-range", "no-update", "loses-charge",
        "same-bearer", "no-grace", "one-rotation"}
  /\ PageSize < Drives

VARIABLES
  \* the fixture
  hub,          \* [life, defect, secret, current, grace, issued, updated]
  launcher,     \* which life of it
  files,        \* [staged, config, stopped]: whether each is as it was
  marker, receipt,      \* the request for the update, and its receipt
  events,       \* how many changes there were
  \* the run
  pc,           \* a step of Script, or "passed" or "failed"
  failure,      \* the step that failed
  check,        \* the step of a verification, what it saw first, and the
                \* life of the hub when it read the configuration
  token,        \* the bearer in use, and those it got by rotating
  cursor,       \* of the page that is next
  clock,        \* since the marker was made
  answered      \* the lives of the hub that answered an exchange

fixture_ == <<hub, launcher, files, marker, receipt, events>>
run_ == <<pc, failure, check, token, cursor, clock, answered>>
native_vars == <<fixture_, run_>>

Alive == hub.life > 0
Null == 0                         \* no bearer, no cursor, no life
Pages == (Drives + PageSize - 1) \div PageSize

Page(k) == <<"page", k>>
Case(name) == <<name, 0>>
Verify(k) == <<"verify", k>>

Script ==
  <<Verify(1), Case("discovery"), Case("health"), Case("missing-bearer"),
    Case("bad-bearer"), Verify(2), Case("claim"), Case("pairing-replay"),
    Case("vehicles"), Case("current"), Case("current-unknown")>>
  \o <<Page(1), Case("drive-conditional")>>
  \o [k \in 1..(Pages - 1) |-> Page(k + 1)]
  \o <<Case("invalid_query"), Case("invalid_cursor"), Case("cursor-time-binding"),
       Case("marker"), Case("poll"), Case("receipt"),
       Case("later-current"), Case("rotate"), Case("grace-valid"),
       Case("rotation-retry"), Case("rotated-valid"), Verify(3)>>

Passed == Len(Script) + 1
Failed == 0
Running == pc \in 1..Len(Script)
At(step) == Running /\ Script[pc] = step

NotChecking == [step |-> "staged", hub |-> Null, launcher |-> Null, read |-> Null]

(* A session directory may have been used before.                          *)
NativeInit ==
  /\ hub \in [life : {1}, defect : Defects, secret : {TRUE}, current : {Null},
              grace : {Null}, issued : {0}, updated : {FALSE}]
  /\ launcher = 1
  /\ files = [staged |-> TRUE, config |-> TRUE, stopped |-> FALSE]
  /\ \/ marker = FALSE /\ receipt = "none"
     \/ marker = TRUE /\ receipt = "whole"
  /\ events = 0
  /\ pc = 1 /\ failure = Null /\ check = NotChecking /\ token = [held |-> Null, first |-> Null, retried |-> Null]
  /\ cursor = Null /\ clock = 0 /\ answered = {}

-----------------------------------------------------------------------------
(* What happens to the fixture.                                            *)
Event == events < MaxEvents /\ events' = events + 1 /\ UNCHANGED run_

(* The hub exits, and its launcher says so; or it is started again, on the *)
(* same store and address, as another process of whatever number.          *)
HubExits ==
  /\ Event /\ Alive
  /\ hub' = [hub EXCEPT !.life = 0]
  /\ files' \in {files, [files EXCEPT !.stopped = TRUE]}
  /\ UNCHANGED <<launcher, marker, receipt>>

HubRestarts ==
  /\ Event
  /\ hub' = [hub EXCEPT !.life = events + 2]
  /\ UNCHANGED <<launcher, files, marker, receipt>>

LauncherRestarts ==
  /\ Event /\ launcher' = events + 2
  /\ UNCHANGED <<hub, files, marker, receipt>>

FileChanges ==
  /\ Event /\ files' \in {[files EXCEPT !.staged = FALSE], [files EXCEPT !.config = FALSE]}
  /\ UNCHANGED <<hub, launcher, marker, receipt>>

(* The fixture sees the marker, appends, opens the store again and writes  *)
(* its receipt: one byte after another, or as a whole.                     *)
Update ==
  /\ marker /\ Alive /\ ~hub.updated
  /\ hub' = [hub EXCEPT !.updated = TRUE]
  /\ UNCHANGED <<launcher, files, marker, receipt, events, run_>>

Receipt ==
  /\ hub.updated
  /\ \/ receipt = "none" /\ receipt' \in {"torn", "whole"}
     \/ receipt = "torn" /\ receipt' = "whole"
  /\ UNCHANGED <<hub, launcher, files, marker, events, run_>>

-----------------------------------------------------------------------------
(* The steps of the run.                                                   *)
Fail ==
  /\ pc' = Failed /\ failure' = pc
  /\ UNCHANGED <<fixture_, check, token, cursor, clock, answered>>

(* hub_native_evidence.verify: the staged digests, the witness, the two    *)
(* processes, the configuration, and the two processes again.              *)
Checked(from, to) ==
  /\ check.step = from
  /\ check' = [check EXCEPT !.step = to]
  /\ UNCHANGED <<fixture_, pc, failure, token, cursor, clock, answered>>

(* Mutant: a process of whatever start time. *)
FreshAny(life) == TRUE

(* A process that the descriptor names, by its number and start time.      *)
Fresh(life) == life = 1

Verification ==
  /\ Running /\ Script[pc][1] = "verify"
  /\ \/ files.staged /\ Checked("staged", "witness")
     \/ ~files.staged /\ check.step = "staged" /\ Fail
     \/ ~files.stopped /\ Checked("witness", "hub")
     \/ files.stopped /\ check.step = "witness" /\ Fail

Identify ==
  /\ Running /\ check.step \in {"hub", "launcher"}
  /\ LET life == IF check.step = "hub" THEN hub.life ELSE launcher IN
     IF ~Fresh(life) THEN Fail
     ELSE /\ check' = IF check.step = "hub"
                      THEN [check EXCEPT !.step = "launcher", !.hub = life]
                      ELSE [check EXCEPT !.step = "config", !.launcher = life]
          /\ UNCHANGED <<fixture_, pc, failure, token, cursor, clock, answered>>

ReadConfig ==
  /\ Running
  /\ \/ /\ files.config /\ check.step = "config"
        /\ check' = [check EXCEPT !.step = "hub-again", !.read = hub.life]
        /\ UNCHANGED <<fixture_, pc, failure, token, cursor, clock, answered>>
     \/ ~files.config /\ check.step = "config" /\ Fail

(* Mutant: a process is not identified again. *)
SameLifeAssumed(life, seen) == TRUE

SameLife(life, seen) == life = seen

IdentifyAgain ==
  /\ Running
  /\ \/ SameLife(hub.life, check.hub) /\ Checked("hub-again", "launcher-again")
     \/ ~SameLife(hub.life, check.hub) /\ check.step = "hub-again" /\ Fail
     \/ /\ check.step = "launcher-again" /\ SameLife(launcher, check.launcher)
        /\ pc' = pc + 1 /\ check' = NotChecking
        /\ UNCHANGED <<fixture_, failure, token, cursor, clock, answered>>
     \/ ~SameLife(launcher, check.launcher) /\ check.step = "launcher-again" /\ Fail

-----------------------------------------------------------------------------
(* The hub, as the run's requests see it.                                  *)
Has(defect) == hub.defect = defect
Authorised(bearer) ==
  \/ bearer # Null /\ bearer = hub.current
  \/ bearer # Null /\ bearer = hub.grace /\ ~Has("no-grace")
  \/ Has("any-bearer")

Vehicles(bearer) == IF Authorised(bearer) THEN 200 ELSE 401

Claimed == [hub EXCEPT !.secret = FALSE, !.issued = @ + 1, !.current = hub.issued + 1]
Claim == hub.secret \/ Has("replays")

(* The bearer that rotates stays valid until the next rotation: when the   *)
(* answer is lost, it rotates again.                                       *)
Rotated(bearer) ==
  [hub EXCEPT !.issued = @ + 1, !.grace = bearer,
              !.current = IF Has("same-bearer") THEN bearer ELSE hub.issued + 1]
Rotates(bearer) == Authorised(bearer) /\ ~(Has("one-rotation") /\ hub.grace = bearer)

(* A page is the drives after the cursor; a cursor is of one vehicle and   *)
(* one range.                                                              *)
Rest(after) == IF Has("repeats-a-page") /\ after > 0 THEN after - 1 ELSE after
Until(after) == IF Rest(after) + PageSize < Drives THEN Rest(after) + PageSize ELSE Drives
Listed(after) == [first |-> Rest(after) + 1, last |-> Until(after),
                  cursor |-> IF Until(after) = Drives /\ ~Has("endless-pages") THEN Null
                             ELSE Until(after)]
Expected(k) == [first |-> (k - 1) * PageSize + 1,
                last |-> IF k * PageSize < Drives THEN k * PageSize ELSE Drives]

-----------------------------------------------------------------------------
(* exchange: an answer of a live hub that is what the case says, or the    *)
(* end of the run.                                                         *)
Answers(good, hub_, token_, cursor_) ==
  IF ~Alive \/ ~good THEN Fail
  ELSE /\ pc' = pc + 1 /\ hub' = hub_ /\ token' = token_ /\ cursor' = cursor_
       /\ answered' = answered \cup {hub.life}
       /\ UNCHANGED <<launcher, files, marker, receipt, events, failure, check, clock>>

Looks(case, good) == At(Case(case)) /\ Answers(good, hub, token, cursor)

(* The requests that carry no credential, or none that was issued.         *)
Public ==
  \/ Looks("discovery", ~Has("another-hub"))
  \/ Looks("health", TRUE)
  \/ Looks("missing-bearer", Vehicles(Null) = 401)
  \/ Looks("bad-bearer", Vehicles(Null) = 401)

Pairing ==
  \/ /\ At(Case("claim"))
     /\ Answers(Claim, Claimed, [token EXCEPT !.held = hub.issued + 1,
                                              !.first = hub.issued + 1], cursor)
  \/ Looks("pairing-replay", ~Claim)

Resources ==
  \/ Looks("vehicles", Vehicles(token.held) = 200)
  \/ Looks("current", /\ Vehicles(token.held) = 200
                       /\ ~Has("another-vehicle") /\ ~hub.updated)
  \/ Looks("current-unknown", Vehicles(token.held) = 200)

InOrder(page, k) == page.first = Expected(k).first /\ page.last = Expected(k).last

DrivePage ==
  \E k \in 1..Pages :
    /\ At(Page(k))
    /\ Answers(InOrder(Listed(cursor), k) /\ (k = Pages => Listed(cursor).cursor = Null),
               hub, token, Listed(cursor).cursor)

DriveFaults ==
  \/ Looks("drive-conditional", ~Has("no-304"))
  \/ Looks("invalid_query", TRUE)
  \/ Looks("invalid_cursor", ~Has("loose-cursor"))
  \/ Looks("cursor-time-binding", ~Has("loose-range"))

-----------------------------------------------------------------------------
(* The update: a marker that nobody made before, then its receipt.         *)
Mark ==
  /\ At(Case("marker"))
  /\ IF ~marker
     THEN /\ marker' = TRUE /\ pc' = pc + 1 /\ clock' = 0
          /\ UNCHANGED <<hub, launcher, files, receipt, events, failure, check, token, cursor, answered>>
     ELSE Fail

Tick ==
  /\ At(Case("poll")) /\ clock <= Patience /\ clock' = clock + 1
  /\ UNCHANGED <<fixture_, pc, failure, check, token, cursor, answered>>

PatienceEnds == clock > Patience

Poll ==
  /\ At(Case("poll"))
  /\ \/ /\ receipt # "none" /\ pc' = pc + 1
        /\ UNCHANGED <<fixture_, failure, check, token, cursor, clock, answered>>
     \/ receipt = "none" /\ PatienceEnds /\ Fail

ReadReceipt ==
  /\ At(Case("receipt"))
  /\ IF receipt = "whole" /\ ~Has("loses-charge")
     THEN /\ pc' = pc + 1
          /\ UNCHANGED <<fixture_, failure, check, token, cursor, clock, answered>>
     ELSE Fail

Later == Vehicles(token.held) = 200 /\ hub.updated /\ ~Has("no-update")

Rotation ==
  \/ Looks("later-current", Later)
  \/ /\ At(Case("rotate"))
     /\ Answers(Rotates(token.held) /\ Rotated(token.held).current # token.held,
                Rotated(token.held), token, cursor)
  \/ Looks("grace-valid", Vehicles(token.held) = 200)
  \/ /\ At(Case("rotation-retry"))
     /\ Answers(Rotates(token.held) /\ Rotated(token.held).current # token.held,
                Rotated(token.held),
                [token EXCEPT !.retried = Rotated(token.held).current], cursor)
  \/ Looks("rotated-valid", Vehicles(token.retried) = 200)

-----------------------------------------------------------------------------
Fixture == HubExits \/ HubRestarts \/ LauncherRestarts \/ FileChanges \/ Update \/ Receipt
Verifies == Verification \/ Identify \/ ReadConfig \/ IdentifyAgain
Run ==
  \/ Verifies \/ Public \/ Pairing \/ Resources \/ DrivePage \/ DriveFaults
  \/ Mark \/ Poll \/ ReadReceipt \/ Rotation

NativeNext == Fixture \/ Tick \/ Run

(* The run goes on and time passes; the fixture need do nothing.           *)
NativeFairness == WF_native_vars(Tick) /\ WF_native_vars(Run)
NativeSpec == NativeInit /\ [][NativeNext]_native_vars /\ NativeFairness

-----------------------------------------------------------------------------
(* The type of every variable: hub_http.py:346-467,                        *)
(* hub_native_evidence.py:78-118.                                          *)
NativeTypeOK ==
  /\ hub.defect \in Defects /\ hub.life \in 0..(MaxEvents + 1) /\ hub.issued \in 0..4
  /\ {hub.current, hub.grace} \subseteq 0..hub.issued
  /\ launcher \in 1..(MaxEvents + 1) /\ files \in [{"staged", "config", "stopped"} -> BOOLEAN]
  /\ {check.hub, check.launcher} \subseteq {Null, 1} /\ failure \in 0..Len(Script)
  /\ marker \in BOOLEAN /\ receipt \in {"none", "torn", "whole"} /\ events \in 0..MaxEvents
  /\ pc \in Failed..Passed /\ cursor \in 0..Drives /\ clock \in 0..(Patience + 1)
  /\ {token.held, token.first, token.retried} \subseteq 0..hub.issued
  /\ answered \subseteq 1..(MaxEvents + 1)

(* A run that passed was answered by one process from its first request    *)
(* to its last, the one whose executable, start and parent the launcher    *)
(* described: a hub that was started again in between, on the same store   *)
(* and address, does not pass for it (hub_native_evidence.py:97-113).      *)
OneLife == pc = Passed => answered = {1}

(* A hub with any of the defects does not pass, and the later state of the *)
(* vehicle was appended for this run (hub_http.py:400-462).                *)
PassSound == pc = Passed => hub.defect = "none" /\ hub.updated /\ receipt = "whole"

(* A fixture that stays as it was, with a hub that has no defect, is only  *)
(* failed when its session was used before, when its receipt is late, or   *)
(* when the receipt is read while it is being written                      *)
(* (hub_http.py:448-455).                                                  *)
NeverSpoiled ==
  (events = 0 /\ hub.defect = "none" /\ pc = Failed) =>
     \/ Script[failure] \in {Case("current"), Case("marker")} /\ marker
     \/ Script[failure] = Case("poll") /\ clock > Patience
     \/ Script[failure] = Case("receipt")

(* When the processes have been identified again, the configuration was    *)
(* read while the hub of the descriptor was running                        *)
(* (hub_native_evidence.py:111-114).                                       *)
ReadInLife == check.step = "launcher-again" => check.read = 1

(* The run ends, though the update never comes (hub_http.py:450-453).      *)
RunEnds == <>(pc \in {Passed, Failed})

(* A pass means that no defect was met, a fixture that is left alone does  *)
(* not fail, and every answer was read within the life it is taken for     *)
(* (hub_http.py:346-467).                                                  *)
NativeExact == NativeTypeOK /\ PassSound /\ NeverSpoiled /\ ReadInLife
=============================================================================
