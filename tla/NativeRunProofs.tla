--------------------------- MODULE NativeRunProofs --------------------------
(***************************************************************************)
(* A native run that passed was answered by one process throughout, by a   *)
(* hub without a defect, and a fixture that is left alone is not failed:   *)
(* for any drives, pages, patience and changes of the fixture.             *)
(***************************************************************************)
EXTENDS NativeRun, SequenceTheorems, TLAPS

Opening ==
  <<Verify(1), Case("discovery"), Case("health"), Case("missing-bearer"),
    Case("bad-bearer"), Verify(2), Case("claim"), Case("pairing-replay"),
    Case("vehicles"), Case("current"), Case("current-unknown")>>
Closing ==
  <<Case("invalid_query"), Case("invalid_cursor"), Case("cursor-time-binding"),
    Case("marker"), Case("poll"), Case("receipt"),
    Case("later-current"), Case("rotate"), Case("grace-valid"),
    Case("rotation-retry"), Case("rotated-valid"), Verify(3)>>
Names ==
  {"discovery", "health", "missing-bearer", "bad-bearer", "claim", "pairing-replay", "vehicles",
   "current", "current-unknown", "drive-conditional", "invalid_query", "invalid_cursor",
   "cursor-time-binding", "marker", "poll", "receipt", "later-current", "rotate", "grace-valid",
   "rotation-retry", "rotated-valid"}
ScriptSteps ==
  {Verify(k) : k \in Nat} \cup {Page(k) : k \in Nat} \cup {Case(name) : name \in Names}

LEMMA StepsIn ==
  /\ \A k \in Nat : Verify(k) \in ScriptSteps /\ Page(k) \in ScriptSteps
  /\ \A name \in Names : Case(name) \in ScriptSteps
  BY Zenon DEF ScriptSteps

LEMMA PagesNat == Pages \in Nat /\ Pages > 0
<1> DEFINE d == Drives + PageSize - 1
<1>1. d \in Nat /\ PageSize \in Nat /\ PageSize > 0 /\ d >= PageSize
  BY NativeAssumption
<1> HIDE DEF d
<1>2. d \div PageSize \in Nat /\ d \div PageSize > 0
  BY <1>1
<1> QED BY <1>2 DEF Pages, d

LEMMA Joined ==
  ASSUME NEW S, NEW s \in Seq(S), NEW t \in Seq(S)
  PROVE  /\ s \o t \in Seq(S) /\ Len(s \o t) = Len(s) + Len(t)
         /\ \A i \in 1..Len(s) : (s \o t)[i] = s[i]
         /\ \A i \in 1..Len(t) : (s \o t)[Len(s) + i] = t[i]
  OBVIOUS

(* Four sequences in a row, and where the elements of each are.            *)
Row(s, a, b, c, d) ==
  /\ Len(s) = Len(a) + Len(b) + Len(c) + Len(d)
  /\ \A i \in 1..Len(a) : s[i] = a[i]
  /\ \A i \in 1..Len(b) : s[Len(a) + i] = b[i]
  /\ \A i \in 1..Len(c) : s[Len(a) + Len(b) + i] = c[i]
  /\ \A i \in 1..Len(d) : s[Len(a) + Len(b) + Len(c) + i] = d[i]

LEMMA InARow ==
  ASSUME NEW S, NEW a \in Seq(S), NEW b \in Seq(S), NEW c \in Seq(S), NEW d \in Seq(S),
         NEW s, s = ((a \o b) \o c) \o d
  PROVE  Row(s, a, b, c, d)
<1>1. /\ a \o b \in Seq(S) /\ Len(a \o b) = Len(a) + Len(b)
      /\ \A i \in 1..Len(a) : (a \o b)[i] = a[i]
      /\ \A i \in 1..Len(b) : (a \o b)[Len(a) + i] = b[i]
  BY Joined
<1> DEFINE f == (a \o b) \o c
<1>2. /\ f \in Seq(S) /\ Len(f) = Len(a) + Len(b) + Len(c)
      /\ \A i \in 1..Len(a) : f[i] = a[i]
      /\ \A i \in 1..Len(b) : f[Len(a) + i] = b[i]
      /\ \A i \in 1..Len(c) : f[Len(a) + Len(b) + i] = c[i]
  <2>1. /\ f \in Seq(S) /\ Len(f) = Len(a \o b) + Len(c)
        /\ \A i \in 1..Len(a \o b) : f[i] = (a \o b)[i]
        /\ \A i \in 1..Len(c) : f[Len(a \o b) + i] = c[i]
    BY <1>1, Joined
  <2>2. /\ \A i \in 1..Len(a) : i \in 1..Len(a \o b)
        /\ \A i \in 1..Len(b) : Len(a) + i \in 1..Len(a \o b)
    BY <1>1, LenProperties
  <2> QED BY <1>1, <2>1, <2>2
<1> HIDE DEF f
<1>3. f \in Seq(S) /\ s = f \o d
  BY <1>2 DEF f
<1> HIDE DEF f
<1>4. /\ Len(s) = Len(f) + Len(d) /\ Len(f) \in Nat
      /\ \A i \in 1..Len(f) : s[i] = f[i]
      /\ \A i \in 1..Len(d) : s[Len(f) + i] = d[i]
  BY <1>3, Joined, LenProperties
<1>5. /\ \A i \in 1..Len(a) : i \in 1..Len(f)
      /\ \A i \in 1..Len(b) : Len(a) + i \in 1..Len(f)
      /\ \A i \in 1..Len(c) : Len(a) + Len(b) + i \in 1..Len(f)
  BY <1>2, LenProperties
<1>6. /\ \A i \in 1..Len(a) : s[i] = a[i]
      /\ \A i \in 1..Len(b) : s[Len(a) + i] = b[i]
      /\ \A i \in 1..Len(c) : s[Len(a) + Len(b) + i] = c[i]
  BY <1>2, <1>4, <1>5
<1> QED BY <1>2, <1>4, <1>6 DEF Row

LEMMA OpeningIs ==
  /\ Opening \in Seq(ScriptSteps) /\ Len(Opening) = 11
  /\ Opening[1] = Verify(1) /\ Opening[2] = Case("discovery") /\ Opening[3] = Case("health")
  /\ Opening[4] = Case("missing-bearer") /\ Opening[5] = Case("bad-bearer")
  /\ Opening[6] = Verify(2) /\ Opening[7] = Case("claim")
  /\ Opening[8] = Case("pairing-replay") /\ Opening[9] = Case("vehicles")
  /\ Opening[10] = Case("current") /\ Opening[11] = Case("current-unknown")
  BY StepsIn DEF Opening, Names

LEMMA ClosingIs ==
  /\ Closing \in Seq(ScriptSteps) /\ Len(Closing) = 12
  /\ Closing[1] = Case("invalid_query") /\ Closing[2] = Case("invalid_cursor")
  /\ Closing[3] = Case("cursor-time-binding") /\ Closing[4] = Case("marker")
  /\ Closing[5] = Case("poll") /\ Closing[6] = Case("receipt")
  /\ Closing[7] = Case("later-current") /\ Closing[8] = Case("rotate")
  /\ Closing[9] = Case("grace-valid") /\ Closing[10] = Case("rotation-retry")
  /\ Closing[11] = Case("rotated-valid") /\ Closing[12] = Verify(3)
  BY StepsIn DEF Closing, Names

(* The pages end at LastPage, however many there are.                      *)
LastPage == 12 + Pages

LEMMA PagesMany == Pages \in Nat /\ Pages > 1
<1> DEFINE d == Drives + PageSize - 1
<1>1. d \in Nat /\ PageSize \in Nat /\ PageSize > 0 /\ d >= 2 * PageSize
  BY NativeAssumption, ScenarioAssumption
<1> HIDE DEF d
<1>2. d \div PageSize \in Nat /\ d \div PageSize > 1
  BY <1>1
<1> QED BY <1>2 DEF Pages, d

(* The script is the opening, the pages, with a conditional request behind *)
(* the first, and the closing.                                             *)
LEMMA ScriptShape ==
  /\ LastPage \in Nat /\ LastPage > 13 /\ Len(Script) = LastPage + 12
  /\ \A i \in 1..11 : Script[i] = Opening[i]
  /\ Script[12] = Page(1) /\ Script[13] = Case("drive-conditional")
  /\ \A i \in 14..LastPage : Script[i] = Page(i - 12)
  /\ \A i \in 1..12 : Script[LastPage + i] = Closing[i]
<1> DEFINE n == Pages - 1
           Others == [k \in 1..n |-> Page(k + 1)]
           Two == <<Page(1), Case("drive-conditional")>>
<1>1. n \in Nat /\ n > 0 /\ LastPage = 13 + n
  BY PagesMany DEF LastPage
<1>2. Others \in Seq(ScriptSteps) /\ Len(Others) = n /\ (\A i \in 1..n : Others[i] = Page(i + 1))
  <2>1. \A k \in 1..n : Page(k + 1) \in ScriptSteps
    BY <1>1, StepsIn
  <2>2. Others \in [1..n -> ScriptSteps]
    BY <2>1
  <2>3. Others \in Seq(ScriptSteps)
    BY <1>1, <2>2, SeqDef
  <2>4. DOMAIN Others = 1..Len(Others) /\ DOMAIN Others = 1..n /\ Len(Others) \in Nat
        /\ (\A i \in 1..n : Others[i] = Page(i + 1))
    BY <2>2, <2>3, LenProperties
  <2> HIDE DEF Others
  <2> QED BY <1>1, <2>3, <2>4
<1>3. Two \in Seq(ScriptSteps) /\ Len(Two) = 2 /\ Two[1] = Page(1) /\ Two[2] = Case("drive-conditional")
  BY StepsIn DEF Names
<1>4. Script = ((Opening \o Two) \o Others) \o Closing
  BY DEF Script, Opening, Closing
<1> HIDE DEF Others, Two
<1>5. /\ Len(Script) = 11 + 2 + n + 12
      /\ \A i \in 1..11 : Script[i] = Opening[i]
      /\ \A i \in 1..2 : Script[11 + i] = Two[i]
      /\ \A i \in 1..n : Script[11 + 2 + i] = Others[i]
      /\ \A i \in 1..12 : Script[11 + 2 + n + i] = Closing[i]
  <2>1. Row(Script, Opening, Two, Others, Closing)
    <3>1. /\ Opening \in Seq(ScriptSteps) /\ Two \in Seq(ScriptSteps)
          /\ Others \in Seq(ScriptSteps) /\ Closing \in Seq(ScriptSteps)
      BY <1>2, <1>3, OpeningIs, ClosingIs
    <3> QED BY <1>4, <3>1, InARow, Zenon
  <2>2. Len(Opening) = 11 /\ Len(Two) = 2 /\ Len(Others) = n /\ Len(Closing) = 12
    BY <1>2, <1>3, OpeningIs, ClosingIs
  <2> HIDE DEF n
  <2> QED BY <2>1, <2>2 DEF Row
<1>6. Script[12] = Page(1) /\ Script[13] = Case("drive-conditional")
  BY <1>3, <1>5
<1>7. \A i \in 14..LastPage : Script[i] = Page(i - 12)
  <2>1. SUFFICES ASSUME NEW i \in 14..LastPage PROVE Script[i] = Page(i - 12)
    OBVIOUS
  <2> DEFINE j == i - 13
  <2>2. j \in 1..n /\ 11 + 2 + j = i /\ j + 1 = i - 12
    BY <1>1, <2>1
  <2> HIDE DEF n, j
  <2>3. Script[11 + 2 + j] = Others[j] /\ Others[j] = Page(j + 1)
    BY <1>2, <1>5, <2>2
  <2> QED BY <2>2, <2>3
<1>8. \A i \in 1..12 : 11 + 2 + n + i = LastPage + i
  BY <1>1
<1> HIDE DEF n
<1> QED BY <1>1, <1>5, <1>6, <1>7, <1>8

(* Where the steps are.                                                    *)
LEMMA Places ==
  ASSUME NEW p \in 1..Len(Script)
  PROVE  /\ Script[p][1] = "verify" => p \in {1, 6, LastPage + 12}
         /\ Script[p] = Case("discovery") => p = 2
         /\ Script[p] = Case("health") => p = 3
         /\ Script[p] = Case("missing-bearer") => p = 4
         /\ Script[p] = Case("bad-bearer") => p = 5
         /\ Script[p] = Case("claim") => p = 7
         /\ Script[p] = Case("pairing-replay") => p = 8
         /\ Script[p] = Case("vehicles") => p = 9
         /\ Script[p] = Case("current") => p = 10
         /\ Script[p] = Case("current-unknown") => p = 11
         /\ Script[p] = Case("drive-conditional") => p = 13
         /\ \A k \in Nat : Script[p] = Page(k) => p = IF k = 1 THEN 12 ELSE 12 + k
         /\ Script[p] = Case("invalid_query") => p = LastPage + 1
         /\ Script[p] = Case("invalid_cursor") => p = LastPage + 2
         /\ Script[p] = Case("cursor-time-binding") => p = LastPage + 3
         /\ Script[p] = Case("marker") => p = LastPage + 4
         /\ Script[p] = Case("poll") => p = LastPage + 5
         /\ Script[p] = Case("receipt") => p = LastPage + 6
         /\ Script[p] = Case("later-current") => p = LastPage + 7
         /\ Script[p] = Case("rotate") => p = LastPage + 8
         /\ Script[p] = Case("grace-valid") => p = LastPage + 9
         /\ Script[p] = Case("rotation-retry") => p = LastPage + 10
         /\ Script[p] = Case("rotated-valid") => p = LastPage + 11
<1>1. CASE p \in 1..11
  <2>1. Script[p] = Opening[p]
    BY <1>1, ScriptShape, Zenon
  <2>2. p \in {1, 2, 3, 4, 5, 6, 7, 8, 9, 10, 11}
    BY <1>1
  <2> QED BY <2>1, <2>2, OpeningIs DEF Case, Page, Verify
<1>2. CASE p \in {12, 13}
  <2>1. Script[12] = Page(1) /\ Script[13] = Case("drive-conditional")
    BY ScriptShape, Zenon
  <2> QED BY <1>2, <2>1 DEF Case, Page
<1>3. CASE p \in 14..LastPage
  <2>1. Script[p] = Page(p - 12) /\ p - 12 # 1
    BY <1>3, ScriptShape
  <2>2. \A k \in Nat : Script[p] = Page(k) => k = p - 12
    BY <2>1 DEF Page
  <2>3. Script[p][1] = "page" /\ (\A name : Case(name)[1] = name)
    BY <2>1 DEF Page, Case
  <2>4. \A k \in Nat : Script[p] = Page(k) => p = IF k = 1 THEN 12 ELSE 12 + k
    BY <1>3, <2>1, <2>2
  <2> QED BY <2>3, <2>4
<1>4. CASE p \in (LastPage + 1)..(LastPage + 12)
  <2>1. LastPage \in Nat
    BY ScriptShape
  <2>2. PICK i \in 1..12 : p = LastPage + i
    <3>1. p - LastPage \in 1..12 /\ p = LastPage + (p - LastPage)
      BY <1>4, <2>1
    <3> QED BY <3>1
  <2>3. Script[p] = Closing[i]
    BY <2>2, ScriptShape, Zenon
  <2>4. CASE i \in {1, 2, 3}
    BY <2>1, <2>2, <2>3, <2>4, ClosingIs DEF Case, Page
  <2>5. CASE i \in {4, 5, 6}
    BY <2>1, <2>2, <2>3, <2>5, ClosingIs DEF Case, Page
  <2>6. CASE i \in {7, 8, 9}
    BY <2>1, <2>2, <2>3, <2>6, ClosingIs DEF Case, Page
  <2>7. CASE i \in {10, 11, 12}
    BY <2>1, <2>2, <2>3, <2>7, ClosingIs DEF Case, Page, Verify
  <2> QED BY <2>4, <2>5, <2>6, <2>7
<1> QED BY <1>1, <1>2, <1>3, <1>4, ScriptShape

(* The second step of the script is a request, no wait and no              *)
(* verification.                                                           *)
LEMMA Second ==
  /\ Script[2][1] = "discovery" /\ Script[Len(Script)][1] = "verify"
  /\ 2 \in 1..Len(Script) /\ Len(Script) \in 1..Len(Script)
<1>1. Case("discovery")[1] = "discovery" /\ Verify(3)[1] = "verify"
  BY DEF Case, Verify
<1>2. Script[2] = Case("discovery") /\ Script[Len(Script)] = Verify(3)
      /\ Len(Script) \in Nat /\ Len(Script) > 2
  BY ScriptShape, OpeningIs, ClosingIs
<1> QED BY <1>1, <1>2

-----------------------------------------------------------------------------
(* A hub that is started again never has the first life again; a           *)
(* verification that has identified the hub found it in its first life,    *)
(* and nothing is answered before the verification ends.                   *)
Identified == {"launcher", "config", "hub-again", "launcher-again"}

LInv ==
  /\ events \in Nat /\ "life" \in DOMAIN hub /\ "step" \in DOMAIN check
  /\ pc \in 0..Passed
  /\ check.step \in {"staged", "witness", "hub"} \cup Identified
  /\ hub.life = 1 => answered \subseteq {1}
  /\ Running /\ check.step # "staged" => Script[pc][1] = "verify"
  /\ Running /\ check.step \in Identified => answered \subseteq {1}
  /\ Running /\ pc > 2 => answered # {}
  /\ pc = Passed => answered = {1}

LEMMA InitL == NativeInit => LInv
  BY ScriptShape DEF NativeInit, LInv, NotChecking, Running, Passed, Identified

(* A step that is answered: it is not the last, which is a verification.   *)
LEMMA AnswersL ==
  ASSUME LInv, Running, Script[pc][1] # "verify",
         NEW good, NEW hub_, NEW token_, NEW cursor_,
         hub_.life = hub.life, DOMAIN hub_ = DOMAIN hub, Answers(good, hub_, token_, cursor_)
  PROVE  LInv'
<1>1. pc # Len(Script) /\ pc + 1 \in 1..Len(Script) /\ check.step = "staged"
  <2>1. Len(Script) \in Nat /\ pc \in 1..Len(Script) /\ pc # Len(Script)
    BY Second DEF Running
  <2>2. check.step = "staged"
    BY DEF LInv
  <2> QED BY <2>1, <2>2
<1>2. CASE Fail
  BY <1>2 DEF Fail, LInv, Running, Failed, fixture_, Passed
<1>3. CASE ~Fail
  <2>1. /\ pc' = pc + 1 /\ hub'.life = hub.life /\ DOMAIN hub' = DOMAIN hub
        /\ answered' = answered \cup {hub.life} /\ UNCHANGED <<events, check>>
    BY <1>3 DEF Answers
  <2>2. pc' \in 1..Len(Script) /\ pc' # Passed
    BY <1>1, <2>1, ScriptShape DEF Running, Passed
  <2>3. hub'.life = 1 => answered' \subseteq {1}
    BY <2>1 DEF LInv
  <2>4. /\ check'.step = "staged" /\ events' \in Nat /\ answered' # {}
        /\ "life" \in DOMAIN hub' /\ "step" \in DOMAIN check'
    BY <1>1, <2>1 DEF LInv
  <2>5. pc' \in 0..Passed'
    BY <2>2, ScriptShape DEF Passed
  <2> QED BY <2>2, <2>3, <2>4, <2>5 DEF LInv, Identified, Passed
<1> QED BY <1>2, <1>3

(* A request is a step of the script that is not a verification.           *)
LEMMA RequestL ==
  ASSUME LInv, Public \/ Pairing \/ Resources \/ DrivePage \/ DriveFaults \/ Rotation
  PROVE  LInv'
<1>1. ASSUME NEW name \in Names, NEW good, Looks(name, good) PROVE LInv'
  <2>1. Running /\ Script[pc][1] # "verify"
    BY <1>1 DEF Looks, At, Case, Names
  <2> QED BY <1>1, <2>1, AnswersL DEF Looks
<1>2. CASE Public \/ Resources \/ DriveFaults
  <2> USE DEF Names
  <2>1. CASE Public
    BY <1>1, <2>1 DEF Public
  <2>2. CASE Resources
    BY <1>1, <2>2 DEF Resources
  <2>3. CASE DriveFaults
    BY <1>1, <2>3 DEF DriveFaults
  <2> QED BY <1>2, <2>1, <2>2, <2>3
<1>3. CASE Pairing
  <2>1. CASE Looks("pairing-replay", ~Claim)
    BY <1>1, <2>1 DEF Names
  <2>2. CASE At(Case("claim")) /\ ~Looks("pairing-replay", ~Claim)
    <3>1. Running /\ Script[pc][1] # "verify"
      BY <2>2 DEF At, Case
    <3>2. Claimed.life = hub.life /\ DOMAIN Claimed = DOMAIN hub
      BY DEF Claimed
    <3> QED BY <1>3, <2>2, <3>1, <3>2, AnswersL DEF Pairing
  <2> QED BY <1>3, <2>1, <2>2 DEF Pairing
<1>4. CASE DrivePage
  <2>1. PICK k \in 1..Pages : At(Page(k)) /\
           Answers(InOrder(Listed(cursor), k) /\ (k = Pages => Listed(cursor).cursor = Null),
                   hub, token, Listed(cursor).cursor)
    BY <1>4 DEF DrivePage
  <2>2. Running /\ Script[pc][1] # "verify"
    BY <2>1 DEF At, Page
  <2> QED BY <2>1, <2>2, AnswersL
<1>5. CASE Rotation
  <2> USE DEF Names
  <2> DEFINE Reads == \/ Looks("later-current", Later)
                       \/ Looks("grace-valid", Vehicles(token.held) = 200)
                       \/ Looks("rotated-valid", Vehicles(token.retried) = 200)
  <2>1. CASE Reads
    BY <1>1, <2>1
  <2>2. CASE ~Reads
    <3>1. Running /\ Script[pc][1] # "verify"
      BY <1>5, <2>2 DEF Rotation, At, Case
    <3>2. /\ Rotated(token.held).life = hub.life
          /\ DOMAIN Rotated(token.held) = DOMAIN hub
      BY DEF Rotated
    <3> QED BY <1>5, <2>2, <3>1, <3>2, AnswersL DEF Rotation
  <2> QED BY <2>1, <2>2
<1> QED BY <1>2, <1>3, <1>4, <1>5

LEMMA Onward ==
  ASSUME NEW L \in Nat, NEW p \in 1..L, p # 2
  PROVE  p + 1 \in 0..(L + 1) /\ (p + 1 > 2 => p > 2) /\ (p + 1 = L + 1 => p = L)
  OBVIOUS

(* A step that no process answers goes on, and is not the second.          *)
LEMMA OnL ==
  ASSUME LInv, Running, pc # 2, pc' = pc + 1, check'.step = "staged", "step" \in DOMAIN check',
         hub' = hub, events' = events, answered' = answered,
         pc = Len(Script) => check.step = "launcher-again"
  PROVE  LInv'
<1>1. Len(Script) \in Nat /\ Len(Script) > 2
  BY ScriptShape
<1>2. pc' \in 0..Passed /\ (pc' > 2 => pc > 2) /\ (pc' = Passed => pc = Len(Script))
  <2> DEFINE L == Len(Script)
  <2>1. L \in Nat /\ pc \in 1..L /\ Passed = L + 1
    BY <1>1 DEF Running, Passed
  <2> HIDE DEF L
  <2>2. pc' \in 0..(L + 1) /\ (pc' > 2 => pc > 2) /\ (pc' = L + 1 => pc = L)
    BY <2>1, Onward
  <2>3. Passed' = Passed
    BY DEF Passed
  <2> QED BY <2>1, <2>2, <2>3 DEF L
<1>3. pc = Len(Script) => answered = {1}
  <2>1. pc = Len(Script) => answered \subseteq {1} /\ answered # {}
    BY <1>1 DEF LInv, Running, Identified
  <2> QED BY <2>1
<1> QED BY <1>1, <1>2, <1>3 DEF LInv, Running, Identified, Passed

LEMMA FailL == ASSUME LInv, Fail PROVE LInv'
  BY ScriptShape DEF Fail, LInv, Running, Failed, fixture_, Passed

(* The update, its receipt and the clock: no process answers there.        *)
LEMMA UpdateL ==
  ASSUME LInv, Mark \/ Poll \/ ReadReceipt PROVE LInv'
<1>1. PICK name \in {"marker", "poll", "receipt"} : At(Case(name))
  BY DEF Mark, Poll, ReadReceipt
<1>2. Running /\ Script[pc][1] # "verify" /\ Script[pc][1] # "discovery"
  BY <1>1 DEF At, Case
<1>3. pc # 2 /\ pc # Len(Script) /\ check.step = "staged" /\ "step" \in DOMAIN check
  BY <1>2, Second DEF LInv
<1>4. ~Fail => pc' = pc + 1 /\ UNCHANGED <<hub, events, check, answered>>
  BY DEF Mark, Poll, ReadReceipt, fixture_
<1> QED BY <1>2, <1>3, <1>4, FailL, OnL

(* What a step within a verification leaves as it was.                     *)
LEMMA WithinL ==
  ASSUME LInv, Running, Script[pc][1] = "verify",
         pc' = pc, hub' = hub, events' = events, answered' = answered,
         "step" \in DOMAIN check',
         check'.step \in {"staged", "witness", "hub"} \cup Identified,
         check'.step \in Identified => answered \subseteq {1}
  PROVE  LInv'
  BY DEF LInv, Running, Passed

(* A verification passes only through processes of the descriptor.         *)
LEMMA VerifiesL == ASSUME LInv, Verifies PROVE LInv'
<1>1. SUFFICES ASSUME ~Fail PROVE LInv'
  BY FailL
<1>2. Running /\ Script[pc][1] = "verify"
  BY <1>1 DEF Verifies, Verification, Identify, ReadConfig, IdentifyAgain, Checked, LInv
<1>3. CASE Verification
  BY <1>1, <1>2, <1>3, WithinL DEF Verification, Checked, fixture_, LInv, Identified
<1>4. CASE Identify
  <2>1. UNCHANGED <<hub, events, pc, answered>> /\ "step" \in DOMAIN check'
    BY <1>1, <1>4 DEF Identify, fixture_, LInv
  <2>2. CASE check.step = "hub"
    <3>1. hub.life = 1 /\ check'.step = "launcher"
      BY <1>1, <1>4, <2>2 DEF Identify, Fresh, LInv
    <3> QED BY <1>2, <2>1, <3>1, WithinL DEF LInv, Identified
  <2>3. CASE check.step = "launcher"
    <3>1. check'.step = "config"
      BY <1>1, <1>4, <2>3 DEF Identify, LInv
    <3> QED BY <1>2, <2>1, <2>3, <3>1, WithinL DEF LInv, Identified
  <2> QED BY <1>4, <2>2, <2>3 DEF Identify
<1>5. CASE ReadConfig
  <2>1. /\ UNCHANGED <<hub, events, pc, answered>> /\ "step" \in DOMAIN check'
        /\ check.step = "config" /\ check'.step = "hub-again"
    BY <1>1, <1>5 DEF ReadConfig, fixture_, LInv
  <2> QED BY <1>2, <2>1, WithinL DEF LInv, Identified
<1>6. CASE IdentifyAgain
  <2>1. CASE Checked("hub-again", "launcher-again")
    <3>1. /\ UNCHANGED <<hub, events, pc, answered>> /\ "step" \in DOMAIN check'
          /\ check.step = "hub-again" /\ check'.step = "launcher-again"
      BY <2>1 DEF Checked, fixture_, LInv
    <3> QED BY <1>2, <3>1, WithinL DEF LInv, Identified
  <2>2. CASE ~Checked("hub-again", "launcher-again")
    <3>1. /\ check.step = "launcher-again" /\ pc' = pc + 1 /\ check' = NotChecking
          /\ hub' = hub /\ events' = events /\ answered' = answered
      BY <1>1, <1>6, <2>2 DEF IdentifyAgain, fixture_
    <3>2. check'.step = "staged" /\ "step" \in DOMAIN check'
      BY <3>1 DEF NotChecking
    <3>3. pc # 2
      BY <1>2, Second
    <3> QED BY <1>2, <3>1, <3>2, <3>3, OnL
  <2> QED BY <2>1, <2>2
<1> QED BY <1>3, <1>4, <1>5, <1>6 DEF Verifies

LEMMA FixtureL == ASSUME LInv, Fixture PROVE LInv'
<1>1. UNCHANGED <<pc, check, answered>> /\ events' \in Nat
      /\ (hub'.life = 1 => hub.life = 1) /\ "life" \in DOMAIN hub'
  BY DEF Fixture, LInv, Event, HubExits, HubRestarts, LauncherRestarts, FileChanges, Update,
         Receipt, run_
<1> QED BY <1>1 DEF LInv, Running, Identified, Passed

LEMMA NextL == LInv /\ [NativeNext]_native_vars => LInv'
<1> SUFFICES ASSUME LInv, [NativeNext]_native_vars PROVE LInv'
  OBVIOUS
<1>1. CASE Tick \/ UNCHANGED native_vars
  BY <1>1 DEF Tick, native_vars, fixture_, run_, LInv, Running, Identified, Passed
<1> QED BY <1>1, RequestL, UpdateL, VerifiesL, FixtureL DEF NativeNext, Run

(* A run that passed was answered by the process its descriptor names, and *)
(* by no other: a restart of the hub at any moment keeps a run from        *)
(* passing.                                                                *)
THEOREM OneLifeAlways == NativeSpec => []OneLife
<1>1. LInv => OneLife
  BY DEF LInv, OneLife
<1> QED BY <1>1, InitL, NextL, PTL DEF NativeSpec

-----------------------------------------------------------------------------
(* What a run knows of its hub at each step.                               *)
Phases == {"staged", "witness", "hub"} \cup Identified

(* The types; what the run holds of bearers is no younger than the last.   *)
Hubs == [life : 0..(MaxEvents + 1), defect : Defects, secret : BOOLEAN, current : Nat,
         grace : Nat, issued : 0..3, updated : BOOLEAN]
NTypes ==
  /\ hub \in Hubs
  /\ {hub.current, hub.grace, token.held, token.first, token.retried} \subseteq 0..hub.issued
  /\ token \in [held : Nat, first : Nat, retried : Nat]
  /\ launcher \in 1..(MaxEvents + 1)
  /\ files \in [staged : BOOLEAN, config : BOOLEAN, stopped : BOOLEAN]
  /\ check \in [step : Phases, hub : {Null, 1}, launcher : {Null, 1}, read : 0..(MaxEvents + 1)]
  /\ marker \in BOOLEAN /\ receipt \in {"none", "torn", "whole"} /\ events \in 0..MaxEvents
  /\ pc \in Failed..Passed /\ failure \in 0..Len(Script)
  /\ cursor \in 0..Drives /\ clock \in 0..(Patience + 1)
  /\ answered \subseteq 1..(MaxEvents + 1)

(* Between which steps of the run what was issued is what it uses.         *)
Bearers ==
  /\ pc \in 1..7 => hub.issued = 0 /\ hub.secret
  /\ pc \in 8..LastPage + 8 => hub.issued = 1 /\ ~hub.secret /\ token.held = hub.current /\ hub.current # Null
  /\ pc \in LastPage + 9..LastPage + 10 =>
       /\ hub.issued = 2 /\ token.held = hub.grace /\ hub.grace # Null
       /\ token.held # hub.current
  /\ pc = LastPage + 11 => token.retried = hub.current /\ hub.current # Null

(* The cursor is that of the page behind the one that was read.            *)
Followed ==
  /\ pc \in 1..12 => cursor = Null
  /\ pc = 13 => cursor = PageSize
  /\ pc \in 14..LastPage => cursor = (pc - 13) * PageSize

(* The update was appended for this run, when it reads its receipt.        *)
Appended ==
  /\ hub.updated => marker
  /\ receipt = "none" \/ hub.updated \/ (marker /\ pc <= LastPage + 4)
  /\ pc > LastPage + 5 => receipt # "none"
  /\ pc > LastPage + 6 => receipt = "whole"
  /\ pc > LastPage + 7 => hub.updated

(* The step that a hub with a defect does not get past.                    *)
Caught ==
  /\ pc > 2 => ~Has("another-hub")
  /\ pc > 4 => ~Has("any-bearer")
  /\ pc > 8 => ~Has("replays")
  /\ pc > 10 => ~Has("another-vehicle")
  /\ pc > 13 => ~Has("no-304")
  /\ pc > 14 => ~Has("repeats-a-page")
  /\ pc > LastPage => ~Has("endless-pages")
  /\ pc > LastPage + 2 => ~Has("loose-cursor")
  /\ pc > LastPage + 3 => ~Has("loose-range")
  /\ pc > LastPage + 6 => ~Has("loses-charge")
  /\ pc > LastPage + 7 => ~Has("no-update")
  /\ pc > LastPage + 8 => ~Has("same-bearer")
  /\ pc > LastPage + 9 => ~Has("no-grace")
  /\ pc > LastPage + 10 => ~Has("one-rotation")

(* What a verification saw, and a fixture to which nothing happened.       *)
Seen ==
  /\ check.step \in Identified => check.hub = 1
  /\ check.step \in Identified \ {"launcher"} => check.launcher = 1
  /\ check.step = "hub-again" /\ hub.life = 1 => check.read = 1
  /\ check.step = "launcher-again" => check.read = 1
  /\ events = 0 => /\ hub.life = 1 /\ launcher = 1
                   /\ files = [staged |-> TRUE, config |-> TRUE, stopped |-> FALSE]

NInv == NTypes /\ Bearers /\ Followed /\ Appended /\ Caught /\ Seen /\ NeverSpoiled

LEMMA Sizes ==
  /\ Drives \in Nat /\ PageSize \in Nat /\ PageSize > 0 /\ PageSize < Drives
  /\ Patience \in Nat /\ Patience > 0 /\ MaxEvents \in Nat
  BY NativeAssumption, ScenarioAssumption

LEMMA Ends ==
  /\ LastPage \in Nat /\ LastPage > 13 /\ Len(Script) = LastPage + 12
  /\ Passed = LastPage + 13 /\ Failed = 0
  /\ Running <=> pc \in 1..(LastPage + 12)
  BY ScriptShape DEF Passed, Failed, Running

LEMMA InitN == NativeInit => NInv
<1> SUFFICES ASSUME NativeInit PROVE NInv
  OBVIOUS
<1>1. /\ hub.life = 1 /\ hub.secret = TRUE /\ hub.current = 0 /\ hub.grace = 0 /\ hub.issued = 0
      /\ hub.updated = FALSE /\ hub.defect \in Defects
      /\ hub \in [life : {1}, defect : Defects, secret : {TRUE}, current : {0},
              grace : {0}, issued : {0}, updated : {FALSE}]
  BY DEF NativeInit, Null
<1>2. NTypes
  <2>1. 1 \in 0..(MaxEvents + 1) /\ 1 \in 1..(MaxEvents + 1) /\ 0 \in 0..MaxEvents
        /\ 0 \in 0..Drives /\ 0 \in 0..(Patience + 1) /\ 0 \in 0..3 /\ 0 \in 0..0 /\ 0 \in 0..Len(Script)
        /\ 0 \in 0..(MaxEvents + 1) /\ 1 \in 0..Passed
    BY Sizes, Ends
  <2>2. hub \in Hubs
    <3> DEFINE lives == 0..(MaxEvents + 1)
               counts == 0..3
    <3>1. 1 \in lives /\ 0 \in counts /\ 0 \in Nat
      BY <2>1
    <3> HIDE DEF lives, counts
    <3>2. hub \in [life : lives, defect : Defects, secret : BOOLEAN, current : Nat,
                   grace : Nat, issued : counts, updated : BOOLEAN]
      BY <1>1, <3>1
    <3> QED BY <3>2 DEF Hubs, lives, counts
  <2>3. check \in [step : Phases, hub : {Null, 1}, launcher : {Null, 1}, read : 0..(MaxEvents + 1)]
    BY <2>1 DEF NativeInit, NotChecking, Phases, Null
  <2>4. /\ token \in [held : Nat, first : Nat, retried : Nat]
        /\ {hub.current, hub.grace, token.held, token.first, token.retried} \subseteq 0..hub.issued
    BY <1>1, <2>1 DEF NativeInit, Null
  <2>5. files \in [staged : BOOLEAN, config : BOOLEAN, stopped : BOOLEAN]
    BY DEF NativeInit
  <2> QED BY <2>1, <2>2, <2>3, <2>4, <2>5 DEF NativeInit, NTypes, Failed, Null
<1>3. Bearers /\ Followed /\ Appended
  BY <1>1, Ends DEF NativeInit, Bearers, Followed, Appended, Null
<1>4. Caught /\ Seen /\ NeverSpoiled
  BY <1>1, Ends DEF NativeInit, Caught, Seen, NeverSpoiled, NotChecking, Identified, Failed
<1> QED BY <1>2, <1>3, <1>4 DEF NInv

(* A step that fails, and what excuses it.                                 *)
Excuse ==
  \/ Script[pc] \in {Case("current"), Case("marker")} /\ marker
  \/ Script[pc] = Case("poll") /\ clock > Patience
  \/ Script[pc] = Case("receipt")

LEMMA FailN ==
  ASSUME NInv, Running, Fail, events = 0 /\ hub.defect = "none" => Excuse
  PROVE  NInv'
<1>1. pc' = 0 /\ failure' = pc /\ UNCHANGED <<fixture_, check, token, cursor, clock, answered>>
  BY DEF Fail, Failed
<1>2. NTypes'
  <2>1. 0 \in 0..Passed /\ pc \in 0..Len(Script)
    BY Ends
  <2>2. Passed' = Passed /\ Len(Script)' = Len(Script)
    BY DEF Passed
  <2> QED BY <1>1, <2>1, <2>2 DEF NInv, NTypes, fixture_, Failed
<1>3. Bearers' /\ Followed'
  BY <1>1, Ends DEF Bearers, Followed
<1>4. Appended'
  BY <1>1, Ends DEF NInv, Appended, fixture_
<1>5. Caught' /\ Seen'
  BY <1>1, Ends DEF NInv, Caught, Seen, fixture_
<1>6. NeverSpoiled'
  BY <1>1 DEF NeverSpoiled, Excuse, fixture_
<1> QED BY <1>2, <1>3, <1>4, <1>5, <1>6 DEF NInv

(* A step that goes on and leaves hub, bearers and cursor as they were.    *)
LEMMA GoesOnN ==
  ASSUME NInv, Running, pc' = pc + 1, pc \notin {7, 12, LastPage + 8, LastPage + 10},
         pc \notin 14..LastPage,
         UNCHANGED <<hub, launcher, files, events, failure, token, cursor>>,
         marker' \in BOOLEAN, receipt' \in {"none", "torn", "whole"}, clock' \in 0..(Patience + 1),
         answered' \subseteq 1..(MaxEvents + 1), check' \in {check, NotChecking}
  PROVE  NTypes' /\ Bearers' /\ Followed' /\ Seen' /\ NeverSpoiled'
<1>1. pc' \in 0..Passed /\ pc' # 0
  BY Ends
<1>2. NotChecking \in [step : Phases, hub : {Null, 1}, launcher : {Null, 1}, read : 0..(MaxEvents + 1)]
  <2>1. 0 \in 0..(MaxEvents + 1)
    BY Sizes
  <2> QED BY <2>1 DEF NotChecking, Phases, Null
<1>3. NTypes'
  <2>1. Passed' = Passed /\ Len(Script)' = Len(Script)
    BY DEF Passed
  <2> QED BY <1>1, <1>2, <2>1 DEF NInv, NTypes, Failed
<1>4. Bearers'
  <2>1. /\ pc' \in 1..7 => pc \in 1..7
        /\ pc' \in 8..LastPage + 8 => pc \in 8..LastPage + 8
        /\ pc' \in LastPage + 9..LastPage + 10 => pc \in LastPage + 9..LastPage + 10
        /\ pc' # LastPage + 11
    BY Ends
  <2> QED BY <2>1 DEF NInv, Bearers
<1>5. Followed'
  <2>1. pc = 13 => cursor = PageSize /\ pc' = 14 /\ (pc' - 13) * PageSize = PageSize
    BY Sizes DEF NInv, Followed
  <2>2. pc \in 1..LastPage + 12 /\ LastPage \in Nat
    BY Ends
  <2>3. (pc' \in 1..12 => pc \in 1..12) /\ pc' # 13
    BY <2>2
  <2>4. pc' \in 14..LastPage => pc = 13
    BY <2>2
  <2> QED BY <2>1, <2>3, <2>4 DEF NInv, Followed
<1>6. Seen'
  BY DEF NInv, Seen, NotChecking, Identified
<1>7. NeverSpoiled'
  BY <1>1 DEF NeverSpoiled, Failed
<1> QED BY <1>3, <1>4, <1>5, <1>6, <1>7

(* What an answer that is taken leaves.                                    *)
Taken(hub_, token_, cursor_) ==
  /\ Alive /\ pc' = pc + 1 /\ hub' = hub_ /\ token' = token_ /\ cursor' = cursor_
  /\ answered' \subseteq 1..(MaxEvents + 1)
  /\ UNCHANGED <<launcher, files, marker, receipt, events, failure, check, clock>>

LEMMA AnswersN ==
  ASSUME NInv, Running, NEW good \in BOOLEAN, NEW hub_, NEW token_, NEW cursor_,
         Answers(good, hub_, token_, cursor_),
         events = 0 /\ hub.defect = "none" => good \/ Excuse
  PROVE  NInv' \/ (good /\ Taken(hub_, token_, cursor_))
<1>1. CASE ~Alive \/ ~good
  <2>1. Fail
    BY <1>1 DEF Answers
  <2>2. events = 0 /\ hub.defect = "none" => Excuse
    <3>1. events = 0 => Alive
      BY DEF NInv, Seen, Alive
    <3> QED BY <1>1, <3>1
  <2> QED BY <2>1, <2>2, FailN
<1>2. CASE Alive /\ good
  <2>1. /\ pc' = pc + 1 /\ hub' = hub_ /\ token' = token_ /\ cursor' = cursor_
        /\ answered' = answered \cup {hub.life}
        /\ UNCHANGED <<launcher, files, marker, receipt, events, failure, check, clock>>
    BY <1>2 DEF Answers
  <2>2. hub.life \in 1..(MaxEvents + 1) /\ answered \subseteq 1..(MaxEvents + 1)
    <3>1. hub.life \in 0..(MaxEvents + 1) /\ answered \subseteq 1..(MaxEvents + 1)
      BY DEF NInv, NTypes, Hubs
    <3> QED BY <1>2, <3>1, Sizes DEF Alive
  <2> QED BY <1>2, <2>1, <2>2 DEF Taken
<1> QED BY <1>1, <1>2

(* A request that only looks.                                              *)
LEMMA LooksN ==
  ASSUME NInv, NEW name, NEW good \in BOOLEAN, Looks(name, good),
         pc \notin {7, 12, LastPage + 8, LastPage + 10}, pc \notin 14..LastPage,
         events = 0 /\ hub.defect = "none" => good \/ Excuse
  PROVE  NInv' \/ /\ good /\ pc' = pc + 1 /\ UNCHANGED <<hub, marker, receipt>>
                  /\ NTypes' /\ Bearers' /\ Followed' /\ Seen' /\ NeverSpoiled'
<1>1. Running /\ Answers(good, hub, token, cursor)
  BY DEF Looks, At
<1>2. NInv' \/ (good /\ Taken(hub, token, cursor))
  BY <1>1, AnswersN
<1>3. CASE good /\ Taken(hub, token, cursor)
  <2>1. /\ pc' = pc + 1 /\ answered' \subseteq 1..(MaxEvents + 1)
        /\ UNCHANGED <<hub, token, cursor, launcher, files, marker, receipt, events, failure, check, clock>>
    BY <1>3 DEF Taken
  <2>2. marker' \in BOOLEAN /\ receipt' \in {"none", "torn", "whole"} /\ clock' \in 0..(Patience + 1)
        /\ check' \in {check, NotChecking}
    BY <2>1 DEF NInv, NTypes
  <2> QED BY <1>1, <1>3, <2>1, <2>2, GoesOnN
<1> QED BY <1>2, <1>3

(* The appended update, at the steps that do not ask for it.               *)
LEMMA AppendedN ==
  ASSUME NInv, Running, pc' = pc + 1, UNCHANGED <<marker, receipt>>, hub'.updated = hub.updated,
         pc \notin LastPage + 4..LastPage + 7
  PROVE  Appended'
  BY Ends DEF NInv, Appended

(* No step but its own lets a hub with a defect by.                        *)
LetsBy ==
  /\ pc = 2 => ~Has("another-hub")
  /\ pc = 4 => ~Has("any-bearer")
  /\ pc = 8 => ~Has("replays")
  /\ pc = 10 => ~Has("another-vehicle")
  /\ pc = 13 => ~Has("no-304")
  /\ pc = 14 => ~Has("repeats-a-page")
  /\ pc = LastPage => ~Has("endless-pages")
  /\ pc = LastPage + 2 => ~Has("loose-cursor")
  /\ pc = LastPage + 3 => ~Has("loose-range")
  /\ pc = LastPage + 6 => ~Has("loses-charge")
  /\ pc = LastPage + 7 => ~Has("no-update")
  /\ pc = LastPage + 8 => ~Has("same-bearer")
  /\ pc = LastPage + 9 => ~Has("no-grace")
  /\ pc = LastPage + 10 => ~Has("one-rotation")

LEMMA CaughtN ==
  ASSUME NInv, Running, pc' = pc + 1, hub'.defect = hub.defect, LetsBy
  PROVE  Caught'
<1>1. ASSUME NEW n \in Nat PROVE pc' > n => pc > n \/ pc = n
  BY Ends
<1>2. /\ LastPage + 2 \in Nat /\ LastPage + 3 \in Nat /\ LastPage + 6 \in Nat /\ LastPage + 7 \in Nat
      /\ LastPage + 8 \in Nat /\ LastPage + 9 \in Nat /\ LastPage + 10 \in Nat /\ LastPage \in Nat
  BY Ends
<1> QED BY <1>1, <1>2 DEF NInv, Caught, Has, LetsBy

(* The steps that only look.                                               *)
Plain ==
  /\ pc \notin {7, 12, LastPage + 8, LastPage + 10} /\ pc \notin 14..LastPage
  /\ pc \notin LastPage + 4..LastPage + 7

LEMMA LookedN ==
  ASSUME NInv, NEW name, NEW good \in BOOLEAN, Looks(name, good), Plain,
         events = 0 /\ hub.defect = "none" => good \/ Excuse, good => LetsBy
  PROVE  NInv'
<1>1. Running
  BY DEF Looks, At
<1>2. NInv' \/ /\ good /\ pc' = pc + 1 /\ UNCHANGED <<hub, marker, receipt>>
               /\ NTypes' /\ Bearers' /\ Followed' /\ Seen' /\ NeverSpoiled'
  BY LooksN DEF Plain
<1> QED BY <1>1, <1>2, AppendedN, CaughtN DEF NInv, Plain

(* What a hub without a defect answers to the bearer in use.               *)
LEMMA HeldN ==
  ASSUME NInv, hub.defect = "none"
  PROVE  /\ Vehicles(Null) = 401
         /\ pc \in 8..LastPage + 8 => Vehicles(token.held) = 200 /\ Authorised(token.held)
         /\ pc \in LastPage + 9..LastPage + 10 => Vehicles(token.held) = 200 /\ Authorised(token.held)
         /\ pc = LastPage + 11 => Vehicles(token.retried) = 200
  BY DEF NInv, Bearers, Vehicles, Authorised, Has, Null

LEMMA PublicN == ASSUME NInv, Public PROVE NInv'
<1>1. CASE Looks("discovery", ~Has("another-hub"))
  <2> DEFINE good == ~Has("another-hub")
  <2>1. good \in BOOLEAN /\ Looks("discovery", good)
    BY <1>1
  <2>2. pc = 2
    BY <1>1, Places DEF Looks, At, Running
  <2>3. good => LetsBy
    BY <2>2, Ends DEF LetsBy
  <2>4. hub.defect = "none" => good
    BY <2>2, Ends DEF Has
  <2>5. Plain
    BY <2>2, Ends DEF Plain
  <2> HIDE DEF good
  <2> QED BY <2>1, <2>3, <2>4, <2>5, LookedN
<1>2. CASE Looks("health", TRUE)
  <2> DEFINE good == TRUE
  <2>1. good \in BOOLEAN /\ Looks("health", good)
    BY <1>2
  <2>2. pc = 3
    BY <1>2, Places DEF Looks, At, Running
  <2>3. good => LetsBy
    BY <2>2, Ends DEF LetsBy
  <2>4. hub.defect = "none" => good
    BY <2>2, Ends DEF Has
  <2>5. Plain
    BY <2>2, Ends DEF Plain
  <2> HIDE DEF good
  <2> QED BY <2>1, <2>3, <2>4, <2>5, LookedN
<1>3. CASE Looks("missing-bearer", Vehicles(Null) = 401) \/ Looks("bad-bearer", Vehicles(Null) = 401)
  <2> DEFINE good == Vehicles(Null) = 401
  <2>1. good \in BOOLEAN /\ (Looks("missing-bearer", good) \/ Looks("bad-bearer", good))
    BY <1>3
  <2>2. pc \in {4, 5}
    BY <1>3, Places DEF Looks, At, Running
  <2>3. good => LetsBy
    <3>1. good => ~Has("any-bearer")
      BY DEF Vehicles, Authorised
    <3>2. LastPage \in Nat /\ LastPage > 13
      BY Ends
    <3> QED BY <2>2, <3>1, <3>2 DEF LetsBy
  <2>4. hub.defect = "none" => good
    BY <2>2, HeldN, Ends DEF Has
  <2>5. Plain
    BY <2>2, Ends DEF Plain
  <2> HIDE DEF good
  <2> QED BY <2>1, <2>3, <2>4, <2>5, LookedN
<1> QED BY <1>1, <1>2, <1>3 DEF Public

LEMMA ResourcesN == ASSUME NInv, Resources PROVE NInv'
<1>1. CASE Looks("vehicles", Vehicles(token.held) = 200) \/ Looks("current-unknown", Vehicles(token.held) = 200)
  <2> DEFINE good == Vehicles(token.held) = 200
  <2>1. good \in BOOLEAN /\ (Looks("vehicles", good) \/ Looks("current-unknown", good))
    BY <1>1
  <2>2. pc \in {9, 11}
    BY <1>1, Places DEF Looks, At, Running
  <2>3. good => LetsBy
    BY <2>2, Ends DEF LetsBy
  <2>4. hub.defect = "none" => good
    BY <2>2, HeldN, Ends DEF Has
  <2>5. Plain
    BY <2>2, Ends DEF Plain
  <2> HIDE DEF good
  <2> QED BY <2>1, <2>3, <2>4, <2>5, LookedN
<1>2. CASE Looks("current", /\ Vehicles(token.held) = 200
                             /\ ~Has("another-vehicle") /\ ~hub.updated)
  <2> DEFINE good == Vehicles(token.held) = 200 /\ ~Has("another-vehicle") /\ ~hub.updated
  <2>1. pc = 10 /\ Script[pc] = Case("current")
    BY <1>2, Places DEF Looks, At, Running
  <2>2. good => LetsBy
    BY <2>1, Ends DEF LetsBy
  <2>3. hub.defect = "none" => good \/ Excuse
    BY <2>1, HeldN, Ends DEF Has, Excuse, NInv, Appended
  <2>4. good \in BOOLEAN /\ Looks("current", good)
    BY <1>2
  <2>5. Plain
    BY <2>1, Ends DEF Plain
  <2> HIDE DEF good
  <2> QED BY <2>1, <2>2, <2>3, <2>4, <2>5, LookedN
<1> QED BY <1>1, <1>2 DEF Resources

LEMMA DriveFaultsN == ASSUME NInv, DriveFaults PROVE NInv'
<1>1. CASE Looks("drive-conditional", ~Has("no-304"))
  <2> DEFINE good == ~Has("no-304")
  <2>1. good \in BOOLEAN /\ Looks("drive-conditional", good)
    BY <1>1
  <2>2. pc = 13
    BY <1>1, Places DEF Looks, At, Running
  <2>3. good => LetsBy
    BY <2>2, Ends DEF LetsBy
  <2>4. hub.defect = "none" => good
    BY <2>2, Ends DEF Has
  <2>5. Plain
    BY <2>2, Ends DEF Plain
  <2> HIDE DEF good
  <2> QED BY <2>1, <2>3, <2>4, <2>5, LookedN
<1>2. CASE Looks("invalid_query", TRUE)
  <2> DEFINE good == TRUE
  <2>1. good \in BOOLEAN /\ Looks("invalid_query", good)
    BY <1>2
  <2>2. pc = LastPage + 1
    BY <1>2, Places DEF Looks, At, Running
  <2>3. good => LetsBy
    BY <2>2, Ends DEF LetsBy
  <2>4. hub.defect = "none" => good
    BY <2>2, Ends DEF Has
  <2>5. Plain
    BY <2>2, Ends DEF Plain
  <2> HIDE DEF good
  <2> QED BY <2>1, <2>3, <2>4, <2>5, LookedN
<1>3. CASE Looks("invalid_cursor", ~Has("loose-cursor"))
  <2> DEFINE good == ~Has("loose-cursor")
  <2>1. good \in BOOLEAN /\ Looks("invalid_cursor", good)
    BY <1>3
  <2>2. pc = LastPage + 2
    BY <1>3, Places DEF Looks, At, Running
  <2>3. good => LetsBy
    BY <2>2, Ends DEF LetsBy
  <2>4. hub.defect = "none" => good
    BY <2>2, Ends DEF Has
  <2>5. Plain
    BY <2>2, Ends DEF Plain
  <2> HIDE DEF good
  <2> QED BY <2>1, <2>3, <2>4, <2>5, LookedN
<1>4. CASE Looks("cursor-time-binding", ~Has("loose-range"))
  <2> DEFINE good == ~Has("loose-range")
  <2>1. good \in BOOLEAN /\ Looks("cursor-time-binding", good)
    BY <1>4
  <2>2. pc = LastPage + 3
    BY <1>4, Places DEF Looks, At, Running
  <2>3. good => LetsBy
    BY <2>2, Ends DEF LetsBy
  <2>4. hub.defect = "none" => good
    BY <2>2, Ends DEF Has
  <2>5. Plain
    BY <2>2, Ends DEF Plain
  <2> HIDE DEF good
  <2> QED BY <2>1, <2>3, <2>4, <2>5, LookedN
<1> QED BY <1>1, <1>2, <1>3, <1>4 DEF DriveFaults

(* An answer by which the hub or the run has another bearer or cursor.     *)
LEMMA TakenN ==
  ASSUME NInv, Running, NEW hub_ \in Hubs, NEW token_ \in [held : Nat, first : Nat, retried : Nat],
         NEW cursor_ \in 0..Drives, Taken(hub_, token_, cursor_),
         {hub_.current, hub_.grace, token_.held, token_.first, token_.retried} \subseteq 0..hub_.issued,
         hub_.life = hub.life, hub_.defect = hub.defect, hub_.updated = hub.updated,
         pc \notin LastPage + 4..LastPage + 7, LetsBy
  PROVE  NTypes' /\ Appended' /\ Caught' /\ Seen' /\ NeverSpoiled'
<1>1. /\ pc' = pc + 1 /\ hub' = hub_ /\ token' = token_ /\ cursor' = cursor_
      /\ answered' \subseteq 1..(MaxEvents + 1)
      /\ UNCHANGED <<launcher, files, marker, receipt, events, failure, check, clock>>
  BY DEF Taken
<1>2. pc' \in 0..Passed /\ pc' # 0
  BY <1>1, Ends
<1>3. NTypes'
  <2>1. Passed' = Passed /\ Len(Script)' = Len(Script)
    BY DEF Passed
  <2> QED BY <1>1, <1>2, <2>1 DEF NInv, NTypes, Failed, Hubs
<1>4. Seen'
  BY <1>1 DEF NInv, Seen
<1>5. NeverSpoiled'
  BY <1>2 DEF NeverSpoiled, Failed
<1> QED BY <1>1, <1>3, <1>4, <1>5, AppendedN, CaughtN

LEMMA PairingN == ASSUME NInv, Pairing PROVE NInv'
<1>1. CASE Looks("pairing-replay", ~Claim)
  <2> DEFINE good == ~Claim
  <2>1. good \in BOOLEAN /\ Looks("pairing-replay", good)
    BY <1>1
  <2>2. pc = 8
    BY <1>1, Places DEF Looks, At, Running
  <2>3. good => LetsBy
    BY <2>2, Ends DEF LetsBy, Claim
  <2>4. hub.defect = "none" => good
    BY <2>2, Ends DEF Claim, Has, NInv, Bearers
  <2>5. Plain
    BY <2>2, Ends DEF Plain
  <2> HIDE DEF good
  <2> QED BY <2>1, <2>3, <2>4, <2>5, LookedN
<1>2. CASE /\ At(Case("claim"))
           /\ Answers(Claim, Claimed, [token EXCEPT !.held = hub.issued + 1,
                                                    !.first = hub.issued + 1], cursor)
  <2> DEFINE held == [token EXCEPT !.held = hub.issued + 1, !.first = hub.issued + 1]
             good == Claim
  <2>1. pc = 7 /\ Running
    BY <1>2, Places DEF At, Running
  <2>2. hub.issued = 0 /\ hub.secret /\ hub \in Hubs /\ token \in [held : Nat, first : Nat, retried : Nat]
        /\ {hub.current, hub.grace, token.held, token.first, token.retried} \subseteq 0..0
    BY <2>1 DEF NInv, NTypes, Bearers
  <2>3. good /\ good \in BOOLEAN
    BY <2>2 DEF Claim
  <2>4. held = [token EXCEPT !.held = 1, !.first = 1] /\ Claimed = [hub EXCEPT !.secret = FALSE, !.issued = 1, !.current = 1]
    BY <2>2 DEF Claimed
  <2>5. held \in [held : Nat, first : Nat, retried : Nat] /\ Claimed \in Hubs
    <3>2. 1 \in 0..3 /\ 1 \in Nat
      OBVIOUS
    <3> DEFINE t == [token EXCEPT !.held = 1, !.first = 1]
    <3>4. t \in [held : Nat, first : Nat, retried : Nat]
      BY <2>2, <3>2
    <3>1. held \in [held : Nat, first : Nat, retried : Nat]
      BY <2>4, <3>4
    <3> DEFINE h == [hub EXCEPT !.secret = FALSE, !.issued = 1, !.current = 1]
    <3>3. h \in Hubs
      BY <2>2, <3>2 DEF Hubs
    <3> QED BY <2>4, <3>1, <3>3
  <2>6. /\ Claimed.current = 1 /\ Claimed.issued = 1 /\ Claimed.grace = 0 /\ Claimed.secret = FALSE
        /\ held.held = 1 /\ held.first = 1 /\ held.retried = 0
        /\ Claimed.life = hub.life /\ Claimed.defect = hub.defect /\ Claimed.updated = hub.updated
    BY <2>2, <2>4 DEF Hubs
  <2>7. {Claimed.current, Claimed.grace, held.held, held.first, held.retried} \subseteq 0..Claimed.issued
    BY <2>6
  <2>8. Answers(good, Claimed, held, cursor)
    BY <1>2
  <2> HIDE DEF good, held
  <2>9. NInv' \/ Taken(Claimed, held, cursor)
    BY <2>1, <2>3, <2>8, AnswersN
  <2>10. CASE Taken(Claimed, held, cursor)
    <3>1. LetsBy
      BY <2>1, Ends DEF LetsBy
    <3>2. NTypes' /\ Appended' /\ Caught' /\ Seen' /\ NeverSpoiled'
      <4>1. pc \notin LastPage + 4..LastPage + 7 /\ cursor \in 0..Drives
        BY <2>1, Ends DEF NInv, NTypes
      <4> QED BY <2>1, <2>5, <2>6, <2>7, <2>10, <3>1, <4>1, TakenN
    <3>3. pc' = 8 /\ hub' = Claimed /\ token' = held /\ cursor' = cursor
      BY <2>1, <2>10 DEF Taken
    <3>4. Bearers' /\ Followed'
      BY <2>1, <2>6, <3>3, Ends DEF NInv, Bearers, Followed, Null
    <3> QED BY <3>2, <3>4 DEF NInv
  <2> QED BY <2>9, <2>10
<1> QED BY <1>1, <1>2 DEF Pairing

(* One page is behind the other, and the last is that of the last drive.   *)
LEMMA PageSizes ==
  /\ Pages * PageSize >= Drives
  /\ \A k \in Nat : k < Pages => k * PageSize < Drives
<1> DEFINE d == Drives + PageSize - 1
<1>1. d \in Nat /\ PageSize \in Nat /\ PageSize > 0
  BY Sizes
<1>2. /\ (d \div PageSize) * PageSize <= d
      /\ d < (d \div PageSize) * PageSize + PageSize
  <2> HIDE DEF d
  <2>1. d = PageSize * (d \div PageSize) + (d % PageSize) /\ d % PageSize \in 0..(PageSize - 1)
        /\ d \div PageSize \in Nat
    BY <1>1
  <2> QED BY <1>1, <2>1
<1>3. Pages = d \div PageSize /\ Pages \in Nat
  BY PagesMany DEF Pages
<1>4. Pages * PageSize <= Drives + PageSize - 1 /\ Drives - 1 < Pages * PageSize
  BY <1>1, <1>2, <1>3, Sizes
<1>5. ASSUME NEW k \in Nat, k < Pages PROVE k * PageSize < Drives
  <2>1. PICK j \in Nat : Pages = k + 1 + j
    <3>1. Pages - k - 1 \in Nat /\ Pages = k + 1 + (Pages - k - 1)
      BY <1>3, <1>5
    <3> QED BY <3>1
  <2>2. Pages * PageSize = k * PageSize + PageSize + j * PageSize /\ j * PageSize >= 0
    BY <1>1, <2>1
  <2> QED BY <1>1, <1>4, <2>2, Sizes
<1> QED BY <1>1, <1>3, <1>4, <1>5, Sizes

(* A page is read in order, from the cursor behind the page before.        *)
LEMMA DrivePageN == ASSUME NInv, DrivePage PROVE NInv'
<1>1. PICK k \in 1..Pages : At(Page(k)) /\
         Answers(InOrder(Listed(cursor), k) /\ (k = Pages => Listed(cursor).cursor = Null),
                 hub, token, Listed(cursor).cursor)
  BY DEF DrivePage
<1> DEFINE good == InOrder(Listed(cursor), k) /\ (k = Pages => Listed(cursor).cursor = Null)
           behind == Listed(cursor).cursor
<1>2. /\ k \in Nat /\ Pages \in Nat /\ Pages > 1 /\ k >= 1 /\ k <= Pages
      /\ pc = IF k = 1 THEN 12 ELSE 12 + k
      /\ Running /\ pc \in 1..Len(Script)
  BY <1>1, PagesMany, Places DEF At, Running
<1>3. cursor = (k - 1) * PageSize /\ cursor \in Nat /\ cursor \in 0..Drives
  <2>1. CASE k = 1
    <3>1. cursor = 0
      BY <1>2, <2>1, Ends DEF NInv, Followed, Null
    <3>2. (k - 1) * PageSize = 0
      BY <2>1, Sizes
    <3> QED BY <3>1, <3>2, Sizes
  <2>2. CASE k # 1
    <3>1. pc \in 14..LastPage /\ pc - 13 = k - 1
      BY <1>2, <2>2 DEF LastPage
    <3> QED BY <3>1 DEF NInv, NTypes, Followed
  <2> QED BY <2>1, <2>2
<1>4. /\ (k - 1) * PageSize + PageSize = k * PageSize /\ k * PageSize \in Nat
      /\ k < Pages => k * PageSize < Drives
      /\ k = Pages => k * PageSize >= Drives
      /\ k = 1 => cursor = 0
      /\ k > 1 => cursor > 0
  BY <1>2, <1>3, Sizes, PageSizes
<1>5. /\ Expected(k).first = cursor + 1
      /\ Expected(k).last = IF k < Pages THEN k * PageSize ELSE Drives
  BY <1>2, <1>3, <1>4, Sizes DEF Expected
<1>6. /\ Listed(cursor).first = Rest(cursor) + 1
      /\ behind = IF Until(cursor) = Drives /\ ~Has("endless-pages") THEN Null ELSE Until(cursor)
  BY DEF Listed
<1>7. ~Has("repeats-a-page") \/ k = 1 =>
        /\ Rest(cursor) = cursor
        /\ Until(cursor) = IF k < Pages THEN k * PageSize ELSE Drives
        /\ behind = IF k < Pages THEN k * PageSize
                    ELSE IF Has("endless-pages") THEN Drives ELSE Null
  <2> SUFFICES ASSUME ~Has("repeats-a-page") \/ k = 1
               PROVE  /\ Rest(cursor) = cursor
                      /\ Until(cursor) = IF k < Pages THEN k * PageSize ELSE Drives
                      /\ behind = IF k < Pages THEN k * PageSize
                                  ELSE IF Has("endless-pages") THEN Drives ELSE Null
    OBVIOUS
  <2>1. Rest(cursor) = cursor
    BY <1>3, <1>4 DEF Rest
  <2>2. cursor + PageSize = k * PageSize
    BY <1>3, <1>4
  <2> HIDE DEF behind
  <2>3. Until(cursor) = IF k < Pages THEN k * PageSize ELSE Drives
    <3>1. Until(cursor) = IF k * PageSize < Drives THEN k * PageSize ELSE Drives
      BY <2>1, <2>2 DEF Until
    <3>2. k < Pages <=> k * PageSize < Drives
      BY <1>2, <1>4, Sizes
    <3> QED BY <3>1, <3>2
  <2> QED BY <1>2, <1>4, <1>6, <2>1, <2>3
<1>8. good /\ k > 1 => ~Has("repeats-a-page")
  <2> SUFFICES ASSUME good, k > 1, Has("repeats-a-page") PROVE FALSE
    OBVIOUS
  <2>1. Rest(cursor) = cursor - 1 /\ Rest(cursor) + 1 = cursor
    BY <1>3, <1>4 DEF Rest
  <2>2. Rest(cursor) + 1 = cursor + 1
    BY <1>5, <1>6 DEF InOrder
  <2> QED BY <1>3, <2>1, <2>2
<1>9. hub.defect = "none" => good
  <2> SUFFICES ASSUME hub.defect = "none" PROVE good
    OBVIOUS
  <2>1. ~Has("repeats-a-page") /\ ~Has("endless-pages")
    BY DEF Has
  <2>2. Listed(cursor).last = Until(cursor)
    BY DEF Listed
  <2> QED BY <1>2, <1>5, <1>6, <1>7, <2>1, <2>2 DEF InOrder
<1>10. good /\ k = Pages => ~Has("endless-pages")
  BY <1>2, <1>7, <1>8, Sizes DEF Null
<1>11. good => behind \in 0..Drives /\ (k < Pages => behind = k * PageSize)
  <2> HIDE DEF behind
  <2> QED BY <1>2, <1>4, <1>7, <1>8, Sizes DEF Null
<1>12. good \in BOOLEAN /\ Answers(good, hub, token, behind)
  BY <1>1
<1> HIDE DEF good, behind
<1>13. NInv' \/ (good /\ Taken(hub, token, behind))
  BY <1>2, <1>9, <1>12, AnswersN
<1>14. CASE good /\ Taken(hub, token, behind)
  <2>1. LetsBy
    BY <1>2, <1>8, <1>10, <1>14, Ends DEF LetsBy, LastPage
  <2>2. NTypes' /\ Appended' /\ Caught' /\ Seen' /\ NeverSpoiled'
    <3>1. pc \notin LastPage + 4..LastPage + 7
      BY <1>2, Ends DEF LastPage
    <3>2. /\ hub \in Hubs /\ token \in [held : Nat, first : Nat, retried : Nat]
          /\ {hub.current, hub.grace, token.held, token.first, token.retried} \subseteq 0..hub.issued
      BY DEF NInv, NTypes
    <3> QED BY <1>2, <1>11, <1>14, <2>1, <3>1, <3>2, TakenN
  <2>3. pc' = pc + 1 /\ hub' = hub /\ token' = token /\ cursor' = behind
    BY <1>14 DEF Taken
  <2>4. pc' \in 8..LastPage + 8 /\ pc \in 8..LastPage + 8
    BY <1>2, <2>3, Ends DEF LastPage
  <2>5. Bearers'
    BY <2>3, <2>4, Ends DEF NInv, Bearers
  <2>6. Followed'
    <3>1. CASE k = Pages
      <4>1. pc' = LastPage + 1
        BY <1>2, <2>3, <3>1 DEF LastPage
      <4> QED BY <4>1, Ends DEF Followed
    <3>2. CASE k < Pages
      <4>1. cursor' = k * PageSize
        BY <1>11, <1>14, <2>3, <3>2
      <4>2. CASE k = 1
        <5>1. pc' = 13 /\ k * PageSize = PageSize
          BY <1>2, <2>3, <4>2, Sizes
        <5> QED BY <4>1, <5>1 DEF Followed
      <4>3. CASE k > 1
        <5>1. pc' - 13 = k /\ pc' > 13
          BY <1>2, <2>3, <4>3
        <5> QED BY <4>1, <5>1 DEF Followed
      <4> QED BY <1>2, <4>2, <4>3
    <3> QED BY <1>2, <3>1, <3>2
  <2> QED BY <2>2, <2>5, <2>6 DEF NInv
<1> QED BY <1>13, <1>14

(* A rotation: the bearer that rotated is the grace bearer, and, unless    *)
(* the hub answers it again, the next one is in use.                       *)
LEMMA RotatedN ==
  ASSUME NInv, pc \in LastPage + 8..LastPage + 10
  PROVE  LET next == Rotated(token.held) IN
         /\ next.grace = token.held /\ next.issued = hub.issued + 1 /\ next.secret = hub.secret
         /\ next.life = hub.life /\ next.defect = hub.defect /\ next.updated = hub.updated
         /\ next.current = IF Has("same-bearer") THEN token.held ELSE hub.issued + 1
         /\ hub.issued \in Nat /\ hub.issued + 1 \in 0..3 /\ next \in Hubs
         /\ token.held \in 0..hub.issued /\ next.current \in 0..next.issued
<1> DEFINE next == Rotated(token.held)
<1>1. /\ hub \in Hubs /\ token \in [held : Nat, first : Nat, retried : Nat]
      /\ token.held \in 0..hub.issued
  BY DEF NInv, NTypes
<1>2. hub.issued \in Nat /\ hub.issued + 1 \in 0..3 /\ hub.issued + 1 \in Nat /\ token.held \in Nat
  BY <1>1, Ends DEF NInv, Bearers
<1> DEFINE n == hub.issued + 1
           used == IF Has("same-bearer") THEN token.held ELSE n
<1>3. next = [hub EXCEPT !.issued = n, !.grace = token.held, !.current = used]
  BY DEF Rotated
<1>4. used \in Nat /\ used \in 0..n
  BY <1>1, <1>2
<1>5. /\ next.grace = token.held /\ next.issued = n /\ next.current = used /\ next.secret = hub.secret
      /\ next.life = hub.life /\ next.defect = hub.defect /\ next.updated = hub.updated
  <2> HIDE DEF n, used, next
  <2> QED BY <1>1, <1>3 DEF Hubs
<1>6. next \in Hubs
  <2>1. n \in 0..3
    BY <1>2
  <2> HIDE DEF n, used, next
  <2> QED BY <1>1, <1>2, <1>3, <1>4, <2>1 DEF Hubs
<1> QED BY <1>1, <1>2, <1>4, <1>5, <1>6

LEMMA RotationN == ASSUME NInv, Rotation PROVE NInv'
<1>1. CASE Looks("later-current", Later)
  <2> DEFINE good == Later
  <2>1. good \in BOOLEAN /\ Looks("later-current", good)
    BY <1>1 DEF Later
  <2>2. pc = LastPage + 7 /\ Running
    BY <1>1, Places DEF Looks, At, Running
  <2>3. good => LetsBy /\ hub.updated
    BY <2>2, Ends DEF LetsBy, Later
  <2>4. hub.defect = "none" => good
    BY <2>2, HeldN, Ends DEF Later, Has, NInv, Appended
  <2> HIDE DEF good
  <2>5. NInv' \/ /\ good /\ pc' = pc + 1 /\ UNCHANGED <<hub, marker, receipt>>
                 /\ NTypes' /\ Bearers' /\ Followed' /\ Seen' /\ NeverSpoiled'
    BY <2>1, <2>2, <2>4, LooksN, Ends
  <2>6. CASE /\ good /\ pc' = pc + 1 /\ UNCHANGED <<hub, marker, receipt>>
             /\ NTypes' /\ Bearers' /\ Followed' /\ Seen' /\ NeverSpoiled'
    <3>1. Appended'
      BY <2>2, <2>3, <2>6, Ends DEF NInv, Appended
    <3> QED BY <2>2, <2>3, <2>6, <3>1, CaughtN DEF NInv
  <2> QED BY <2>5, <2>6
<1>2. CASE /\ At(Case("rotate"))
           /\ Answers(Rotates(token.held) /\ Rotated(token.held).current # token.held,
                      Rotated(token.held),
                      token, cursor)
  <2> DEFINE good == Rotates(token.held) /\ Rotated(token.held).current # token.held
             tokens == token
             next == Rotated(token.held)
  <2>1. pc = LastPage + 8 /\ Running
    BY <1>2, Places DEF At, Running
  <2>2. good \in BOOLEAN /\ Answers(good, next, tokens, cursor)
    BY <1>2 DEF Rotates
  <2>3. good => LetsBy
    BY <2>1, Ends, RotatedN DEF LetsBy, Rotates
  <2>4. hub.defect = "none" => good
    <3>1. hub.defect = "none" => Authorised(token.held) /\ ~Has("same-bearer") /\ ~Has("one-rotation")
      BY <2>1, HeldN, Ends DEF Has
    <3>2. ~Has("same-bearer") => next.current # token.held
      <4>1. ~Has("same-bearer") => next.current = hub.issued + 1 /\ token.held \in 0..hub.issued /\ hub.issued \in Nat
        BY <2>1, RotatedN, Ends
      <4> HIDE DEF next
      <4> QED BY <4>1
    <3> QED BY <3>1, <3>2 DEF Rotates
  <2>5. /\ next.grace = token.held /\ next.issued = hub.issued + 1 /\ next.secret = hub.secret
        /\ next.life = hub.life /\ next.defect = hub.defect /\ next.updated = hub.updated
        /\ hub.issued \in Nat /\ next \in Hubs
        /\ token.held \in 0..hub.issued /\ next.current \in 0..next.issued
        /\ next.current = IF Has("same-bearer") THEN token.held ELSE hub.issued + 1
    BY <2>1, RotatedN, Ends
  <2>6. good => next.current # token.held
    OBVIOUS
  <2> HIDE DEF good, next
  <2>7. NInv' \/ (good /\ Taken(next, tokens, cursor))
    BY <2>1, <2>2, <2>4, AnswersN
  <2>8. CASE good /\ Taken(next, tokens, cursor)
    <3>1. /\ token \in [held : Nat, first : Nat, retried : Nat] /\ cursor \in 0..Drives
          /\ {token.held, token.first, token.retried} \subseteq 0..hub.issued
      BY DEF NInv, NTypes
    <3>2. next.current \in Nat
      BY <2>5
    <3>3. tokens \in [held : Nat, first : Nat, retried : Nat] /\ tokens.held = token.held
          /\ tokens.first = token.first /\ tokens.retried \in {token.retried, next.current}
      BY <3>1, <3>2
    <3>4. {next.current, next.grace, tokens.held, tokens.first, tokens.retried} \subseteq 0..next.issued
      <4>1. 0..hub.issued \subseteq 0..next.issued
        BY <2>5
      <4> HIDE DEF tokens
      <4> QED BY <2>5, <3>1, <3>3, <4>1
    <3>5. NTypes' /\ Appended' /\ Caught' /\ Seen' /\ NeverSpoiled'
      <4>1. pc \notin LastPage + 4..LastPage + 7
        BY <2>1, Ends
      <4> HIDE DEF tokens
      <4> QED BY <2>1, <2>3, <2>5, <2>8, <3>1, <3>3, <3>4, <4>1, TakenN
    <3>6. pc' = pc + 1 /\ hub' = next /\ token' = tokens
      BY <2>8 DEF Taken
    <3>7. hub.issued = 1 /\ ~hub.secret /\ token.held # Null
      BY <2>1, Ends DEF NInv, Bearers
    <3>8. Bearers' /\ Followed'
      BY <2>1, <2>5, <2>6, <2>8, <3>3, <3>6, <3>7, Ends DEF Bearers, Followed
    <3> QED BY <3>5, <3>8 DEF NInv
  <2> QED BY <2>7, <2>8
<1>3. CASE Looks("grace-valid", Vehicles(token.held) = 200)
  <2> DEFINE good == Vehicles(token.held) = 200
  <2>1. good \in BOOLEAN /\ Looks("grace-valid", good)
    BY <1>3
  <2>2. pc = LastPage + 9
    BY <1>3, Places DEF Looks, At, Running
  <2>3. good => LetsBy
    BY <2>2, Ends DEF LetsBy, NInv, Bearers, Caught, Vehicles, Authorised
  <2>4. hub.defect = "none" => good
    BY <2>2, HeldN, Ends
  <2>5. Plain
    BY <2>2, Ends DEF Plain
  <2> HIDE DEF good
  <2> QED BY <2>1, <2>3, <2>4, <2>5, LookedN
<1>4. CASE /\ At(Case("rotation-retry"))
           /\ Answers(Rotates(token.held) /\ Rotated(token.held).current # token.held,
                      Rotated(token.held),
                      [token EXCEPT !.retried = Rotated(token.held).current], cursor)
  <2> DEFINE good == Rotates(token.held) /\ Rotated(token.held).current # token.held
             tokens == [token EXCEPT !.retried = Rotated(token.held).current]
             next == Rotated(token.held)
  <2>1. pc = LastPage + 10 /\ Running
    BY <1>4, Places DEF At, Running
  <2>2. good \in BOOLEAN /\ Answers(good, next, tokens, cursor)
    BY <1>4 DEF Rotates
  <2>3. good => LetsBy
    BY <2>1, Ends, RotatedN DEF LetsBy, Rotates, NInv, Bearers
  <2>4. hub.defect = "none" => good
    <3>1. hub.defect = "none" => Authorised(token.held) /\ ~Has("same-bearer") /\ ~Has("one-rotation")
      BY <2>1, HeldN, Ends DEF Has
    <3>2. ~Has("same-bearer") => next.current # token.held
      <4>1. ~Has("same-bearer") => next.current = hub.issued + 1 /\ token.held \in 0..hub.issued /\ hub.issued \in Nat
        BY <2>1, RotatedN, Ends
      <4> HIDE DEF next
      <4> QED BY <4>1
    <3> QED BY <3>1, <3>2 DEF Rotates
  <2>5. /\ next.grace = token.held /\ next.issued = hub.issued + 1 /\ next.secret = hub.secret
        /\ next.life = hub.life /\ next.defect = hub.defect /\ next.updated = hub.updated
        /\ hub.issued \in Nat /\ next \in Hubs
        /\ token.held \in 0..hub.issued /\ next.current \in 0..next.issued
        /\ next.current = IF Has("same-bearer") THEN token.held ELSE hub.issued + 1
    BY <2>1, RotatedN, Ends
  <2>6. good => next.current # token.held
    OBVIOUS
  <2> HIDE DEF good, next
  <2>7. NInv' \/ (good /\ Taken(next, tokens, cursor))
    BY <2>1, <2>2, <2>4, AnswersN
  <2>8. CASE good /\ Taken(next, tokens, cursor)
    <3>1. /\ token \in [held : Nat, first : Nat, retried : Nat] /\ cursor \in 0..Drives
          /\ {token.held, token.first, token.retried} \subseteq 0..hub.issued
      BY DEF NInv, NTypes
    <3>2. next.current \in Nat
      BY <2>5
    <3>3. tokens \in [held : Nat, first : Nat, retried : Nat] /\ tokens.held = token.held
          /\ tokens.first = token.first /\ tokens.retried \in {token.retried, next.current}
      BY <3>1, <3>2 DEF next
    <3>4. {next.current, next.grace, tokens.held, tokens.first, tokens.retried} \subseteq 0..next.issued
      <4>1. 0..hub.issued \subseteq 0..next.issued
        BY <2>5
      <4> HIDE DEF tokens
      <4> QED BY <2>5, <3>1, <3>3, <4>1
    <3>5. NTypes' /\ Appended' /\ Caught' /\ Seen' /\ NeverSpoiled'
      <4>1. pc \notin LastPage + 4..LastPage + 7
        BY <2>1, Ends
      <4> HIDE DEF tokens
      <4> QED BY <2>1, <2>3, <2>5, <2>8, <3>1, <3>3, <3>4, <4>1, TakenN
    <3>6. pc' = pc + 1 /\ hub' = next /\ token' = tokens
      BY <2>8 DEF Taken
    <3>7. ~Has("same-bearer") /\ hub.issued = 2 /\ next.current = 3
      <4>1. ~Has("same-bearer")
        BY <2>1, Ends DEF NInv, Caught
      <4>2. hub.issued = 2
        BY <2>1, Ends DEF NInv, Bearers
      <4> QED BY <2>5, <4>1, <4>2
    <3>8. tokens.retried = next.current
      BY <3>1 DEF next
    <3>9. Bearers' /\ Followed'
      BY <2>1, <3>6, <3>7, <3>8, Ends DEF Bearers, Followed, Null
    <3> QED BY <3>5, <3>9 DEF NInv
  <2> QED BY <2>7, <2>8
<1>5. CASE Looks("rotated-valid", Vehicles(token.retried) = 200)
  <2> DEFINE good == Vehicles(token.retried) = 200
  <2>1. good \in BOOLEAN /\ Looks("rotated-valid", good)
    BY <1>5
  <2>2. pc = LastPage + 11
    BY <1>5, Places DEF Looks, At, Running
  <2>3. good => LetsBy
    BY <2>2, Ends DEF LetsBy
  <2>4. hub.defect = "none" => good
    BY <2>2, HeldN, Ends
  <2>5. Plain
    BY <2>2, Ends DEF Plain
  <2> HIDE DEF good
  <2> QED BY <2>1, <2>3, <2>4, <2>5, LookedN
<1> QED BY <1>1, <1>2, <1>3, <1>4, <1>5 DEF Rotation

(* The update.                                                             *)
LEMMA UpdateN == ASSUME NInv, Mark \/ Poll \/ ReadReceipt PROVE NInv'
<1>1. CASE Mark
  <2>1. pc = LastPage + 4 /\ Running /\ Script[pc] = Case("marker")
    BY <1>1, Places DEF Mark, At, Running
  <2>2. CASE marker
    BY <1>1, <2>1, <2>2, FailN DEF Mark, Excuse
  <2>3. CASE ~marker
    <3>1. /\ marker' = TRUE /\ pc' = pc + 1 /\ clock' = 0
          /\ UNCHANGED <<hub, launcher, files, receipt, events, failure, check, token, cursor, answered>>
      BY <1>1, <2>3 DEF Mark
    <3>2. receipt' \in {"none", "torn", "whole"} /\ 0 \in 0..(Patience + 1)
          /\ answered' \subseteq 1..(MaxEvents + 1)
      BY <3>1, Sizes DEF NInv, NTypes
    <3>3. NTypes' /\ Bearers' /\ Followed' /\ Seen' /\ NeverSpoiled'
      BY <2>1, <3>1, <3>2, GoesOnN, Ends
    <3>4. Appended'
      BY <2>1, <2>3, <3>1, Ends DEF NInv, Appended
    <3>5. LetsBy
      BY <2>1, Ends DEF LetsBy
    <3> QED BY <2>1, <3>1, <3>3, <3>4, <3>5, CaughtN DEF NInv
  <2> QED BY <2>2, <2>3
<1>2. CASE Poll
  <2>1. pc = LastPage + 5 /\ Running /\ Script[pc] = Case("poll")
    BY <1>2, Places DEF Poll, At, Running
  <2>2. CASE PatienceEnds /\ Fail
    BY <2>1, <2>2, FailN DEF PatienceEnds, Excuse
  <2>3. CASE ~(PatienceEnds /\ Fail)
    <3>1. /\ receipt # "none" /\ pc' = pc + 1
          /\ UNCHANGED <<hub, launcher, files, marker, receipt, events, failure, check, token, cursor,
                         clock, answered>>
      BY <1>2, <2>3 DEF Poll, fixture_
    <3>2. /\ marker' \in BOOLEAN /\ receipt' \in {"none", "torn", "whole"}
          /\ clock' \in 0..(Patience + 1) /\ answered' \subseteq 1..(MaxEvents + 1)
      BY <3>1 DEF NInv, NTypes
    <3>3. NTypes' /\ Bearers' /\ Followed' /\ Seen' /\ NeverSpoiled'
      BY <2>1, <3>1, <3>2, GoesOnN, Ends
    <3>4. Appended'
      BY <2>1, <3>1, Ends DEF NInv, Appended
    <3>5. LetsBy
      BY <2>1, Ends DEF LetsBy
    <3> QED BY <2>1, <3>1, <3>3, <3>4, <3>5, CaughtN DEF NInv
  <2> QED BY <2>2, <2>3
<1>3. CASE ReadReceipt
  <2>1. pc = LastPage + 6 /\ Running /\ Script[pc] = Case("receipt")
    BY <1>3, Places DEF ReadReceipt, At, Running
  <2>2. CASE ~(receipt = "whole" /\ ~Has("loses-charge"))
    BY <1>3, <2>1, <2>2, FailN DEF ReadReceipt, Excuse
  <2>3. CASE receipt = "whole" /\ ~Has("loses-charge")
    <3>1. /\ pc' = pc + 1
          /\ UNCHANGED <<hub, launcher, files, marker, receipt, events, failure, check, token, cursor,
                         clock, answered>>
      BY <1>3, <2>3 DEF ReadReceipt, fixture_
    <3>2. /\ marker' \in BOOLEAN /\ receipt' \in {"none", "torn", "whole"}
          /\ clock' \in 0..(Patience + 1) /\ answered' \subseteq 1..(MaxEvents + 1)
      BY <3>1 DEF NInv, NTypes
    <3>3. NTypes' /\ Bearers' /\ Followed' /\ Seen' /\ NeverSpoiled'
      BY <2>1, <3>1, <3>2, GoesOnN, Ends
    <3>4. Appended'
      BY <2>1, <2>3, <3>1, Ends DEF NInv, Appended
    <3>5. LetsBy
      BY <2>1, <2>3, Ends DEF LetsBy
    <3> QED BY <2>1, <3>1, <3>3, <3>4, <3>5, CaughtN DEF NInv
  <2> QED BY <2>2, <2>3
<1> QED BY <1>1, <1>2, <1>3

LEMMA TickN == ASSUME NInv, Tick PROVE NInv'
<1>1. /\ clock' = clock + 1 /\ clock <= Patience /\ Running
      /\ UNCHANGED <<fixture_, pc, failure, check, token, cursor, answered>>
  BY DEF Tick, At
<1>2. NTypes'
  <2>1. clock' \in 0..(Patience + 1)
    BY <1>1, Sizes DEF NInv, NTypes
  <2>2. Passed' = Passed /\ Len(Script)' = Len(Script)
    BY DEF Passed
  <2> QED BY <1>1, <2>1, <2>2 DEF NInv, NTypes, fixture_
<1>3. NeverSpoiled'
  BY <1>1, Ends DEF NeverSpoiled
<1> QED BY <1>1, <1>2, <1>3 DEF NInv, Bearers, Followed, Appended, Caught, Has, Seen, fixture_

(* A verification: what it sees is what the descriptor names.              *)
LEMMA CheckingN ==
  ASSUME NInv, UNCHANGED <<fixture_, pc, failure, token, cursor, clock, answered>>,
         check' \in [step : Phases, hub : {Null, 1}, launcher : {Null, 1}, read : 0..(MaxEvents + 1)],
         Seen'
  PROVE  NInv'
<1>1. NTypes'
  <2>1. Passed' = Passed /\ Len(Script)' = Len(Script)
    BY DEF Passed
  <2> QED BY <2>1 DEF NInv, NTypes, fixture_
<1>2. Bearers' /\ Followed' /\ Appended' /\ Caught' /\ NeverSpoiled'
  BY DEF NInv, Bearers, Followed, Appended, Caught, Has, NeverSpoiled, fixture_
<1> QED BY <1>1, <1>2 DEF NInv

LEMMA VerifiesN == ASSUME NInv, LInv, Verifies PROVE NInv'
<1> DEFINE checks == [step : Phases, hub : {Null, 1}, launcher : {Null, 1}, read : 0..(MaxEvents + 1)]
<1>1. check \in checks /\ hub.life \in 0..(MaxEvents + 1)
  BY DEF NInv, NTypes, Hubs
<1>2. Running /\ Script[pc][1] = "verify"
  BY DEF Verifies, Verification, Identify, ReadConfig, IdentifyAgain, Checked, LInv, Identified
<1>3. CASE Verification
  <2>1. CASE Fail /\ (~files.staged \/ files.stopped)
    BY <1>2, <2>1, FailN DEF NInv, Seen
  <2>2. CASE Checked("staged", "witness") \/ Checked("witness", "hub")
    <3>1. PICK to \in {"witness", "hub"} : check' = [check EXCEPT !.step = to]
      BY <2>2 DEF Checked
    <3>2. UNCHANGED <<fixture_, pc, failure, token, cursor, clock, answered>>
      BY <2>2 DEF Checked
    <3>3. check' \in checks /\ check'.step = to
      BY <1>1, <3>1 DEF Phases
    <3>4. Seen'
      BY <3>1, <3>2, <3>3 DEF NInv, Seen, Identified, fixture_
    <3> QED BY <3>2, <3>3, <3>4, CheckingN
  <2> QED BY <1>3, <2>1, <2>2 DEF Verification
<1>4. CASE Identify
  <2> DEFINE life == IF check.step = "hub" THEN hub.life ELSE launcher
  <2>1. CASE ~Fresh(life)
    <3>1. Fail
      BY <1>4, <2>1 DEF Identify
    <3>2. events # 0
      BY <2>1 DEF NInv, Seen, Fresh
    <3> QED BY <1>2, <3>1, <3>2, FailN
  <2>2. CASE Fresh(life)
    <3>1. /\ check' = IF check.step = "hub"
                      THEN [check EXCEPT !.step = "launcher", !.hub = life]
                      ELSE [check EXCEPT !.step = "config", !.launcher = life]
          /\ check.step \in {"hub", "launcher"} /\ life = 1
          /\ UNCHANGED <<fixture_, pc, failure, token, cursor, clock, answered>>
      BY <1>4, <2>2 DEF Identify, Fresh
    <3>2. check' \in checks
      BY <1>1, <3>1 DEF Phases, Identified
    <3>3. /\ check.step = "hub" => check'.step = "launcher" /\ check'.hub = 1
          /\ check.step = "launcher" => check'.step = "config" /\ check'.hub = check.hub /\ check'.launcher = 1
      BY <1>1, <3>1
    <3>4. Seen'
      BY <3>1, <3>3 DEF NInv, Seen, Identified, fixture_
    <3> QED BY <3>1, <3>2, <3>4, CheckingN
  <2> QED BY <2>1, <2>2
<1>5. CASE ReadConfig
  <2>1. CASE ~files.config /\ Fail
    BY <1>2, <2>1, FailN DEF NInv, Seen
  <2>2. CASE ~(~files.config /\ Fail)
    <3>1. /\ check.step = "config" /\ check' = [check EXCEPT !.step = "hub-again", !.read = hub.life]
          /\ UNCHANGED <<fixture_, pc, failure, token, cursor, clock, answered>>
      BY <1>5, <2>2 DEF ReadConfig
    <3>2. check' \in checks
      BY <1>1, <3>1 DEF Phases, Identified
    <3>3. /\ check'.step = "hub-again" /\ check'.read = hub.life
          /\ check'.hub = check.hub /\ check'.launcher = check.launcher
      BY <1>1, <3>1
    <3>4. Seen'
      BY <3>1, <3>3 DEF NInv, Seen, Identified, fixture_
    <3> QED BY <3>1, <3>2, <3>4, CheckingN
  <2> QED BY <2>1, <2>2
<1>6. CASE IdentifyAgain
  <2>1. CASE SameLife(hub.life, check.hub) /\ Checked("hub-again", "launcher-again")
    <3>1. /\ check.step = "hub-again" /\ check' = [check EXCEPT !.step = "launcher-again"]
          /\ UNCHANGED <<fixture_, pc, failure, token, cursor, clock, answered>>
      BY <2>1 DEF Checked
    <3>2. check' \in checks /\ check'.step = "launcher-again" /\ check'.read = check.read
          /\ check'.hub = check.hub /\ check'.launcher = check.launcher
      BY <1>1, <3>1 DEF Phases, Identified
    <3>3. check.hub = 1 /\ hub.life = 1 /\ check.launcher = 1
      BY <2>1, <3>1 DEF NInv, Seen, Identified, SameLife
    <3>4. Seen'
      BY <3>1, <3>2, <3>3 DEF NInv, Seen, Identified, fixture_
    <3> QED BY <3>1, <3>2, <3>4, CheckingN
  <2>2. CASE Fail
    <3>1. events # 0
      <4>1. pc' = 0 /\ pc' # pc /\ pc' # pc + 1
        BY <1>2, <2>2, Ends DEF Fail
      <4>2. \/ ~SameLife(hub.life, check.hub) /\ check.step = "hub-again"
            \/ ~SameLife(launcher, check.launcher) /\ check.step = "launcher-again"
        BY <1>6, <4>1 DEF IdentifyAgain, Checked
      <4> QED BY <4>2 DEF NInv, Seen, SameLife, Identified
    <3> QED BY <1>2, <2>2, <3>1, FailN
  <2>3. CASE ~Fail /\ ~(SameLife(hub.life, check.hub) /\ Checked("hub-again", "launcher-again"))
    <3>1. /\ pc' = pc + 1 /\ check' = NotChecking
          /\ UNCHANGED <<hub, launcher, files, marker, receipt, events, failure, token, cursor, clock, answered>>
      BY <1>6, <2>3 DEF IdentifyAgain, fixture_
    <3>2. pc \in {1, 6, LastPage + 12}
      BY <1>2, Places DEF Running
    <3>3. /\ marker' \in BOOLEAN /\ receipt' \in {"none", "torn", "whole"}
          /\ clock' \in 0..(Patience + 1) /\ answered' \subseteq 1..(MaxEvents + 1)
      BY <3>1 DEF NInv, NTypes
    <3>4. NTypes' /\ Bearers' /\ Followed' /\ Seen' /\ NeverSpoiled'
      BY <1>2, <3>1, <3>2, <3>3, GoesOnN, Ends
    <3>5. LetsBy /\ pc \notin LastPage + 4..LastPage + 7
      BY <3>2, Ends DEF LetsBy
    <3> QED BY <1>2, <3>1, <3>4, <3>5, AppendedN, CaughtN DEF NInv
  <2> QED BY <1>6, <2>1, <2>2, <2>3 DEF IdentifyAgain
<1> QED BY <1>3, <1>4, <1>5, <1>6 DEF Verifies

LEMMA FixtureN == ASSUME NInv, Fixture PROVE NInv'
<1>1. UNCHANGED run_ /\ Passed' = Passed /\ Len(Script)' = Len(Script)
  BY DEF Fixture, Event, HubExits, HubRestarts, LauncherRestarts, FileChanges, Update, Receipt,
         run_, Passed
<1>2. CASE HubExits \/ HubRestarts \/ LauncherRestarts \/ FileChanges
  <2>1. /\ events < MaxEvents /\ events' = events + 1 /\ UNCHANGED <<marker, receipt>>
        /\ \/ hub' = hub
           \/ hub' = [hub EXCEPT !.life = 0]
           \/ hub' = [hub EXCEPT !.life = events + 2]
        /\ launcher' = launcher \/ launcher' = events + 2
        /\ \/ files' = files
           \/ files' \in {[files EXCEPT !.staged = FALSE], [files EXCEPT !.config = FALSE],
                          [files EXCEPT !.stopped = TRUE]}
    BY <1>2 DEF HubExits, HubRestarts, LauncherRestarts, FileChanges, Event
  <2>2. /\ hub \in Hubs /\ files \in [staged : BOOLEAN, config : BOOLEAN, stopped : BOOLEAN]
        /\ events \in 0..MaxEvents /\ launcher \in 1..(MaxEvents + 1)
    BY DEF NInv, NTypes
  <2>3. /\ events' \in 0..MaxEvents /\ events' # 0 /\ events + 2 \in 1..(MaxEvents + 1)
        /\ events + 2 \in 0..(MaxEvents + 1) /\ events + 2 # 1 /\ 0 \in 0..(MaxEvents + 1)
    BY <2>1, <2>2, Sizes
  <2> DEFINE next == events + 2
             lives == 0..(MaxEvents + 1)
  <2>4. hub' = hub \/ hub' = [hub EXCEPT !.life = 0] \/ hub' = [hub EXCEPT !.life = next]
    BY <2>1
  <2>5. next \in lives /\ next # 1 /\ 0 \in lives /\ launcher' \in 1..(MaxEvents + 1)
    BY <2>1, <2>2, <2>3
  <2>6. files' \in [staged : BOOLEAN, config : BOOLEAN, stopped : BOOLEAN]
    BY <2>1, <2>2
  <2>7. hub \in [life : lives, defect : Defects, secret : BOOLEAN, current : Nat,
                 grace : Nat, issued : 0..3, updated : BOOLEAN]
    BY <2>2 DEF Hubs
  <2> HIDE DEF next, lives
  <2>8. /\ hub' \in [life : lives, defect : Defects, secret : BOOLEAN, current : Nat,
                     grace : Nat, issued : 0..3, updated : BOOLEAN]
        /\ hub'.life = 1 => hub.life = 1
        /\ hub'.defect = hub.defect /\ hub'.secret = hub.secret /\ hub'.current = hub.current
        /\ hub'.grace = hub.grace /\ hub'.issued = hub.issued /\ hub'.updated = hub.updated
    BY <2>4, <2>5, <2>7
  <2>9. hub' \in Hubs
    BY <2>8 DEF Hubs, lives
  <2>10. NTypes'
    BY <1>1, <2>1, <2>3, <2>5, <2>6, <2>8, <2>9 DEF NInv, NTypes, run_
  <2>11. Bearers' /\ Followed'
    BY <1>1, <2>8 DEF NInv, Bearers, Followed, run_
  <2>12. Appended' /\ Caught'
    BY <1>1, <2>1, <2>8 DEF NInv, Appended, Caught, Has, run_
  <2>13. Seen' /\ NeverSpoiled'
    BY <1>1, <2>3, <2>8 DEF NInv, Seen, NeverSpoiled, run_
  <2> QED BY <2>10, <2>11, <2>12, <2>13 DEF NInv
<1>3. CASE Update
  <2>1. /\ marker /\ hub' = [hub EXCEPT !.updated = TRUE] /\ hub \in Hubs
        /\ UNCHANGED <<launcher, files, marker, receipt, events>>
    BY <1>3 DEF Update, NInv, NTypes
  <2>2. /\ hub' \in Hubs /\ hub'.updated = TRUE
        /\ hub'.life = hub.life
        /\ hub'.defect = hub.defect /\ hub'.secret = hub.secret /\ hub'.current = hub.current
        /\ hub'.grace = hub.grace /\ hub'.issued = hub.issued
    BY <2>1 DEF Hubs
  <2>3. NTypes'
    BY <1>1, <2>1, <2>2 DEF NInv, NTypes, run_
  <2>4. Bearers' /\ Followed' /\ Appended' /\ Caught'
    BY <1>1, <2>1, <2>2 DEF NInv, Bearers, Followed, Appended, Caught, Has, run_
  <2>5. Seen' /\ NeverSpoiled'
    BY <1>1, <2>1, <2>2 DEF NInv, Seen, NeverSpoiled, run_
  <2> QED BY <2>3, <2>4, <2>5 DEF NInv
<1>4. CASE Receipt
  <2>1. /\ hub.updated /\ receipt # "whole" /\ receipt' \in {"torn", "whole"}
        /\ UNCHANGED <<hub, launcher, files, marker, events>>
    BY <1>4 DEF Receipt
  <2>2. NTypes'
    BY <1>1, <2>1 DEF NInv, NTypes, run_
  <2>3. Bearers' /\ Followed' /\ Appended' /\ Caught'
    BY <1>1, <2>1 DEF NInv, Bearers, Followed, Appended, Caught, Has, run_
  <2>4. Seen' /\ NeverSpoiled'
    BY <1>1, <2>1 DEF NInv, Seen, NeverSpoiled, run_
  <2> QED BY <2>2, <2>3, <2>4 DEF NInv
<1> QED BY <1>2, <1>3, <1>4 DEF Fixture

LEMMA NextN == NInv /\ LInv /\ [NativeNext]_native_vars => NInv'
<1> SUFFICES ASSUME NInv, LInv, [NativeNext]_native_vars PROVE NInv'
  OBVIOUS
<1>1. CASE UNCHANGED native_vars
  <2>1. Passed' = Passed /\ Len(Script)' = Len(Script)
    BY DEF Passed
  <2> QED BY <1>1, <2>1 DEF native_vars, fixture_, run_, NInv, NTypes, Bearers, Followed, Appended,
                            Caught, Has, Seen, NeverSpoiled
<1> QED BY <1>1, PublicN, PairingN, ResourcesN, DrivePageN, DriveFaultsN, UpdateN, RotationN, TickN,
           VerifiesN, FixtureN DEF NativeNext, Run

(* A hub with any of the defects does not pass, a fixture that stays as it *)
(* was fails only where its session, its update or its receipt is late or  *)
(* used, and a configuration is read while the hub of the descriptor runs: *)
(* for any drives, pages, patience and changes of the fixture.             *)
THEOREM NativeAlwaysExact == NativeSpec => []NativeExact
<1>1. NInv => NativeExact
  <2> SUFFICES ASSUME NInv PROVE NativeExact
    OBVIOUS
  <2>1. NativeTypeOK
    <3>1. /\ hub.defect \in Defects /\ hub.life \in 0..(MaxEvents + 1) /\ hub.issued \in 0..3
          /\ check.hub \in {Null, 1} /\ check.launcher \in {Null, 1}
      BY DEF NInv, NTypes, Hubs
    <3>2. files \in [{"staged", "config", "stopped"} -> BOOLEAN]
      BY DEF NInv, NTypes
    <3> QED BY <3>1, <3>2 DEF NInv, NTypes, NativeTypeOK
  <2>2. PassSound
    <3> SUFFICES ASSUME pc = Passed PROVE hub.defect = "none" /\ hub.updated /\ receipt = "whole"
      BY DEF PassSound
    <3>1. hub.updated /\ receipt = "whole"
      BY Ends DEF NInv, Appended
    <3>2. hub.defect \in Defects
      BY DEF NInv, NTypes, Hubs
    <3>3. hub.defect \notin {"another-hub", "any-bearer", "replays", "another-vehicle", "repeats-a-page",
                             "endless-pages", "no-304", "loose-cursor", "loose-range", "no-update",
                             "loses-charge", "same-bearer", "no-grace", "one-rotation"}
      BY Ends DEF NInv, Caught, Has
    <3> QED BY <3>1, <3>2, <3>3, ScenarioAssumption
  <2>3. ReadInLife
    BY DEF NInv, Seen, ReadInLife
  <2> QED BY <2>1, <2>2, <2>3 DEF NInv, NativeExact
<1> QED BY <1>1, InitL, NextL, InitN, NextN, PTL DEF NativeSpec
=============================================================================
