---------------------------- MODULE HubRunsProofs ---------------------------
(***************************************************************************)
(* What runs against a hub in a process of its own.  Nothing of the        *)
(* acceptance command's group is spared, for any number of processes and   *)
(* of interrupts; an HTTPS exchange leaves nothing open and reports what   *)
(* happened, for any peer, deadline and number of parts; and the probe     *)
(* reads each drive once, for any hub, page and limit.                     *)
(***************************************************************************)
EXTENDS ActualHubBound, HttpExchange, CurrentHubProbe, FiniteSetTheorems,
        SequenceTheorems, TLAPS

-----------------------------------------------------------------------------
(* What was never started is in no group, and from the SIGKILL on every    *)
(* member of the group is doomed: no member is left to fork another.       *)
BInv ==
  /\ grouped \subseteq started
  /\ bound_pc \in {"reap", "done"} => Members \subseteq killed

LEMMA InitB == BoundInit => BInv
  BY DEF BoundInit, BInv

(* One step per disjunct of Next; the runner's steps and the processes'.   *)
LEMMA NextB == BInv /\ [BoundNext]_bound_vars => BInv'
<1> SUFFICES ASSUME BInv, [BoundNext]_bound_vars PROVE BInv'
  OBVIOUS
<1> USE DEF BInv, Members
<1>1. CASE Runner
  <2>1. CASE Returned \/ Deadline \/ GraceEnds \/ Reaped
    BY <2>1 DEF Returned, Deadline, GraceEnds, Reaped, Goto, processes
  <2>2. CASE SendTerm
    BY <2>2 DEF SendTerm, Goto
  <2>3. CASE SendKill
    BY <2>3 DEF SendKill, Goto, Targets
  <2> QED BY <1>1, <2>1, <2>2, <2>3 DEF Runner
<1>2. CASE Interrupt
  BY <1>2 DEF Interrupt, AfterInterrupt, processes
<1>3. ASSUME NEW p \in Procs, Leave(p) PROVE BInv'
  BY <1>3 DEF Leave, control
<1>4. ASSUME NEW p \in Procs, Exit(p) PROVE BInv'
  BY <1>4 DEF Exit, control
<1>5. ASSUME NEW p \in Procs, NEW q \in Descendants, Fork(p, q) PROVE BInv'
  BY <1>5 DEF Fork, control
<1>6. CASE UNCHANGED bound_vars
  BY <1>6 DEF bound_vars, processes, control
<1> QED BY <1>1, <1>2, <1>3, <1>4, <1>5, <1>6 DEF BoundNext, Processes, Die

(* However run_actual_hub ends, the deadline, an interrupt or the command  *)
(* itself, every process still in the command's group has a SIGKILL        *)
(* pending.                                                                *)
THEOREM NoneSpared == BoundSpec => []NothingSpared
<1>1. BInv => NothingSpared
  BY DEF BInv, NothingSpared
<1> QED BY <1>1, InitB, NextB, PTL DEF BoundSpec

-----------------------------------------------------------------------------
(* One exchange.  The stages in which the socket is not yet, and is, that  *)
(* of a connection whose peer is the installed one.                        *)
Early == {"construct", "tcp", "connecting", "wrap", "handshake", "pin"}
Pinned == {"send", "sent", "head", "started", "body", "read", "judge"}

XTypes ==
  /\ ExchangeTypeOK
  /\ stage \in Waits => waitEnd = Total /\ elapsed <= Total

(* No other address is held, and of the one in hand only what its stage    *)
(* knows of.                                                               *)
Held ==
  /\ \A a \in 1..Addresses : a # at => holders[a] = {}
  /\ stage \in {"construct", "tcp", "judge", "done"} => holders[at] = {}
  /\ stage \in {"connecting", "wrap", "handshake"} => holders[at] \subseteq {"local"}
  /\ stage \in {"pin"} \cup Pinned => holders[at] \subseteq {"connection", "response"}

(* What was sent, and to whom.                                             *)
Said ==
  /\ stage \in {"wrap", "handshake", "pin"} \cup Pinned => peer.address[at] = "listens"
  /\ stage \in Pinned => peer.leaf = "installed"
  /\ done.sent > 0 => peer.leaf = "installed" /\ peer.address[at] = "listens"
  /\ stage \in Early => done.sent = 0
  /\ stage \in Pinned \ {"send"} => done.sent = SendParts

(* How many requests were counted, and how many stand in the transcript.   *)
Others == {e \in transcript : e.exchange # exchanges}
Counted ==
  /\ IsFiniteSet(transcript)
  /\ \A e \in transcript : e.exchange \in 0..exchanges
  /\ stage # "done" => \A e \in transcript : e.exchange # exchanges
  /\ stage \in Early => request_count < exchanges
  /\ request_count <= exchanges
  /\ Cardinality(transcript) <= request_count
  /\ stage \in Pinned => Cardinality(transcript) < request_count
  /\ done.sent > 0 => Cardinality(Others) < request_count

(* What was heard of an answer, and what is reported of it.                *)
Judged ==
  /\ response_started <=> Answered
  /\ stage \in Early \cup {"send", "sent", "head"} => ~Answered
  /\ stage # "done" => outcome = "none"
  /\ UnavailableUnanswered
  /\ outcome = "returned" =>
       /\ elapsed < Total /\ done.sent = SendParts /\ done.head = "whole"
       /\ peer.expects = "document" => done.body = BodyParts
       /\ Entry \in transcript

XInv == XTypes /\ Held /\ Said /\ Counted /\ Judged

LEMMA Numbers ==
  /\ Addresses \in {1, 2} /\ Total \in Nat /\ Total > 0 /\ Late \in Nat /\ Late > Total
  /\ HandshakeParts \in Nat /\ HandshakeParts > 0 /\ SendParts \in Nat /\ SendParts > 0
  /\ BodyParts \in Nat /\ BodyParts > 0 /\ MaxExchanges \in Nat /\ MaxExchanges > 0
  BY ExchangeAssumption

LEMMA InitX == ExchangeInit => XInv
<1> SUFFICES ASSUME ExchangeInit PROVE XInv
  OBVIOUS
<1> USE DEF ExchangeInit
<1>1. XTypes
  <2>1. holders \in [1..Addresses -> SUBSET {"local", "connection", "response"}] /\ at \in 1..Addresses
    BY Numbers
  <2>2. done \in [shaken : 0..HandshakeParts, sent : 0..SendParts,
                  head : {"none", "status", "cut", "whole"}, body : 0..BodyParts]
    BY Numbers DEF NothingDone
  <2>3. /\ stage = "construct" /\ elapsed \in 0..Late /\ waitEnd \in 0..Total /\ peer \in Peers
        /\ response_started \in BOOLEAN /\ outcome = "none"
        /\ request_count \in 0..MaxExchanges /\ exchanges \in 0..MaxExchanges
    <3>1. stage = "construct" /\ peer \in Peers /\ response_started \in BOOLEAN /\ outcome = "none"
      OBVIOUS
    <3>2. elapsed = 0 /\ waitEnd = 0 /\ request_count = 0 /\ exchanges = 1
      OBVIOUS
    <3> HIDE DEF ExchangeInit
    <3> QED BY <3>1, <3>2, Numbers
  <2>4. stage \notin Waits
    BY <2>3 DEF Waits
  <2> HIDE DEF ExchangeInit
  <2> QED BY <2>1, <2>2, <2>3, <2>4 DEF XTypes, ExchangeTypeOK
<1>2. Held
  BY ExchangeAssumption DEF Held, Pinned
<1>3. Said
  BY DEF Said, Pinned, NothingDone
<1>4. Counted
  BY FS_EmptySet DEF Counted, Early, Pinned, NothingDone
<1>5. Judged
  BY DEF Judged, Answered, NothingDone, UnavailableUnanswered
<1> QED BY <1>1, <1>2, <1>3, <1>4, <1>5 DEF XInv

(* The three ways in which an exchange that fails is left.                 *)
LEMMA EndX ==
  ASSUME XInv, NEW as, End(as), stage \in {"construct", "pin"} \cup Pinned, stage # "judge",
         as \in {"refused", "unlabelled", "unavailable"}, as = "unavailable" => ~Answered
  PROVE  XInv'
<1>1. /\ stage' = "done" /\ waitEnd' = waitEnd /\ outcome' = as /\ holders' = Finally
      /\ UNCHANGED <<elapsed, peer, at, done, response_started, request_count, transcript, exchanges>>
  BY DEF End, Proceed, client_
<1>2. XTypes'
  BY <1>1 DEF XInv, XTypes, ExchangeTypeOK, Finally, Waits
<1>3. Held'
  BY <1>1 DEF XInv, XTypes, ExchangeTypeOK, Held, Finally, Pinned
<1>4. Said'
  BY <1>1 DEF XInv, Said, Pinned, Early
<1>5. Counted'
  BY <1>1 DEF XInv, Counted, Pinned, Early, Others
<1>6. Judged'
  BY <1>1 DEF XInv, Judged, UnavailableUnanswered, Answered, Pinned, Early
<1> QED BY <1>2, <1>3, <1>4, <1>5, <1>6 DEF XInv

LEMMA EndUnwrappedX ==
  ASSUME XInv, NEW as, EndUnwrapped(as), stage \in {"tcp", "connecting", "wrap", "handshake"},
         as \in {"refused", "unavailable"}
  PROVE  XInv'
<1>1. /\ stage' = "done" /\ waitEnd' = waitEnd /\ outcome' = as
      /\ holders' = [holders EXCEPT ![at] = @ \ {"local"}]
      /\ UNCHANGED <<elapsed, peer, at, done, response_started, request_count, transcript, exchanges>>
  BY DEF EndUnwrapped, Proceed, client_
<1>2. XTypes'
  BY <1>1 DEF XInv, XTypes, ExchangeTypeOK, Waits
<1>3. Held'
  BY <1>1 DEF XInv, XTypes, ExchangeTypeOK, Held, Pinned
<1>4. Said'
  BY <1>1 DEF XInv, Said, Pinned, Early
<1>5. Counted'
  BY <1>1 DEF XInv, Counted, Pinned, Early, Others
<1>6. Judged'
  BY <1>1 DEF XInv, Judged, UnavailableUnanswered, Answered, Pinned, Early
<1> QED BY <1>2, <1>3, <1>4, <1>5, <1>6 DEF XInv

LEMMA NextAddressX ==
  ASSUME XInv, NextAddress, stage \in {"tcp", "connecting"}
  PROVE  XInv'
<1>1. CASE at = Addresses
  BY <1>1, EndUnwrappedX DEF NextAddress
<1>2. CASE at # Addresses
  <2>1. /\ stage' = "tcp" /\ waitEnd' = waitEnd /\ at' = at + 1 /\ holders' = [holders EXCEPT ![at] = {}]
        /\ UNCHANGED <<elapsed, peer, done, response_started, outcome, request_count, transcript, exchanges>>
    BY <1>2 DEF NextAddress, Proceed, client_
  <2>2. XTypes'
    BY <1>2, <2>1, Numbers DEF XInv, XTypes, ExchangeTypeOK, Waits
  <2>3. Held'
    BY <1>2, <2>1, Numbers DEF XInv, XTypes, ExchangeTypeOK, Held, Pinned
  <2>4. Said'
    BY <2>1 DEF XInv, XTypes, ExchangeTypeOK, Said, Pinned, Early
  <2>5. Counted'
    BY <2>1 DEF XInv, Counted, Pinned, Early, Others
  <2>6. Judged'
    BY <2>1 DEF XInv, Judged, UnavailableUnanswered, Answered, Pinned, Early
  <2> QED BY <2>2, <2>3, <2>4, <2>5, <2>6 DEF XInv
<1> QED BY <1>1, <1>2

(* The steps of the client, its peer and the clock.                        *)
LEMMA RunExchangeX == ASSUME XInv, RunExchange PROVE XInv'
<1> USE DEF Proceed, client_
<1>1. CASE Construct
  <2>1. CASE Expired
    BY <1>1, <2>1, EndX DEF Construct
  <2>2. CASE ~Expired
    <3>1. /\ stage = "construct" /\ stage' = "tcp" /\ waitEnd' = waitEnd
          /\ UNCHANGED <<elapsed, exchange_, client_>>
      BY <1>1, <2>2 DEF Construct
    <3> QED BY <3>1 DEF exchange_, XInv, XTypes, ExchangeTypeOK, Waits, Held, Said, Counted, Judged,
                        Early, Pinned, Others, Answered, UnavailableUnanswered, Entry
  <2> QED BY <2>1, <2>2
<1>2. CASE OpenTcp
  <2>1. CASE Expired
    BY <1>2, <2>1, NextAddressX DEF OpenTcp
  <2>2. CASE ~Expired
    <3>1. /\ stage = "tcp" /\ stage' = "connecting" /\ waitEnd' = WaitUntil
          /\ holders' = [holders EXCEPT ![at] = {"local"}]
          /\ UNCHANGED <<elapsed, peer, at, done, response_started, outcome, client_>>
      BY <1>2, <2>2 DEF OpenTcp, Await
    <3>2. XTypes'
      BY <3>1, <2>2, Numbers DEF XInv, XTypes, ExchangeTypeOK, Waits, WaitUntil, Expired
    <3>3. Held'
      BY <3>1 DEF XInv, XTypes, ExchangeTypeOK, Held, Pinned
    <3>4. Said' /\ Counted' /\ Judged'
      BY <3>1 DEF XInv, Said, Counted, Judged, Early, Pinned, Others, Answered, UnavailableUnanswered, Entry
    <3> QED BY <3>2, <3>3, <3>4 DEF XInv
  <2> QED BY <2>1, <2>2
<1>3. CASE Wrap
  <2>1. CASE Expired
    BY <1>3, <2>1, EndUnwrappedX DEF Wrap
  <2>2. CASE ~Expired
    <3>1. /\ stage = "wrap" /\ stage' = "handshake" /\ waitEnd' = WaitUntil
          /\ UNCHANGED <<elapsed, exchange_, client_>>
      BY <1>3, <2>2 DEF Wrap, Await
    <3>2. XTypes'
      BY <3>1, <2>2, Numbers DEF XInv, XTypes, ExchangeTypeOK, Waits, WaitUntil, Expired, exchange_
    <3>3. Held' /\ Said' /\ Counted' /\ Judged'
      BY <3>1 DEF XInv, Held, Said, Counted, Judged, Early, Pinned, Others, Answered,
                  UnavailableUnanswered, Entry, exchange_
    <3> QED BY <3>2, <3>3 DEF XInv
  <2> QED BY <2>1, <2>2
<1>4. CASE Pin
  <2>1. CASE Expired \/ ~SameLeaf
    BY <1>4, <2>1, EndX DEF Pin, XInv, Judged, Early
  <2>2. CASE ~Expired /\ SameLeaf
    <3>1. /\ stage = "pin" /\ stage' = "send" /\ waitEnd' = WaitUntil
          /\ request_count' = request_count + 1
          /\ UNCHANGED <<elapsed, exchange_, transcript, exchanges>>
      BY <1>4, <2>2 DEF Pin, Await
    <3>2. XTypes'
      BY <3>1, <2>2, Numbers DEF XInv, XTypes, ExchangeTypeOK, Waits, WaitUntil, Expired, exchange_,
                                 Counted, Early
    <3>3. Held' /\ Said' /\ Judged'
      BY <3>1, <2>2 DEF XInv, Held, Said, Judged, Early, Pinned, Answered, SameLeaf,
                        UnavailableUnanswered, Entry, exchange_
    <3>4. Counted'
      <4>1. Cardinality(transcript) \in Nat /\ request_count \in Nat /\ exchanges \in Nat
        BY FS_CardinalityType DEF XInv, Counted, XTypes, ExchangeTypeOK
      <4>2. done'.sent = 0 /\ Cardinality(transcript) < request_count'
        BY <3>1, <4>1 DEF XInv, Said, Counted, Early, exchange_
      <4> QED BY <3>1, <4>1, <4>2 DEF XInv, Counted, Early, Pinned, Others, exchange_
    <3> QED BY <3>2, <3>3, <3>4 DEF XInv
  <2> QED BY <2>1, <2>2
<1>5. CASE Begin
  <2>1. CASE Expired
    BY <1>5, <2>1, EndX DEF Begin, XInv, Judged, Pinned
  <2>2. CASE ~Expired
    <3>1. /\ stage = "sent" /\ stage' = "head" /\ waitEnd' = WaitUntil
          /\ holders' = [holders EXCEPT ![at] = @ \cup {"response"}]
          /\ UNCHANGED <<elapsed, peer, at, done, response_started, outcome, client_>>
      BY <1>5, <2>2 DEF Begin, Await
    <3>2. XTypes'
      BY <3>1, <2>2, Numbers DEF XInv, XTypes, ExchangeTypeOK, Waits, WaitUntil, Expired
    <3>3. Held'
      BY <3>1 DEF XInv, XTypes, ExchangeTypeOK, Held, Pinned
    <3>4. Said' /\ Counted' /\ Judged'
      BY <3>1 DEF XInv, Said, Counted, Judged, Early, Pinned, Others, Answered, UnavailableUnanswered, Entry
    <3> QED BY <3>2, <3>3, <3>4 DEF XInv
  <2> QED BY <2>1, <2>2
<1>6. CASE Started
  <2>1. CASE Expired
    BY <1>6, <2>1, EndX DEF Started, OsFailure, XInv, Judged, Pinned
  <2>2. CASE ~Expired
    <3>1. /\ stage = "started" /\ stage' = "body" /\ waitEnd' = WaitUntil
          /\ UNCHANGED <<elapsed, exchange_, client_>>
      BY <1>6, <2>2 DEF Started, Await
    <3>2. XTypes'
      BY <3>1, <2>2, Numbers DEF XInv, XTypes, ExchangeTypeOK, Waits, WaitUntil, Expired, exchange_
    <3>3. Held' /\ Said' /\ Counted' /\ Judged'
      BY <3>1 DEF XInv, Held, Said, Counted, Judged, Early, Pinned, Others, Answered,
                  UnavailableUnanswered, Entry, exchange_
    <3> QED BY <3>2, <3>3 DEF XInv
  <2> QED BY <2>1, <2>2
<1>7. CASE EndRead
  <2>1. CASE Expired
    BY <1>7, <2>1, EndX DEF EndRead, OsFailure, XInv, Judged, Pinned
  <2>2. CASE ~Expired
    <3>1. /\ stage = "read" /\ stage' = "judge" /\ waitEnd' = waitEnd /\ holders' = Finally
          /\ UNCHANGED <<elapsed, peer, at, done, response_started, outcome, client_>>
      BY <1>7, <2>2 DEF EndRead
    <3>2. XTypes' /\ Held'
      BY <3>1 DEF XInv, XTypes, ExchangeTypeOK, Waits, Held, Pinned, Finally
    <3>3. Said' /\ Counted' /\ Judged'
      BY <3>1 DEF XInv, Said, Counted, Judged, Early, Pinned, Others, Answered,
                  UnavailableUnanswered, Entry
    <3> QED BY <3>2, <3>3 DEF XInv
  <2> QED BY <2>1, <2>2
<1>8. CASE Judge
  <2>1. /\ stage = "judge" /\ stage' = "done" /\ waitEnd' = waitEnd
        /\ UNCHANGED <<elapsed, peer, at, holders, done, response_started, request_count, exchanges>>
        /\ transcript' \in {transcript, transcript \cup {Entry}}
    BY <1>8 DEF Judge
  <2>2. /\ outcome' \in {"returned", "refused"}
        /\ outcome' = "returned" => RawFits /\ ~Expired /\ RequestId /\ transcript' = transcript \cup {Entry}
    BY <1>8 DEF Judge
  <2>3. XTypes' /\ Held' /\ Said'
    BY <2>1, <2>2 DEF XInv, XTypes, ExchangeTypeOK, Waits, Held, Said, Pinned, Early
  <2>4. Counted'
    <3>1. /\ Entry.exchange = exchanges /\ exchanges \in Nat /\ request_count \in Nat /\ done.sent = SendParts
          /\ done' = done
      BY <2>1 DEF Entry, XInv, XTypes, ExchangeTypeOK, Said, Pinned
    <3>2. /\ IsFiniteSet(transcript') /\ Cardinality(transcript) \in Nat /\ Cardinality(transcript') \in Nat
          /\ Cardinality(transcript') <= Cardinality(transcript) + 1
      <4>1. IsFiniteSet(transcript)
        BY DEF XInv, Counted
      <4> QED BY <2>1, <4>1, FS_AddElement, FS_CardinalityType
    <3>3. Others' = transcript
      BY <2>1, <3>1 DEF Others, XInv, Counted
    <3>4. Cardinality(transcript) < request_count
      BY <2>1 DEF XInv, Counted, Pinned
    <3>5. \A e \in transcript' : e.exchange \in 0..exchanges
      BY <2>1, <3>1 DEF XInv, Counted
    <3> QED BY <2>1, <3>1, <3>2, <3>3, <3>4, <3>5 DEF XInv, Counted, Early, Pinned
  <2>5. Judged'
    <3>1. outcome' = "returned" => /\ elapsed' < Total /\ done'.sent = SendParts /\ done'.head = "whole"
                                   /\ peer'.expects = "document" => done'.body = BodyParts
                                   /\ Entry' \in transcript'
      BY <2>1, <2>2, Numbers DEF XInv, XTypes, ExchangeTypeOK, Said, Pinned, Expired, RequestId, RawFits, Entry
    <3> QED BY <2>1, <2>2, <3>1 DEF XInv, Judged, Answered, UnavailableUnanswered, Early
  <2> QED BY <2>3, <2>4, <2>5 DEF XInv
<1> QED BY <1>1, <1>2, <1>3, <1>4, <1>5, <1>6, <1>7, <1>8 DEF RunExchange

(* A part that came, or did not: the exchange stays in its wait or leaves  *)
(* it for the next stage.                                                  *)
LEMMA HeardX == ASSUME XInv, Heard PROVE XInv'
<1> USE DEF Proceed, client_
<1>1. CASE Connect
  <2>1. CASE peer.address[at] = "refuses" /\ NextAddress
    BY <1>1, <2>1, NextAddressX DEF Connect
  <2>2. CASE ~(peer.address[at] = "refuses" /\ NextAddress)
    <3>1. /\ stage = "connecting" /\ peer.address[at] = "listens" /\ stage' = "wrap" /\ waitEnd' = waitEnd
          /\ UNCHANGED <<elapsed, exchange_, client_>>
      BY <1>1, <2>2 DEF Connect
    <3> QED BY <3>1 DEF exchange_, XInv, XTypes, ExchangeTypeOK, Waits, Held, Said, Counted, Judged,
                        Early, Pinned, Others, Answered, UnavailableUnanswered, Entry
  <2> QED BY <2>1, <2>2
<1>2. CASE Handshake
  <2>1. CASE EndUnwrapped("refused") \/ EndUnwrapped("unavailable")
    BY <1>2, <2>1, EndUnwrappedX DEF Handshake
  <2>2. CASE ~(EndUnwrapped("refused") \/ EndUnwrapped("unavailable"))
    <3>1. /\ stage = "handshake" /\ ~Expired /\ Shaken <= HandshakeParts
          /\ \/ stage' = "handshake" /\ waitEnd' = WaitUntil /\ holders' = holders
             \/ stage' = "pin" /\ waitEnd' = waitEnd /\ holders' = [holders EXCEPT ![at] = {"connection"}]
          /\ done' = [done EXCEPT !.shaken = Shaken]
          /\ UNCHANGED <<elapsed, peer, at, response_started, outcome, client_>>
      <4>1. done.shaken \in Nat /\ elapsed \in Nat /\ Total \in Nat /\ HandshakeParts \in Nat
        BY Numbers DEF XInv, XTypes, ExchangeTypeOK
      <4> QED BY <1>2, <2>2, <4>1 DEF Handshake, Await, Shaken
    <3>2. /\ done'.sent = done.sent /\ done'.head = done.head /\ done'.body = done.body
          /\ done' \in [shaken : 0..HandshakeParts, sent : 0..SendParts,
                        head : {"none", "status", "cut", "whole"}, body : 0..BodyParts]
      <4>1. /\ HandshakeParts \in Nat
            /\ done \in [shaken : 0..HandshakeParts, sent : 0..SendParts,
                        head : {"none", "status", "cut", "whole"}, body : 0..BodyParts]
        BY Numbers DEF XInv, XTypes, ExchangeTypeOK
      <4>2. Shaken \in 0..HandshakeParts
        BY <3>1, <4>1 DEF Shaken
      <4> QED BY <3>1, <4>1, <4>2
    <3>3. XTypes' /\ Held'
      <4>1. XTypes'
        <5>1. /\ waitEnd \in 0..Total /\ elapsed \in Nat /\ Total \in Nat /\ elapsed <= Total
              /\ waitEnd = Total
          BY <3>1, Numbers DEF XInv, XTypes, ExchangeTypeOK, Waits
        <5>2. waitEnd' = Total /\ waitEnd' \in 0..Total
          BY <3>1, <5>1 DEF WaitUntil
        <5>3. holders' \in [1..Addresses -> SUBSET {"local", "connection", "response"}]
          BY <3>1 DEF XInv, XTypes, ExchangeTypeOK
        <5>4. stage' \in Waits \cup {"pin"}
          BY <3>1 DEF Waits
        <5> QED BY <3>1, <3>2, <5>1, <5>2, <5>3, <5>4 DEF XInv, XTypes, ExchangeTypeOK
      <4>2. Held'
        <5>1. at \in 1..Addresses /\ DOMAIN holders = 1..Addresses
          BY DEF XInv, XTypes, ExchangeTypeOK
        <5>2. \A a \in 1..Addresses : a # at => holders'[a] = {}
          BY <3>1, <5>1 DEF XInv, Held
        <5>3. IF stage' = "pin" THEN holders'[at] = {"connection"} ELSE holders'[at] \subseteq {"local"}
          BY <3>1, <5>1 DEF XInv, Held
        <5> QED BY <3>1, <5>2, <5>3 DEF Held, Pinned
      <4> QED BY <4>1, <4>2
    <3>4. Said' /\ Counted' /\ Judged'
      BY <3>1, <3>2 DEF XInv, Said, Counted, Judged, Early, Pinned, Others, Answered,
                        UnavailableUnanswered, Entry
    <3> QED BY <3>3, <3>4 DEF XInv
  <2> QED BY <2>1, <2>2
<1>3. CASE Send
  <2>1. CASE End("refused") \/ End("unavailable")
    BY <1>3, <2>1, EndX DEF Send, XInv, Judged, Pinned
  <2>2. CASE ~(End("refused") \/ End("unavailable"))
    <3>1. /\ stage = "send" /\ done.sent < SendParts
          /\ \/ stage' = "send" /\ waitEnd' = WaitUntil
             \/ stage' = "sent" /\ waitEnd' = waitEnd /\ done.sent + 1 = SendParts
          /\ done' = [done EXCEPT !.sent = @ + 1]
          /\ UNCHANGED <<elapsed, peer, at, holders, response_started, outcome, client_>>
      BY <1>3, <2>2 DEF Send, Await
    <3>2. /\ done'.sent = done.sent + 1 /\ done'.head = done.head /\ done'.body = done.body
          /\ done' \in [shaken : 0..HandshakeParts, sent : 0..SendParts,
                        head : {"none", "status", "cut", "whole"}, body : 0..BodyParts]
      <4>1. /\ SendParts \in Nat
            /\ done \in [shaken : 0..HandshakeParts, sent : 0..SendParts,
                        head : {"none", "status", "cut", "whole"}, body : 0..BodyParts]
        BY Numbers DEF XInv, XTypes, ExchangeTypeOK
      <4> QED BY <3>1, <4>1
    <3>3. XTypes' /\ Held'
      <4>1. XTypes'
        <5>1. /\ waitEnd \in 0..Total /\ elapsed \in Nat /\ Total \in Nat /\ elapsed <= Total
              /\ waitEnd = Total
          BY <3>1, Numbers DEF XInv, XTypes, ExchangeTypeOK, Waits
        <5>2. waitEnd' = Total /\ waitEnd' \in 0..Total
          BY <3>1, <5>1 DEF WaitUntil
        <5>3. stage' \in Waits \cup {"sent"}
          BY <3>1 DEF Waits
        <5> QED BY <3>1, <3>2, <5>1, <5>2, <5>3 DEF XInv, XTypes, ExchangeTypeOK
      <4>2. Held'
        BY <3>1 DEF XInv, XTypes, ExchangeTypeOK, Held, Pinned
      <4> QED BY <4>1, <4>2
    <3>4. Said'
      BY <3>1, <3>2 DEF XInv, Said, Early, Pinned
    <3>5. Others = transcript /\ Others' = transcript
      BY <3>1 DEF XInv, Counted, Others
    <3>6. Counted' /\ Judged'
      BY <3>1, <3>2, <3>5 DEF XInv, Counted, Judged, Early, Pinned, Answered,
                              UnavailableUnanswered, Entry
    <3> QED BY <3>3, <3>4, <3>6 DEF XInv
  <2> QED BY <2>1, <2>2
<1>4. CASE ReadHead
  <2>1. CASE End("refused") \/ (End("unavailable") /\ done.head = "none") \/ End(OsFailure)
    BY <1>4, <2>1, EndX DEF ReadHead, OsFailure, XInv, Judged, Pinned, Answered
  <2>2. CASE ~(End("refused") \/ (End("unavailable") /\ done.head = "none") \/ End(OsFailure))
    <3>1. /\ stage = "head"
          /\ \/ /\ stage' = "head" /\ waitEnd' = WaitUntil /\ ~Expired
                /\ done' = [done EXCEPT !.head = "status"] /\ response_started' = response_started
             \/ /\ stage' = "started" /\ waitEnd' = waitEnd /\ response_started' = TRUE
                /\ \E head \in {"whole", "cut"} : done' = [done EXCEPT !.head = head]
          /\ UNCHANGED <<elapsed, peer, at, holders, outcome, client_>>
      BY <1>4, <2>2 DEF ReadHead, HeadRead, Await
    <3>2. /\ done'.sent = done.sent /\ done'.body = done.body
          /\ stage' = "head" => done'.head = "status"
          /\ stage' = "started" => done'.head \in {"whole", "cut"}
          /\ done' \in [shaken : 0..HandshakeParts, sent : 0..SendParts,
                        head : {"none", "status", "cut", "whole"}, body : 0..BodyParts]
      BY <3>1 DEF XInv, XTypes, ExchangeTypeOK
    <3>3. XTypes' /\ Held'
      <4>1. XTypes'
        <5>1. elapsed \in Nat /\ elapsed <= Total /\ waitEnd = Total
          BY <3>1, Numbers DEF XInv, XTypes, ExchangeTypeOK, Waits
        <5>2. stage' \in {"head", "started"} /\ waitEnd' = Total /\ elapsed' <= Total
          BY <3>1, <5>1, Numbers DEF WaitUntil
        <5> QED BY <3>1, <3>2, <5>2, Numbers DEF XInv, XTypes, ExchangeTypeOK, Waits
      <4>2. Held'
        BY <3>1 DEF XInv, XTypes, ExchangeTypeOK, Held, Pinned
      <4> QED BY <4>1, <4>2
    <3>4. Said' /\ Counted'
      BY <3>1, <3>2 DEF XInv, Said, Counted, Early, Pinned, Others
    <3>5. Judged'
      BY <3>1, <3>2 DEF XInv, Judged, Early, Answered, UnavailableUnanswered
    <3> QED BY <3>3, <3>4, <3>5 DEF XInv
  <2> QED BY <2>1, <2>2
<1>5. CASE ReadBody
  <2>1. CASE End("refused") \/ End(OsFailure)
    BY <1>5, <2>1, EndX DEF ReadBody, OsFailure, XInv, Judged, Pinned
  <2>2. CASE ~(End("refused") \/ End(OsFailure))
    <3>1. /\ stage = "body"
          /\ \/ /\ stage' = "body" /\ waitEnd' = WaitUntil /\ done.body < Announced
                /\ done' = [done EXCEPT !.body = @ + 1]
             \/ stage' = "read" /\ waitEnd' = waitEnd /\ done' = done
          /\ UNCHANGED <<elapsed, peer, at, holders, response_started, outcome, client_>>
      BY <1>5, <2>2 DEF ReadBody, Await, exchange_
    <3>2. /\ done'.sent = done.sent /\ done'.head = done.head
          /\ done' \in [shaken : 0..HandshakeParts, sent : 0..SendParts,
                        head : {"none", "status", "cut", "whole"}, body : 0..BodyParts]
      BY <3>1, Numbers DEF XInv, XTypes, ExchangeTypeOK, Announced
    <3>3. XTypes' /\ Held'
      <4>1. XTypes'
        <5>1. elapsed \in Nat /\ elapsed <= Total /\ waitEnd = Total
          BY <3>1, Numbers DEF XInv, XTypes, ExchangeTypeOK, Waits
        <5>2. stage' \in {"body", "read"} /\ waitEnd' = Total /\ elapsed' <= Total
          BY <3>1, <5>1, Numbers DEF WaitUntil
        <5> QED BY <3>1, <3>2, <5>2, Numbers DEF XInv, XTypes, ExchangeTypeOK, Waits
      <4>2. Held'
        BY <3>1 DEF XInv, XTypes, ExchangeTypeOK, Held, Pinned
      <4> QED BY <4>1, <4>2
    <3>4. Said' /\ Counted'
      BY <3>1, <3>2 DEF XInv, Said, Counted, Early, Pinned, Others
    <3>5. Judged'
      BY <3>1, <3>2 DEF XInv, Judged, Early, Answered, UnavailableUnanswered
    <3> QED BY <3>3, <3>4, <3>5 DEF XInv
  <2> QED BY <2>1, <2>2
<1> QED BY <1>1, <1>2, <1>3, <1>4, <1>5 DEF Heard

LEMMA NextX == XInv /\ [ExchangeNext]_exchange_vars => XInv'
<1> SUFFICES ASSUME XInv, [ExchangeNext]_exchange_vars PROVE XInv'
  OBVIOUS
<1>1. CASE ExchangeTick
  <2>1. /\ stage # "done" /\ elapsed < Late
        /\ stage \in Waits => elapsed < waitEnd
        /\ elapsed' = elapsed + 1 /\ UNCHANGED <<stage, waitEnd, exchange_, client_>>
    BY <1>1 DEF ExchangeTick
  <2>2. XTypes'
    BY <2>1, Numbers DEF XInv, XTypes, ExchangeTypeOK, exchange_, client_
  <2>3. Held' /\ Said' /\ Counted' /\ Judged'
    BY <2>1 DEF XInv, Held, Said, Counted, Judged, Others, Answered, UnavailableUnanswered, Entry,
                exchange_, client_
  <2> QED BY <2>2, <2>3 DEF XInv
<1>2. CASE TimedOut
  <2>1. CASE stage = "connecting"
    BY <1>2, <2>1, NextAddressX DEF TimedOut
  <2>2. CASE stage = "handshake"
    BY <1>2, <2>2, EndUnwrappedX DEF TimedOut
  <2>3. CASE stage \in {"send", "head", "body"}
    BY <1>2, <2>3, EndX DEF TimedOut, OsFailure, XInv, Judged, Pinned
  <2> QED BY <1>2, <2>1, <2>2, <2>3 DEF TimedOut, TimerFires, Waits
<1>3. CASE Again
  <2>1. /\ stage' = "construct" /\ elapsed' = 0 /\ waitEnd' = 0 /\ peer' \in Peers
        /\ at' = 1 /\ holders' = [a \in 1..Addresses |-> {}]
        /\ done' = NothingDone /\ response_started' = FALSE /\ outcome' = "none"
        /\ exchanges < MaxExchanges /\ exchanges' = exchanges + 1
        /\ UNCHANGED <<request_count, transcript>>
    BY <1>3 DEF Again
  <2>2. XTypes'
    <3>1. holders' \in [1..Addresses -> SUBSET {"local", "connection", "response"}] /\ at' \in 1..Addresses
      BY <2>1, Numbers
    <3>2. done' \in [shaken : 0..HandshakeParts, sent : 0..SendParts,
                     head : {"none", "status", "cut", "whole"}, body : 0..BodyParts]
      BY <2>1, Numbers DEF NothingDone
    <3>3. /\ stage' = "construct" /\ elapsed' \in 0..Late /\ waitEnd' \in 0..Total /\ peer' \in Peers
          /\ response_started' \in BOOLEAN /\ outcome' = "none"
      <4>1. stage' = "construct" /\ peer' \in Peers /\ response_started' \in BOOLEAN /\ outcome' = "none"
        BY <2>1
      <4>2. elapsed' = 0 /\ waitEnd' = 0
        BY <2>1
      <4> QED BY <4>1, <4>2, Numbers
    <3>4. request_count' \in 0..MaxExchanges /\ exchanges' \in 0..MaxExchanges
      BY <2>1, Numbers DEF XInv, XTypes, ExchangeTypeOK
    <3>5. stage' \notin Waits
      BY <2>1 DEF Waits
    <3> QED BY <3>1, <3>2, <3>3, <3>4, <3>5 DEF XTypes, ExchangeTypeOK
  <2>3. Held' /\ Said'
    BY <2>1, Numbers DEF Held, Said, Pinned, NothingDone
  <2>4. Counted'
    BY <2>1 DEF XInv, XTypes, ExchangeTypeOK, Counted, Early, Pinned, NothingDone
  <2>5. Judged'
    BY <2>1 DEF Judged, Answered, NothingDone, UnavailableUnanswered
  <2> QED BY <2>2, <2>3, <2>4, <2>5 DEF XInv
<1>4. CASE UNCHANGED exchange_vars
  BY <1>4 DEF exchange_vars, exchange_, client_, XInv, XTypes, ExchangeTypeOK, Held, Said, Counted, Judged,
              Others, Answered, UnavailableUnanswered, Entry
<1> QED BY <1>1, <1>2, <1>3, <1>4, RunExchangeX, HeardX DEF ExchangeNext

(* However an exchange ends, nothing is left open, no byte was sent to     *)
(* another peer, no wait outlasted the deadline, and the outcome is what   *)
(* happened.                                                               *)
THEOREM ExchangeAlwaysExact == ExchangeSpec => []ExchangeExact
<1>1. XInv => ExchangeExact
  <2> SUFFICES ASSUME XInv PROVE ExchangeExact
    OBVIOUS
  <2>1. NothingHeld
    BY DEF XInv, XTypes, ExchangeTypeOK, Held, NothingHeld
  <2>2. PinnedFirst
    BY DEF XInv, Said, Counted, Others, PinnedFirst
  <2>3. UnavailableUnanswered /\ ReturnedWhole
    BY DEF XInv, Counted, Judged, ReturnedWhole
  <2> QED BY <2>1, <2>2, <2>3 DEF XInv, XTypes, ExchangeExact, OneDeadline
<1> QED BY <1>1, InitX, NextX, PTL DEF ExchangeSpec

-----------------------------------------------------------------------------
(* The probe.  What it has of the pages before it asks for any, and while  *)
(* it does: every page asked for has a cursor that came before, or is the  *)
(* first; the page in hand is asked for once.                              *)
UpTo(n) == [d \in 1..n |-> d]

PTypes ==
  /\ drives \in Nat /\ probe_clock \in Nat /\ page_number \in Nat /\ probe_cursor \in Nat
  /\ probe_pc \in {"next", "curl", "done"}
  /\ operation \in {"discovery", "vehicles", "current", "page", "conditional"}
  /\ requested \in Seq(Nat) /\ seen_cursors \subseteq Nat \ {Nowhere}
  /\ probe_pc = "curl" => max_time = Timeout /\ probe_clock <= Timeout

Asked ==
  /\ operation \in {"discovery", "vehicles", "current"} =>
       page_number = 0 /\ requested = <<>> /\ listed = <<>> /\ probe_cursor = Nowhere
  /\ Len(requested) <= MaxPages
  /\ probe_pc # "done" => probe_cursor \in seen_cursors \cup {Nowhere}
  /\ \A i \in 1..Len(requested) : requested[i] \in seen_cursors \cup {Nowhere}
  /\ \A i, j \in 1..Len(requested) : requested[i] = requested[j] => i = j

InHand ==
  /\ probe_pc # "done" => page_number < MaxPages /\ status = "none"
  /\ operation = "page" /\ probe_pc = "next" =>
       /\ Len(requested) = page_number
       /\ \A i \in 1..Len(requested) : requested[i] # probe_cursor
  /\ operation = "page" /\ probe_pc = "curl" => Len(requested) = page_number + 1
  /\ operation = "conditional" /\ probe_pc # "done" => Len(requested) = 1 /\ page_number = 0

Listed ==
  /\ truthful /\ probe_pc # "done" => probe_cursor <= drives /\ listed = UpTo(probe_cursor)
  /\ status = "passed" => (truthful /\ capable => listed = UpTo(drives))

PInv == PTypes /\ Asked /\ InHand /\ Listed

LEMMA ProbeNumbers ==
  MaxDrives \in Nat /\ Limit \in Nat \ {0} /\ MaxPages \in Nat \ {0} /\ Timeout \in Nat \ {0}
  BY ProbeAssumption

(* The numbers up to one, and those of a page behind them.                 *)
LEMMA PageBehind ==
  ASSUME NEW a \in Nat, NEW b \in Nat, a <= b
  PROVE  UpTo(a) \o [i \in 1..(b - a) |-> a + i] = UpTo(b)
<1> DEFINE page == [i \in 1..(b - a) |-> a + i]
<1>1. b - a \in Nat
  OBVIOUS
<1>2. UpTo(a) \in Seq(Nat) /\ Len(UpTo(a)) = a /\ UpTo(b) \in Seq(Nat) /\ Len(UpTo(b)) = b
  BY DEF UpTo
<1>3. page \in Seq(Nat) /\ Len(page) = b - a
  BY <1>1
<1>4. /\ UpTo(a) \o page \in Seq(Nat) /\ Len(UpTo(a) \o page) = b
      /\ \A i \in 1..b : (UpTo(a) \o page)[i] = IF i <= a THEN UpTo(a)[i] ELSE page[i - a]
  <2> HIDE DEF page
  <2> QED BY <1>1, <1>2, <1>3, ConcatProperties
<1>5. ASSUME NEW i \in 1..b PROVE (UpTo(a) \o page)[i] = UpTo(b)[i]
  <2>1. CASE i <= a
    BY <1>4, <2>1 DEF UpTo
  <2>2. CASE i > a
    <3>1. i - a \in 1..(b - a) /\ page[i - a] = i
      BY <2>2
    <3> QED BY <1>4, <2>2, <3>1 DEF UpTo
  <2>3. i <= a \/ i > a
    OBVIOUS
  <2> QED BY <2>1, <2>2, <2>3
<1> HIDE DEF page
<1>6. UpTo(a) \o page = UpTo(b)
  BY <1>2, <1>4, <1>5, SeqEqual
<1> QED BY <1>6 DEF page

LEMMA InitP == ProbeInit => PInv
<1> SUFFICES ASSUME ProbeInit PROVE PInv
  OBVIOUS
<1>1. drives \in Nat
  BY ProbeNumbers DEF ProbeInit
<1>2. PTypes /\ Asked /\ InHand
  BY <1>1, ProbeNumbers DEF ProbeInit, PTypes, Asked, InHand, Nowhere
<1>3. Listed
  BY <1>1 DEF ProbeInit, Listed, UpTo, Nowhere
<1> QED BY <1>2, <1>3 DEF PInv

(* A probe that fails, wherever it does.                                   *)
LEMMA FailP == PInv /\ Finish("failed") => PInv'
  BY DEF Finish, PInv, PTypes, Asked, InHand, Listed, hub_, pages_

(* The answers before the pages, and the first page.                       *)
LEMMA AfterCurlP ==
  ASSUME PInv, UNCHANGED pages_,
         \/ operation \in {"discovery", "vehicles"} /\ AfterCurl("vehicles")
         \/ operation \in {"discovery", "vehicles"} /\ AfterCurl("current")
         \/ operation = "current" /\ AfterCurl("page")
         \/ operation = "page" /\ page_number = 0 /\ AfterCurl("conditional")
  PROVE  PInv'
<1>1. /\ probe_pc = "curl" /\ probe_pc' = "next" /\ UNCHANGED <<hub_, probe_clock, max_time, status, pages_>>
      /\ operation' \in {"vehicles", "current", "page", "conditional"}
  BY DEF AfterCurl
<1>2. PTypes' /\ Listed'
  BY <1>1 DEF PInv, PTypes, Listed, hub_, pages_
<1>3. Asked'
  BY <1>1 DEF AfterCurl, PInv, Asked, pages_
<1>4. page_number' = page_number /\ Len(requested') = Len(requested) /\ status' = "none"
      /\ page_number < MaxPages
  BY <1>1 DEF PInv, InHand, pages_
<1>5. CASE operation = "page"
  <2>1. operation' = "conditional" /\ page_number = 0 /\ Len(requested) = page_number + 1
    BY <1>1, <1>5 DEF AfterCurl, PInv, InHand
  <2> QED BY <1>1, <1>2, <1>3, <1>4, <2>1 DEF PInv, InHand
<1>6. CASE operation # "page"
  <2>1. operation' # "conditional" /\ page_number = 0 /\ requested = <<>>
    BY <1>1, <1>6 DEF AfterCurl, PInv, Asked
  <2> QED BY <1>1, <1>2, <1>3, <1>4, <2>1 DEF PInv, InHand, pages_
<1> QED BY <1>5, <1>6

(* What a page adds: to the drives that were listed, and to the cursors    *)
(* that were followed.                                                     *)
LEMMA TakePageP == PInv /\ TakePage => PInv'
<1> SUFFICES ASSUME PInv, TakePage PROVE PInv'
  OBVIOUS
<1>1. PICK a \in PageAnswers(probe_cursor) : Follow(a.next, a.items)
  BY DEF TakePage
<1>2. /\ probe_pc = "curl" /\ Len(requested) = page_number + 1 /\ operation \in {"page", "conditional"}
      /\ page_number \in Nat /\ page_number < MaxPages /\ status = "none"
  <2>1. /\ probe_pc = "curl" /\ page_number \in Nat /\ page_number < MaxPages /\ status = "none"
        /\ operation = "conditional" \/ operation = "page"
    BY DEF TakePage, PInv, PTypes, InHand
  <2>2. CASE operation = "conditional"
    <3>1. Len(requested) = 1 /\ page_number = 0
      BY <2>1, <2>2 DEF PInv, InHand
    <3> QED BY <2>1, <3>1
  <2>3. CASE operation = "page"
    BY <2>1, <2>3 DEF PInv, InHand
  <2> QED BY <2>1, <2>2, <2>3
<1>3. a.next \in Nat
  BY ProbeNumbers DEF PageAnswers, Truth, Upto, Cursors, Nowhere, PInv, PTypes
<1>4. truthful => /\ a.next # Nowhere => a.next <= drives /\ listed' = UpTo(a.next)
                  /\ a.next = Nowhere => listed' = UpTo(drives)
  <2> SUFFICES ASSUME truthful PROVE /\ a.next # Nowhere => a.next <= drives /\ listed' = UpTo(a.next)
                                     /\ a.next = Nowhere => listed' = UpTo(drives)
    OBVIOUS
  <2> DEFINE end == Upto(probe_cursor)
  <2>1. probe_cursor \in Nat /\ probe_cursor <= drives /\ drives \in Nat /\ listed = UpTo(probe_cursor)
    BY <1>2 DEF PInv, PTypes, Listed
  <2>2. end \in Nat /\ probe_cursor <= end /\ end <= drives /\ (end # drives => end > 0)
    BY <2>1, ProbeNumbers DEF Upto
  <2>3. /\ a.items = [i \in 1..(end - probe_cursor) |-> probe_cursor + i]
        /\ a.next = IF end = drives THEN Nowhere ELSE end
    BY DEF PageAnswers, Truth
  <2>4. listed' = listed \o a.items
    BY <1>1 DEF Follow
  <2> HIDE DEF end
  <2>5. listed' = UpTo(end)
    BY <2>1, <2>2, <2>3, <2>4, PageBehind
  <2> QED BY <2>1, <2>2, <2>3, <2>5 DEF Nowhere
<1>5. /\ probe_cursor' = a.next /\ UNCHANGED <<hub_, probe_clock, max_time, requested>>
      /\ \/ probe_pc' = "done" /\ status' = "passed" /\ a.next = Nowhere
            /\ UNCHANGED <<operation, seen_cursors, page_number>>
         \/ probe_pc' = "done" /\ status' = "failed" /\ UNCHANGED <<operation, seen_cursors, page_number>>
         \/ /\ a.next # Nowhere /\ a.next \notin seen_cursors
            /\ seen_cursors' = seen_cursors \cup {a.next} /\ page_number' = page_number + 1
            /\ operation' = "page"
            /\ \/ probe_pc' = "done" /\ status' = "partial"
               \/ probe_pc' = "next" /\ UNCHANGED status /\ page_number + 1 # MaxPages
  BY <1>1 DEF Follow, Repeated, AtLimit
<1>6. PTypes'
  <2>1. /\ drives' \in Nat /\ probe_clock' \in Nat /\ probe_cursor' \in Nat
        /\ requested' \in Seq(Nat) /\ probe_pc' \in {"next", "done"}
    BY <1>3, <1>5 DEF PInv, PTypes, hub_
  <2>2. page_number' \in Nat /\ seen_cursors' \subseteq Nat \ {Nowhere}
    <3>1. page_number \in Nat /\ seen_cursors \subseteq Nat \ {Nowhere}
      BY DEF PInv, PTypes
    <3>2. CASE page_number' = page_number + 1 /\ seen_cursors' = seen_cursors \cup {a.next}
               /\ a.next # Nowhere
      <4>1. page_number' \in Nat
        BY <3>1, <3>2
      <4>2. {a.next} \subseteq Nat \ {Nowhere}
        BY <1>3, <3>2
      <4> QED BY <3>1, <3>2, <4>1, <4>2
    <3>3. CASE UNCHANGED <<operation, seen_cursors, page_number>>
      BY <3>1, <3>3
    <3> QED BY <1>5, <3>2, <3>3
  <2>3. operation' \in {"page", "conditional"}
    BY <1>2, <1>5
  <2> QED BY <2>1, <2>2, <2>3 DEF PTypes
<1>7. Asked'
  BY <1>2, <1>5 DEF PInv, Asked
<1>8. InHand'
  BY <1>2, <1>5, ProbeNumbers DEF PInv, PTypes, Asked, InHand
<1>9. Listed'
  BY <1>2, <1>4, <1>5 DEF Listed, hub_
<1> QED BY <1>6, <1>7, <1>8, <1>9 DEF PInv

LEMMA CurlP == PInv /\ Curl => PInv'
<1> SUFFICES ASSUME PInv, Curl PROVE PInv'
  OBVIOUS
<1>1. CASE probe_clock >= Timeout
  BY <1>1, FailP DEF Curl
<1>2. CASE ~(probe_clock >= Timeout)
  <2>1. /\ probe_pc = "next" /\ probe_pc' = "curl" /\ max_time' = MaxTime
        /\ requested' = IF operation = "page" THEN Append(requested, probe_cursor) ELSE requested
        /\ UNCHANGED <<hub_, probe_clock, operation, probe_cursor, seen_cursors, page_number,
                       listed, status>>
    BY <1>2 DEF Curl
  <2>2. max_time' = Timeout /\ probe_clock <= Timeout
    BY <1>2, <2>1, ProbeNumbers DEF MaxTime, PInv, PTypes
  <2>3. Listed'
    BY <2>1 DEF PInv, Listed, hub_
  <2>4. CASE operation # "page"
    BY <2>1, <2>2, <2>3, <2>4 DEF PInv, PTypes, Asked, InHand, hub_
  <2>5. CASE operation = "page"
    <3>1. probe_cursor \in Nat /\ requested \in Seq(Nat) /\ requested' = Append(requested, probe_cursor)
      BY <2>1, <2>5 DEF PInv, PTypes
    <3>2. /\ requested' \in Seq(Nat) /\ Len(requested') = Len(requested) + 1 /\ Len(requested) \in Nat
          /\ \A i \in 1..Len(requested) : requested'[i] = requested[i]
          /\ requested'[Len(requested) + 1] = probe_cursor
      BY <3>1, AppendProperties, LenProperties
    <3>3. Len(requested) = page_number /\ page_number < MaxPages /\ page_number \in Nat
      BY <2>1, <2>5 DEF PInv, InHand, PTypes
    <3>4. PTypes' /\ InHand'
      BY <2>1, <2>2, <2>5, <3>2, <3>3 DEF PInv, PTypes, InHand, hub_
    <3>5. Asked'
      <4>1. Len(requested') <= MaxPages
        BY <3>2, <3>3, ProbeNumbers
      <4>2. probe_cursor \in seen_cursors \cup {Nowhere}
        BY <2>1 DEF PInv, Asked
      <4>3. \A i \in 1..Len(requested') : requested'[i] \in seen_cursors' \cup {Nowhere}
        BY <2>1, <3>2, <4>2 DEF PInv, Asked
      <4>4. \A i, j \in 1..Len(requested') : requested'[i] = requested'[j] => i = j
        BY <2>1, <2>5, <3>2 DEF PInv, Asked, InHand
      <4> QED BY <2>1, <2>5, <4>1, <4>3, <4>4 DEF Asked
    <3> QED BY <2>3, <3>4, <3>5 DEF PInv
  <2> QED BY <2>4, <2>5
<1> QED BY <1>1, <1>2

LEMMA NextP == PInv /\ [ProbeNext]_probe_vars => PInv'
<1> SUFFICES ASSUME PInv, [ProbeNext]_probe_vars PROVE PInv'
  OBVIOUS
<1>1. CASE ProbeTick
  BY <1>1, ProbeNumbers DEF ProbeTick, PInv, PTypes, Asked, InHand, Listed, hub_, pages_
<1>2. CASE Expire \/ FailProbe
  BY <1>2, FailP DEF Expire, FailProbe
<1>3. CASE Discovery \/ TakeVehicles \/ FirstPage
  BY <1>3, AfterCurlP DEF Discovery, TakeVehicles, FirstPage
<1>4. CASE Current
  <2>1. CASE AfterCurl("page") /\ UNCHANGED pages_
    BY <1>4, <2>1, AfterCurlP DEF Current
  <2>2. CASE ~capable /\ Finish("passed")
    BY <2>2 DEF Finish, PInv, PTypes, Asked, InHand, Listed, hub_, pages_
  <2> QED BY <1>4, <2>1, <2>2 DEF Current
<1>5. CASE UNCHANGED probe_vars
  BY <1>5 DEF probe_vars, PInv, PTypes, Asked, InHand, Listed, hub_, pages_
<1> QED BY <1>1, <1>2, <1>3, <1>4, <1>5, CurlP, TakePageP DEF ProbeNext, HubAnswers

(* A probe that passed has read every drive once, in order, and no probe   *)
(* asks for a page twice, for more than max_pages or past its deadline,    *)
(* for any hub, page, limit and timeout.                                   *)
THEOREM ProbeAlwaysExact == ProbeSpec => []ProbeExact
<1>1. PInv => ProbeExact
  BY LenProperties DEF PInv, PTypes, Asked, Listed, UpTo, ProbeExact, PassedComplete, PagesOnce, OneTimeout
<1> QED BY <1>1, InitP, NextP, PTL DEF ProbeSpec
=============================================================================
