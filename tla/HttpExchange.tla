---------------------------- MODULE HttpExchange ----------------------------
(***************************************************************************)
(* RawHttpClient.exchange over _DeadlineHTTPSConnection: one HTTPS request *)
(* to a loopback endpoint, every blocking boundary of which shares one     *)
(* total deadline.  The client opens a socket to each address of the host  *)
(* in turn, shakes hands, compares the leaf certificate with the installed *)
(* one, sends, reads the head and the body and judges them.  The peer is   *)
(* slow, silent, cut short or reset at any part of it, and the clock moves *)
(* between any two steps.  A client makes several exchanges and keeps one  *)
(* transcript.                                                             *)
(***************************************************************************)
EXTENDS Naturals, FiniteSets

CONSTANTS
  Addresses,        \* how many addresses the host has: one, or two of localhost
  Total,            \* the client's _total_timeout, in ticks
  HandshakeParts, SendParts,    \* flights of the handshake, writes of the request
  BodyParts,        \* reads of a whole body
  Late,             \* bound: how far the clock is followed
  MaxExchanges      \* bound: exchanges of the client

ASSUME ExchangeAssumption ==
  /\ Addresses \in {1, 2} /\ {Total, HandshakeParts, SendParts, BodyParts, MaxExchanges} \subseteq Nat \ {0}
  /\ Late \in Nat /\ Late > Total

VARIABLES
  stage,
  elapsed,          \* since the exchange began
  waitEnd,        \* when the pending wait gives up
  peer,           \* what this exchange will meet
  at,             \* the address in hand
  holders,        \* who holds the descriptor to each address
  done,           \* [shaken, sent, head, body]: the parts that are through
  response_started,
  outcome,
  request_count, transcript, exchanges

exchange_ == <<peer, at, holders, done, response_started, outcome>>
client_ == <<request_count, transcript, exchanges>>
exchange_vars == <<stage, elapsed, waitEnd, exchange_, client_>>

(* A reply has a status line and a header block that ends with a blank     *)
(* line, in which its request id is, and a body or none; the route expects *)
(* one or none.                                                            *)
Peers == [address : [1..Addresses -> {"listens", "refuses", "silent"}],
          leaf : {"installed", "other", "untrusted"},
          status : {"expected", "other"},
          request_id : BOOLEAN,
          body : {"document", "none"},
          expects : {"document", "none"}]

NothingDone == [shaken |-> 0, sent |-> 0, head |-> "none", body |-> 0]
Waits == {"connecting", "handshake", "send", "head", "body"}

ExchangeInit ==
  /\ stage = "construct" /\ elapsed = 0 /\ waitEnd = 0
  /\ peer \in Peers
  /\ at = 1 /\ holders = [a \in 1..Addresses |-> {}]
  /\ done = NothingDone /\ response_started = FALSE /\ outcome = "none"
  /\ request_count = 0 /\ transcript = {} /\ exchanges = 1

-----------------------------------------------------------------------------
(* Time.  A wait that is pending has a timer: the clock does not pass its  *)
(* end before the client is woken.                                         *)
Expired == elapsed >= Total
WaitUntil == elapsed + (Total - elapsed)

ExchangeTick ==
  /\ stage # "done" /\ elapsed < Late
  /\ stage \in Waits => elapsed < waitEnd
  /\ elapsed' = elapsed + 1
  /\ UNCHANGED <<stage, waitEnd, exchange_, client_>>

(* Mutant: no timer before the request is sent. *)
TimerFiresOpen == stage \in {"send", "head", "body"} /\ elapsed >= waitEnd

TimerFires == stage \in Waits /\ elapsed >= waitEnd

(* Enter a wait, or stay in it with a timer of what now remains.           *)
Await(wait) == stage' = wait /\ waitEnd' = WaitUntil
Proceed(to) == stage' = to /\ UNCHANGED waitEnd

-----------------------------------------------------------------------------
(* How an exchange ends: the exceptions, and the finally of exchange which *)
(* closes the response and what connection.sock is.                        *)
Finally == [a \in 1..Addresses |-> holders[a] \ {"connection", "response"}]

End(as) ==
  /\ Proceed("done") /\ outcome' = as /\ holders' = Finally
  /\ UNCHANGED <<elapsed, peer, at, done, response_started, client_>>

(* Mutant: a socket whose handshake failed is left open. *)
EndUnwrappedOpen(as) ==
  /\ Proceed("done") /\ outcome' = as
  /\ UNCHANGED <<elapsed, peer, at, holders, done, response_started, client_>>

(* connect and _wrap_tls close the socket they still hold themselves.      *)
EndUnwrapped(as) ==
  /\ Proceed("done") /\ outcome' = as
  /\ holders' = [holders EXCEPT ![at] = @ \ {"local"}]
  /\ UNCHANGED <<elapsed, peer, at, done, response_started, client_>>

(* except (OSError, TimeoutError).                                         *)
OsFailure == IF response_started THEN "refused" ELSE "unavailable"

-----------------------------------------------------------------------------
(* _DeadlineHTTPSConnection: its construction, which is before the try;    *)
(* _connect_tcp, an address after another; _wrap_tls.                      *)
Construct ==
  /\ stage = "construct"
  /\ IF Expired THEN End("unlabelled")
     ELSE /\ Proceed("tcp")
          /\ UNCHANGED <<elapsed, exchange_, client_>>

(* A socket that failed is closed and the next address tried; the last     *)
(* error is raised.                                                        *)
NextAddress ==
  IF at = Addresses
  THEN EndUnwrapped("unavailable")
  ELSE /\ Proceed("tcp") /\ at' = at + 1
       /\ holders' = [holders EXCEPT ![at] = {}]
       /\ UNCHANGED <<elapsed, peer, done, response_started, outcome, client_>>

OpenTcp ==
  /\ stage = "tcp"
  /\ IF Expired THEN NextAddress
     ELSE /\ Await("connecting")
          /\ holders' = [holders EXCEPT ![at] = {"local"}]
          /\ UNCHANGED <<elapsed, peer, at, done, response_started, outcome, client_>>

Connect ==
  /\ stage = "connecting"
  /\ \/ /\ peer.address[at] = "listens" /\ ~Expired
        /\ Proceed("wrap")
        /\ UNCHANGED <<elapsed, exchange_, client_>>
     \/ peer.address[at] = "refuses" /\ NextAddress

Wrap ==
  /\ stage = "wrap"
  /\ IF Expired THEN EndUnwrapped("unavailable")
     ELSE /\ Await("handshake")
          /\ UNCHANGED <<elapsed, exchange_, client_>>

Shaken == done.shaken + 1

(* One flight of the handshake; with the last the certificate chain is     *)
(* verified, and connection.sock is set.                                   *)
Handshake ==
  /\ stage = "handshake"
  /\ \/ /\ Shaken < HandshakeParts
        /\ IF Expired THEN EndUnwrapped("unavailable")
           ELSE /\ Await("handshake") /\ done' = [done EXCEPT !.shaken = Shaken]
                /\ UNCHANGED <<elapsed, peer, at, holders, response_started, outcome, client_>>
     \/ /\ Shaken = HandshakeParts
        /\ IF peer.leaf = "untrusted" THEN EndUnwrapped("refused")
           ELSE IF Expired THEN EndUnwrapped("unavailable")
           ELSE /\ Proceed("pin") /\ done' = [done EXCEPT !.shaken = Shaken]
                /\ holders' = [holders EXCEPT ![at] = {"connection"}]
                /\ UNCHANGED <<elapsed, peer, at, response_started, outcome, client_>>
     \/ EndUnwrapped("refused")                     \* an SSLError
     \/ EndUnwrapped("unavailable")                 \* the peer resets it

-----------------------------------------------------------------------------
(* exchange, from the comparison of the leaf.                              *)
SameLeaf == peer.leaf = "installed"

Pin ==
  /\ stage = "pin"
  /\ IF Expired THEN End("unavailable")
     ELSE IF ~SameLeaf THEN End("refused")
     ELSE /\ Await("send") /\ request_count' = request_count + 1
          /\ UNCHANGED <<elapsed, exchange_, transcript, exchanges>>

Send ==
  /\ stage = "send"
  /\ \/ /\ done.sent < SendParts
        /\ done' = [done EXCEPT !.sent = @ + 1]
        /\ \/ done.sent + 1 < SendParts /\ Await("send")
           \/ done.sent + 1 = SendParts /\ ~Expired /\ Proceed("sent")
        /\ UNCHANGED <<elapsed, peer, at, holders, response_started, outcome, client_>>
     \/ End("refused")                              \* an SSLError
     \/ End("unavailable")                          \* closed or reset

(* The response takes a lease of the socket, which keeps it open.          *)
Begin ==
  /\ stage = "sent"
  /\ IF Expired THEN End("unavailable")
     ELSE /\ Await("head")
          /\ holders' = [holders EXCEPT ![at] = @ \cup {"response"}]
          /\ UNCHANGED <<elapsed, peer, at, done, response_started, outcome, client_>>

(* begin(): the status line, then header lines until a blank line or the   *)
(* end of the stream, which http.client takes for it.                      *)
HeadRead(head) ==
  /\ Proceed("started")
  /\ done' = [done EXCEPT !.head = head] /\ response_started' = TRUE
  /\ UNCHANGED <<elapsed, peer, at, holders, outcome, client_>>

ReadHead ==
  /\ stage = "head"
  /\ \/ /\ done.head = "none"                       \* the status line
        /\ IF Expired THEN End("unavailable")
           ELSE /\ Await("head") /\ done' = [done EXCEPT !.head = "status"]
                /\ UNCHANGED <<elapsed, peer, at, holders, response_started, outcome, client_>>
     \/ done.head = "status" /\ HeadRead("whole")
     \/ done.head = "status" /\ HeadRead("cut")     \* the stream ended
     \/ done.head = "none" /\ End("unavailable")    \* RemoteDisconnected
     \/ done.head = "none" /\ End("refused")        \* HTTPException, framing
     \/ End(OsFailure)                              \* reset

Started ==
  /\ stage = "started"
  /\ IF Expired THEN End(OsFailure)
     ELSE /\ Await("body")
          /\ UNCHANGED <<elapsed, exchange_, client_>>

HasBody == peer.body = "document"
Announced == IF HasBody THEN BodyParts ELSE 0

(* read(amt) takes what comes until all that was announced is there or the *)
(* stream ends: it does not tell a body that was cut short.                *)
ReadBody ==
  /\ stage = "body"
  /\ \/ /\ done.body < Announced
        /\ IF Expired THEN End(OsFailure)
           ELSE /\ Await("body") /\ done' = [done EXCEPT !.body = @ + 1]
                /\ UNCHANGED <<elapsed, peer, at, holders, response_started, outcome, client_>>
     \/ Proceed("read") /\ UNCHANGED <<elapsed, exchange_, client_>>
     \/ End("refused")                              \* reset, SSLError, framing

(* The last check of the try, and the finally.                             *)
EndRead ==
  /\ stage = "read"
  /\ IF Expired THEN End(OsFailure)
     ELSE /\ Proceed("judge") /\ holders' = Finally
          /\ UNCHANGED <<elapsed, peer, at, done, response_started, outcome, client_>>

RequestId == done.head = "whole" /\ peer.request_id

(* validate_raw.  What is left of a document is none, but nothing left of  *)
(* it is what a route that answers empty must read.                        *)
RawFits == IF peer.expects = "none" THEN done.body = 0
           ELSE HasBody /\ done.body = BodyParts

Entry == [exchange |-> exchanges, status |-> peer.status]

Judge ==
  /\ stage = "judge" /\ Proceed("done")
  /\ transcript' = IF RequestId THEN transcript \cup {Entry} ELSE transcript
  /\ outcome' = IF peer.status = "expected" /\ RawFits /\ ~Expired /\ RequestId
                THEN "returned" ELSE "refused"
  /\ UNCHANGED <<elapsed, peer, at, holders, done, response_started, request_count, exchanges>>

-----------------------------------------------------------------------------
(* The next exchange of the same client.                                   *)
Again ==
  /\ stage = "done" /\ exchanges < MaxExchanges
  /\ stage' = "construct" /\ elapsed' = 0 /\ waitEnd' = 0
  /\ peer' \in Peers
  /\ at' = 1 /\ holders' = [a \in 1..Addresses |-> {}]
  /\ done' = NothingDone /\ response_started' = FALSE /\ outcome' = "none"
  /\ exchanges' = exchanges + 1
  /\ UNCHANGED <<request_count, transcript>>

(* The client wakes from a wait that found nothing.                        *)
TimedOut ==
  /\ TimerFires
  /\ CASE stage = "connecting" -> NextAddress
       [] stage = "handshake" -> EndUnwrapped("unavailable")
       [] OTHER -> End(OsFailure)

(* What the client's thread does alone, and what waits for its peer.       *)
RunExchange == Construct \/ OpenTcp \/ Wrap \/ Pin \/ Begin \/ Started \/ EndRead \/ Judge
Heard == Connect \/ Handshake \/ Send \/ ReadHead \/ ReadBody

ExchangeNext == ExchangeTick \/ RunExchange \/ Heard \/ TimedOut \/ Again

(* Time passes and the client's thread runs; its peer owes it nothing.     *)
ExchangeFairness ==
  WF_exchange_vars(ExchangeTick) /\ WF_exchange_vars(RunExchange) /\ WF_exchange_vars(TimedOut)
ExchangeSpec == ExchangeInit /\ [][ExchangeNext]_exchange_vars /\ ExchangeFairness

-----------------------------------------------------------------------------
Answered == done.head \in {"cut", "whole"}

(* The type of every variable: hub_http.py:221-344, hub_matrix.py:574-599. *)
ExchangeTypeOK ==
  /\ stage \in Waits \cup {"construct", "tcp", "wrap", "pin", "sent", "started",
                        "read", "judge", "done"}
  /\ elapsed \in 0..Late /\ waitEnd \in 0..Total
  /\ peer \in Peers /\ at \in 1..Addresses
  /\ holders \in [1..Addresses -> SUBSET {"local", "connection", "response"}]
  /\ done \in [shaken : 0..HandshakeParts, sent : 0..SendParts,
               head : {"none", "status", "cut", "whole"}, body : 0..BodyParts]
  /\ response_started \in BOOLEAN
  /\ outcome \in {"none", "returned", "unavailable", "refused", "unlabelled"}
  /\ request_count \in 0..MaxExchanges /\ exchanges \in 0..MaxExchanges

(* Whatever fails and wherever, every socket that was opened on the way    *)
(* is closed once the exchange is over, and there was never more than one  *)
(* address open (hub_http.py:238-290, hub_matrix.py:623-626).              *)
NothingHeld ==
  /\ stage = "done" => \A a \in 1..Addresses : holders[a] = {}
  /\ \A a, b \in 1..Addresses : holders[a] # {} /\ holders[b] # {} => a = b

(* No byte of a request, and so no bearer token, goes to a peer that does  *)
(* not hold the installed certificate, and a request is counted before any *)
(* of it is sent (hub_matrix.py:589-597).                                  *)
PinnedFirst ==
  done.sent > 0 => /\ peer.leaf = "installed" /\ peer.address[at] = "listens"
                   /\ request_count > Cardinality({e \in transcript : e.exchange # exchanges})

(* Each wait begins with what then remains, so that together they end with *)
(* the one deadline, however many flights, writes and reads there are      *)
(* (hub_http.py:170-174).                                                  *)
OneDeadline == stage \in Waits => elapsed <= Total

(* The label that lets a case wait for the hub to come back, or take it    *)
(* for stopped, is never given to one that answered: a head that was read  *)
(* ends in a result or in a refusal (hub_matrix.py:605, 613-618).          *)
UnavailableUnanswered == outcome = "unavailable" => ~Answered

(* What is returned was read before the deadline from the installed peer,  *)
(* is all of the document where the route has one, and stands in the       *)
(* transcript, whose entries are requests that were counted                *)
(* (hub_matrix.py:627-649).                                                *)
ReturnedWhole ==
  /\ outcome = "returned" =>
       /\ elapsed < Total
       /\ done.sent = SendParts /\ done.head = "whole"
       /\ peer.expects = "document" => done.body = BodyParts
       /\ Entry \in transcript
  /\ Cardinality(transcript) <= request_count

(* An exchange ends whatever its peer does, or leaves undone.              *)
ExchangeEnds == []<>(stage = "done")

(* One exchange, however it ends: nothing is left open, nothing is said to *)
(* another peer, no wait outlasts the deadline, and what is reported is    *)
(* what happened (hub_http.py:170-344, hub_matrix.py:574-649).             *)
ExchangeExact ==
  /\ ExchangeTypeOK
  /\ NothingHeld /\ PinnedFirst /\ OneDeadline
  /\ UnavailableUnanswered /\ ReturnedWhole
=============================================================================
