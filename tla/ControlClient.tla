---------------------------- MODULE ControlClient ----------------------------
(***************************************************************************)
(* ControlClient of conformance/hub_control.py: one sequenced attachment   *)
(* to the private broker of an installed host, used by the threads of      *)
(* Callers.  The attachment is past its greeting.  The broker is outside   *)
(* the repository: it is modelled from the requests the client sends, the  *)
(* replies it accepts and the brokers of tests/test_hub_control.py, with   *)
(* the faults named by Faults.                                             *)
(*                                                                         *)
(* Challenges are numbers; the greeting carried challenge 0.  Frames that  *)
(* are not strict JSON of the expected shape and identity are "junk".      *)
(***************************************************************************)
EXTENDS Integers, Sequences

CONSTANTS
  Callers,      \* threads that share the client
  NoCaller,     \* owner of the free request lock
  Ops,          \* the operations they ask for
  MaxRequests,  \* bound: requests composed
  MaxFrames,    \* bound: frames the broker sends
  Faults        \* what the broker may do besides answering

Operations == {"verify", "stop", "start", "pair", "revoke"}

ASSUME ControlAssumption ==
  /\ Callers # {} /\ NoCaller \notin Callers
  /\ Ops \subseteq Operations
  /\ MaxRequests \in Nat /\ MaxFrames \in Nat
  /\ Faults \subseteq {"stale", "junk", "reuse", "shape", "early", "hangup"}

VARIABLES
  pc,        \* each caller: "idle", "enter", "send", "recv", or "shut" when its
             \* request failed and the socket is still to be closed
  op,        \* the operation each caller asked for
  lock,      \* holder of _request_lock
  sequence,  \* _sequence
  challenge, \* _challenge
  closed,    \* _closed
  connected, \* the socket is open
  closing,   \* a thread outside request set _closed and has yet to close the socket
  requests,  \* every request sent on the socket, in order
  strayed,   \* history: a request was sent behind one that has no result
  readTo,    \* frames of the broker the client has read
  returned,  \* results returned to callers, in order
  (* the broker *)
  frames,    \* every frame it sent, in order
  handled,   \* requests it has dealt with
  log,       \* requests whose operation it performed, in order
  issued,    \* the challenge it expects next
  brokerUp   \* its end of the socket is open

socketVars == <<connected, closing, strayed>>
clientVars == <<pc, op, lock, sequence, challenge, closed, socketVars, requests, readTo, returned>>
brokerVars == <<frames, handled, log, issued, brokerUp>>
vars == <<clientVars, brokerVars>>

-----------------------------------------------------------------------------
(* Requests and frames *)

RequestOf(o) == [sequence |-> sequence, challenge |-> challenge, op |-> o]

(* stop answers {stopped, events}; the others describe a running host.     *)
KindOf(o) == IF o = "stop" THEN "stopped" ELSE "running"
Frame(type, seq, ch, kind) == [type |-> type, sequence |-> seq, challenge |-> ch, kind |-> kind]
Junk == Frame("junk", 0, 0, "none")

(* Mutant: a reply is not tied to the sequence number of its request. *)
AnySequence(f) == f.type \in {"reply", "error"}

SequenceValid(f) ==
  \/ f.type = "reply" /\ f.sequence = sequence
  \/ f.type = "error" /\ f.sequence \in {sequence - 1, sequence}
(* Mutant: the challenge of a reply need not be new. *)
AnyChallenge(f) == SequenceValid(f)

IdentityValid(f) == SequenceValid(f) /\ f.challenge # challenge

-----------------------------------------------------------------------------
(* request, by thread t *)

(* The client is not closed and the operation is one of the five.          *)
Enter(t, o) ==
  /\ pc[t] = "idle" /\ ~closed
  /\ pc' = [pc EXCEPT ![t] = "enter"]
  /\ op' = [op EXCEPT ![t] = o]
  /\ UNCHANGED <<lock, sequence, challenge, closed, socketVars, requests, readTo, returned, brokerVars>>

Overlap(t) ==
  /\ pc[t] = "enter" /\ lock # NoCaller
  /\ pc' = [pc EXCEPT ![t] = "idle"]
  /\ UNCHANGED <<op, lock, sequence, challenge, closed, socketVars, requests, readTo, returned, brokerVars>>

(* The lock was free: the next sequence number is taken.                   *)
Acquire(t) ==
  /\ pc[t] = "enter" /\ lock = NoCaller /\ sequence < MaxRequests
  /\ lock' = t
  /\ sequence' = sequence + 1
  /\ pc' = [pc EXCEPT ![t] = "send"]
  /\ UNCHANGED <<op, challenge, closed, socketVars, requests, readTo, returned, brokerVars>>

Leave(t) == pc' = [pc EXCEPT ![t] = "idle"] /\ lock' = NoCaller
(* Mutant: the lock is not released on the failure path. *)
FailKeepsLock(t) == pc' = [pc EXCEPT ![t] = "idle"] /\ closed' = TRUE /\ UNCHANGED lock
(* Mutant: the failing thread sets the flag and leaves the socket open. *)
FailFlagOnly(t) == Leave(t) /\ closed' = TRUE

(* close returns at once if the flag is set; else it sets it, and the      *)
(* socket is closed before the lock is released.                           *)
FailClosed(t) ==
  IF closed
  THEN Leave(t) /\ UNCHANGED closed
  ELSE pc' = [pc EXCEPT ![t] = "shut"] /\ closed' = TRUE /\ UNCHANGED lock

Shut(t) ==
  /\ pc[t] = "shut"
  /\ connected' = FALSE
  /\ Leave(t)
  /\ UNCHANGED <<op, sequence, challenge, closed, closing, strayed, requests, readTo, returned,
                 brokerVars>>

(* The flag was read before the lock was taken and is not read again: only *)
(* the closed socket stops a request.                                      *)
Send(t) ==
  /\ pc[t] = "send" /\ connected /\ brokerUp
  /\ requests' = Append(requests, RequestOf(op[t]))
  /\ strayed' = (strayed \/ Len(returned) # sequence - 1)
  /\ pc' = [pc EXCEPT ![t] = "recv"]
  /\ UNCHANGED <<op, lock, sequence, challenge, closed, connected, closing, readTo, returned,
                 brokerVars>>

(* The socket is closed, the peer is gone or the deadline passed before    *)
(* the whole request was sent.                                             *)
SendFails(t) ==
  /\ pc[t] = "send"
  /\ FailClosed(t)
  /\ UNCHANGED <<op, sequence, challenge, socketVars, requests, readTo, returned, brokerVars>>

(* _read_frame takes the next frame, which may have arrived before this    *)
(* request was sent; the bytes behind it stay in the read buffer.          *)
Reads(t) == pc[t] = "recv" /\ readTo < Len(frames) /\ readTo' = readTo + 1
Reply == frames[readTo + 1]

Accept(t) ==
  /\ Reads(t)
  /\ Reply.type = "reply" /\ IdentityValid(Reply) /\ Reply.kind = KindOf(op[t])
  /\ challenge' = Reply.challenge
  /\ returned' = Append(returned, [sequence |-> sequence, op |-> op[t]])
  /\ Leave(t)
  /\ UNCHANGED <<op, sequence, closed, socketVars, requests, brokerVars>>

(* A valid frame that is an error, has a result of the wrong shape, or is  *)
(* complete only after the deadline: its challenge was adopted already.    *)
AdoptAndFail(t) ==
  /\ Reads(t)
  /\ IdentityValid(Reply)
  /\ challenge' = Reply.challenge
  /\ FailClosed(t)
  /\ UNCHANGED <<op, sequence, socketVars, requests, returned, brokerVars>>

RefuseFrame(t) ==
  /\ Reads(t)
  /\ ~IdentityValid(Reply)
  /\ FailClosed(t)
  /\ UNCHANGED <<op, sequence, challenge, socketVars, requests, returned, brokerVars>>

(* Mutant: a request that times out leaves the attachment open. *)
RecvFailsOpen(t) ==
  /\ pc[t] = "recv"
  /\ Leave(t)
  /\ UNCHANGED <<op, sequence, challenge, closed, socketVars, requests, readTo, returned, brokerVars>>

(* The operation's deadline passes, the broker hangs up, or the socket was *)
(* closed by another thread.                                               *)
RecvFails(t) ==
  /\ pc[t] = "recv"
  /\ FailClosed(t)
  /\ UNCHANGED <<op, sequence, challenge, socketVars, requests, readTo, returned, brokerVars>>

(* close, or the end of the with statement, in a thread that is not in     *)
(* request: the flag, and then the socket.                                 *)
Close ==
  /\ ~closed /\ closed' = TRUE /\ closing' = TRUE
  /\ UNCHANGED <<pc, op, lock, sequence, challenge, connected, strayed, requests, readTo, returned,
                 brokerVars>>

CloseSocket ==
  /\ closing /\ closing' = FALSE /\ connected' = FALSE
  /\ UNCHANGED <<pc, op, lock, sequence, challenge, closed, strayed, requests, readTo, returned,
                 brokerVars>>

-----------------------------------------------------------------------------
(* The broker *)

Transmit(f) == Len(frames) < MaxFrames /\ brokerUp /\ frames' = Append(frames, f)

NextRequest == requests[handled + 1]
Handles == handled < Len(requests) /\ handled' = handled + 1 /\ UNCHANGED <<clientVars, brokerUp>>
Expected(r) == r.sequence = handled + 1 /\ r.challenge = issued

Perform ==
  /\ Handles /\ Expected(NextRequest)
  /\ log' = Append(log, [sequence |-> NextRequest.sequence, op |-> NextRequest.op])
  /\ issued' = issued + 1
  /\ \/ Transmit(Frame("reply", NextRequest.sequence, issued + 1, KindOf(NextRequest.op)))
     \/ Transmit(Frame("error", NextRequest.sequence, issued + 1, "code"))

(* Refused: as invalid, without consuming its sequence number, or failed   *)
(* without effect.                                                         *)
Refuse ==
  /\ Handles
  /\ issued' = issued + 1
  /\ \E n \in {NextRequest.sequence - 1, NextRequest.sequence} :
       Transmit(Frame("error", n, issued + 1, "code"))
  /\ UNCHANGED log

(* The operation is performed but its answer is never sent.                *)
PerformSilently ==
  /\ Handles /\ Expected(NextRequest)
  /\ log' = Append(log, [sequence |-> NextRequest.sequence, op |-> NextRequest.op])
  /\ UNCHANGED <<frames, issued>>

BadFrames ==
  (IF "stale" \in Faults THEN {frames[i] : i \in 1..Len(frames)} ELSE {})
    \cup (IF "junk" \in Faults THEN {Junk} ELSE {})
    \cup (IF "reuse" \in Faults
          THEN {Frame("reply", Len(log), issued, k) : k \in {"stopped", "running"}} ELSE {})
    \cup (IF "shape" \in Faults THEN {Frame("reply", Len(log), issued + 1, "none")} ELSE {})
    \cup (IF "early" \in Faults
          THEN {Frame("reply", Len(log) + 1, issued + 1, k) : k \in {"stopped", "running"}} ELSE {})

Misbehave ==
  /\ \E f \in BadFrames : Transmit(f)
  /\ UNCHANGED <<clientVars, handled, log, issued, brokerUp>>

HangUp ==
  /\ "hangup" \in Faults /\ brokerUp
  /\ brokerUp' = FALSE
  /\ UNCHANGED <<clientVars, frames, handled, log, issued>>

-----------------------------------------------------------------------------
Init ==
  /\ pc = [t \in Callers |-> "idle"] /\ op = [t \in Callers |-> "verify"]
  /\ lock = NoCaller /\ sequence = 0 /\ challenge = 0
  /\ closed = FALSE /\ connected = TRUE /\ closing = FALSE /\ strayed = FALSE
  /\ requests = <<>> /\ readTo = 0 /\ returned = <<>>
  /\ frames = <<>> /\ handled = 0 /\ log = <<>> /\ issued = 0 /\ brokerUp = TRUE

Sending(t) == Send(t) \/ SendFails(t)
Receiving(t) == Accept(t) \/ AdoptAndFail(t) \/ RefuseFrame(t) \/ RecvFails(t)
InRequest(t) == Overlap(t) \/ Acquire(t) \/ Sending(t) \/ Receiving(t) \/ Shut(t)
Caller(t) == (\E o \in Ops : Enter(t, o)) \/ InRequest(t)
Broker == Perform \/ Refuse \/ PerformSilently \/ Misbehave \/ HangUp

Next == (\E t \in Callers : Caller(t)) \/ Close \/ CloseSocket \/ Broker
Spec == Init /\ [][Next]_vars
(* Every request ends: a deadline bounds each wait, and nobody waits for   *)
(* the lock.                                                               *)
FairSpec == Spec /\ \A t \in Callers : WF_vars(Overlap(t) \/ Sending(t) \/ Receiving(t) \/ Shut(t))

-----------------------------------------------------------------------------
TypeOK ==
  /\ pc \in [Callers -> {"idle", "enter", "send", "recv", "shut"}]
  /\ op \in [Callers -> Operations]
  /\ lock \in Callers \cup {NoCaller}
  /\ sequence \in Nat /\ challenge \in Nat
  /\ closed \in BOOLEAN /\ connected \in BOOLEAN /\ closing \in BOOLEAN /\ strayed \in BOOLEAN
  /\ requests \in Seq([sequence : Nat, challenge : Nat, op : Operations])
  /\ readTo \in 0..Len(frames)
  /\ returned \in Seq([sequence : Nat, op : Operations])
  /\ frames \in Seq([type : {"reply", "error", "junk"}, sequence : Int, challenge : Nat,
                     kind : {"none", "stopped", "running", "code"}])
  /\ handled \in 0..Len(requests)
  /\ log \in Seq([sequence : Nat, op : Operations])
  /\ issued \in Nat /\ brokerUp \in BOOLEAN

(* While the client is open and no request is in progress, the results the *)
(* callers were given are exactly the operations the host performed, one   *)
(* for each sequence number taken: a caller that may ask again knows the   *)
(* state of the host, whatever stale, malformed or missing frames came     *)
(* before.                                                                 *)
QuietAgreement ==
  ~closed /\ lock = NoCaller => log = returned /\ Len(log) = sequence

(* Against any broker: no sequence number goes out twice or out of order,  *)
(* and while no request was sent behind one without a result, they are     *)
(* consecutive and no two in a row carry one challenge.                    *)
WireDiscipline ==
  /\ \A i \in 1..Len(requests), j \in 1..Len(requests) :
       i < j => requests[i].sequence < requests[j].sequence
  /\ ~strayed =>
       /\ \A i \in 1..Len(requests) : requests[i].sequence = i
       /\ \A i \in 1..Len(requests) - 1 : requests[i].challenge # requests[i + 1].challenge

(* A request that fails is the last one sent, also when another thread was *)
(* past the closed flag before: the socket is closed before the lock is    *)
(* free.  Only a thread outside request that is itself half way through    *)
(* close, flag set and socket open, lets a later request out behind it.    *)
FailureIsLast == [][strayed' # strayed => closing]_vars

(* A thread in request leaves it, with a result or an error, and gives the *)
(* lock back.                                                              *)
RequestEnds == \A t \in Callers : pc[t] \in {"send", "recv", "shut"} ~> lock # t

(* The attachment implements the session LifecycleSession promises.        *)
OpsOf(s) == [i \in 1..Len(s) |-> s[i].op]
Lifecycle == INSTANCE LifecycleSession WITH
  mode <- IF strayed THEN "void" ELSE IF closed THEN "over"
          ELSE IF lock = NoCaller THEN "ready" ELSE "busy",
  asked <- OpsOf(requests), done <- OpsOf(log), known <- OpsOf(returned)
LifecycleSpec == Lifecycle!Spec

=============================================================================
