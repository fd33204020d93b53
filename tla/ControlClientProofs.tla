-------------------------- MODULE ControlClientProofs --------------------------
(***************************************************************************)
(* Theorems about ControlClient, for any set of callers and any bounds.    *)
(* What the client puts on the wire needs nothing of the broker; that its  *)
(* callers and the host agree, and that the attachment implements          *)
(* LifecycleSession, needs a broker that does not answer before it is      *)
(* asked ("early" \notin Faults).                                          *)
(***************************************************************************)
EXTENDS ControlClient, SequenceTheorems, TLAPS

InLock(t) == pc[t] \in {"send", "recv", "shut"}

(* The socket of a closed client is open only while the thread that set    *)
(* the flag is still to close it.                                          *)
Window ==
  /\ closing \/ ~connected \/ strayed => closed
  /\ \A t \in Callers : pc[t] = "shut" => closed
  /\ closed /\ connected => closing \/ \E t \in Callers : pc[t] = "shut"

(* What each caller in request may rely on.                                *)
Locked ==
  /\ \A t \in Callers : InLock(t) <=> lock = t
  /\ Len(requests) <= sequence /\ Len(returned) <= Len(requests)
  /\ \A i \in 1..Len(requests) : requests[i].sequence <= sequence
  /\ ~closed /\ lock = NoCaller => Len(requests) = sequence /\ Len(returned) = sequence
  /\ \A t \in Callers :
       /\ pc[t] = "send" =>
            /\ Len(requests) < sequence
            /\ \A i \in 1..Len(requests) : requests[i].sequence < sequence
            /\ ~closed => Len(returned) = sequence - 1
       /\ pc[t] = "recv" =>
            /\ Len(returned) < Len(requests)
            /\ requests[Len(requests)] =
                 [sequence |-> sequence, challenge |-> challenge, op |-> op[t]]
            /\ ~strayed => Len(requests) = sequence /\ Len(returned) = sequence - 1

(* Once every request has its result, the challenge in hand is not the one *)
(* the last request used.                                                  *)
Fresh ==
  Len(returned) = Len(requests) /\ requests # <<>> =>
    requests[Len(requests)].challenge # challenge

WireInv == TypeOK /\ Window /\ Locked /\ Fresh /\ WireDiscipline

(* The host performed a prefix of what was asked, at most one operation    *)
(* short.                                                                  *)
Performed ==
  /\ Len(requests) <= Len(log) + 1
  /\ \A i \in 1..Len(log) : log[i] = [sequence |-> i, op |-> requests[i].op]

(* No reply runs ahead of the operations performed.                        *)
Answered ==
  \A i \in 1..Len(frames) : frames[i].type = "reply" => frames[i].sequence <= Len(log)

(* The callers' results are a prefix of the host's log.                    *)
Known ==
  /\ Len(returned) <= Len(log)
  /\ \A i \in 1..Len(returned) : returned[i] = log[i]

AgreementInv ==
  /\ Len(log) <= handled
  /\ ~strayed => Performed /\ Answered /\ Known

-----------------------------------------------------------------------------
(* Type correctness, step by step. *)

FrameSet == [type : {"reply", "error", "junk"}, sequence : Int, challenge : Nat,
             kind : {"none", "stopped", "running", "code"}]

(* The frames a faulty broker sends are its old ones, or of these forms.   *)
LEMMA BadFrameForms ==
  ASSUME NEW f \in BadFrames
  PROVE  \/ \E i \in 1..Len(frames) : f = frames[i]
         \/ f = Frame("junk", 0, 0, "none")
         \/ \E k \in {"stopped", "running"} : f = Frame("reply", Len(log), issued, k)
         \/ f = Frame("reply", Len(log), issued + 1, "none")
         \/ /\ "early" \in Faults
            /\ \E k \in {"stopped", "running"} : f = Frame("reply", Len(log) + 1, issued + 1, k)
<1>1. CASE f \in (IF "stale" \in Faults THEN {frames[i] : i \in 1..Len(frames)} ELSE {})
  BY <1>1
<1>2. CASE f \in (IF "junk" \in Faults THEN {Junk} ELSE {})
  BY <1>2 DEF Junk
<1>3. CASE f \in (IF "reuse" \in Faults
                 THEN {Frame("reply", Len(log), issued, k) : k \in {"stopped", "running"}}
                 ELSE {})
  BY <1>3
<1>4. CASE f \in (IF "shape" \in Faults THEN {Frame("reply", Len(log), issued + 1, "none")} ELSE {})
  BY <1>4
<1>5. CASE f \in (IF "early" \in Faults
                 THEN {Frame("reply", Len(log) + 1, issued + 1, k) : k \in {"stopped", "running"}}
                 ELSE {})
  BY <1>5
<1> QED
  BY <1>1, <1>2, <1>3, <1>4, <1>5 DEF BadFrames

LEMMA FrameTypes ==
  /\ TypeOK => \A i \in 1..Len(frames) : frames[i] \in FrameSet
  /\ \A type \in {"reply", "error", "junk"}, n \in Int, c \in Nat,
        kind \in {"none", "stopped", "running", "code"} :
        Frame(type, n, c, kind) \in FrameSet
<1>1. ASSUME TypeOK, NEW i \in 1..Len(frames) PROVE frames[i] \in FrameSet
  <2>1. frames \in Seq(FrameSet)
    BY <1>1 DEF TypeOK, FrameSet
  <2> QED
    BY <1>1, <2>1, ElementOfSeq
<1>2. ASSUME NEW type \in {"reply", "error", "junk"}, NEW n \in Int, NEW c \in Nat,
             NEW kind \in {"none", "stopped", "running", "code"}
      PROVE  Frame(type, n, c, kind) \in FrameSet
  BY DEF Frame, FrameSet
<1> QED
  BY <1>1, <1>2

LEMMA BadFramesTypes ==
  ASSUME TypeOK PROVE BadFrames \subseteq FrameSet
<1>1. Len(log) \in Nat /\ issued \in Nat
  BY DEF TypeOK
<1> QED
  BY <1>1, BadFrameForms, FrameTypes

LEMMA ReplyType ==
  ASSUME TypeOK, NEW t \in Callers, Reads(t) PROVE Reply \in FrameSet
<1>1. readTo + 1 \in 1..Len(frames)
  BY DEF TypeOK, Reads
<1> QED
  BY <1>1, FrameTypes DEF Reply

LEMMA FailClosedTypes ==
  ASSUME TypeOK, NEW t \in Callers, FailClosed(t)
  PROVE  /\ pc' \in [Callers -> {"idle", "enter", "send", "recv", "shut"}]
         /\ lock' \in Callers \cup {NoCaller} /\ closed' \in BOOLEAN
BY DEF TypeOK, FailClosed, Leave

LEMMA TypeCaller ==
  ASSUME TypeOK, NEW t \in Callers, Caller(t) PROVE TypeOK'
<1> USE ControlAssumption DEF TypeOK, brokerVars, socketVars, Operations, Leave, FailClosed
<1>1. ASSUME NEW o \in Ops, Enter(t, o) PROVE TypeOK'
  BY <1>1 DEF Enter
<1>2. CASE Overlap(t)
  BY <1>2 DEF Overlap
<1>3. CASE Acquire(t)
  BY <1>3 DEF Acquire
<1>4. CASE Send(t)
  BY <1>4 DEF Send, RequestOf
<1>5. CASE SendFails(t)
  BY <1>5 DEF SendFails
<1>6. CASE Accept(t)
  <2>1. Reply.challenge \in Nat
    BY <1>6, ReplyType DEF Accept, FrameSet
  <2> QED
    BY <1>6, <2>1 DEF Accept, Reads
<1>7. CASE AdoptAndFail(t)
  <2>1. Reply.challenge \in Nat
    BY <1>7, ReplyType DEF AdoptAndFail, FrameSet
  <2>2. FailClosed(t) /\ readTo' \in 0..Len(frames)
    BY <1>7 DEF AdoptAndFail, Reads
  <2> HIDE DEF FailClosed
  <2> QED
    BY <1>7, <2>1, <2>2, FailClosedTypes DEF AdoptAndFail
<1>8. CASE RefuseFrame(t)
  <2>1. FailClosed(t) /\ readTo' \in 0..Len(frames)
    BY <1>8 DEF RefuseFrame, Reads
  <2> HIDE DEF FailClosed
  <2> QED
    BY <1>8, <2>1, FailClosedTypes DEF RefuseFrame
<1>9. CASE RecvFails(t)
  BY <1>9 DEF RecvFails
<1>10. CASE Shut(t)
  BY <1>10 DEF Shut
<1> QED
  BY <1>1, <1>2, <1>3, <1>4, <1>5, <1>6, <1>7, <1>8, <1>9, <1>10
  DEF Caller, InRequest, Sending, Receiving

LEMMA TransmitTypes ==
  ASSUME TypeOK, NEW f \in FrameSet, Transmit(f)
  PROVE  /\ frames' \in Seq([type : {"reply", "error", "junk"}, sequence : Int, challenge : Nat,
                            kind : {"none", "stopped", "running", "code"}])
         /\ readTo \in 0..Len(frames')
<1>1. frames \in Seq(FrameSet) /\ readTo \in 0..Len(frames) /\ frames' = Append(frames, f)
  BY DEF TypeOK, Transmit, FrameSet
<1>2. frames' \in Seq(FrameSet) /\ Len(frames') = Len(frames) + 1 /\ Len(frames) \in Nat
  BY <1>1, AppendProperties, LenProperties
<1> QED
  BY <1>1, <1>2 DEF FrameSet

LEMMA TypeBroker ==
  ASSUME TypeOK, Broker PROVE TypeOK'
<1> USE DEF TypeOK, clientVars, socketVars
<1>1. ASSUME Handles PROVE NextRequest \in [sequence : Nat, challenge : Nat, op : Operations]
  <2>1. handled + 1 \in 1..Len(requests)
    BY <1>1 DEF Handles
  <2> QED
    BY <2>1, ElementOfSeq DEF NextRequest
<1>2. CASE Perform
  <2>1. PICK f : Transmit(f) /\ f \in FrameSet
    BY <1>1, <1>2, FrameTypes DEF Perform, KindOf
  <2> QED
    BY <1>1, <1>2, <2>1, TransmitTypes DEF Perform, Handles
<1>3. CASE Refuse
  <2>1. PICK f : Transmit(f) /\ f \in FrameSet
    BY <1>1, <1>3, FrameTypes DEF Refuse
  <2> QED
    BY <1>1, <1>3, <2>1, TransmitTypes DEF Refuse, Handles
<1>4. CASE PerformSilently
  BY <1>1, <1>4 DEF PerformSilently, Handles
<1>5. CASE Misbehave
  BY <1>5, BadFramesTypes DEF Misbehave, Transmit, FrameSet
<1>6. CASE HangUp
  BY <1>6 DEF HangUp
<1> QED
  BY <1>2, <1>3, <1>4, <1>5, <1>6 DEF Broker

LEMMA TypeStep ==
  ASSUME TypeOK, [Next]_vars PROVE TypeOK'
<1>1. CASE Close \/ CloseSocket
  BY <1>1 DEF Close, CloseSocket, TypeOK, brokerVars
<1>2. CASE UNCHANGED vars
  BY <1>2 DEF TypeOK, vars, clientVars, socketVars, brokerVars
<1> QED
  BY <1>1, <1>2, TypeCaller, TypeBroker DEF Next

-----------------------------------------------------------------------------
(* The client's side of the wire. *)

(* The counts of the variables, for leaves that need nothing else of them. *)
LEMMA Counts ==
  WireInv => /\ sequence \in Nat /\ handled \in Nat /\ Len(requests) \in Nat
             /\ Len(log) \in Nat /\ Len(returned) \in Nat
BY DEF WireInv, TypeOK

(* A request that is sent is the new last one, and all others stay.        *)
LEMMA SendAppends ==
  ASSUME TypeOK, NEW t \in Callers, Send(t)
  PROVE  /\ Len(requests') = Len(requests) + 1 /\ Len(requests) \in Nat
         /\ requests'[Len(requests) + 1] =
              [sequence |-> sequence, challenge |-> challenge, op |-> op[t]]
         /\ \A i \in 1..Len(requests) : requests'[i] = requests[i]
<1>1. requests' = Append(requests, RequestOf(op[t]))
  BY DEF Send
<1>2. requests \in Seq([sequence : Nat, challenge : Nat, op : Operations])
  BY DEF TypeOK
<1>3. RequestOf(op[t]) \in [sequence : Nat, challenge : Nat, op : Operations]
  BY DEF RequestOf, TypeOK
<1> QED
  BY <1>1, <1>2, <1>3, AppendProperties, LenProperties DEF RequestOf

(* A failing request leaves with the flag set, and itself closes the       *)
(* socket first if it is the one that set it.                              *)
LEMMA WireFail ==
  ASSUME WireInv, NEW t \in Callers, FailClosed(t), pc[t] \in {"send", "recv"},
         UNCHANGED <<op, sequence, socketVars, requests, returned>>,
         challenge' = challenge \/ pc[t] = "recv"
  PROVE  Window' /\ Locked' /\ Fresh' /\ WireDiscipline'
<1> USE DEF socketVars
<1>1. /\ closed' = TRUE /\ lock = t /\ NoCaller \notin Callers
      /\ pc' \in [Callers -> {"idle", "enter", "send", "recv", "shut"}]
      /\ \/ ~closed /\ pc'[t] = "shut" /\ lock' = lock
         \/ closed /\ pc'[t] = "idle" /\ lock' = NoCaller
      /\ \A u \in Callers \ {t} : pc'[u] = pc[u] /\ ~InLock(u)
  <2>1. lock = t /\ NoCaller \notin Callers
    BY ControlAssumption DEF WireInv, Locked, InLock
  <2>2. /\ pc' \in [Callers -> {"idle", "enter", "send", "recv", "shut"}]
        /\ closed' = TRUE
        /\ \/ ~closed /\ pc' = [pc EXCEPT ![t] = "shut"] /\ lock' = lock
           \/ closed /\ pc' = [pc EXCEPT ![t] = "idle"] /\ lock' = NoCaller
    BY DEF FailClosed, Leave, WireInv, TypeOK
  <2>3. pc'[t] = (IF closed THEN "idle" ELSE "shut") /\ \A u \in Callers \ {t} : pc'[u] = pc[u]
    BY <2>2 DEF WireInv, TypeOK
  <2>4. \A u \in Callers \ {t} : ~InLock(u)
    BY <2>1 DEF WireInv, Locked
  <2> QED
    BY <2>1, <2>2, <2>3, <2>4
<1>2. Window'
  BY <1>1 DEF WireInv, Window, InLock
<1>3. Locked'
  <2>1. \A u \in Callers : pc'[u] \notin {"send", "recv"}
    BY <1>1 DEF InLock
  <2>2. \A u \in Callers : InLock(u)' <=> lock' = u
    BY <1>1 DEF InLock
  <2> QED
    BY <1>1, <2>1, <2>2 DEF WireInv, Locked
<1>4. Fresh'
  <2>1. CASE pc[t] = "recv"
    <3>1. Len(returned) < Len(requests)
      BY <2>1 DEF WireInv, Locked
    <3> QED
      BY <3>1, Counts DEF Fresh
  <2>2. CASE challenge' = challenge
    BY <2>2 DEF WireInv, Fresh
  <2> QED
    BY <2>1, <2>2
<1>5. WireDiscipline'
  BY DEF WireInv, WireDiscipline
<1> QED
  BY <1>2, <1>3, <1>4, <1>5

LEMMA WireSend ==
  ASSUME WireInv, NEW t \in Callers, Send(t)
  PROVE  Window' /\ Locked' /\ Fresh' /\ WireDiscipline'
<1>1. /\ pc[t] = "send" /\ lock = t /\ NoCaller \notin Callers
      /\ pc' = [pc EXCEPT ![t] = "recv"]
      /\ UNCHANGED <<op, lock, sequence, challenge, closed, connected, closing, returned>>
      /\ strayed' = (strayed \/ Len(returned) # sequence - 1)
  BY ControlAssumption DEF Send, WireInv, Locked, InLock
<1>2. /\ pc'[t] = "recv" /\ \A u \in Callers \ {t} : pc'[u] = pc[u] /\ ~InLock(u)
  BY <1>1 DEF WireInv, TypeOK, Locked
<1> DEFINE n == Len(requests)
<1>3. /\ n \in Nat /\ sequence \in Nat /\ Len(returned) \in Nat
      /\ n < sequence /\ Len(returned) <= n
      /\ \A i \in 1..n : requests[i].sequence < sequence
      /\ ~closed => Len(returned) = sequence - 1
  BY <1>1, Counts DEF WireInv, Locked
<1>4. /\ Len(requests') = n + 1
      /\ requests'[n + 1] = [sequence |-> sequence, challenge |-> challenge, op |-> op[t]]
      /\ \A i \in 1..n : requests'[i] = requests[i]
  BY SendAppends DEF WireInv
<1> HIDE DEF n
<1>5. requests'[n + 1].sequence = sequence /\ requests'[n + 1].challenge = challenge
  BY <1>4
<1>6. Window'
  BY <1>1, <1>2, <1>3 DEF WireInv, Window, InLock
<1>7. ~strayed' => n = sequence - 1 /\ Len(returned) = sequence - 1 /\ ~strayed
  <2>1. ~strayed' => ~strayed /\ Len(returned) = sequence - 1
    BY <1>1 DEF WireInv, TypeOK
  <2> QED
    BY <1>3, <2>1
<1>8. Locked'
  <2>1. \A u \in Callers : InLock(u)' <=> lock' = u
    BY <1>1, <1>2 DEF WireInv, Locked, InLock
  <2>2. \A i \in 1..n + 1 : requests'[i].sequence <= sequence
    BY <1>3, <1>4, <1>5 DEF WireInv, Locked, n
  <2>3. \A u \in Callers : pc'[u] # "send" /\ (pc'[u] = "recv" => u = t)
    BY <1>2 DEF InLock
  <2> QED
    BY <1>1, <1>2, <1>3, <1>4, <1>7, <2>1, <2>2, <2>3 DEF Locked
<1>9. Fresh'
  BY <1>1, <1>3, <1>4 DEF Fresh
<1>10. WireDiscipline'
  <2>1. ASSUME NEW i \in 1..n + 1, NEW j \in 1..n + 1, i < j
        PROVE  requests'[i].sequence < requests'[j].sequence
    <3>1. i \in 1..n
      BY <1>3, <2>1
    <3>2. CASE j = n + 1
      BY <1>3, <1>4, <1>5, <3>1, <3>2
    <3>3. CASE j \in 1..n
      BY <1>4, <2>1, <3>1, <3>3 DEF WireInv, WireDiscipline, n
    <3> QED
      BY <1>3, <3>2, <3>3
  <2>2. ASSUME ~strayed', NEW i \in 1..n + 1 PROVE requests'[i].sequence = i
    <3>1. CASE i = n + 1
      BY <1>3, <1>5, <1>7, <2>2, <3>1
    <3>2. CASE i \in 1..n
      BY <1>4, <1>7, <2>2, <3>2 DEF WireInv, WireDiscipline, n
    <3> QED
      BY <1>3, <3>1, <3>2
  <2>3. ASSUME ~strayed', NEW i \in 1..n PROVE requests'[i].challenge # requests'[i + 1].challenge
    <3>1. CASE i = n
      <4>1. requests[n].challenge # challenge
        BY <1>7, <1>3, <2>3, <3>1 DEF WireInv, Fresh, n
      <4> QED
        BY <1>4, <1>5, <3>1, <4>1
    <3>2. CASE i \in 1..n - 1
      <4>1. i + 1 \in 1..n
        BY <1>3, <3>2
      <4> QED
        BY <1>4, <1>7, <2>3, <3>2, <4>1 DEF WireInv, WireDiscipline, n
    <3> QED
      BY <1>3, <3>1, <3>2
  <2> QED
    BY <1>3, <1>4, <2>1, <2>2, <2>3 DEF WireDiscipline
<1> QED
  BY <1>6, <1>8, <1>9, <1>10

LEMMA WireAccept ==
  ASSUME WireInv, NEW t \in Callers, Accept(t)
  PROVE  Window' /\ Locked' /\ Fresh' /\ WireDiscipline'
<1>1. /\ pc[t] = "recv" /\ lock = t /\ NoCaller \notin Callers
      /\ pc' = [pc EXCEPT ![t] = "idle"] /\ lock' = NoCaller /\ challenge' # challenge
      /\ UNCHANGED <<op, sequence, closed, connected, closing, strayed, requests>>
      /\ returned' = Append(returned, [sequence |-> sequence, op |-> op[t]])
  BY ControlAssumption DEF Accept, Reads, IdentityValid, Leave, socketVars, WireInv, Locked, InLock
<1>2. \A u \in Callers : ~InLock(u)' /\ pc'[u] \notin {"send", "recv", "shut"}
  BY <1>1 DEF WireInv, TypeOK, Locked, InLock
<1>3. Len(returned') = Len(returned) + 1
  BY <1>1 DEF WireInv, TypeOK
<1>4. /\ Len(returned) < Len(requests)
      /\ requests[Len(requests)].challenge = challenge
      /\ ~strayed => Len(requests) = sequence /\ Len(returned) = sequence - 1
  <2>1. /\ Len(returned) < Len(requests)
        /\ requests[Len(requests)] = [sequence |-> sequence, challenge |-> challenge, op |-> op[t]]
        /\ ~strayed => Len(requests) = sequence /\ Len(returned) = sequence - 1
    BY <1>1 DEF WireInv, Locked
  <2>2. requests[Len(requests)].challenge = challenge
    BY <2>1
  <2> QED
    BY <2>1, <2>2
<1>5. Window'
  <2>1. \A u \in Callers : pc[u] # "shut"
    BY <1>1 DEF WireInv, Locked, InLock
  <2> QED
    BY <1>1, <1>2, <2>1 DEF WireInv, Window
<1>6. Locked'
  <2>1. strayed => closed
    BY DEF WireInv, Window
  <2> QED
    BY <1>1, <1>2, <1>3, <1>4, <2>1, Counts DEF WireInv, Locked
<1>7. Fresh'
  BY <1>1, <1>4 DEF Fresh
<1>8. WireDiscipline'
  BY <1>1 DEF WireInv, WireDiscipline
<1> QED
  BY <1>5, <1>6, <1>7, <1>8

LEMMA WireCaller ==
  ASSUME WireInv, NEW t \in Callers, Caller(t)
  PROVE  Window' /\ Locked' /\ Fresh' /\ WireDiscipline'
<1>1. ASSUME NEW o \in Ops, Enter(t, o)
      PROVE  Window' /\ Locked' /\ Fresh' /\ WireDiscipline'
  <2>1. /\ pc[t] = "idle" /\ pc' = [pc EXCEPT ![t] = "enter"] /\ op' = [op EXCEPT ![t] = o]
        /\ UNCHANGED <<lock, sequence, challenge, closed, socketVars, requests, returned>>
    BY <1>1 DEF Enter
  <2>2. \A u \in Callers :
          (pc'[u] = pc[u] /\ op'[u] = op[u]) \/ (pc'[u] = "enter" /\ pc[u] = "idle")
    BY <2>1 DEF WireInv, TypeOK
  <2> QED
    BY <2>1, <2>2 DEF WireInv, Window, Locked, Fresh, WireDiscipline, InLock, socketVars
<1>2. CASE Overlap(t)
  <2>1. /\ pc[t] = "enter" /\ pc' = [pc EXCEPT ![t] = "idle"]
        /\ UNCHANGED <<op, lock, sequence, challenge, closed, socketVars, requests, returned>>
    BY <1>2 DEF Overlap
  <2>2. \A u \in Callers : pc'[u] = pc[u] \/ (pc'[u] = "idle" /\ pc[u] = "enter")
    BY <2>1 DEF WireInv, TypeOK
  <2> QED
    BY <2>1, <2>2 DEF WireInv, Window, Locked, Fresh, WireDiscipline, InLock, socketVars
<1>3. CASE Acquire(t)
  <2>1. /\ pc[t] = "enter" /\ lock = NoCaller /\ lock' = t /\ sequence' = sequence + 1
        /\ pc' = [pc EXCEPT ![t] = "send"] /\ NoCaller \notin Callers
        /\ UNCHANGED <<op, challenge, closed, socketVars, requests, returned>>
    BY <1>3, ControlAssumption DEF Acquire
  <2>2. pc'[t] = "send" /\ \A u \in Callers \ {t} : pc'[u] = pc[u] /\ ~InLock(u)
    BY <2>1 DEF WireInv, TypeOK, Locked
  <2>3. Window'
    BY <2>1, <2>2 DEF WireInv, Window, socketVars, InLock
  <2>4. Locked'
    <3>1. \A u \in Callers : InLock(u)' <=> lock' = u
      BY <2>1, <2>2 DEF InLock
    <3>2. \A i \in 1..Len(requests) : requests[i].sequence \in Nat
      <4>1. requests \in Seq([sequence : Nat, challenge : Nat, op : Operations])
        BY DEF WireInv, TypeOK
      <4>2. ASSUME NEW i \in 1..Len(requests)
            PROVE  requests[i] \in [sequence : Nat, challenge : Nat, op : Operations]
        BY <4>1, ElementOfSeq
      <4> QED
        BY <4>2
    <3>3. \A u \in Callers : pc'[u] # "recv" /\ (pc'[u] = "send" => u = t)
      BY <2>2 DEF InLock
    <3> QED
      BY <2>1, <3>1, <3>2, <3>3, Counts DEF WireInv, Locked
  <2> QED
    BY <2>1, <2>3, <2>4 DEF WireInv, Fresh, WireDiscipline, socketVars
<1>4. CASE Send(t)
  BY <1>4, WireSend
<1>5. CASE Accept(t)
  BY <1>5, WireAccept
<1>6. CASE SendFails(t) \/ AdoptAndFail(t) \/ RefuseFrame(t) \/ RecvFails(t)
  <2>1. /\ FailClosed(t) /\ pc[t] \in {"send", "recv"}
        /\ UNCHANGED <<op, sequence, socketVars, requests, returned>>
        /\ challenge' = challenge \/ pc[t] = "recv"
    BY <1>6 DEF SendFails, AdoptAndFail, RefuseFrame, RecvFails, Reads
  <2> QED
    BY <2>1, WireFail
<1>7. CASE Shut(t)
  <2>1. /\ pc[t] = "shut" /\ connected' = FALSE /\ pc' = [pc EXCEPT ![t] = "idle"]
        /\ lock' = NoCaller /\ NoCaller \notin Callers
        /\ UNCHANGED <<op, sequence, challenge, closed, closing, strayed, requests, returned>>
    BY <1>7, ControlAssumption DEF Shut, Leave
  <2>2. lock = t /\ closed
    BY <2>1 DEF WireInv, Window, Locked, InLock
  <2>3. \A u \in Callers : pc'[u] \notin {"send", "recv", "shut"}
    BY <2>1, <2>2 DEF WireInv, TypeOK, Locked, InLock
  <2> QED
    BY <2>1, <2>2, <2>3 DEF WireInv, Window, Locked, Fresh, WireDiscipline, InLock
<1> QED
  BY <1>1, <1>2, <1>3, <1>4, <1>5, <1>6, <1>7
  DEF Caller, InRequest, Sending, Receiving

LEMMA WireStep ==
  WireInv /\ [Next]_vars => WireInv'
<1> SUFFICES ASSUME WireInv, [Next]_vars PROVE WireInv'
  OBVIOUS
<1>1. TypeOK'
  BY TypeStep DEF WireInv
<1>2. ASSUME NEW t \in Callers, Caller(t) PROVE WireInv'
  BY <1>1, <1>2, WireCaller DEF WireInv
<1>3. CASE Close \/ CloseSocket
  BY <1>1, <1>3 DEF Close, CloseSocket, WireInv, Window, Locked, InLock, Fresh, WireDiscipline
<1>4. CASE UNCHANGED clientVars
  BY <1>1, <1>4
  DEF clientVars, socketVars, WireInv, Window, Locked, InLock, Fresh, WireDiscipline
<1>5. Broker \/ UNCHANGED vars => UNCHANGED clientVars
  BY DEF Broker, Perform, Refuse, PerformSilently, Handles, Misbehave, HangUp, vars
<1> QED
  BY <1>2, <1>3, <1>4, <1>5 DEF Next

LEMMA WireInit ==
  Init => WireInv
<1> SUFFICES ASSUME Init PROVE WireInv
  OBVIOUS
<1>1. TypeOK
  <2>1. /\ pc \in [Callers -> {"idle", "enter", "send", "recv", "shut"}]
        /\ op \in [Callers -> Operations]
    BY DEF Init, Operations
  <2>2. /\ requests \in Seq([sequence : Nat, challenge : Nat, op : Operations])
        /\ returned \in Seq([sequence : Nat, op : Operations])
        /\ log \in Seq([sequence : Nat, op : Operations])
        /\ frames \in Seq([type : {"reply", "error", "junk"}, sequence : Int, challenge : Nat,
                            kind : {"none", "stopped", "running", "code"}])
    BY DEF Init
  <2>3. readTo \in 0..Len(frames) /\ handled \in 0..Len(requests)
    BY DEF Init
  <2> QED
    BY <2>1, <2>2, <2>3 DEF Init, TypeOK
<1>2. Window /\ Locked
  BY ControlAssumption DEF Init, Window, Locked, InLock
<1>3. Fresh /\ WireDiscipline
  BY DEF Init, Fresh, WireDiscipline
<1> QED
  BY <1>1, <1>2, <1>3 DEF WireInv

(* Every variable keeps its type, whatever the broker sends.               *)
THEOREM TypeCorrect == Spec => []TypeOK
<1>1. Init => TypeOK
  BY WireInit DEF WireInv
<1>2. TypeOK /\ [Next]_vars => TypeOK'
  BY TypeStep
<1> QED
  BY <1>1, <1>2, PTL DEF Spec

(* Whatever the broker sends, requests go out under consecutive sequence   *)
(* numbers and never twice in a row with one challenge.                    *)
THEOREM WireDisciplined == Spec => []WireDiscipline
<1>1. WireInv => WireDiscipline
  BY DEF WireInv
<1> QED
  BY <1>1, WireInit, WireStep, PTL DEF Spec

(* A request goes out behind one without a result only while a thread that *)
(* is not in request stands between the flag and the socket of close: the  *)
(* thread whose request failed had closed the socket before it gave the    *)
(* lock back.                                                              *)
THEOREM FailureAlwaysLast == Spec => FailureIsLast
<1>1. WireInv /\ [Next]_vars => [strayed' # strayed => closing]_vars
  <2> SUFFICES ASSUME WireInv, [Next]_vars, strayed' # strayed PROVE closing
    OBVIOUS
  <2>1. PICK t \in Callers : Send(t)
    BY DEF Next, Caller, InRequest, Sending, Receiving, Enter, Overlap, Acquire, SendFails, Accept,
       AdoptAndFail, RefuseFrame, RecvFails, Shut, Close, CloseSocket, Broker, Perform, Refuse,
       PerformSilently, Misbehave, HangUp, Handles, vars, clientVars, socketVars
  <2>2. pc[t] = "send" /\ connected /\ Len(returned) # sequence - 1
    BY <2>1 DEF Send, WireInv, TypeOK
  <2>3. closed /\ \A u \in Callers : pc[u] # "shut"
    BY <2>2 DEF WireInv, Locked, InLock
  <2> QED
    BY <2>2, <2>3 DEF WireInv, Window
<1> QED
  BY <1>1, WireInit, WireStep, PTL DEF Spec, FailureIsLast

-----------------------------------------------------------------------------
(* Agreement with the host. *)

(* Asked for, performed and answered: what a caller that accepts a reply   *)
(* may conclude, if no reply runs ahead of the host.                       *)
LEMMA AcceptedMeansPerformed ==
  ASSUME WireInv, AgreementInv, ~strayed, NEW t \in Callers, Accept(t)
  PROVE  /\ Len(log) = sequence /\ handled = Len(log) /\ sequence > 0
         /\ Len(returned) = sequence - 1
         /\ log[sequence] = [sequence |-> sequence, op |-> op[t]]
<1>1. /\ pc[t] = "recv" /\ Reply.type = "reply" /\ Reply.sequence = sequence
      /\ readTo + 1 \in 1..Len(frames)
  BY DEF Accept, Reads, IdentityValid, SequenceValid, WireInv, TypeOK
<1>2. sequence <= Len(log)
  BY <1>1 DEF AgreementInv, Answered, Reply
<1>3. /\ Len(requests) = sequence /\ Len(returned) = sequence - 1
      /\ Len(returned) < Len(requests)
      /\ requests[Len(requests)] = [sequence |-> sequence, challenge |-> challenge, op |-> op[t]]
  BY <1>1 DEF WireInv, Locked
<1>4. handled <= Len(requests) /\ Len(log) <= handled
  BY DEF AgreementInv, WireInv, TypeOK
<1>5. Len(log) = sequence /\ handled = Len(log) /\ sequence > 0
  BY <1>2, <1>3, <1>4, Counts
<1>6. requests[sequence].op = op[t]
  BY <1>3
<1> QED
  BY <1>3, <1>5, <1>6 DEF AgreementInv, Performed

(* A request that does not stray is sent when nothing is outstanding.      *)
LEMMA SendMeansSettled ==
  ASSUME WireInv, AgreementInv, NEW t \in Callers, Send(t), ~strayed'
  PROVE  /\ ~strayed /\ sequence > 0 /\ Len(requests) = sequence - 1
         /\ Len(returned) = sequence - 1 /\ Len(log) = sequence - 1 /\ handled = Len(log)
<1>1. ~strayed /\ Len(returned) = sequence - 1 /\ pc[t] = "send"
  BY DEF Send
<1>2. Len(requests) < sequence /\ Len(returned) <= Len(requests)
  BY <1>1 DEF WireInv, Locked
<1>3. Len(returned) <= Len(log) /\ Len(log) <= handled /\ handled <= Len(requests)
  BY <1>1 DEF AgreementInv, Known, WireInv, TypeOK
<1> QED
  BY <1>1, <1>2, <1>3, Counts

LEMMA AgreementCaller ==
  ASSUME WireInv, AgreementInv, NEW t \in Callers, Caller(t) PROVE AgreementInv'
<1>1. UNCHANGED brokerVars
  BY DEF Caller, InRequest, Sending, Receiving, Enter, Overlap, Acquire,
     Send, SendFails, Accept, AdoptAndFail, RefuseFrame, RecvFails, Shut
<1>2. CASE Send(t)
  <2>1. SUFFICES ASSUME ~strayed' PROVE Performed' /\ Answered' /\ Known'
    BY <1>1 DEF AgreementInv, brokerVars
  <2>2. /\ ~strayed /\ Len(requests') = Len(requests) + 1 /\ Len(log) = Len(requests)
        /\ \A i \in 1..Len(requests) : requests'[i] = requests[i]
    BY <1>2, <2>1, SendAppends, SendMeansSettled DEF WireInv
  <2>3. \A i \in 1..Len(log) : log[i] = [sequence |-> i, op |-> requests[i].op]
    BY <2>2 DEF AgreementInv, Performed
  <2>4. Performed'
    BY <1>1, <2>2, <2>3, Counts DEF Performed, brokerVars
  <2>5. returned' = returned
    BY <1>2 DEF Send
  <2> QED
    BY <1>1, <2>2, <2>4, <2>5 DEF AgreementInv, Answered, Known, brokerVars
<1>3. CASE Accept(t)
  <2>1. SUFFICES ASSUME ~strayed' PROVE Performed' /\ Answered' /\ Known'
    BY <1>1 DEF AgreementInv, brokerVars
  <2> DEFINE result == [sequence |-> sequence, op |-> op[t]]
  <2>2. ~strayed /\ requests' = requests
    BY <1>3, <2>1 DEF Accept, socketVars
  <2>3. /\ Len(returned') = Len(returned) + 1 /\ returned'[Len(returned) + 1] = result
        /\ \A i \in 1..Len(returned) : returned'[i] = returned[i]
    <3>1. returned' = Append(returned, result)
      BY <1>3 DEF Accept
    <3>2. result \in [sequence : Nat, op : Operations]
      BY DEF WireInv, TypeOK
    <3>3. returned \in Seq([sequence : Nat, op : Operations])
      BY DEF WireInv, TypeOK
    <3> QED
      BY <3>1, <3>2, <3>3, AppendProperties
  <2>4. /\ Len(log) = sequence /\ Len(returned) = sequence - 1 /\ sequence \in Nat
        /\ log[sequence] = result
    BY <1>3, <2>2, AcceptedMeansPerformed, Counts
  <2>5. \A i \in 1..Len(returned') : returned'[i] = log[i]
    <3>1. \A i \in 1..Len(returned) : returned[i] = log[i]
      BY <2>2 DEF AgreementInv, Known
    <3> QED
      BY <2>3, <2>4, <3>1
  <2> QED
    BY <1>1, <2>2, <2>3, <2>4, <2>5 DEF AgreementInv, Performed, Answered, Known, brokerVars
<1>4. CASE UNCHANGED <<strayed, requests, returned>>
  BY <1>1, <1>4 DEF AgreementInv, Performed, Answered, Known, brokerVars
<1>5. Send(t) \/ Accept(t) \/ UNCHANGED <<strayed, requests, returned>>
  BY DEF Caller, InRequest, Sending, Receiving, Enter, Overlap, Acquire,
     SendFails, AdoptAndFail, RefuseFrame, RecvFails, Shut, socketVars
<1> QED
  BY <1>2, <1>3, <1>4, <1>5

(* The broker has at most one request to deal with, the last one, unless a *)
(* request strayed.                                                        *)
LEMMA HandlesLast ==
  ASSUME WireInv, AgreementInv, Handles
  PROVE  /\ handled' = handled + 1 /\ UNCHANGED clientVars /\ handled + 1 \in 1..Len(requests)
         /\ requests[handled + 1] \in [sequence : Nat, challenge : Nat, op : Operations]
         /\ ~strayed => /\ handled = Len(log) /\ Len(requests) = handled + 1
                        /\ NextRequest.sequence = handled + 1
<1>1. handled < Len(requests) /\ handled' = handled + 1 /\ UNCHANGED clientVars
  BY DEF Handles
<1>2. handled + 1 \in 1..Len(requests)
  BY <1>1, Counts
<1>3. requests[handled + 1] \in [sequence : Nat, challenge : Nat, op : Operations]
  <2>1. requests \in Seq([sequence : Nat, challenge : Nat, op : Operations])
    BY DEF WireInv, TypeOK
  <2> QED
    BY <1>2, <2>1, ElementOfSeq
<1>4. ASSUME ~strayed
      PROVE  handled = Len(log) /\ Len(requests) = handled + 1 /\ NextRequest.sequence = handled + 1
  <2>1. Len(log) <= handled /\ Len(requests) <= Len(log) + 1
    BY <1>4 DEF AgreementInv, Performed
  <2>2. NextRequest.sequence = handled + 1
    BY <1>2, <1>4 DEF NextRequest, WireInv, WireDiscipline
  <2> QED
    BY <1>1, <2>1, <2>2, Counts
<1> QED
  BY <1>1, <1>2, <1>3, <1>4

LEMMA TransmitAppends ==
  ASSUME TypeOK, NEW f \in FrameSet, Transmit(f), Answered, NEW n \in Nat,
         Len(log) <= n, n = Len(log)',
         f.type = "reply" => f.sequence <= n
  PROVE  Answered'
<1>1. frames \in Seq(FrameSet)
  BY DEF TypeOK, FrameSet
<1>2. frames' = Append(frames, f)
  BY DEF Transmit
<1>3. /\ Len(frames') = Len(frames) + 1 /\ frames'[Len(frames) + 1] = f /\ Len(frames) \in Nat
      /\ \A i \in 1..Len(frames) : frames'[i] = frames[i]
  BY <1>1, <1>2, AppendProperties, LenProperties
<1>4. ASSUME NEW i \in 1..Len(frames'), frames'[i].type = "reply"
      PROVE  frames'[i].sequence <= n
  <2>1. CASE i = Len(frames) + 1
    BY <1>3, <1>4, <2>1
  <2>2. CASE i \in 1..Len(frames)
    <3>1. frames[i].sequence <= Len(log) /\ frames[i].sequence \in Int /\ Len(log) \in Int
      <4>1. frames[i] \in FrameSet
        BY <2>2, FrameTypes
      <4>2. frames[i].sequence <= Len(log)
        BY <1>3, <1>4, <2>2 DEF Answered
      <4>3. Len(log) \in Int
        BY DEF TypeOK
      <4> QED
        BY <4>1, <4>2, <4>3 DEF FrameSet
    <3> QED
      BY <1>3, <2>2, <3>1
  <2> QED
    BY <1>3, <2>1, <2>2
<1> QED
  BY <1>4 DEF Answered

(* An operation performed extends the log by the request it answers.       *)
LEMMA LogGrows ==
  ASSUME WireInv, AgreementInv, Handles,
         log' = Append(log, [sequence |-> NextRequest.sequence, op |-> NextRequest.op])
  PROVE  /\ Len(log') = Len(log) + 1 /\ Len(log') <= handled'
         /\ ~strayed => Len(log') = handled + 1 /\ Performed' /\ Known'
<1> DEFINE entry == [sequence |-> NextRequest.sequence, op |-> NextRequest.op]
<1>1. entry \in [sequence : Nat, op : Operations]
  BY HandlesLast DEF NextRequest
<1>2. log \in Seq([sequence : Nat, op : Operations])
  BY DEF WireInv, TypeOK
<1>3. /\ Len(log') = Len(log) + 1 /\ log'[Len(log) + 1] = entry
      /\ \A i \in 1..Len(log) : log'[i] = log[i]
  BY <1>1, <1>2, AppendProperties
<1>4. Len(log') <= handled'
  BY <1>3, HandlesLast, Counts DEF AgreementInv
<1>5. ASSUME ~strayed PROVE Len(log') = handled + 1 /\ Performed' /\ Known'
  <2>1. Len(log) = handled /\ Len(requests) = handled + 1 /\ UNCHANGED clientVars
        /\ entry = [sequence |-> handled + 1, op |-> requests[handled + 1].op]
    BY <1>5, HandlesLast DEF NextRequest
  <2>2. requests' = requests /\ returned' = returned
    BY <2>1 DEF clientVars
  <2>3. Performed'
    <3>1. \A i \in 1..Len(log) : log[i] = [sequence |-> i, op |-> requests[i].op]
      BY <1>5 DEF AgreementInv, Performed
    <3>2. \A i \in 1..Len(log') : log'[i] = [sequence |-> i, op |-> requests'[i].op]
      BY <1>3, <2>1, <2>2, <3>1, Counts
    <3> QED
      BY <1>3, <2>1, <2>2, <3>2, Counts DEF Performed
  <2>4. Known'
    <3>1. Len(returned) <= Len(log) /\ \A i \in 1..Len(returned) : returned[i] = log[i]
      BY <1>5 DEF AgreementInv, Known
    <3>2. /\ Len(returned') <= Len(log')
          /\ \A i \in 1..Len(returned') : returned'[i] = log'[i]
      BY <1>3, <2>2, <3>1, Counts
    <3> QED
      BY <3>2 DEF Known
  <2> QED
    BY <1>3, <2>1, <2>3, <2>4
<1> QED
  BY <1>3, <1>4, <1>5

LEMMA AgreementBroker ==
  ASSUME "early" \notin Faults, WireInv, AgreementInv, Broker PROVE AgreementInv'
<1> USE DEF WireInv
<1>1. Len(log') <= handled'
  <2>1. CASE Perform \/ PerformSilently
    BY <2>1, LogGrows DEF Perform, PerformSilently
  <2>2. CASE Refuse
    BY <2>2, HandlesLast, Counts DEF Refuse, AgreementInv
  <2>3. CASE Misbehave \/ HangUp
    BY <2>3 DEF Misbehave, HangUp, AgreementInv
  <2> QED
    BY <2>1, <2>2, <2>3 DEF Broker
<1>2. UNCHANGED clientVars /\ strayed' = strayed
  BY DEF Broker, Perform, Refuse, PerformSilently, Misbehave, HangUp, Handles, clientVars,
     socketVars
<1>3. SUFFICES ASSUME ~strayed PROVE Performed' /\ Answered' /\ Known'
  BY <1>1, <1>2 DEF AgreementInv
<1>4. Performed /\ Answered /\ Known
  BY <1>3 DEF AgreementInv
<1>5. CASE Perform
  <2>1. Len(log') = handled + 1 /\ Performed' /\ Known' /\ handled = Len(log)
    BY <1>3, <1>5, LogGrows, HandlesLast DEF Perform
  <2>2. PICK f \in FrameSet : Transmit(f) /\ f.sequence = handled + 1
    <3>1. NextRequest.sequence = handled + 1 /\ KindOf(NextRequest.op) \in {"stopped", "running"}
          /\ handled + 1 \in Int /\ issued + 1 \in Nat
      <4>1. NextRequest.sequence = handled + 1
        BY <1>3, <1>5, HandlesLast DEF Perform
      <4>2. handled + 1 \in Int /\ issued + 1 \in Nat
        BY DEF TypeOK
      <4> QED
        BY <4>1, <4>2 DEF KindOf
    <3>2. \/ Transmit(Frame("reply", handled + 1, issued + 1, KindOf(NextRequest.op)))
          \/ Transmit(Frame("error", handled + 1, issued + 1, "code"))
      BY <1>5, <3>1 DEF Perform
    <3>3. \A type \in {"reply", "error"}, kind \in {"stopped", "running", "code"} :
            /\ Frame(type, handled + 1, issued + 1, kind) \in FrameSet
            /\ Frame(type, handled + 1, issued + 1, kind).sequence = handled + 1
      BY <3>1, FrameTypes DEF Frame
    <3> QED
      BY <3>1, <3>2, <3>3
  <2>3. Answered'
    BY <1>4, <2>1, <2>2, TransmitAppends, Counts
  <2> QED
    BY <2>1, <2>3
<1>6. CASE Refuse
  <2>1. /\ NextRequest.sequence = handled + 1 /\ handled \in Nat /\ issued + 1 \in Nat
        /\ handled' = handled + 1 /\ handled = Len(log) /\ UNCHANGED <<log, clientVars>>
    <3>1. Handles /\ log' = log
      BY <1>6 DEF Refuse
    <3> QED
      BY <1>3, <3>1, HandlesLast, Counts DEF TypeOK
  <2>2. PICK f \in FrameSet : Transmit(f) /\ f.type = "error"
    <3>1. PICK n \in {NextRequest.sequence - 1, NextRequest.sequence} :
             Transmit(Frame("error", n, issued + 1, "code"))
      BY <1>6 DEF Refuse
    <3>2. n \in Int
      BY <2>1
    <3>3. /\ Frame("error", n, issued + 1, "code") \in FrameSet
          /\ Frame("error", n, issued + 1, "code").type = "error"
      BY <2>1, <3>2, FrameTypes DEF Frame
    <3> QED
      BY <3>1, <3>3
  <2>3. Answered'
    BY <1>4, <2>1, <2>2, TransmitAppends, Counts
  <2>4. Performed' /\ Known'
    BY <1>4, <2>1 DEF Performed, Known, clientVars
  <2> QED
    BY <2>3, <2>4
<1>7. CASE PerformSilently
  <2>1. Len(log') = handled + 1 /\ Performed' /\ Known' /\ handled = Len(log)
    BY <1>3, <1>7, LogGrows, HandlesLast DEF PerformSilently
  <2>2. Answered'
    <3>1. \A i \in 1..Len(frames) : frames[i].sequence \in Int
      BY FrameTypes DEF FrameSet
    <3> QED
      BY <1>4, <1>7, <2>1, <3>1, Counts DEF PerformSilently, Answered
  <2> QED
    BY <2>1, <2>2
<1>8. CASE Misbehave
  <2>1. PICK f \in BadFrames : Transmit(f)
    BY <1>8 DEF Misbehave
  <2>2. f \in FrameSet
    BY BadFramesTypes
  <2>3. f.type = "reply" => f.sequence <= Len(log)
    <3>1. CASE \E i \in 1..Len(frames) : f = frames[i]
      BY <1>4, <3>1 DEF Answered
    <3> QED
      BY <3>1, BadFrameForms, Counts DEF Frame
  <2>4. UNCHANGED <<clientVars, handled, log>>
    BY <1>8 DEF Misbehave
  <2>5. Answered'
    BY <1>4, <2>1, <2>2, <2>3, <2>4, TransmitAppends, Counts
  <2>6. Performed' /\ Known'
    BY <1>4, <2>4 DEF Performed, Known, clientVars
  <2> QED
    BY <2>5, <2>6
<1>9. CASE HangUp
  BY <1>4, <1>9 DEF HangUp, Performed, Answered, Known, clientVars
<1> QED
  BY <1>5, <1>6, <1>7, <1>8, <1>9 DEF Broker

LEMMA AgreementInit ==
  Init => AgreementInv
BY ControlAssumption DEF Init, AgreementInv, Performed, Answered, Known

LEMMA AgreementStep ==
  ASSUME "early" \notin Faults, WireInv, AgreementInv, [Next]_vars PROVE AgreementInv'
<1>1. ASSUME NEW t \in Callers, Caller(t) PROVE AgreementInv'
  BY <1>1, AgreementCaller
<1>2. CASE Close \/ CloseSocket
  BY <1>2 DEF Close, CloseSocket, brokerVars, AgreementInv, Performed, Answered, Known
<1>3. CASE Broker
  BY <1>3, AgreementBroker
<1>4. CASE UNCHANGED vars
  BY <1>4
  DEF vars, clientVars, socketVars, brokerVars, AgreementInv, Performed, Answered, Known
<1> QED
  BY <1>1, <1>2, <1>3, <1>4 DEF Next

(* The invariant of an attachment to a broker that does not run ahead.     *)
THEOREM Invariant ==
  ASSUME "early" \notin Faults PROVE Spec => [](WireInv /\ AgreementInv)
<1>1. Init => WireInv /\ AgreementInv
  BY WireInit, AgreementInit
<1>2. WireInv /\ AgreementInv /\ [Next]_vars => WireInv' /\ AgreementInv'
  BY WireStep, AgreementStep
<1> QED
  BY <1>1, <1>2, PTL DEF Spec

(* With the client open and no request in progress, the callers were given *)
(* the results of exactly the operations the host performed.               *)
THEOREM Agreement ==
  ASSUME "early" \notin Faults PROVE Spec => []QuietAgreement
<1>1. WireInv /\ AgreementInv => QuietAgreement
  <2> SUFFICES ASSUME WireInv, AgreementInv, ~closed, lock = NoCaller
               PROVE  log = returned /\ Len(log) = sequence
    BY DEF QuietAgreement
  <2>1. Len(returned) = sequence /\ Len(requests) = sequence /\ ~strayed
    BY DEF WireInv, Window, Locked
  <2>2. Len(returned) <= Len(log) /\ Len(log) <= handled /\ handled <= Len(requests)
    BY <2>1 DEF AgreementInv, Known, WireInv, TypeOK
  <2>3. Len(log) = Len(returned)
    BY <2>1, <2>2, Counts
  <2>4. \A i \in 1..Len(returned) : returned[i] = log[i]
    BY <2>1 DEF AgreementInv, Known
  <2>5. log \in Seq([sequence : Nat, op : Operations]) /\ returned \in Seq([sequence : Nat, op : Operations])
    BY DEF WireInv, TypeOK
  <2>6. log = returned
    BY <2>3, <2>4, <2>5, SeqEqual
  <2> QED
    BY <2>1, <2>3, <2>6
<1> QED
  BY <1>1, Invariant, PTL

-----------------------------------------------------------------------------
(* The attachment implements LifecycleSession. *)

LEMMA OpsOfAppend ==
  ASSUME NEW S, NEW s \in Seq(S), NEW e \in S
  PROVE  OpsOf(Append(s, e)) = Append(OpsOf(s), e.op)
<1>1. /\ Len(Append(s, e)) = Len(s) + 1 /\ Append(s, e)[Len(s) + 1] = e /\ Len(s) \in Nat
      /\ \A i \in 1..Len(s) : Append(s, e)[i] = s[i]
  BY AppendProperties, LenProperties
<1> DEFINE T == {s[i].op : i \in 1..Len(s)} \cup {e.op}
<1>2. OpsOf(s) \in Seq(T) /\ Len(OpsOf(s)) = Len(s)
  BY <1>1 DEF OpsOf
<1>3. OpsOf(Append(s, e)) \in Seq(T) /\ Len(OpsOf(Append(s, e))) = Len(s) + 1
  BY <1>1 DEF OpsOf
<1>4. /\ Append(OpsOf(s), e.op) \in Seq(T) /\ Len(Append(OpsOf(s), e.op)) = Len(s) + 1
      /\ Append(OpsOf(s), e.op)[Len(s) + 1] = e.op
      /\ \A i \in 1..Len(s) : Append(OpsOf(s), e.op)[i] = s[i].op
  <2>1. e.op \in T
    OBVIOUS
  <2>2. \A i \in 1..Len(s) : OpsOf(s)[i] = s[i].op
    BY DEF OpsOf
  <2> HIDE DEF T
  <2> QED
    BY <1>2, <2>1, <2>2, AppendProperties
<1>5. \A i \in 1..Len(s) + 1 : OpsOf(Append(s, e))[i] = Append(OpsOf(s), e.op)[i]
  BY <1>1, <1>4 DEF OpsOf
<1> QED
  BY <1>3, <1>4, <1>5, SeqEqual

LEMMA RefinementInit ==
  Init => Lifecycle!Init
BY DEF Init, Lifecycle!Init, OpsOf

LEMMA RefinementCaller ==
  ASSUME WireInv, AgreementInv, NEW t \in Callers, Caller(t)
  PROVE  Lifecycle!Next \/ UNCHANGED Lifecycle!vars
<1>1. ASSUME NEW o \in Ops, Enter(t, o) PROVE UNCHANGED Lifecycle!vars
  BY <1>1 DEF Enter, socketVars, brokerVars, Lifecycle!vars, OpsOf
<1>2. CASE Overlap(t)
  BY <1>2 DEF Overlap, socketVars, brokerVars, Lifecycle!vars, OpsOf
<1>3. CASE Acquire(t)
  <2>1. UNCHANGED <<OpsOf(requests), OpsOf(log), OpsOf(returned)>> /\ UNCHANGED <<closed, strayed>>
    BY <1>3 DEF Acquire, socketVars, brokerVars, OpsOf
  <2>2. CASE closed
    BY <2>1, <2>2 DEF Lifecycle!vars
  <2>3. CASE ~closed
    <3>1. ~strayed
      BY <2>3 DEF WireInv, Window
    <3>2. Lifecycle!Begin
      BY <1>3, <2>1, <2>3, <3>1, ControlAssumption DEF Acquire, Lifecycle!Begin
    <3> QED
      BY <3>2 DEF Lifecycle!Next
  <2> QED
    BY <2>2, <2>3
<1>4. CASE Send(t)
  <2>1. OpsOf(requests') = Append(OpsOf(requests), op[t])
    <3>1. requests' = Append(requests, RequestOf(op[t]))
      BY <1>4 DEF Send
    <3>2. requests \in Seq([sequence : Nat, challenge : Nat, op : Operations])
      BY DEF WireInv, TypeOK
    <3>3. /\ RequestOf(op[t]) \in [sequence : Nat, challenge : Nat, op : Operations]
          /\ RequestOf(op[t]).op = op[t]
      BY DEF RequestOf, WireInv, TypeOK
    <3> QED
      BY <3>1, <3>2, <3>3, OpsOfAppend
  <2>2. UNCHANGED <<OpsOf(log), OpsOf(returned), closed, lock>>
    BY <1>4 DEF Send, brokerVars, OpsOf
  <2>3. op[t] \in Operations
    BY DEF WireInv, TypeOK
  <2>4. lock # NoCaller /\ pc[t] = "send"
    BY <1>4, ControlAssumption DEF Send, WireInv, Locked, InLock
  <2>5. CASE strayed'
    <3>1. strayed \/ closed
      BY <1>4, <2>4, <2>5 DEF Send, WireInv, Locked
    <3>2. Lifecycle!Stray(op[t])
      BY <2>1, <2>2, <2>5, <3>1 DEF Lifecycle!Stray
    <3> QED
      BY <2>3, <3>2 DEF Lifecycle!Next
  <2>6. CASE ~strayed'
    <3>1. ~strayed /\ Len(OpsOf(requests)) = Len(OpsOf(returned))
      BY <1>4, <2>6, SendMeansSettled, Counts DEF OpsOf
    <3>2. Lifecycle!Ask(op[t])
      BY <2>1, <2>2, <2>4, <2>6, <3>1 DEF Lifecycle!Ask
    <3> QED
      BY <2>3, <3>2 DEF Lifecycle!Next
  <2> QED
    BY <2>5, <2>6
<1>5. CASE Accept(t)
  <2> DEFINE result == [sequence |-> sequence, op |-> op[t]]
  <2>1. OpsOf(returned') = Append(OpsOf(returned), op[t])
    <3>1. returned' = Append(returned, result)
      BY <1>5 DEF Accept
    <3>2. returned \in Seq([sequence : Nat, op : Operations])
      BY DEF WireInv, TypeOK
    <3>3. result \in [sequence : Nat, op : Operations] /\ result.op = op[t]
      BY DEF WireInv, TypeOK
    <3> QED
      BY <3>1, <3>2, <3>3, OpsOfAppend
  <2>2. UNCHANGED <<OpsOf(requests), OpsOf(log), closed, strayed>> /\ lock' = NoCaller
    BY <1>5 DEF Accept, Leave, socketVars, brokerVars, OpsOf
  <2>3. lock # NoCaller /\ pc[t] = "recv"
    BY <1>5, ControlAssumption DEF Accept, Reads, WireInv, Locked, InLock
  <2>4. CASE strayed
    <3>1. /\ Len(OpsOf(returned)) < Len(OpsOf(requests))
          /\ OpsOf(requests)[Len(OpsOf(requests))] = op[t]
      <4>1. /\ Len(returned) < Len(requests)
            /\ requests[Len(requests)] = [sequence |-> sequence, challenge |-> challenge, op |-> op[t]]
        BY <2>3 DEF WireInv, Locked
      <4>2. requests[Len(requests)].op = op[t]
        BY <4>1
      <4> QED
        BY <4>1, <4>2, Counts DEF OpsOf
    <3>2. Lifecycle!BeTold
      BY <2>1, <2>2, <2>4, <3>1 DEF Lifecycle!BeTold
    <3> QED
      BY <3>2 DEF Lifecycle!Next
  <2>5. CASE ~strayed
    <3>1. /\ Len(OpsOf(returned)) = sequence - 1 /\ Len(OpsOf(log)) = sequence
          /\ OpsOf(log)[sequence] = op[t] /\ sequence \in Nat
      <4>1. /\ Len(returned) = sequence - 1 /\ Len(log) = sequence /\ sequence > 0
            /\ log[sequence] = result
        BY <1>5, <2>5, AcceptedMeansPerformed
      <4>2. log[sequence].op = op[t]
        BY <4>1
      <4> QED
        BY <4>1, <4>2, Counts DEF OpsOf
    <3>2. Lifecycle!Learn
      BY <2>1, <2>2, <2>3, <2>5, <3>1 DEF Lifecycle!Learn
    <3> QED
      BY <3>2 DEF Lifecycle!Next
  <2> QED
    BY <2>4, <2>5
<1>6. CASE FailClosed(t) /\ UNCHANGED <<socketVars, requests, returned, brokerVars>>
  <2>1. UNCHANGED <<strayed, requests, returned, log>>
    BY <1>6 DEF socketVars, brokerVars
  <2>2. CASE closed
    BY <1>6, <2>1, <2>2 DEF FailClosed, Lifecycle!vars, OpsOf
  <2>3. CASE ~closed
    <3>1. ~strayed /\ closed' = TRUE
      BY <1>6, <2>3 DEF FailClosed, WireInv, Window
    <3>2. Lifecycle!GiveUp
      BY <2>1, <2>3, <3>1 DEF Lifecycle!GiveUp, OpsOf
    <3> QED
      BY <3>2 DEF Lifecycle!Next
  <2> QED
    BY <2>2, <2>3
<1>7. SendFails(t) \/ AdoptAndFail(t) \/ RefuseFrame(t) \/ RecvFails(t) =>
        FailClosed(t) /\ UNCHANGED <<socketVars, requests, returned, brokerVars>>
  BY DEF SendFails, AdoptAndFail, RefuseFrame, RecvFails, brokerVars
<1>8. CASE Shut(t)
  <2>1. closed /\ UNCHANGED <<closed, strayed, requests, returned, log>>
    BY <1>8 DEF Shut, brokerVars, WireInv, Window
  <2> QED
    BY <2>1 DEF Lifecycle!vars, OpsOf
<1> QED
  BY <1>1, <1>2, <1>3, <1>4, <1>5, <1>6, <1>7, <1>8 DEF Caller, InRequest, Sending, Receiving

LEMMA RefinementBroker ==
  ASSUME WireInv, AgreementInv, Broker
  PROVE  Lifecycle!Next \/ UNCHANGED Lifecycle!vars
<1>1. CASE Perform \/ PerformSilently
  <2>1. Handles /\ log' = Append(log, [sequence |-> NextRequest.sequence, op |-> NextRequest.op])
    BY <1>1 DEF Perform, PerformSilently
  <2>2. OpsOf(log') = Append(OpsOf(log), NextRequest.op)
    <3> DEFINE entry == [sequence |-> NextRequest.sequence, op |-> NextRequest.op]
    <3>1. entry \in [sequence : Nat, op : Operations] /\ entry.op = NextRequest.op
      BY <2>1, HandlesLast DEF NextRequest
    <3>2. log \in Seq([sequence : Nat, op : Operations])
      BY DEF WireInv, TypeOK
    <3> QED
      BY <2>1, <3>1, <3>2, OpsOfAppend
  <2>3. /\ handled + 1 \in Len(OpsOf(log)) + 1..Len(OpsOf(requests))
        /\ ~strayed => handled + 1 = Len(OpsOf(log)) + 1
        /\ OpsOf(requests)[handled + 1] = NextRequest.op
    BY <2>1, HandlesLast, Counts DEF OpsOf, NextRequest, AgreementInv
  <2>4. UNCHANGED <<OpsOf(requests), OpsOf(returned), closed, strayed, lock>>
    BY <2>1 DEF Handles, clientVars, socketVars, OpsOf
  <2>5. Lifecycle!Perform
    BY <2>2, <2>3, <2>4 DEF Lifecycle!Perform
  <2> QED
    BY <2>5 DEF Lifecycle!Next
<1>2. CASE Refuse \/ Misbehave \/ HangUp
  BY <1>2 DEF Refuse, Handles, Misbehave, HangUp, clientVars, socketVars, Lifecycle!vars, OpsOf
<1> QED
  BY <1>1, <1>2 DEF Broker

(* Operations are asked for one at a time, performed at most once and in   *)
(* order, and only a caller that knows all their results may ask again.    *)
THEOREM Implements ==
  ASSUME "early" \notin Faults PROVE Spec => LifecycleSpec
<1>1. WireInv /\ AgreementInv /\ [Next]_vars => [Lifecycle!Next]_(Lifecycle!vars)
  <2> SUFFICES ASSUME WireInv, AgreementInv, [Next]_vars
               PROVE  Lifecycle!Next \/ UNCHANGED Lifecycle!vars
    OBVIOUS
  <2>1. CASE Close
    <3>1. ~strayed
      BY <2>1 DEF Close, WireInv, Window
    <3> QED
      BY <2>1, <3>1 DEF Close, brokerVars, Lifecycle!Next, Lifecycle!GiveUp, OpsOf
  <2>2. CASE CloseSocket
    BY <2>2 DEF CloseSocket, brokerVars, Lifecycle!vars, OpsOf
  <2>3. CASE UNCHANGED vars
    BY <2>3 DEF vars, clientVars, socketVars, brokerVars, Lifecycle!vars, OpsOf
  <2> QED
    BY <2>1, <2>2, <2>3, RefinementCaller, RefinementBroker DEF Next
<1> QED
  BY <1>1, RefinementInit, Invariant, PTL DEF Spec, LifecycleSpec, Lifecycle!Spec

=============================================================================
