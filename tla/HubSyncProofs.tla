---------------------------- MODULE HubSyncProofs ---------------------------
(***************************************************************************)
(* Theorems about the checks of Hub sync, for any answers a Hub may sign,  *)
(* any lineages and any packs: the client of a Hub asks only what it may,  *)
(* the client of a physical source stays on its lineage and advances, and  *)
(* an admitted pack changes nothing outside its scope.                     *)
(***************************************************************************)
EXTENDS SyncClient, PhysicalSync, PreparedPack, PhysicalPack, FiniteSetTheorems,
        FunctionTheorems, WellFoundedInduction, TLAPS

-----------------------------------------------------------------------------
(* Lists of checks                                                         *)

(* A nonempty set of positions has a first.                                *)
LEMMA MinOf ==
  ASSUME NEW S \in SUBSET Nat, S # {}
  PROVE  Min(S) \in S /\ \A i \in S : Min(S) <= i
<1>1. \E x \in S : \A y \in S : ~(<<y, x>> \in OpToRel(<, Nat))
  BY NatLessThanWellFounded, WFMin
<1>2. \A x, y \in Nat : <<y, x>> \in OpToRel(<, Nat) <=> y < x
  BY DEF OpToRel
<1>3. \E x \in S : \A y \in S : ~(y < x)
  <2>1. \A x \in S : x \in Nat
    OBVIOUS
  <2> QED BY <1>1, <1>2, <2>1, Zenon
<1>4. \E x \in S : \A y \in S : x <= y
  BY ONLY <1>3, S \in SUBSET Nat
<1> QED
  BY ONLY <1>4 DEF Min

(* Checks whose labels are not "ok" all pass when the first that fails is  *)
(* "ok", and only then.                                                    *)
LEMMA FirstPasses ==
  ASSUME NEW checks, NEW n \in Nat, DOMAIN checks = 1..n,
         \A i \in 1..n : checks[i][2] => checks[i][1] # "ok"
  PROVE  First(checks) = "ok" <=> \A i \in 1..n : ~checks[i][2]
<1> DEFINE failing == {i \in DOMAIN checks : checks[i][2]}
<1>1. CASE failing = {}
  BY <1>1 DEF First
<1>2. CASE failing # {}
  <2>1. failing \in SUBSET Nat
    OBVIOUS
  <2>2. Min(failing) \in failing
    BY <1>2, <2>1, MinOf
  <2> QED
    BY <1>2, <2>2 DEF First
<1> QED
  BY <1>1, <1>2

(* What is returned otherwise is the label of the first that fails.        *)
LEMMA FirstFails ==
  ASSUME NEW checks, NEW n \in Nat, DOMAIN checks = 1..n, First(checks) # "ok"
  PROVE  \E i \in 1..n :
           /\ checks[i][2] /\ checks[i][1] = First(checks)
           /\ \A j \in 1..i - 1 : ~checks[j][2]
<1> DEFINE failing == {i \in DOMAIN checks : checks[i][2]}
<1>1. failing # {}
  BY DEF First
<1>2. failing \in SUBSET Nat
  OBVIOUS
<1>3. Min(failing) \in failing /\ \A i \in failing : Min(failing) <= i
  BY <1>1, <1>2, MinOf
<1> DEFINE first == Min(failing)
<1>4. first \in 1..n /\ checks[first][2]
  BY <1>3
<1>5. First(checks) = checks[first][1]
  BY <1>1 DEF First
<1>6. \A j \in 1..first - 1 : ~checks[j][2]
  <2>1. \A j \in 1..n : checks[j][2] => first <= j
    BY <1>3
  <2> HIDE DEF first, failing
  <2>2. first \in 1..n
    BY <1>4
  <2> QED
    BY <2>1, <2>2
<1> HIDE DEF first, failing
<1> QED
  BY <1>4, <1>5, <1>6

-----------------------------------------------------------------------------
(* The client of a Hub                                                     *)

LEMMA RequestPasses ==
  ASSUME NEW r
  PROVE  RequestCheck(r) = "ok" <=>
           /\ r.base.schema \in Schemas
           /\ ~(r.range[1] > r.range[2])
           /\ ~(r.range[2] < Supported[1] \/ r.range[1] > Supported[2])
           /\ r.range[1] <= r.base.schema /\ r.base.schema <= r.range[2]
<1> DEFINE checks == << <<"schema", r.base.schema \notin Schemas>>,
  <<"reversed", r.range[1] > r.range[2]>>,
  <<"unsupported", r.range[2] < Supported[1] \/ r.range[1] > Supported[2]>>,
  <<"outside", ~(r.range[1] <= r.base.schema /\ r.base.schema <= r.range[2])>> >>
<1>1. DOMAIN checks = 1..4 /\ \A i \in 1..4 : checks[i][2] => checks[i][1] # "ok"
  OBVIOUS
<1>2. /\ checks[1][2] <=> r.base.schema \notin Schemas
      /\ checks[2][2] <=> r.range[1] > r.range[2]
      /\ checks[3][2] <=> (r.range[2] < Supported[1] \/ r.range[1] > Supported[2])
      /\ checks[4][2] <=> ~(r.range[1] <= r.base.schema /\ r.base.schema <= r.range[2])
  OBVIOUS
<1>3. RequestCheck(r) = First(checks)
  BY DEF RequestCheck
<1> HIDE DEF checks
<1>4. First(checks) = "ok" <=> \A i \in 1..4 : ~checks[i][2]
  BY <1>1, FirstPasses
<1>5. First(checks) = "ok" <=> ~checks[1][2] /\ ~checks[2][2] /\ ~checks[3][2] /\ ~checks[4][2]
  BY <1>4
<1> QED
  BY <1>2, <1>3, <1>5, Zenon

LEMMA KeysPass ==
  ASSUME NEW set, NEW vehicle, KeysCheck(set, vehicle) = "ok"
  PROVE  /\ set.vehicle = vehicle
         /\ \A i \in DOMAIN set.keys : \A j \in 1..i - 1 : set.keys[j].id # set.keys[i].id
<1> DEFINE repeats == \E i \in DOMAIN set.keys :
             ~set.keys[i].stable \/ \E j \in 1..i - 1 : set.keys[j].id = set.keys[i].id
           checks == << <<"vehicle", set.vehicle # vehicle>>, <<"identifier", repeats>> >>
<1>1. First(checks) = "ok"
  BY DEF KeysCheck
<1> HIDE DEF repeats
<1>2. DOMAIN checks = 1..2 /\ \A i \in 1..2 : checks[i][2] => checks[i][1] # "ok"
  OBVIOUS
<1>3. (checks[1][2] <=> set.vehicle # vehicle) /\ (checks[2][2] <=> repeats)
  OBVIOUS
<1> HIDE DEF checks
<1>4. \A i \in 1..2 : ~checks[i][2]
  BY <1>1, <1>2, FirstPasses
<1>5. ~checks[1][2] /\ ~checks[2][2]
  BY <1>4
<1> QED
  BY <1>3, <1>5, Zenon DEF repeats

LEMMA NoopPasses ==
  ASSUME NEW value, NoopCheck(value) = "ok"
  PROVE  value.next.schema = value.asked.schema
<1> DEFINE unsigned == SignedCheck(value) # "ok"
           checks == << <<"schema", ~value.formed>>, <<"vehicle", value.vehicle # Route>>,
             <<"differs", value.next.schema # value.asked.schema>>, <<"signature", unsigned>> >>
<1>1. First(checks) = "ok"
  BY DEF NoopCheck
<1> HIDE DEF unsigned
<1>2. DOMAIN checks = 1..4 /\ \A i \in 1..4 : checks[i][2] => checks[i][1] # "ok"
  OBVIOUS
<1>3. checks[3][2] <=> value.next.schema # value.asked.schema
  OBVIOUS
<1> HIDE DEF checks
<1>4. \A i \in 1..4 : ~checks[i][2]
  BY <1>1, <1>2, FirstPasses
<1>5. ~checks[3][2]
  BY <1>4
<1> QED
  BY <1>3, <1>5, Zenon

LEMMA ChangedPasses ==
  ASSUME NEW value, ChangedSetCheck(value) = "ok"
  PROVE  /\ ~(value.next.sequence <= value.asked.sequence)
         /\ value.next.schema = value.asked.schema
<1> DEFINE unsigned == SignedCheck(value) # "ok"
           checks == << <<"schema", ~value.formed>>, <<"vehicle", value.vehicle # Route>>,
             <<"advance", value.next.sequence <= value.asked.sequence>>,
             <<"differs", value.next.schema # value.asked.schema>>,
             <<"limits", value.packs = "oversized">>, <<"signature", unsigned>> >>
<1>1. First(checks) = "ok"
  BY DEF ChangedSetCheck
<1> HIDE DEF unsigned
<1>2. DOMAIN checks = 1..6 /\ \A i \in 1..6 : checks[i][2] => checks[i][1] # "ok"
  OBVIOUS
<1>3. /\ checks[3][2] <=> value.next.sequence <= value.asked.sequence
      /\ checks[4][2] <=> value.next.schema # value.asked.schema
  OBVIOUS
<1> HIDE DEF checks
<1>4. \A i \in 1..6 : ~checks[i][2]
  BY <1>1, <1>2, FirstPasses
<1>5. ~checks[3][2] /\ ~checks[4][2]
  BY <1>4
<1> QED
  BY <1>3, <1>5, Zenon

LEMMA RebasePasses ==
  ASSUME NEW value, RebaseCheck(value) = "ok"
  PROVE  /\ value.formed /\ RetryBinds(value)
         /\ ~(value.retry.range[1] > value.retry.range[2])
         /\ value.retry.range[1] <= value.next.schema /\ value.next.schema <= value.retry.range[2]
<1> DEFINE unsigned == SignedCheck(value) # "ok"
           bound == RetryBinds(value)
           checks == << <<"schema", ~value.formed>>, <<"vehicle", value.vehicle # Route>>,
             <<"retry", ~bound>>,
             <<"reversed", value.retry.range[1] > value.retry.range[2]>>,
             <<"outside", ~(value.retry.range[1] <= value.next.schema
                              /\ value.next.schema <= value.retry.range[2])>>,
             <<"chunks", value.packs = "gap">>, <<"limits", value.packs = "oversized">>,
             <<"signature", unsigned>> >>
<1>1. First(checks) = "ok"
  BY DEF RebaseCheck
<1> HIDE DEF unsigned, bound
<1>2. DOMAIN checks = 1..8 /\ \A i \in 1..8 : checks[i][2] => checks[i][1] # "ok"
  OBVIOUS
<1>3. /\ checks[1][2] <=> ~value.formed
      /\ checks[3][2] <=> ~bound
      /\ checks[4][2] <=> value.retry.range[1] > value.retry.range[2]
      /\ checks[5][2] <=> ~(value.retry.range[1] <= value.next.schema
                              /\ value.next.schema <= value.retry.range[2])
  OBVIOUS
<1> HIDE DEF checks
<1>4. \A i \in 1..8 : ~checks[i][2]
  BY <1>1, <1>2, FirstPasses
<1>5. ~checks[1][2] /\ ~checks[3][2] /\ ~checks[4][2] /\ ~checks[5][2]
  BY <1>4
<1> QED
  BY <1>3, <1>5, Zenon DEF bound

LEMMA ExchangePasses ==
  ASSUME NEW value, NEW r, ExchangeCheck(value, r) = "ok"
  PROVE  /\ RequestCheck(r) = "ok" \/ value.status = 406
         /\ value.kind # "error" => Bound(value, r)
         /\ ResponseCheck(value) = "ok"
<1> DEFINE own == RequestCheck(r)
           found == ResponseCheck(value)
           bound == Bound(value, r)
           checks == << <<own, own # "ok" /\ value.status # 406>>,
             <<"bind", value.kind # "error" /\ ~bound>>,
             <<"supported", value.status = 406 /\ own # "unsupported">>,
             <<found, found # "ok">> >>
<1>1. First(checks) = "ok"
  BY DEF ExchangeCheck
<1> HIDE DEF own, found, bound
<1>2. /\ DOMAIN checks = 1..4 /\ checks[1][1] = own /\ checks[2][1] = "bind"
      /\ checks[3][1] = "supported" /\ checks[4][1] = found
  OBVIOUS
<1>3. /\ checks[1][2] <=> own # "ok" /\ value.status # 406
      /\ checks[2][2] <=> value.kind # "error" /\ ~bound
      /\ checks[4][2] <=> found # "ok"
  OBVIOUS
<1> HIDE DEF checks
<1>4. \A i \in 1..4 : checks[i][2] => checks[i][1] # "ok"
  BY <1>3, <1>2
<1>5. \A i \in 1..4 : ~checks[i][2]
  BY <1>1, <1>4, <1>2, FirstPasses
<1>6. ~checks[1][2] /\ ~checks[2][2] /\ ~checks[4][2]
  BY <1>5
<1> QED
  BY <1>3, <1>6, Zenon DEF own, found, bound

(* Until it has a base the client keeps the request it started with.       *)
SInv ==
  /\ SyncSafe
  /\ phase # "sync" => request = [base |-> NoBase, range |-> request.range]

LEMMA SyncStart == SyncInit => SInv
BY DEF SyncInit, SInv, SyncSafe, SyncTypeOK, RetryAccepted, TrustBound

LEMMA TakeKeysSafe == ASSUME SInv, TakeKeys PROVE SInv'
<1>1. PICK response \in KeySets :
        /\ KeysResponseCheck(response, Route) = "ok"
        /\ keys' = response.set /\ phase = "keys" /\ phase' = "manifest"
        /\ UNCHANGED <<base, request, seen>>
  BY DEF TakeKeys
<1>2. KeysCheck(response.set, Route) = "ok"
  BY <1>1 DEF KeysResponseCheck
<1>3. /\ keys'.vehicle = Route
      /\ \A i \in DOMAIN keys'.keys : \A j \in 1..i - 1 : keys'.keys[j].id # keys'.keys[i].id
      /\ Len(keys'.keys) \in Nat /\ DOMAIN keys'.keys = 1..Len(keys'.keys)
  BY <1>1, <1>2, KeysPass, AnswersAssumption
<1>4. \A i, j \in DOMAIN keys'.keys : keys'.keys[i].id = keys'.keys[j].id => i = j
  <2> SUFFICES ASSUME NEW i \in DOMAIN keys'.keys, NEW j \in DOMAIN keys'.keys, i < j
               PROVE  keys'.keys[i].id # keys'.keys[j].id
    BY <1>3
  <2> QED
    BY <1>3
<1>5. TrustBound'
  BY <1>3, <1>4 DEF TrustBound
<1> QED
  BY <1>1, <1>5 DEF SInv, SyncSafe, SyncTypeOK, RetryAccepted

LEMMA TakeManifestSafe == ASSUME SInv, TakeManifest PROVE SInv'
<1>1. PICK body \in Manifests :
        /\ base' = body.value.next
        /\ request' = [request EXCEPT !.base = body.value.next]
        /\ seen' = "manifest" /\ phase = "manifest" /\ phase' = "sync" /\ UNCHANGED keys
  BY DEF TakeManifest
<1>2. request'.base = base' /\ request'.range = request.range
  BY <1>1 DEF SInv
<1> QED
  BY <1>1, <1>2 DEF SInv, SyncSafe, SyncTypeOK, RetryAccepted, TrustBound

(* What an accepted answer says: a rebase asks again for what it gives.    *)
LEMMA AcceptedRebase ==
  ASSUME NEW value \in Answers, NEW r, ExchangeCheck(value, r) = "ok", value.kind = "rebase"
  PROVE  /\ value.retry.base = value.next /\ value.retry.range = r.range
         /\ RequestCheck(value.retry) = "ok"
<1>1. value.status = 409 /\ (value.formed => value.retry.base.schema \in Schemas)
  BY AnswersAssumption
<1>2. RequestCheck(r) = "ok" /\ Bound(value, r) /\ RebaseCheck(value) = "ok"
  BY <1>1, ExchangePasses DEF ResponseCheck
<1>3. /\ value.formed /\ value.retry.base = value.next
      /\ ~(value.retry.range[1] > value.retry.range[2])
      /\ value.retry.range[1] <= value.next.schema /\ value.next.schema <= value.retry.range[2]
  BY <1>2, RebasePasses DEF RetryBinds
<1>4. value.retry.range = r.range
  BY <1>2 DEF Bound
<1>5. ~(r.range[2] < Supported[1] \/ r.range[1] > Supported[2])
  BY <1>2, RequestPasses, Zenon
<1>6. ~(value.retry.range[2] < Supported[1] \/ value.retry.range[1] > Supported[2])
  BY <1>4, <1>5, Zenon
<1>7. RequestCheck(value.retry) = "ok"
  BY <1>1, <1>3, <1>6, RequestPasses, Zenon
<1> QED
  BY <1>3, <1>4, <1>7

LEMMA ExchangeSafe == ASSUME SInv, Exchange PROVE SInv'
<1>1. PICK value \in Answers :
        /\ ExchangeCheck(value, request) = "ok" /\ value.kind # "error"
        /\ base' = value.next
        /\ request' = IF value.kind = "rebase" THEN value.retry
                      ELSE [base |-> value.next, range |-> request.range]
        /\ seen' = value.kind /\ phase = "sync" /\ UNCHANGED <<phase, keys>>
  BY DEF Exchange
<1>2. request'.base = base' /\ request'.range = request.range
      /\ (seen' = "rebase" => RequestCheck(request') = "ok")
  BY <1>1, AcceptedRebase
<1>3. RetryAccepted'
  BY <1>2 DEF RetryAccepted, RequestCheck
<1>4. seen' \in {"no_op", "changed", "rebase"}
  BY <1>1, AnswersAssumption
<1> QED
  BY <1>1, <1>2, <1>3, <1>4 DEF SInv, SyncSafe, SyncTypeOK, TrustBound

LEMMA SyncStep == SInv /\ [SyncNext]_sync_vars => SInv'
<1> SUFFICES ASSUME SInv, [SyncNext]_sync_vars PROVE SInv'
  OBVIOUS
<1>1. CASE UNCHANGED sync_vars
  BY <1>1 DEF SInv, SyncSafe, SyncTypeOK, RetryAccepted, TrustBound, sync_vars, RequestCheck
<1>2. CASE Select
  <2>1. /\ phase = "select" /\ phase' \in {"keys", "legacy", "none"}
        /\ UNCHANGED <<keys, base, request, seen>>
    BY <1>2 DEF Select, Selection
  <2> QED
    BY <2>1 DEF SInv, SyncSafe, SyncTypeOK, RetryAccepted, TrustBound
<1> QED
  BY <1>1, <1>2, TakeKeysSafe, TakeManifestSafe, ExchangeSafe DEF SyncNext

(* Whatever a Hub signs, its client trusts only keys of its vehicle and    *)
(* asks after a rebase only what it may ask, of the base it has applied.   *)
THEOREM SyncAlwaysSafe == SyncSpec => []SyncSafe
<1>1. SInv => SyncSafe
  BY DEF SInv
<1> QED
  BY <1>1, SyncStart, SyncStep, PTL DEF SyncSpec

(* Without a rebase a client never goes back and never changes schema.     *)
THEOREM AlwaysContinues == SyncSpec => ReceiptsContinue
<1>1. SInv /\ [SyncNext]_sync_vars =>
        [base' # base /\ phase = "sync" =>
           \/ seen' = "rebase"
           \/ seen' = "changed" /\ base'.sequence > base.sequence /\ base'.schema = base.schema]_sync_vars
  <2> SUFFICES ASSUME SInv, SyncNext, base' # base, phase = "sync", seen' # "rebase"
               PROVE  /\ seen' = "changed" /\ base'.sequence > base.sequence
                      /\ base'.schema = base.schema
    BY DEF sync_vars
  <2>1. PICK value \in Answers :
          /\ ExchangeCheck(value, request) = "ok" /\ value.kind # "error"
          /\ base' = value.next /\ seen' = value.kind
    BY DEF SyncNext, Select, TakeKeys, TakeManifest, Exchange
  <2>2. request.base = base
    BY DEF SInv, SyncSafe, RetryAccepted
  <2>3. /\ value.asked = base /\ value.asked \in SyncBase /\ value.next \in SyncBase
        /\ value.kind \in {"no_op", "changed"}
    BY <2>1, <2>2, ExchangePasses, AnswersAssumption DEF Bound
  <2>4. CASE value.kind = "no_op"
    <3>1. value.next.schema = value.asked.schema
      BY <2>1, <2>4, ExchangePasses, NoopPasses DEF ResponseCheck
    <3>2. value.next.receipt = value.asked.receipt /\ value.next.sequence = value.asked.sequence
      BY <2>1, <2>4, AnswersAssumption
    <3>3. value.next = value.asked
      BY <2>3, <3>1, <3>2 DEF SyncBase
    <3> QED
      BY <2>1, <2>3, <3>3
  <2>5. CASE value.kind = "changed"
    <3>1. ~(value.next.sequence <= value.asked.sequence) /\ value.next.schema = value.asked.schema
      BY <2>1, <2>5, ExchangePasses, ChangedPasses DEF ResponseCheck
    <3>2. value.next.sequence > value.asked.sequence
      BY <2>3, <3>1 DEF SyncBase
    <3> QED
      BY <2>1, <2>3, <2>5, <3>1, <3>2
  <2> QED
    BY <2>3, <2>4, <2>5
<1> QED
  BY <1>1, SyncStart, SyncStep, PTL DEF SyncSpec, ReceiptsContinue

-----------------------------------------------------------------------------
(* The client of a physical source                                         *)

LEMMA ReceiptPasses ==
  ASSUME NEW r, NEW req, NEW vehicle, PhysicalReceiptCheck(r, req, vehicle) = "ok"
  PROVE  /\ r.source = req.source /\ r.base = req.base
         /\ r.target.sequence = r.base.sequence + 1 /\ r.sealed
<1> DEFINE own == PhysicalRequestCheck(req)
           sequences == ~SequenceValid(r.base.sequence) \/ ~SequenceValid(r.target.sequence)
           chunks == \E i \in DOMAIN r.chunks : r.chunks[i].index # i - 1
           checks == << <<own, own # "ok">>, <<"receipt-schema", sequences>>,
             <<"source-vehicle", r.vehicle # vehicle \/ r.source.vehicle # vehicle>>,
             <<"source", r.source # req.source>>,
             <<"base", r.base # req.base>>,
             <<"target", r.target.sequence # r.base.sequence + 1>>,
             <<"chunks", chunks>>, <<"total", Total(r) # r.total>>,
             <<"signature", ~r.sealed>> >>
<1>1. First(checks) = "ok"
  BY DEF PhysicalReceiptCheck
<1> HIDE DEF own, sequences, chunks
<1>2. /\ DOMAIN checks = 1..9 /\ checks[1][1] = own /\ (checks[1][2] <=> own # "ok")
      /\ \A i \in 1..9 : i = 1 \/ checks[i][1] # "ok"
  <2>1. DOMAIN checks = 1..9
    OBVIOUS
  <2>2. checks[1][1] = own /\ (checks[1][2] <=> own # "ok")
    OBVIOUS
  <2>3. \A i \in 1..9 : i = 1 \/ checks[i][1] # "ok"
    OBVIOUS
  <2> QED BY <2>1, <2>2, <2>3
<1>3. /\ checks[4][2] <=> r.source # req.source
      /\ checks[5][2] <=> r.base # req.base
      /\ checks[6][2] <=> r.target.sequence # r.base.sequence + 1
      /\ checks[9][2] <=> ~r.sealed
  OBVIOUS
<1> HIDE DEF checks
<1>4. \A i \in 1..9 : checks[i][2] => checks[i][1] # "ok"
  BY <1>2
<1>5. \A i \in 1..9 : ~checks[i][2]
  BY <1>1, <1>2, <1>4, FirstPasses
<1>6. ~checks[4][2] /\ ~checks[5][2] /\ ~checks[6][2] /\ ~checks[9][2]
  BY <1>5
<1> QED
  BY <1>3, <1>6, Zenon

LEMMA ManifestPasses ==
  ASSUME NEW m, NEW vehicle, PhysicalManifestCheck(m, vehicle) = "ok"
  PROVE  m.sealed
<1> DEFINE sequence == ~SequenceValid(m.sequence)
           checks == << <<"manifest-schema", sequence>>, <<"manifest-vehicle", m.vehicle # vehicle>>,
             <<"manifest-chunks", ~m.contiguous>>, <<"manifest-signature", ~m.sealed>> >>
<1>1. First(checks) = "ok"
  BY DEF PhysicalManifestCheck
<1> HIDE DEF sequence
<1>2. DOMAIN checks = 1..4 /\ \A i \in 1..4 : checks[i][2] => checks[i][1] # "ok"
  OBVIOUS
<1>3. checks[4][2] <=> ~m.sealed
  OBVIOUS
<1> HIDE DEF checks
<1>4. \A i \in 1..4 : ~checks[i][2]
  BY <1>1, <1>2, FirstPasses
<1>5. ~checks[4][2]
  BY <1>4
<1> QED
  BY <1>3, <1>5, Zenon

(* A checkpoint is bound to a signed manifest that has all it names.       *)
Names(c, m) ==
  c.sha256 = m /\ c.manifest_id = m.manifest_id /\ c.receipt_id = m.receipt_id
    /\ c.sequence = m.sequence

LEMMA BindingPasses ==
  ASSUME NEW c, NEW m, NEW vehicle, BindingCheck(c, m, vehicle) = "ok"
  PROVE  Names(c, m) /\ m.sealed
<1> DEFINE own == PhysicalManifestCheck(m, vehicle)
           other == m.manifest_id # c.manifest_id \/ m.receipt_id # c.receipt_id
                      \/ m.sequence # c.sequence
           checks == << <<own, own # "ok">>, <<"manifest-digest", m # c.sha256>>,
             <<"manifest-identity", other>> >>
<1>1. First(checks) = "ok"
  BY DEF BindingCheck
<1> HIDE DEF own, other
<1>2. /\ DOMAIN checks = 1..3 /\ checks[1][1] = own /\ (checks[1][2] <=> own # "ok")
      /\ \A i \in 1..3 : i = 1 \/ checks[i][1] # "ok"
  <2>1. DOMAIN checks = 1..3
    OBVIOUS
  <2>2. checks[1][1] = own /\ (checks[1][2] <=> own # "ok")
    OBVIOUS
  <2>3. \A i \in 1..3 : i = 1 \/ checks[i][1] # "ok"
    OBVIOUS
  <2> QED BY <2>1, <2>2, <2>3
<1>3. (checks[2][2] <=> m # c.sha256) /\ (checks[3][2] <=> other)
  OBVIOUS
<1> HIDE DEF checks
<1>4. \A i \in 1..3 : checks[i][2] => checks[i][1] # "ok"
  BY <1>2
<1>5. \A i \in 1..3 : ~checks[i][2]
  BY <1>1, <1>2, <1>4, FirstPasses
<1>6. ~checks[1][2] /\ ~checks[2][2] /\ ~checks[3][2]
  BY <1>5
<1>7. own = "ok" /\ m = c.sha256 /\ ~other
  BY <1>2, <1>3, <1>6, Zenon
<1> QED
  BY <1>7, ManifestPasses DEF own, other, Names

LEMMA HintPasses ==
  ASSUME NEW h, NEW req, NEW vehicle, NEW raw, PhysicalRebaseCheck(h, req, vehicle, raw) = "ok"
  PROVE  /\ PhysicalRequestCheck(h.retry) = "ok"
         /\ h.retry.source = req.source /\ h.requested = req.base
         /\ h.retry = [req EXCEPT !.base = h.replacement]
         /\ Checkpoint(raw) = h.replacement /\ h.sealed
<1> DEFINE own == PhysicalRequestCheck(req)
           retry == PhysicalRequestCheck(h.retry)
           manifest == PhysicalManifestCheck(raw, vehicle)
           named == Checkpoint(raw)
           again == [req EXCEPT !.base = h.replacement]
           sequences == ~SequenceValid(h.requested.sequence) \/ ~SequenceValid(h.replacement.sequence)
           checks == << <<own, own # "ok">>, <<"rebase-schema", sequences>>,
             <<retry, retry # "ok">>,
             <<"rebase-source", h.vehicle # vehicle \/ h.retry.source # req.source>>,
             <<"rebase-base", h.requested # req.base>>,
             <<"rebase-retry", h.retry # again>>,
             <<"rebase-digest", raw # h.replacement.sha256>>,
             <<manifest, manifest # "ok">>,
             <<"rebase-manifest", named # h.replacement>>,
             <<"rebase-signature", ~h.sealed>> >>
<1>1. First(checks) = "ok"
  BY DEF PhysicalRebaseCheck
<1> HIDE DEF own, retry, manifest, named, again, sequences
<1>2. /\ DOMAIN checks = 1..10
      /\ checks[1][1] = own /\ (checks[1][2] <=> own # "ok")
      /\ checks[3][1] = retry /\ (checks[3][2] <=> retry # "ok")
      /\ checks[8][1] = manifest /\ (checks[8][2] <=> manifest # "ok")
      /\ \A i \in 1..10 : i \in {1, 3, 8} \/ checks[i][1] # "ok"
  <2>1. DOMAIN checks = 1..10
    OBVIOUS
  <2>2. checks[1][1] = own /\ (checks[1][2] <=> own # "ok")
    OBVIOUS
  <2>3. checks[3][1] = retry /\ (checks[3][2] <=> retry # "ok")
    OBVIOUS
  <2>4. checks[8][1] = manifest /\ (checks[8][2] <=> manifest # "ok")
    OBVIOUS
  <2>5. \A i \in 1..10 : i \in {1, 3, 8} \/ checks[i][1] # "ok"
    OBVIOUS
  <2> QED BY <2>1, <2>2, <2>3, <2>4, <2>5
<1>3. /\ checks[4][2] <=> h.vehicle # vehicle \/ h.retry.source # req.source
      /\ checks[5][2] <=> h.requested # req.base
      /\ checks[6][2] <=> h.retry # again
      /\ checks[9][2] <=> named # h.replacement
      /\ checks[10][2] <=> ~h.sealed
  OBVIOUS
<1> HIDE DEF checks
<1>4. \A i \in 1..10 : checks[i][2] => checks[i][1] # "ok"
  BY <1>2
<1>5. \A i \in 1..10 : ~checks[i][2]
  BY <1>1, <1>2, <1>4, FirstPasses
<1>6. ~checks[3][2] /\ ~checks[4][2] /\ ~checks[5][2] /\ ~checks[6][2] /\ ~checks[9][2] /\ ~checks[10][2]
  BY <1>5
<1> QED
  BY <1>2, <1>3, <1>6, Zenon DEF retry, again, named

PInv == lineages \in Lineages /\ source \in Sources /\ LineageKept

LEMMA PhysicalStart == PhysicalInit => PInv
BY DEF PhysicalInit, PInv, LineageKept, OnOwnLineage, RetryFits, At, Positions

(* What the network made of a statement has no seal.                       *)
LEMMA SealedStatements ==
  /\ \A r \in SomeReceipts : r.sealed => r \in SignedReceipts
  /\ \A h \in SomeHints : h.sealed => h \in Hints
  /\ \A m \in SomeManifests : m.sealed => m \in PhysicalManifests
BY DEF SomeReceipts, SomeHints, SomeManifests, Unsealed

(* A receipt of the client's source whose target is a signed manifest next *)
(* to its base leads along the lineage.                                    *)
LEMMA ReceiptOnLineage ==
  ASSUME PInv, NEW r \in SignedReceipts, NEW m \in PhysicalManifests, Names(r.target, m),
         r.source = source, r.target.sequence = r.base.sequence + 1
  PROVE  \E i \in Positions(source) : r.target = At(source, i)
<1>1. PICK r0 \in PhysicalReceipts : r = r0 \/ r \in Misbound(r0)
  BY DEF SignedReceipts
<1>2. PICK s \in Sources : \E i \in Positions(s) \ {Len(lineages[s])} :
        r0 = Receipt(s, At(s, i), At(s, i + 1))
  BY <1>1 DEF PhysicalReceipts
<1>3. PICK i \in Positions(s) \ {Len(lineages[s])} : r0 = Receipt(s, At(s, i), At(s, i + 1))
  BY <1>2
<1>4. i \in DOMAIN lineages[s] /\ i + 1 \in DOMAIN lineages[s]
  <2>1. Len(lineages[s]) \in Nat /\ DOMAIN lineages[s] = 1..Len(lineages[s])
    BY LineageAssumption DEF PInv
  <2> QED
    BY <1>3, <2>1 DEF Positions
<1>5. CASE r = r0
  <2>1. r.source = s /\ r.target = At(s, i + 1)
    BY <1>3, <1>5 DEF Receipt
  <2> QED
    BY <1>4, <2>1 DEF Positions
<1>6. CASE r \in Misbound(r0)
  <2>1. PICK t \in Sources : \E k \in Positions(t) : m = lineages[t][k]
    BY DEF PhysicalManifests
  <2>2. PICK k \in DOMAIN lineages[t] : m = lineages[t][k]
    BY <2>1 DEF Positions
  <2> DEFINE j == i + 1
  <2>3. j \in DOMAIN lineages[s] /\ j = i + 1
        /\ r \in Misbound(Receipt(s, Checkpoint(lineages[s][i]), Checkpoint(lineages[s][j])))
    BY <1>3, <1>4, <1>6 DEF At
  <2> HIDE DEF j
  <2>4. /\ r.source = s
        /\ r.target.sha256 = lineages[t][k]
           /\ r.target.manifest_id = lineages[t][k].manifest_id
           /\ r.target.receipt_id = lineages[t][k].receipt_id
           /\ r.target.sequence = lineages[t][k].sequence
           /\ r.target.sequence = r.base.sequence + 1
           => r.target \in {Checkpoint(lineages[s][n]) : n \in DOMAIN lineages[s]}
    <3>1. lineages \in Lineages
      BY DEF PInv
    <3>2. i \in DOMAIN lineages[s]
      BY <1>4
    <3>3. \A x \in Misbound(Receipt(s, Checkpoint(lineages[s][i]), Checkpoint(lineages[s][j]))) :
            /\ x.source = s
            /\ \A u \in Sources : \A n \in DOMAIN lineages[u] :
                 /\ x.target.sha256 = lineages[u][n]
                 /\ x.target.manifest_id = lineages[u][n].manifest_id
                 /\ x.target.receipt_id = lineages[u][n].receipt_id
                 /\ x.target.sequence = lineages[u][n].sequence
                 /\ x.target.sequence = x.base.sequence + 1
                 => x.target \in {Checkpoint(lineages[s][l]) : l \in DOMAIN lineages[s]}
      BY ONLY <3>1, <3>2, <2>3, s \in Sources, MisboundAssumption, Zenon
    <3> QED
      BY <2>3, <3>3, <2>2, Zenon
  <2>5. r.target \in {Checkpoint(lineages[s][n]) : n \in DOMAIN lineages[s]}
    BY <2>2, <2>4 DEF Names
  <2> QED
    BY <2>4, <2>5 DEF Positions, At
<1> QED
  BY <1>1, <1>5, <1>6

LEMMA TakeReceiptKeeps ==
  ASSUME PInv, TakeReceipt PROVE PInv' /\ checkpoint'.sequence = checkpoint.sequence + 1 /\ moved' = "receipt"
<1>1. PICK r \in SomeReceipts :
        /\ PhysicalReceiptCheck(r, Asked, source.vehicle) = "ok"
        /\ \E baseRaw, targetRaw \in SomeManifests :
             Binds(r, baseRaw, targetRaw) /\ checkpoint' = r.target /\ held' = targetRaw
        /\ moved' = "receipt" /\ UNCHANGED <<lineages, source>>
  BY DEF TakeReceipt
<1>2. PICK baseRaw \in SomeManifests, targetRaw \in SomeManifests :
        Binds(r, baseRaw, targetRaw) /\ checkpoint' = r.target /\ held' = targetRaw
  BY <1>1
<1>3. /\ r.source = source /\ r.base = checkpoint
      /\ r.target.sequence = r.base.sequence + 1 /\ r.sealed
  BY <1>1, ReceiptPasses DEF Asked, Request
<1>4. Names(r.target, targetRaw) /\ targetRaw.sealed
  BY <1>2, BindingPasses DEF Binds
<1>5. r \in SignedReceipts /\ targetRaw \in PhysicalManifests
  BY <1>3, <1>4, SealedStatements
<1>6. PICK i \in Positions(source) : r.target = At(source, i)
  BY <1>3, <1>4, <1>5, ReceiptOnLineage
<1>7. r.target = Checkpoint(targetRaw)
  BY <1>4, <1>6 DEF At, Checkpoint, Names
<1>8. OnOwnLineage' /\ RetryFits'
  BY <1>1, <1>2, <1>6, <1>7 DEF OnOwnLineage, RetryFits, Positions, At
<1> QED
  BY <1>1, <1>2, <1>3, <1>8 DEF PInv, LineageKept

LEMMA TakeRebaseKeeps ==
  ASSUME PInv, TakeRebase PROVE PInv' /\ checkpoint'.sequence > checkpoint.sequence /\ moved' = "rebase"
<1>1. PICK h \in SomeHints, raw \in SomeManifests :
        /\ PhysicalRebaseCheck(h, Asked, source.vehicle, raw) = "ok"
        /\ checkpoint' = h.replacement /\ held' = raw
        /\ moved' = "rebase" /\ UNCHANGED <<lineages, source>>
  BY DEF TakeRebase
<1>2. /\ PhysicalRequestCheck(h.retry) = "ok"
      /\ h.retry.source = source /\ h.requested = checkpoint
      /\ h.retry = [Asked EXCEPT !.base = h.replacement]
      /\ Checkpoint(raw) = h.replacement /\ h.sealed
  <2>1. Asked.source = source /\ Asked.base = checkpoint
    BY DEF Asked, Request
  <2> QED
    BY <1>1, <2>1, HintPasses
<1>3. h \in Hints
  BY <1>2, SealedStatements
<1>4. PICK s \in Sources : \E p \in {q \in Positions(s) \X Positions(s) : q[1] < q[2]} :
        h = Hint(s, p[1], p[2])
  BY <1>3 DEF Hints
<1>11. PICK p \in {q \in Positions(s) \X Positions(s) : q[1] < q[2]} : h = Hint(s, p[1], p[2])
  BY <1>4
<1>5. /\ p[1] \in DOMAIN lineages[s] /\ p[2] \in DOMAIN lineages[s] /\ p[1] < p[2]
      /\ h.requested = At(s, p[1]) /\ h.replacement = At(s, p[2]) /\ h.retry.source = s
  BY <1>11 DEF Hint, Request, Positions
<1>6. At(s, p[1]).sequence < At(s, p[2]).sequence
  BY <1>5, LineageAssumption DEF PInv, At, Checkpoint
<1>7. s = source /\ checkpoint = At(s, p[1]) /\ checkpoint' = At(s, p[2])
  BY <1>1, <1>2, <1>5
<1>8. checkpoint'.sequence > checkpoint.sequence
  BY <1>6, <1>7
<1>9. Asked' = h.retry
  BY <1>1, <1>2 DEF Asked, Request
<1>10. OnOwnLineage' /\ RetryFits'
  BY <1>1, <1>2, <1>5, <1>7, <1>9 DEF OnOwnLineage, RetryFits, Positions, At, PhysicalRequestCheck
<1> QED
  BY <1>1, <1>8, <1>10 DEF PInv, LineageKept

LEMMA PhysicalStep == PInv /\ [PhysicalNext]_physical_vars => PInv'
<1> SUFFICES ASSUME PInv, [PhysicalNext]_physical_vars PROVE PInv'
  OBVIOUS
<1>1. CASE UNCHANGED physical_vars
  BY <1>1 DEF PInv, LineageKept, OnOwnLineage, RetryFits, physical_vars, Positions, At, Asked
<1> QED
  BY <1>1, TakeReceiptKeeps, TakeRebaseKeeps DEF PhysicalNext

(* The client's checkpoint is one of its own source's, its manifest is the *)
(* one that the checkpoint names, and after a rebase it can ask again.     *)
THEOREM LineageAlwaysKept == PhysicalSpec => []LineageKept
<1>1. PInv => LineageKept
  BY DEF PInv
<1> QED
  BY <1>1, PhysicalStart, PhysicalStep, PTL DEF PhysicalSpec

(* A changed set leads to the very next checkpoint, a rebase never back.   *)
THEOREM AlwaysAdvances == PhysicalSpec => Advances
<1>1. PInv /\ [PhysicalNext]_physical_vars =>
        [IF moved' = "receipt" THEN checkpoint'.sequence = checkpoint.sequence + 1
         ELSE checkpoint'.sequence > checkpoint.sequence]_<<checkpoint, held>>
  BY TakeReceiptKeeps, TakeRebaseKeeps DEF PhysicalNext, physical_vars
<1> QED
  BY <1>1, PhysicalStart, PhysicalStep, PTL DEF PhysicalSpec, Advances

-----------------------------------------------------------------------------
(* An admitted pack                                                        *)

LEMMA PackPasses ==
  ASSUME NEW h, NEW p, PackCheck(h, p) = "ok"
  PROVE  DirectlyScoped(h, p) /\ OwnersNamed(h, p) /\ RootsSound(h, p) /\ ChildrenScoped(h, p)
<1> DEFINE fault == First([i \in DOMAIN Faults |-> <<Faults[i], Faults[i] \in p.faults>>])
           direct == DirectlyScoped(h, p)
           owners == OwnersNamed(h, p)
           roots == RootsSound(h, p)
           children == ChildrenScoped(h, p)
           checks == << <<fault, fault # "ok">>, <<"direct-scope", ~direct>>, <<"owners", ~owners>>,
             <<"roots", ~roots>>, <<"children", ~children>> >>
<1>1. First(checks) = "ok"
  BY DEF PackCheck
<1> HIDE DEF fault, direct, owners, roots, children
<1>2. DOMAIN checks = 1..5
  OBVIOUS
<1>3. checks[1][1] = fault /\ (checks[1][2] <=> fault # "ok")
  OBVIOUS
<1>4. \A i \in 1..5 : i = 1 \/ checks[i][1] # "ok"
  OBVIOUS
<1>5. /\ checks[2][2] <=> ~direct
      /\ checks[3][2] <=> ~owners
      /\ checks[4][2] <=> ~roots
      /\ checks[5][2] <=> ~children
  OBVIOUS
<1> HIDE DEF checks
<1>6. \A i \in 1..5 : checks[i][2] => checks[i][1] # "ok"
  BY <1>3, <1>4
<1>7. \A i \in 1..5 : ~checks[i][2]
  BY <1>1, <1>2, <1>6, FirstPasses
<1>8. ~checks[2][2] /\ ~checks[3][2] /\ ~checks[4][2] /\ ~checks[5][2]
  BY <1>7
<1> QED
  BY <1>5, <1>8, Zenon DEF direct, owners, roots, children

(* A pack for a history of rows, as far as the theorem needs it.           *)
Fits(h, p) ==
  /\ Typed(h.base) /\ Typed(h.target)
  /\ p.context \subseteq Unchanged(h) /\ Named(p) \subseteq Roots
  /\ DirectlyScoped(h, p) /\ OwnersNamed(h, p) /\ RootsSound(h, p) /\ ChildrenScoped(h, p)

(* What is counted in a named root is all of its children.                 *)
LEMMA AllChildren ==
  ASSUME NEW h, NEW p, Fits(h, p), NEW r \in Named(p)
  PROVE  ChildrenSeen(h, p, r) = ChildrenIn(h.target, r)
<1>1. Cardinality(ChildrenSeen(h, p, r)) = Cardinality(ChildrenIn(h.target, r))
  BY DEF Fits, RootsSound, RootFault
<1>2. IsFiniteSet(ChildrenIn(h.target, r))
  <2>1. ChildrenIn(h.target, r) \subseteq Children
    BY DEF ChildrenIn
  <2> QED
    BY <2>1, RowsAssumption, FS_Subset
<1>3. ChildrenSeen(h, p, r) \subseteq ChildrenIn(h.target, r)
  BY DEF ChildrenSeen
<1> QED
  BY <1>1, <1>2, <1>3, FS_Subset

(* A named root is in the pack when the target has it, and is then claimed *)
(* as it is and scoped.                                                    *)
LEMMA NamedRoot ==
  ASSUME NEW h, NEW p, Fits(h, p), NEW r \in Named(p)
  PROVE  /\ r \in Assigned(h, p) <=> Has(h.target, r)
         /\ p.roots[r] = "absent" <=> ~Has(h.target, r)
         /\ Has(h.target, r) => /\ Scoped(p, r, "recompute")
                                /\ p.roots[r] = "open" <=> h.target[r].state = "open"
<1> DEFINE claimed == p.roots[r]
           carried == r \in Assigned(h, p)
           wasAbsent == StateIn(h.base, r) = "absent"
<1>1. /\ (claimed = "absent") # carried
      /\ ~(claimed = "absent" /\ ~wasAbsent /\ r \notin Tombstones(h))
      /\ claimed # "absent" => Scoped(p, r, "recompute")
      /\ ~(carried /\ (claimed = "open") # (h.target[r].state = "open"))
  BY DEF Fits, RootsSound, RootFault
<1>2. r \in Roots /\ r \in Keys
  BY DEF Fits, Keys
<1>3. carried => Has(h.target, r)
  BY DEF Fits, Assigned, Changed, Unchanged
<1>4. Has(h.target, r) => carried
  <2> SUFFICES ASSUME Has(h.target, r), ~carried PROVE FALSE
    OBVIOUS
  <2>1. claimed = "absent" /\ r \notin Changed(h)
    BY <1>1 DEF Assigned
  <2>2. h.base[r] = h.target[r]
    BY <1>2, <2>1 DEF Changed
  <2>3. Has(h.base, r) /\ r \notin Tombstones(h) /\ h.base[r].state # "absent"
    BY <1>2, <2>2 DEF Has, Tombstones, Fits, Typed
  <2> QED
    BY <1>1, <2>1, <2>3 DEF StateIn
<1>5. claimed = "absent" <=> ~carried
  <2> DEFINE gone == claimed = "absent"
  <2>1. gone \in BOOLEAN /\ carried \in BOOLEAN /\ gone # carried
    BY <1>1
  <2> HIDE DEF gone, carried
  <2>2. gone <=> ~carried
    BY <2>1
  <2> QED
    BY <2>2 DEF gone
<1> HIDE DEF claimed, carried
<1> QED
  BY <1>1, <1>3, <1>4, <1>5, Zenon DEF claimed, carried

(* Everything a reader derives that differs is in the scope.               *)
LEMMA Covers ==
  ASSUME NEW h, NEW p, Fits(h, p), NEW k \in Keys,
         {h.base[c].owner : c \in {d \in Children : Has(h.base, d) /\ h.base[d] # h.target[d]}}
           \ {NoOwner} \subseteq Named(p),
         Projected(h.base, k) # Projected(h.target, k)
  PROVE  Scoped(p, k, IF Has(h.target, k) THEN "recompute" ELSE "delete")
<1>1. CASE k \in Changed(h)
  BY <1>1 DEF Fits, DirectlyScoped, Changed
<1>2. CASE k \in Tombstones(h)
  BY <1>2 DEF Fits, DirectlyScoped, Tombstones
<1>3. CASE k \notin Changed(h) /\ k \notin Tombstones(h)
  <2>1. Has(h.base, k) /\ Has(h.target, k) /\ h.base[k] = h.target[k]
    BY <1>3 DEF Changed, Tombstones, Projected, Has
  <2>2. CASE k \in Roots
    <3>1. {<<c, h.base[c]>> : c \in ChildrenIn(h.base, k)} # {<<c, h.target[c]>> : c \in ChildrenIn(h.target, k)}
      BY <2>1, <2>2 DEF Projected
    <3>2. \E c \in Children : h.base[c] # h.target[c] /\ (c \in ChildrenIn(h.base, k) \/ c \in ChildrenIn(h.target, k))
      <4> SUFFICES ASSUME \A c \in Children : c \in ChildrenIn(h.base, k) \/ c \in ChildrenIn(h.target, k) =>
                            h.base[c] = h.target[c]
                   PROVE  FALSE
        OBVIOUS
      <4>1. ChildrenIn(h.base, k) = ChildrenIn(h.target, k)
        BY DEF ChildrenIn, Has
      <4>2. \A c \in ChildrenIn(h.base, k) : h.base[c] = h.target[c]
        BY DEF ChildrenIn
      <4> QED
        BY <3>1, <4>1, <4>2
    <3>3. PICK c \in Children : h.base[c] # h.target[c] /\ (c \in ChildrenIn(h.base, k) \/ c \in ChildrenIn(h.target, k))
      BY <3>2
    <3>4. k # NoOwner
      BY <2>2, RowsAssumption
    <3>5. k \in Named(p)
      <4>1. CASE c \in ChildrenIn(h.base, k)
        BY <3>3, <3>4, <4>1 DEF ChildrenIn
      <4>2. CASE c \in ChildrenIn(h.target, k)
        BY <3>3, <3>4, <4>2 DEF ChildrenIn, Changed, Keys, Fits, OwnersNamed
      <4> QED
        BY <3>3, <4>1, <4>2
    <3> QED
      BY <2>1, <3>5, NamedRoot
  <2>3. CASE k \in Children
    <3> DEFINE o == h.base[k].owner
    <3>1. /\ k \notin Roots /\ o = h.target[k].owner /\ o # NoOwner
          /\ StateIn(h.base, o) # StateIn(h.target, o) /\ o \in Roots
      BY <2>1, <2>3, RowsAssumption DEF Projected, Fits, Typed
    <3>2. o \in Named(p)
      <4>1. o \in Changed(h) \/ o \in Tombstones(h)
        BY <3>1 DEF StateIn, Has, Changed, Tombstones, Keys
      <4> QED
        BY <3>1, <4>1 DEF Fits, DirectlyScoped
    <3>3. k \in ChildrenIn(h.target, o)
      BY <2>1, <2>3, <3>1 DEF ChildrenIn
    <3>4. k \in ChildrenSeen(h, p, o)
      BY <3>2, <3>3, AllChildren
    <3> QED
      BY <2>1, <3>2, <3>4 DEF Fits, ChildrenScoped
  <2> QED
    BY <2>2, <2>3 DEF Keys
<1> QED
  BY <1>1, <1>2, <1>3

(* The label is the judgement of the pack for its history.                 *)
Judged ==
  /\ history \in Histories /\ pack \in Packs(history)
  /\ label # "none" => label = PackCheck(history, pack)

LEMMA JudgedCovered == Judged => DeltaCovered
<1> SUFFICES ASSUME Judged, label = "ok" PROVE DeltaCovered
  BY DEF DeltaCovered, ScopeCovers, RootsComplete
<1>1. PackCheck(history, pack) = "ok"
  BY DEF Judged
<1>2. Fits(history, pack)
  BY <1>1, PackPasses, RowsAssumption DEF Judged, Fits, Named
<1>3. ScopeCovers
  BY <1>2, Covers DEF ScopeCovers, OldOwners
<1>4. RootsComplete
  <2> SUFFICES ASSUME NEW r \in Named(pack)
               PROVE  /\ (pack.roots[r] = "absent") = (StateIn(history.target, r) = "absent")
                      /\ (pack.roots[r] = "open") = (StateIn(history.target, r) = "open")
                      /\ ChildrenIn(history.target, r) \cup ({r} \cap Unchanged(history))
                           \subseteq Assigned(history, pack)
    BY DEF RootsComplete
  <2>1. /\ r \in Assigned(history, pack) <=> Has(history.target, r)
        /\ pack.roots[r] = "absent" <=> ~Has(history.target, r)
        /\ Has(history.target, r) => (pack.roots[r] = "open" <=> history.target[r].state = "open")
    BY <1>2, NamedRoot
  <2>2. Has(history.target, r) => history.target[r].state \in {"open", "closed"}
    BY <1>2 DEF Fits, Typed
  <2>3. ChildrenIn(history.target, r) \subseteq Assigned(history, pack)
    BY <1>2, AllChildren DEF ChildrenSeen
  <2>4. {r} \cap Unchanged(history) \subseteq Assigned(history, pack)
    BY <2>1 DEF Unchanged
  <2>5. (StateIn(history.target, r) = "absent") <=> ~Has(history.target, r)
    BY <2>2 DEF StateIn
  <2>6. (StateIn(history.target, r) = "open") <=>
          Has(history.target, r) /\ history.target[r].state = "open"
    BY <2>2 DEF StateIn
  <2>7. ~Has(history.target, r) => pack.roots[r] # "open"
    BY <2>1
  <2> QED
    BY <2>1, <2>3, <2>4, <2>5, <2>6, <2>7
<1> QED
  BY <1>3, <1>4 DEF DeltaCovered

(* A reader that writes only in the scope of an admitted pack reaches the  *)
(* target, and every root the pack names is whole in it and as claimed:    *)
(* for any rows, roots and children.                                       *)
THEOREM DeltaAlwaysCovered == DeltaSpec => []DeltaCovered
<1>1. DeltaInit => Judged
  BY DEF DeltaInit, Judged
<1>2. Judged /\ [DeltaNext]_delta_vars => Judged'
  BY DEF Judged, DeltaNext, VerifyPack, delta_vars, PackCheck
<1> QED
  BY <1>1, <1>2, JudgedCovered, PTL DEF DeltaSpec

-----------------------------------------------------------------------------
(* The calendar                                                            *)

(* The calendar's last month, and the starts up to its end.                *)
LastMonth == Len(StartOf) - 1

LEMMA Starts ==
  /\ LastMonth \in Nat /\ LastMonth >= 1 /\ Months = 1..LastMonth
  /\ \A m \in 1..LastMonth + 1 : StartOf[m] \in Nat
  /\ \A m, n \in 1..LastMonth + 1 : m < n => StartOf[m] < StartOf[n]
  /\ StartOf[1] = 0 /\ Calendar = 0..StartOf[LastMonth + 1] - 1
BY CalendarAssumption DEF LastMonth, Months, Calendar

LEMMA MonthIs ==
  ASSUME NEW m \in Months, NEW t \in Int, StartOf[m] <= t, t < StartOf[m + 1]
  PROVE  MonthOf(t) = m
<1>1. \A n \in Months : StartOf[n] <= t /\ t < StartOf[n + 1] => n = m
  <2> SUFFICES ASSUME NEW n \in Months, StartOf[n] <= t, t < StartOf[n + 1], n # m PROVE FALSE
    OBVIOUS
  <2>1. CASE n < m
    <3>1. n + 1 = m \/ n + 1 < m
      BY <2>1, Starts
    <3> QED
      BY <3>1, Starts
  <2>2. CASE m < n
    <3>1. m + 1 = n \/ m + 1 < n
      BY <2>2, Starts
    <3> QED
      BY <3>1, Starts
  <2> QED
    BY <2>1, <2>2, Starts
<1> QED
  BY <1>1 DEF MonthOf

LEMMA MonthExists ==
  ASSUME NEW t \in Calendar
  PROVE  /\ MonthOf(t) \in Months
         /\ StartOf[MonthOf(t)] <= t /\ t < StartOf[MonthOf(t) + 1]
<1> DEFINE later == {n \in 1..LastMonth + 1 : t < StartOf[n]}
<1>1. later \in SUBSET Nat /\ LastMonth + 1 \in later /\ 1 \notin later
  BY Starts
<1>2. Min(later) \in later /\ \A i \in later : Min(later) <= i
  BY <1>1, MinOf
<1> DEFINE m == Min(later) - 1
<1>3. m \in Months /\ m + 1 = Min(later) /\ m \notin later
  BY <1>1, <1>2, Starts
<1>4. m \in Months /\ StartOf[m] <= t /\ t < StartOf[m + 1] /\ t \in Int
  BY <1>2, <1>3, Starts
<1> HIDE DEF m
<1> QED
  BY <1>4, MonthIs

LEMMA Ticks ==
  ASSUME NEW m \in Months, NEW t \in Calendar
  PROVE  MonthOf(t) = m <=> StartOf[m] <= t /\ t < StartOf[m + 1]
BY MonthIs, MonthExists, Starts

(* The end of a month is the start of the next, but the last one has none. *)
LEMMA EndIs ==
  ASSUME NEW m \in Months
  PROVE  EndFollows(m) = IF m = LastMonth THEN -1 ELSE StartOf[m + 1]
<1> DEFINE M == MonthsPerYear
           q == (m - 1) \div M
           k == (m - 1) % M
           y == Years
<1>1. M \in Nat /\ M > 0 /\ m \in Nat /\ m >= 1 /\ m <= LastMonth /\ LastMonth \in Nat
  BY Starts, CalendarAssumption
<1>2. LastMonth % M = 0 /\ y = LastMonth \div M
  BY CalendarAssumption DEF LastMonth, Years
<1>3. q \in Nat /\ k \in Nat /\ k < M /\ m - 1 = q * M + k
  BY <1>1
<1>4. y \in Nat /\ LastMonth = y * M
  BY <1>1, <1>2
<1>5. YearOf(m) = q + 1 /\ InYear(m) = k + 1
  BY DEF YearOf, InYear
<1> HIDE DEF M, q, k, y
<1>6. CASE k + 1 = M
  <2>1. ((k + 1) % M) + 1 = 1
    BY <1>1, <1>6
  <2>2. EndFollows(m) = IF (q + 2) > y THEN -1 ELSE StartOf[((q + 2) - 1) * M + 1]
    BY <1>3, <1>5, <1>6, <2>1 DEF EndFollows, M, y
  <2>3. m = (q + 1) * M
    BY <1>1, <1>3, <1>6
  <2>4. (q + 2) > y <=> m = LastMonth
    <3>1. q + 1 <= y
      <4> SUFFICES ASSUME y <= q PROVE FALSE
        BY <1>3, <1>4
      <4>1. y * M <= q * M
        BY <1>1, <1>3, <1>4
      <4> QED
        BY <1>1, <1>3, <1>4, <1>6, <4>1
    <3>2. q + 1 = y => m = LastMonth
      BY <1>4, <2>3
    <3>3. m = LastMonth => q + 1 = y
      <4> SUFFICES ASSUME m = LastMonth, q + 1 < y PROVE FALSE
        BY <1>3, <1>4, <3>1
      <4>1. (q + 1) * M + M <= y * M
        <5>1. (q + 2) * M <= y * M
          BY <1>1, <1>3, <1>4
        <5>2. (q + 2) * M = (q + 1) * M + M
          BY <1>1, <1>3
        <5> QED BY <5>1, <5>2
      <4> QED
        BY <1>1, <1>4, <2>3, <4>1
    <3> QED
      BY <1>3, <1>4, <3>1, <3>2, <3>3
  <2>5. ((q + 2) - 1) * M + 1 = m + 1
    BY <1>1, <1>3, <2>3
  <2> QED
    BY <2>2, <2>4, <2>5
<1>7. CASE k + 1 # M
  <2>1. ((k + 1) % M) + 1 = k + 2
    BY <1>1, <1>3, <1>7
  <2>2. EndFollows(m) = IF (q + 1) > y THEN -1 ELSE StartOf[((q + 1) - 1) * M + (k + 2)]
    BY <1>3, <1>5, <1>7, <2>1 DEF EndFollows, M, y
  <2>3. ((q + 1) - 1) * M + (k + 2) = m + 1
    BY <1>1, <1>3
  <2>4. q + 1 <= y /\ m # LastMonth
    <3>1. q * M + k + 1 < y * M + 1 /\ k + 1 < M
      BY <1>1, <1>3, <1>4, <1>7
    <3>2. q < y
      <4> SUFFICES ASSUME y <= q PROVE FALSE
        BY <1>3, <1>4
      <4>1. y * M <= q * M
        BY <1>1, <1>3, <1>4
      <4> QED
        BY <1>1, <1>3, <1>4, <3>1, <4>1
    <3>3. (q + 1) * M <= y * M
      BY <1>1, <1>3, <1>4, <3>2
    <3>4. (q + 1) * M = q * M + M
      BY <1>1, <1>3
    <3> QED
      BY <1>1, <1>3, <1>4, <3>1, <3>2, <3>3, <3>4
  <2> QED
    BY <1>3, <1>4, <2>2, <2>3, <2>4
<1> QED
  BY <1>6, <1>7

(* The ticks of a window are those of a month when it is all of the month. *)
LEMMA FullIs ==
  ASSUME NEW r, r.window \in Nat \X Nat, r.window[1] < r.window[2]
  PROVE  FullMonth(r) <=>
           /\ Len(r.spans) = 1
           /\ r.spans[1].month \in Months
           /\ r.window[1] = StartOf[r.spans[1].month]
           /\ r.window[2] = StartOf[r.spans[1].month + 1]
           /\ r.spans[1].from = r.window[1] /\ r.spans[1].to = r.window[2]
<1> DEFINE m == r.spans[1].month
           from == r.window[1]
           to == r.window[2]
           inside == {t \in Calendar : from <= t /\ t < to}
           own == {t \in Calendar : MonthOf(t) = m}
<1>1. from \in Nat /\ to \in Nat /\ from < to
  OBVIOUS
<1>2. FullMonth(r) <=> /\ Len(r.spans) = 1 /\ inside = own /\ to - 1 \in Calendar
                       /\ r.spans[1].from = from /\ r.spans[1].to = to
  BY DEF FullMonth
<1> HIDE DEF m, from, to
<1>3. ASSUME m \in Months, from = StartOf[m], to = StartOf[m + 1]
      PROVE  inside = own /\ to - 1 \in Calendar
  <2>1. inside = own
    BY <1>3, Ticks
  <2>2. StartOf[m + 1] <= StartOf[LastMonth + 1]
    <3>1. m + 1 = LastMonth + 1 \/ m + 1 < LastMonth + 1
      BY <1>3, Starts
    <3> QED
      BY <1>3, <3>1, Starts
  <2>3. StartOf[LastMonth + 1] \in Nat /\ Calendar = 0..StartOf[LastMonth + 1] - 1
    BY Starts
  <2>4. to - 1 \in Calendar
    BY <1>1, <1>3, <2>2, <2>3
  <2> QED
    BY <2>1, <2>4
<1>4. ASSUME inside = own, to - 1 \in Calendar
      PROVE  m \in Months /\ from = StartOf[m] /\ to = StartOf[m + 1]
  <2>1. from \in inside /\ to - 1 \in inside
    BY <1>1, <1>4, Starts
  <2>2. m \in Months /\ StartOf[m] <= from /\ to - 1 < StartOf[m + 1]
    <3>1. MonthOf(from) = m /\ MonthOf(to - 1) = m
      BY <1>4, <2>1
    <3> QED
      BY <1>4, <2>1, <3>1, MonthExists
  <2>3. /\ StartOf[m] \in Nat /\ StartOf[m + 1] \in Nat /\ StartOf[m] < StartOf[m + 1]
        /\ StartOf[m + 1] <= StartOf[LastMonth + 1] /\ StartOf[LastMonth + 1] \in Nat
    <3>1. m \in 1..LastMonth + 1 /\ m + 1 \in 1..LastMonth + 1 /\ m < m + 1
      BY <2>2, Starts
    <3>2. m + 1 = LastMonth + 1 \/ m + 1 < LastMonth + 1
      BY <2>2, Starts
    <3> QED
      BY <3>1, <3>2, Starts
  <2>4. StartOf[m] \in Calendar /\ StartOf[m + 1] - 1 \in Calendar
    BY <2>3, Starts
  <2>5. StartOf[m] \in own /\ StartOf[m + 1] - 1 \in own
    BY <2>2, <2>3, <2>4, Ticks
  <2>6. from <= StartOf[m] /\ StartOf[m + 1] - 1 < to
    BY <1>4, <2>5
  <2> QED
    BY <1>1, <2>2, <2>3, <2>6
<1> QED
  BY <1>2, <1>3, <1>4 DEF m, from, to

LEMMA MonthPasses ==
  ASSUME NEW r, r.window \in Nat \X Nat, r.window[1] < r.window[2], MonthCheck(r) = "ok"
  PROVE  FullMonth(r) /\ r.id.month = MonthId(r, r.spans[1].month)
<1> DEFINE month == MonthOf(r.window[1])
           span == r.spans[1]
           end == EndFollows(month)
           checks == <<
             <<"month", r.window[1] # StartOf[month] \/ span.month # month>>,
             <<"ValueError", end = -1>>,
             <<"month", r.window[2] # end \/ span.from # r.window[1] \/ span.to # r.window[2]>>,
             <<"identity", r.id.month # MonthId(r, span.month)>> >>
<1>1. Len(r.spans) = 1 /\ r.window[1] \in Calendar /\ First(checks) = "ok"
  BY DEF MonthCheck
<1>2. DOMAIN checks = 1..4 /\ \A i \in 1..4 : checks[i][2] => checks[i][1] # "ok"
  OBVIOUS
<1>3. /\ checks[1][2] <=> r.window[1] # StartOf[month] \/ span.month # month
      /\ checks[2][2] <=> end = -1
      /\ checks[3][2] <=> r.window[2] # end \/ span.from # r.window[1] \/ span.to # r.window[2]
      /\ checks[4][2] <=> r.id.month # MonthId(r, span.month)
  OBVIOUS
<1>4. month \in Months
  BY <1>1, MonthExists
<1> HIDE DEF checks, month, end
<1>5. \A i \in 1..4 : ~checks[i][2]
  BY <1>1, <1>2, FirstPasses
<1>6. ~checks[1][2] /\ ~checks[2][2] /\ ~checks[3][2] /\ ~checks[4][2]
  BY <1>5
<1>7. /\ r.window[1] = StartOf[month] /\ span.month = month /\ end # -1 /\ r.window[2] = end
      /\ span.from = r.window[1] /\ span.to = r.window[2]
      /\ r.id.month = MonthId(r, span.month)
  BY <1>3, <1>6, Zenon
<1>8. end = StartOf[month + 1]
  BY <1>4, <1>7, EndIs DEF end
<1> QED
  BY <1>1, <1>4, <1>7, <1>8, FullIs

LEMMA MonthFails ==
  ASSUME NEW r, r.window \in Nat \X Nat, r.window[1] < r.window[2], MonthCheck(r) = "month"
  PROVE  ~FullMonth(r)
<1> DEFINE month == MonthOf(r.window[1])
           span == r.spans[1]
           end == EndFollows(month)
           checks == <<
             <<"month", r.window[1] # StartOf[month] \/ span.month # month>>,
             <<"ValueError", end = -1>>,
             <<"month", r.window[2] # end \/ span.from # r.window[1] \/ span.to # r.window[2]>>,
             <<"identity", r.id.month # MonthId(r, span.month)>> >>
<1> SUFFICES ASSUME FullMonth(r) PROVE FALSE
  OBVIOUS
<1>1. /\ Len(r.spans) = 1 /\ span.month \in Months
      /\ r.window[1] = StartOf[span.month] /\ r.window[2] = StartOf[span.month + 1]
      /\ span.from = r.window[1] /\ span.to = r.window[2]
  BY FullIs
<1>2. r.window[1] \in Calendar
  <2>1. span.month + 1 = LastMonth + 1 \/ span.month + 1 < LastMonth + 1
    BY <1>1, Starts
  <2>2. /\ span.month + 1 \in 1..LastMonth + 1 /\ LastMonth + 1 \in 1..LastMonth + 1
    BY <1>1, Starts
  <2>3. r.window[2] <= StartOf[LastMonth + 1]
    BY <1>1, <2>1, <2>2, Starts
  <2> QED
    BY <2>2, <2>3, Starts
<1>3. month = span.month
  BY <1>1, MonthIs
<1>4. First(checks) = "month"
  BY <1>1, <1>2 DEF MonthCheck
<1>5. DOMAIN checks = 1..4 /\ \A i \in 1..4 : checks[i][1] # "ok"
  OBVIOUS
<1>6. /\ checks[1][2] <=> r.window[1] # StartOf[month] \/ span.month # month
      /\ checks[2][2] <=> end = -1
      /\ checks[3][2] <=> r.window[2] # end \/ span.from # r.window[1] \/ span.to # r.window[2]
  OBVIOUS
<1>7. checks[2][1] # "month" /\ checks[4][1] # "month"
  OBVIOUS
<1> HIDE DEF checks, month, end
<1>8. PICK i \in 1..4 : /\ checks[i][2] /\ checks[i][1] = First(checks)
                        /\ \A j \in 1..i - 1 : ~checks[j][2]
  BY <1>4, <1>5, FirstFails
<1>9. (i = 3 /\ ~checks[2][2]) \/ i = 1
  BY <1>4, <1>7, <1>8
<1>10. ~checks[1][2]
  BY <1>1, <1>3, <1>6, Zenon
<1>11. checks[3][2] /\ ~checks[2][2]
  BY <1>8, <1>9, <1>10
<1>12. end # -1 /\ r.window[2] # end
  BY <1>1, <1>6, <1>11, Zenon
<1> QED
  BY <1>1, <1>3, <1>12, EndIs DEF end

LEMMA PreparedReceiptPasses ==
  ASSUME NEW r, r.window \in Nat \X Nat, PreparedReceiptCheck(r) \in {"ok", "month"}
  PROVE  /\ r.window[1] < r.window[2]
         /\ PreparedReceiptCheck(r) = "month" => NamesMonth(r) /\ MonthCheck(r) = "month"
         /\ PreparedReceiptCheck(r) = "ok" =>
              /\ \A i, j \in DOMAIN r.spans : i < j => r.spans[i].month # r.spans[j].month
              /\ NamesMonth(r) => MonthCheck(r) = "ok"
<1> DEFINE named == IF NamesMonth(r) THEN MonthCheck(r) ELSE "ok"
           astray == NamesMonth(r) /\ MonthCheck(r) # "ok"
           repeats == \E i, j \in DOMAIN r.spans : i < j /\ r.spans[i].month = r.spans[j].month
           outside == \E i \in DOMAIN r.spans : LET s == r.spans[i] IN
                        s.from >= s.to \/ s.from < r.window[1] \/ s.to > r.window[2]
           checks == <<
             <<"schema", ~r.formed>>,
             <<"vehicle", r.vehicle # PreparedRoute>>,
             <<"window", r.window[1] >= r.window[2]>>,
             <<"repeats", repeats>>,
             <<"outside", outside>>,
             <<named, astray>>,
             <<"predates", r.generated < r.window[2]>>,
             <<"limits", ~r.packWithin>>,
             <<"signature", ~r.sealed>> >>
<1>1. PreparedReceiptCheck(r) = First(checks)
  BY DEF PreparedReceiptCheck
<1>2. astray => named # "ok"
  OBVIOUS
<1>3. named = "month" => NamesMonth(r) /\ MonthCheck(r) = "month"
  OBVIOUS
<1>4. ~astray => (NamesMonth(r) => MonthCheck(r) = "ok")
  OBVIOUS
<1>5. ~repeats => \A i, j \in DOMAIN r.spans : i < j => r.spans[i].month # r.spans[j].month
  OBVIOUS
<1> HIDE DEF named, astray, repeats, outside
<1>6. DOMAIN checks = 1..9
  OBVIOUS
<1>7. \A i \in 1..9 : i = 6 \/ (checks[i][1] # "ok" /\ checks[i][1] # "month")
  OBVIOUS
<1>8. checks[3][2] <=> r.window[1] >= r.window[2]
  OBVIOUS
<1>9. checks[4][2] <=> repeats
  OBVIOUS
<1>10. checks[6][1] = named /\ checks[6][2] = astray
  OBVIOUS
<1> HIDE DEF checks
<1>11. ASSUME First(checks) = "ok"
       PROVE  ~checks[3][2] /\ ~checks[4][2] /\ ~checks[6][2]
  <2>1. \A i \in 1..9 : checks[i][2] => checks[i][1] # "ok"
    BY <1>2, <1>7, <1>10
  <2>2. \A i \in 1..9 : ~checks[i][2]
    BY <1>6, <1>11, <2>1, FirstPasses
  <2> QED
    BY <2>2
<1>12. ASSUME First(checks) = "month"
       PROVE  ~checks[3][2] /\ named = "month"
  <2>0. First(checks) # "ok" /\ 9 \in Nat
    BY <1>12
  <2>1. PICK i \in 1..9 : /\ checks[i][2] /\ checks[i][1] = First(checks)
                          /\ \A j \in 1..i - 1 : ~checks[j][2]
    BY <1>6, <2>0, FirstFails, Zenon
  <2>2. i = 6
    BY <1>7, <1>12, <2>1
  <2> QED
    BY <1>10, <1>12, <2>1, <2>2
<1>13. ~checks[3][2] => r.window[1] < r.window[2]
  BY <1>8
<1> QED
  BY <1>1, <1>3, <1>4, <1>5, <1>9, <1>10, <1>11, <1>12, <1>13

-----------------------------------------------------------------------------
(* Prepared packs                                                          *)

LEMMA PackAdmitted ==
  ASSUME NEW r, NEW p
  PROVE  /\ PreparedCheck(r, p) # "month"
         /\ PreparedCheck(r, p) = "ok" =>
              /\ p.metadata = Metadata(r)
              /\ p.months = SpanRows(r)
              /\ \A t \in p.tiles : TileValid(t, p.months)
              /\ \A m \in p.months : MonthValid(m, {t \in p.tiles : t.month = m.month})
<1> DEFINE faulty(i) == ImageFaults[i][1] \in p.image
           faults == [i \in DOMAIN ImageFaults |-> <<ImageFaults[i][2], faulty(i)>>]
           image == First(faults)
           tilesOf(m) == {t \in p.tiles : t.month = m.month}
           bad == image # "ok"
           tile == \E t \in p.tiles : ~TileValid(t, p.months)
           resolution == \E m \in p.months : ~MonthValid(m, tilesOf(m))
           publication == \E m \in p.months :
             m.resolution # "readyEmpty" /\ PublicationBytes(tilesOf(m)) > TileLimits.publication
           checks == <<
             <<"compressed-size", p.file.bytes # r.pack.bytes>>,
             <<"digest", p.file.digest # r.pack.digest>>,
             <<"object-name", ~r.pack.zst>>,
             <<"frame", p.frame.state = "invalid">>,
             <<"content-size", p.frame.state = "unsized">>,
             <<"uncompressed-size", p.frame.declared # r.pack.full>>,
             <<"limit", p.frame.overLimit>>,
             <<"payload", ~p.frame.whole>>,
             <<"SQLite-payload", "unreadable" \in p.image>>,
             <<image, bad>>,
             <<"metadata", p.metadata # Metadata(r)>>,
             <<"spans", p.months # SpanRows(r)>>,
             <<"tile", tile>>,
             <<"resolution", resolution>>,
             <<"publication", publication>>,
             <<"image", "byte_domain" \in p.image>> >>
<1>1. PreparedCheck(r, p) = First(checks)
  BY DEF PreparedCheck
<1>2. image # "month"
  <2>1. SUFFICES ASSUME image = "month" PROVE FALSE
    OBVIOUS
  <2>2. DOMAIN ImageFaults = 1..12 /\ \A i \in 1..12 : ImageFaults[i][2] # "month"
    BY DEF ImageFaults
  <2>3. DOMAIN faults = 1..12 /\ \A i \in 1..12 : faults[i][1] = ImageFaults[i][2]
    BY <2>2
  <2> HIDE DEF faults
  <2>4. First(faults) # "ok" /\ 12 \in Nat
    BY <2>1
  <2>5. PICK i \in 1..12 : faults[i][2] /\ faults[i][1] = First(faults)
    BY <2>3, <2>4, FirstFails, Zenon
  <2> QED
    BY <2>1, <2>2, <2>3, <2>5
<1>3. bad => image # "ok"
  OBVIOUS
<1>4. ~tile => \A t \in p.tiles : TileValid(t, p.months)
  OBVIOUS
<1>5. ~resolution => \A m \in p.months : MonthValid(m, {t \in p.tiles : t.month = m.month})
  OBVIOUS
<1> HIDE DEF faults, image, bad, tile, resolution, publication
<1>6. DOMAIN checks = 1..16 /\ 16 \in Nat
  OBVIOUS
<1>7. \A i \in 1..16 : i = 10 \/ (checks[i][1] # "ok" /\ checks[i][1] # "month")
  OBVIOUS
<1>8. checks[10][1] = image /\ checks[10][2] = bad
  OBVIOUS
<1>9. /\ checks[11][2] <=> p.metadata # Metadata(r)
      /\ checks[12][2] <=> p.months # SpanRows(r)
  OBVIOUS
<1>10. (checks[13][2] <=> tile) /\ (checks[14][2] <=> resolution)
  OBVIOUS
<1> HIDE DEF checks
<1>11. First(checks) # "month"
  <2>1. SUFFICES ASSUME First(checks) = "month" PROVE FALSE
    OBVIOUS
  <2>2. First(checks) # "ok"
    BY <2>1
  <2>3. PICK i \in 1..16 : checks[i][2] /\ checks[i][1] = First(checks)
    BY <1>6, <2>2, FirstFails, Zenon
  <2> QED
    BY <1>2, <1>7, <1>8, <2>1, <2>3
<1>12. ASSUME First(checks) = "ok"
       PROVE  ~checks[11][2] /\ ~checks[12][2] /\ ~checks[13][2] /\ ~checks[14][2]
  <2>1. \A i \in 1..16 : checks[i][2] => checks[i][1] # "ok"
    BY <1>3, <1>7, <1>8
  <2>2. \A i \in 1..16 : ~checks[i][2]
    BY <1>6, <1>12, <2>1, FirstPasses
  <2> QED
    BY <2>2
<1> QED
  BY <1>1, <1>4, <1>5, <1>9, <1>10, <1>11, <1>12, Zenon

(* A finite set grouped into parts of given sizes is as large as the sizes *)
(* together.                                                               *)
Grouping(T, D, size, own) ==
  /\ IsFiniteSet(T) /\ size \in [D -> Nat] /\ own \in [D -> SUBSET T]
  /\ \A i \in D : Cardinality(own[i]) = size[i]
  /\ \A t \in T : \E i \in D : t \in own[i]
  /\ \A i, j \in D : i # j => own[i] \cap own[j] = {}

Parts(D, size) == UNION {{i} \X (1..size[i]) : i \in D}

LEMMA Grouped ==
  ASSUME NEW T, NEW D, NEW size, NEW own, Grouping(T, D, size, own)
  PROVE  Cardinality(T) = Cardinality(Parts(D, size))
<1> USE DEF Grouping
<1> DEFINE P == Parts(D, size)
           B == [i \in D |-> CHOOSE f : f \in Bijection(1..size[i], own[i])]
           g == [x \in P |-> B[x[1]][x[2]]]
<1>1. \A i \in D : B[i] \in Bijection(1..size[i], own[i])
  <2> SUFFICES ASSUME NEW i \in D PROVE B[i] \in Bijection(1..size[i], own[i])
    OBVIOUS
  <2>1. IsFiniteSet(own[i])
    BY FS_Subset
  <2>2. ExistsBijection(1..size[i], own[i])
    BY <2>1, FS_CardinalityType
  <2> QED
    BY <2>2 DEF ExistsBijection
<1>2. \A i \in D : /\ B[i] \in [1..size[i] -> own[i]]
                   /\ \A a, b \in 1..size[i] : B[i][a] = B[i][b] => a = b
                   /\ \A t \in own[i] : \E a \in 1..size[i] : B[i][a] = t
  <2>1. \A S, U : \A f \in Bijection(S, U) :
          /\ f \in [S -> U]
          /\ \A a, b \in S : f[a] = f[b] => a = b
          /\ \A t \in U : \E a \in S : f[a] = t
    BY DEF Bijection, Injection, Surjection, IsInjective
  <2> HIDE DEF B
  <2> QED
    BY <1>1, <2>1
<1>3. \A x \in P : x[1] \in D /\ x[2] \in 1..size[x[1]] /\ x = <<x[1], x[2]>>
  BY DEF Parts
<1>4. \A i \in D : \A a \in 1..size[i] : <<i, a>> \in P
  BY DEF Parts
<1> HIDE DEF B, P
<1>5. \A x \in P : g[x] \in own[x[1]]
  BY <1>2, <1>3
<1>6. g \in [P -> T]
  BY <1>3, <1>5
<1>7. \A x, y \in P : g[x] = g[y] => x = y
  <2> SUFFICES ASSUME NEW x \in P, NEW y \in P, g[x] = g[y] PROVE x = y
    OBVIOUS
  <2>1. x[1] = y[1]
    BY <1>3, <1>5
  <2>2. x[2] = y[2]
    BY <1>2, <1>3, <2>1
  <2> QED
    BY <1>3, <2>1, <2>2
<1>8. \A t \in T : \E x \in P : g[x] = t
  <2> SUFFICES ASSUME NEW t \in T PROVE \E x \in P : g[x] = t
    OBVIOUS
  <2>1. PICK i \in D : t \in own[i]
    OBVIOUS
  <2>2. PICK a \in 1..size[i] : B[i][a] = t
    BY <1>2, <2>1
  <2>3. <<i, a>> \in P /\ g[<<i, a>>] = B[i][a]
    BY <1>4
  <2> QED
    BY <2>2, <2>3
<1> HIDE DEF g
<1>9. g \in Bijection(P, T)
  BY <1>6, <1>7, <1>8, Fun_IsBij
<1>10. ExistsBijection(T, P)
  BY <1>9, Fun_ExistsBijSymmetric DEF ExistsBijection
<1> QED
  BY <1>10, FS_Bijection DEF P

LEMMA Promises ==
  ASSUME NEW r \in PreparedReceipts, NEW p \in PreparedPacks(r),
         PreparedReceiptCheck(r) = "ok", PreparedCheck(r, p) = "ok"
  PROVE  /\ Cardinality(p.tiles) = Cardinality(Promised(r))
         /\ \A t \in p.tiles : \E i \in DOMAIN r.spans :
              r.spans[i].month = t.month /\ r.spans[i].resolution # "readyEmpty"
<1> DEFINE D == DOMAIN r.spans
           T == p.tiles
           size == [i \in D |-> r.spans[i].tiles]
           own == [i \in D |-> {t \in T : t.month = r.spans[i].month}]
<1>1. /\ r.window \in Nat \X Nat /\ IsFiniteSet(T)
      /\ D = 1..Len(r.spans) /\ Len(r.spans) \in Nat
      /\ \A i \in D : r.spans[i].tiles \in Nat
  BY ReceiptAssumption
<1>2. \A i, j \in D : i # j => r.spans[i].month # r.spans[j].month
  <2>1. \A i, j \in D : i < j => r.spans[i].month # r.spans[j].month
    BY <1>1, PreparedReceiptPasses
  <2>2. \A i, j \in D : i # j => i < j \/ j < i
    BY <1>1
  <2> QED
    BY <2>1, <2>2, Zenon
<1>3. /\ p.months = SpanRows(r)
      /\ \A t \in T : TileValid(t, p.months)
      /\ \A m \in p.months : MonthValid(m, {t \in T : t.month = m.month})
  BY PackAdmitted
<1>4. ASSUME NEW i \in D
      PROVE  /\ Cardinality(own[i]) = r.spans[i].tiles
             /\ r.spans[i].resolution = "readyEmpty" => own[i] = {}
  <2> DEFINE row == [month |-> r.spans[i].month, from |-> r.spans[i].from, to |-> r.spans[i].to,
                     resolution |-> r.spans[i].resolution, tiles |-> r.spans[i].tiles]
  <2>1. row \in p.months
    BY <1>3 DEF SpanRows
  <2>2. MonthValid(row, {t \in T : t.month = row.month})
    BY <1>3, <2>1
  <2>3. own[i] = {t \in T : t.month = row.month}
    OBVIOUS
  <2>4. row.tiles = r.spans[i].tiles /\ row.resolution = r.spans[i].resolution
    OBVIOUS
  <2> HIDE DEF row, own
  <2> QED
    BY <2>2, <2>3, <2>4 DEF MonthValid
<1>5. \A t \in T : \E i \in D : t \in own[i]
  <2> SUFFICES ASSUME NEW t \in T PROVE \E i \in D : t \in own[i]
    OBVIOUS
  <2>1. \E m \in p.months : m.month = t.month
    BY <1>3 DEF TileValid
  <2>2. \E i \in D : r.spans[i].month = t.month
    BY <1>3, <2>1 DEF SpanRows
  <2> QED
    BY <2>2
<1>6. \A i, j \in D : i # j => own[i] \cap own[j] = {}
  BY <1>2
<1>7. size \in [D -> Nat] /\ own \in [D -> SUBSET T]
  BY <1>1
<1>8. \A i \in D : Cardinality(own[i]) = size[i]
  BY <1>4
<1>9. Promised(r) = Parts(D, size)
  BY DEF Promised, Parts
<1>10. \A t \in T : \E i \in D : r.spans[i].month = t.month /\ r.spans[i].resolution # "readyEmpty"
  BY <1>4, <1>5
<1> HIDE DEF D, T, size, own
<1>11. Cardinality(T) = Cardinality(Promised(r))
  <2>1. Grouping(T, D, size, own)
    BY <1>1, <1>5, <1>6, <1>7, <1>8 DEF Grouping
  <2>2. Cardinality(T) = Cardinality(Parts(D, size))
    BY <2>1, Grouped
  <2> QED
    BY <1>9, <2>2, Zenon
<1> QED
  BY <1>10, <1>11 DEF D, T

(* Where the validator stands, and which check its answer is from.         *)
Validated ==
  /\ receipt \in PreparedReceipts /\ prepared \in PreparedPacks(receipt)
  /\ prepared_phase = "receipt" => prepared_label = "none"
  /\ prepared_phase \in {"pack", "admitted"} => PreparedReceiptCheck(receipt) = "ok"
  /\ prepared_phase = "admitted" => PreparedCheck(receipt, prepared) = "ok"
  /\ prepared_phase = "refused" =>
       prepared_label \in {PreparedReceiptCheck(receipt), PreparedCheck(receipt, prepared)}

LEMMA ValidatedStep == Validated /\ [PreparedNext]_prepared_vars => Validated'
<1> SUFFICES ASSUME Validated, [PreparedNext]_prepared_vars PROVE Validated'
  OBVIOUS
<1>1. CASE JudgeReceipt
  BY <1>1 DEF Validated, JudgeReceipt
<1>2. CASE JudgePack
  BY <1>2 DEF Validated, JudgePack
<1>3. CASE UNCHANGED prepared_vars
  BY <1>3 DEF Validated, prepared_vars
<1> QED
  BY <1>1, <1>2, <1>3 DEF PreparedNext

LEMMA ValidatedExact == Validated => PreparedExact
<1> SUFFICES ASSUME Validated PROVE PreparedExact
  OBVIOUS
<1>1. receipt \in PreparedReceipts /\ prepared \in PreparedPacks(receipt)
  BY DEF Validated
<1>2. receipt.window \in Nat \X Nat
  BY <1>1, ReceiptAssumption
<1>3. MonthExact
  <2> SUFFICES ASSUME NamesMonth(receipt)
      PROVE  /\ prepared_phase \in {"pack", "admitted"} =>
                  FullMonth(receipt) /\ receipt.id.month = MonthId(receipt, receipt.spans[1].month)
             /\ prepared_phase = "refused" /\ prepared_label = "month" => ~FullMonth(receipt)
    BY DEF MonthExact
  <2>1. ASSUME prepared_phase \in {"pack", "admitted"}
        PROVE  FullMonth(receipt) /\ receipt.id.month = MonthId(receipt, receipt.spans[1].month)
    <3>1. PreparedReceiptCheck(receipt) = "ok"
      BY <2>1 DEF Validated
    <3>2. receipt.window[1] < receipt.window[2] /\ MonthCheck(receipt) = "ok"
      BY <1>2, <3>1, PreparedReceiptPasses
    <3> QED
      BY <1>2, <3>2, MonthPasses
  <2>2. ASSUME prepared_phase = "refused", prepared_label = "month"
        PROVE  ~FullMonth(receipt)
    <3>1. PreparedReceiptCheck(receipt) = "month"
      BY <2>2, PackAdmitted DEF Validated
    <3>2. receipt.window[1] < receipt.window[2] /\ MonthCheck(receipt) = "month"
      BY <1>2, <3>1, PreparedReceiptPasses
    <3> QED
      BY <1>2, <3>2, MonthFails
  <2> QED
    BY <2>1, <2>2
<1>4. OneReceiptPerPack
  <2> SUFFICES ASSUME prepared_phase = "admitted", NEW other \in PreparedReceipts,
                      PreparedCheck(other, prepared) = "ok"
      PROVE  /\ other.vehicle = receipt.vehicle /\ other.source = receipt.source
             /\ other.window = receipt.window /\ other.id = receipt.id
             /\ SpanRows(other) = SpanRows(receipt)
    BY DEF OneReceiptPerPack
  <2>1. PreparedCheck(receipt, prepared) = "ok"
    BY DEF Validated
  <2>2. Metadata(other) = Metadata(receipt) /\ SpanRows(other) = SpanRows(receipt)
    BY <2>1, PackAdmitted
  <2> QED
    BY <2>2 DEF Metadata
<1>5. PromiseKept
  <2> SUFFICES ASSUME prepared_phase = "admitted"
      PROVE  /\ Cardinality(prepared.tiles) = Cardinality(Promised(receipt))
             /\ \A t \in prepared.tiles : \E i \in DOMAIN receipt.spans :
                  receipt.spans[i].month = t.month /\ receipt.spans[i].resolution # "readyEmpty"
    BY DEF PromiseKept
  <2>1. PreparedReceiptCheck(receipt) = "ok" /\ PreparedCheck(receipt, prepared) = "ok"
    BY DEF Validated
  <2> QED
    BY <1>1, <2>1, Promises
<1> QED
  BY <1>3, <1>4, <1>5 DEF PreparedExact

(* A receipt that names a month is taken only for the whole of it, and     *)
(* refused for its month only when it is not; an admitted pack fits one    *)
(* receipt and holds what that receipt promises.                           *)
THEOREM PreparedAlwaysExact == PreparedSpec => []PreparedExact
<1>1. PreparedInit => Validated
  BY DEF PreparedInit, Validated
<1> QED
  BY <1>1, ValidatedStep, ValidatedExact, PTL DEF PreparedSpec

=============================================================================
