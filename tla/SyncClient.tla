----------------------------- MODULE SyncClient -----------------------------
(***************************************************************************)
(* The checks of hub_sync.py on a changes-since exchange, and a client     *)
(* that does what an accepted answer says: it takes the signing keys, then *)
(* a manifest as its base, and then asks for changes since its base, or    *)
(* with the retry request of a rebase.  The Hub is arbitrary: any answer   *)
(* of Answers may come to any request, late and repeated answers included. *)
(*                                                                         *)
(* A base is [receipt, sequence, schema].  A schema is one number for its  *)
(* major and minor part.  A check is a pair of the label it returns and    *)
(* the condition under which it does; the first that applies is the one.   *)
(***************************************************************************)
EXTENDS Integers, Sequences, FiniteSets, FiniteSetsExt, Checks

CONSTANTS
  Route,            \* the vehicle of the client's route
  Supported,        \* the profile's lowest and highest schema: <<min, max>>
  Schemas,          \* the schemas the wire format has a name for
  Ranges,           \* the ranges <<min, max>> a client may ask for
  Answers, KeySets, Manifests, \* what may arrive
  HeaderLists       \* lists of the selecting headers a bootstrap may carry

ASSUME SupportedAssumption ==
  /\ Supported \in Int \X Int /\ Supported[1] <= Supported[2]
  /\ Schemas \subseteq Int

(* What the status and the wire schemas fix of an answer before any check: *)
(* 409 is a rebase, a well-formed one names schemas the wire format knows, *)
(* and a no-op has one receipt and one sequence.  Keys are listed.         *)
SyncBase == [receipt : STRING, sequence : Nat, schema : Int]
ASSUME AnswersAssumption ==
  /\ \A v \in Answers : v.kind # "error" =>
       /\ v.kind \in {"no_op", "changed", "rebase"}
       /\ v.asked \in SyncBase /\ v.next \in SyncBase
       /\ v.kind = "rebase" => v.status = 409 /\ (v.formed => v.retry.base.schema \in Schemas)
       /\ v.kind = "no_op" =>
            v.next.receipt = v.asked.receipt /\ v.next.sequence = v.asked.sequence
  /\ \A r \in KeySets : Len(r.set.keys) \in Nat /\ DOMAIN r.set.keys = 1..Len(r.set.keys)

VARIABLES
  phase,    \* "select", "keys", "manifest", "sync", "legacy", "none"
  keys,     \* the key set the client trusts
  base,     \* the base it has applied
  request,  \* the request it will send: [base, range]
  seen      \* history: the kind of the answer applied last

sync_vars == <<phase, keys, base, request, seen>>

NoBase == [receipt |-> "none", sequence |-> 0, schema |-> 0]

(***************************************************************************)
(* Requests.                                                               *)
(***************************************************************************)
RequestCheck(r) == First(<<
  <<"schema", r.base.schema \notin Schemas>>,
  <<"reversed", r.range[1] > r.range[2]>>,
  <<"unsupported", r.range[2] < Supported[1] \/ r.range[1] > Supported[2]>>,
  <<"outside", ~(r.range[1] <= r.base.schema /\ r.base.schema <= r.range[2])>> >>)

(* The bootstrap headers: how often each name occurs with which value.     *)
Selection(profile, schemas) ==
  IF profile = <<>> THEN "legacy"
  ELSE IF profile = <<"own">> /\ schemas = <<"own">> THEN "profile"
  ELSE "rejected"

(***************************************************************************)
(* Keys and signatures.  A key is [id, stable]: whether its identifier is  *)
(* the digest of its bytes.  A signature is [digest, key, by]: whether it  *)
(* names the payload's digest, the key it names, and the key that made it. *)
(***************************************************************************)
KeysCheck(set, vehicle) == First(<<
  <<"vehicle", set.vehicle # vehicle>>,
  <<"identifier", \E i \in DOMAIN set.keys :
      ~set.keys[i].stable \/ \E j \in 1..i - 1 : set.keys[j].id = set.keys[i].id>> >>)

KeysResponseCheck(response, vehicle) ==
  IF response.status # 200 THEN "status"
  ELSE IF ~response.noStore THEN "no_store"
  ELSE KeysCheck(response.set, vehicle)

SignatureCheck(sig) == First(<<
  <<"reserved", sig.digest = "zeros">>,
  <<"digest", sig.digest # "own">>,
  <<"unknown", Cardinality({i \in DOMAIN keys.keys : keys.keys[i].id = sig.key}) # 1>>,
  <<"signature", sig.by # sig.key>> >>)

(* The trusted set is checked again with every signature.                  *)
SignedCheck(value) ==
  IF KeysCheck(keys, Route) # "ok" THEN KeysCheck(keys, Route) ELSE SignatureCheck(value.sig)

(***************************************************************************)
(* Answers: [kind, status, formed, vehicle, asked, next, retry, packs,     *)
(* chunks, sig] for signed ones, [kind, status, formed, code, noStore] for *)
(* errors.  asked is the base the answer says it was asked for.            *)
(***************************************************************************)
CodesFor(status) ==
  CASE status = 400 -> {"invalid_json"}
    [] status = 404 -> {"vehicle_not_found"}
    [] status = 406 -> {"schema_range_unsupported"}
    [] status = 413 -> {"request_too_large"}
    [] status = 422 -> {"invalid_request", "invalid_schema_range", "unknown_base_receipt"}

ErrorCheck(value) == First(<<
  <<"schema", ~value.formed>>,
  <<"code", value.code \notin CodesFor(value.status)>>,
  <<"no_store", value.status = 406 /\ ~value.noStore>> >>)

NoopCheck(value) == First(<<
  <<"schema", ~value.formed>>,
  <<"vehicle", value.vehicle # Route>>,
  <<"differs", value.next.schema # value.asked.schema>>,
  <<"signature", SignedCheck(value) # "ok">> >>)

(* Mutant: a changed set may repeat its sequence. *)
ChangedSetCheckStands(value) == First(<<
  <<"schema", ~value.formed>>,
  <<"vehicle", value.vehicle # Route>>,
  <<"advance", value.next.sequence < value.asked.sequence>>,
  <<"differs", value.next.schema # value.asked.schema>>,
  <<"limits", value.packs = "oversized">>,
  <<"signature", SignedCheck(value) # "ok">> >>)
ChangedSetCheck(value) == First(<<
  <<"schema", ~value.formed>>,
  <<"vehicle", value.vehicle # Route>>,
  <<"advance", value.next.sequence <= value.asked.sequence>>,
  <<"differs", value.next.schema # value.asked.schema>>,
  <<"limits", value.packs = "oversized">>,
  <<"signature", SignedCheck(value) # "ok">> >>)

(* Mutant: the retry's sequence is not compared. *)
RetryBindsReceipt(value) ==
  [value.retry.base EXCEPT !.sequence = 0] = [value.next EXCEPT !.sequence = 0]
RetryBinds(value) == value.retry.base = value.next

RebaseCheck(value) == First(<<
  <<"schema", ~value.formed>>,
  <<"vehicle", value.vehicle # Route>>,
  <<"retry", ~RetryBinds(value)>>,
  <<"reversed", value.retry.range[1] > value.retry.range[2]>>,
  <<"outside", ~(value.retry.range[1] <= value.next.schema
                   /\ value.next.schema <= value.retry.range[2])>>,
  <<"chunks", value.packs = "gap">>,
  <<"limits", value.packs = "oversized">>,
  <<"signature", SignedCheck(value) # "ok">> >>)

ResponseCheck(value) ==
  CASE value.kind = "no_op" -> NoopCheck(value)
    [] value.kind = "changed" -> ChangedSetCheck(value)
    [] value.kind = "rebase" -> RebaseCheck(value)
    [] value.kind = "error" -> ErrorCheck(value)

(* What _case_errors adds: the answer is to this very request.             *)
Bound(value, r) ==
  /\ value.asked = r.base
  /\ value.kind = "rebase" => value.retry.range = r.range

ExchangeCheck(value, r) ==
  LET own == RequestCheck(r) IN
  First(<<
    <<own, own # "ok" /\ value.status # 406>>,
    <<"bind", value.kind # "error" /\ ~Bound(value, r)>>,
    <<"supported", value.status = 406 /\ own # "unsupported">>,
    <<ResponseCheck(value), ResponseCheck(value) # "ok">> >>)

ManifestCheck(value) == First(<<
  <<"schema", ~value.formed>>,
  <<"vehicle", value.vehicle # Route>>,
  <<"chunks", value.packs = "gap">>,
  <<"limits", value.packs = "oversized">>,
  <<"signature", SignedCheck(value) # "ok">> >>)

(* validate_control_response_body: size, then JSON, then what it holds.    *)
BodyCheck(body) ==
  CASE body.raw = "oversized" -> "size"
    [] body.raw = "garbled" -> "json"
    [] body.raw = "whole" -> IF body.status # 200 THEN "status" ELSE ManifestCheck(body.value)

-----------------------------------------------------------------------------
(* The client.  Nothing is taken from an answer that is not accepted.      *)
SyncInit ==
  /\ phase = "select"
  /\ keys = [vehicle |-> "none", keys |-> <<>>]
  /\ base = NoBase
  /\ \E range \in Ranges : request = [base |-> NoBase, range |-> range]
  /\ seen = "none"

Select ==
  /\ phase = "select"
  /\ \E h \in HeaderLists :
       phase' = CASE Selection(h.profile, h.schemas) = "profile" -> "keys"
                  [] Selection(h.profile, h.schemas) = "legacy" -> "legacy"
                  [] Selection(h.profile, h.schemas) = "rejected" -> "none"
  /\ UNCHANGED <<keys, base, request, seen>>

TakeKeys ==
  /\ phase = "keys"
  /\ \E response \in KeySets :
       /\ KeysResponseCheck(response, Route) = "ok"
       /\ keys' = response.set /\ phase' = "manifest"
       /\ UNCHANGED <<base, request, seen>>

TakeManifest ==
  /\ phase = "manifest"
  /\ \E body \in Manifests :
       /\ BodyCheck(body) = "ok"
       /\ base' = body.value.next
       /\ request' = [request EXCEPT !.base = body.value.next]
       /\ seen' = "manifest" /\ phase' = "sync"
       /\ UNCHANGED keys

Exchange ==
  /\ phase = "sync"
  /\ \E value \in Answers :
       /\ ExchangeCheck(value, request) = "ok" /\ value.kind # "error"
       /\ base' = value.next
       /\ request' = IF value.kind = "rebase" THEN value.retry
                     ELSE [base |-> value.next, range |-> request.range]
       /\ seen' = value.kind
       /\ UNCHANGED <<phase, keys>>

SyncNext == Select \/ TakeKeys \/ TakeManifest \/ Exchange

SyncSpec == SyncInit /\ [][SyncNext]_sync_vars

-----------------------------------------------------------------------------
SyncTypeOK ==
  /\ phase \in {"select", "keys", "manifest", "sync", "legacy", "none"}
  /\ request.range \in Ranges
  /\ phase = "sync" <=> seen \in {"manifest", "changed", "no_op", "rebase"}

(* The retry request of an accepted rebase asks for the base just applied  *)
(* and is itself a request the profile accepts; no chain of receipts and   *)
(* rebases, honest or not, leads a client into a request it must not send. *)
RetryAccepted ==
  phase = "sync" =>
    /\ request.base = base
    /\ seen = "rebase" => RequestCheck(request) = "ok"

(* Only a rebase may change the schema or take the client back: a changed  *)
(* set moves it forward in its schema, and nothing else moves it at all.   *)
ReceiptsContinue ==
  [][base' # base /\ phase = "sync" =>
       \/ seen' = "rebase"
       \/ seen' = "changed" /\ base'.sequence > base.sequence /\ base'.schema = base.schema]_sync_vars

(* Once the client has applied something, every key it trusts belongs to   *)
(* the vehicle of its route under an identifier no other key has.          *)
TrustBound ==
  phase \in {"manifest", "sync"} =>
    /\ keys.vehicle = Route
    /\ \A i, j \in DOMAIN keys.keys : keys.keys[i].id = keys.keys[j].id => i = j

(* The client of any Hub: what it asks again it may ask, of the vehicle    *)
(* whose keys it trusts (hub_sync.py:216-330).                             *)
SyncSafe == SyncTypeOK /\ RetryAccepted /\ TrustBound
=============================================================================
