---------------------------- MODULE PhysicalSync ----------------------------
(***************************************************************************)
(* The admission checks of hub_sync_14.py on signed statements, and a      *)
(* client that moves its checkpoint by the statements they admit: a        *)
(* changed set with the two manifests it binds, or a rebase with the       *)
(* replacement manifest.  The network may repeat, delay, reorder and alter *)
(* what the Hub signed; one key signs for several vehicles and sources,    *)
(* whose identifiers may collide.                                          *)
(*                                                                         *)
(* A manifest stands for its exact bytes and for their SHA-256; it does    *)
(* not name its source.  A statement is sealed when its signature is that  *)
(* of what it says.                                                        *)
(***************************************************************************)
EXTENDS Integers, Sequences, FiniteSets, FiniteSetsExt, Checks

CONSTANTS
  Sources,          \* records with at least a vehicle
  Lineages,         \* functions from Sources to sequences of manifests
  Length,           \* the length of every identifier
  RequestRoom,      \* the bytes a request has for its two identifiers
  MaxSequence,
  Misbound(_),      \* signed receipts whose base or target is no checkpoint
  Altered(_)        \* what the network makes of a statement

ASSUME LimitAssumption == RequestRoom \in Nat /\ MaxSequence \in Nat

VARIABLES
  lineages,     \* what the Hub has published for each source
  source,       \* the client's source
  checkpoint,   \* the client's checkpoint
  held,         \* the manifest the client keeps for it
  moved         \* history: by which statement it came there

physical_vars == <<lineages, source, checkpoint, held, moved>>

Checkpoint(m) ==
  [manifest_id |-> m.manifest_id, receipt_id |-> m.receipt_id, sha256 |-> m, sequence |-> m.sequence]
Chunks == <<[index |-> 0, bytes |-> 1], [index |-> 1, bytes |-> 1]>>
Receipt(s, base, target) ==
  [vehicle |-> s.vehicle, source |-> s, base |-> base, target |-> target,
   chunks |-> Chunks, total |-> 2, sealed |-> TRUE]

(* The Hub signs manifests of ascending sequence; a receipt that it signs  *)
(* amiss for a source may name anything, but if its target is a published  *)
(* manifest and next to its base, it is one of that source's.              *)
ASSUME LineageAssumption ==
  \A L \in Lineages : \A s \in Sources :
    /\ Len(L[s]) \in Nat /\ DOMAIN L[s] = 1..Len(L[s])
    /\ \A i, j \in DOMAIN L[s] : i < j => L[s][i].sequence < L[s][j].sequence
ASSUME MisboundAssumption ==
  \A L \in Lineages : \A s \in Sources : \A i, j \in DOMAIN L[s] : j = i + 1 =>
    \A r \in Misbound(Receipt(s, Checkpoint(L[s][i]), Checkpoint(L[s][j]))) :
      /\ r.source = s
      /\ \A t \in Sources : \A k \in DOMAIN L[t] :
           /\ r.target.sha256 = L[t][k]
           /\ r.target.manifest_id = L[t][k].manifest_id
           /\ r.target.receipt_id = L[t][k].receipt_id
           /\ r.target.sequence = L[t][k].sequence
           /\ r.target.sequence = r.base.sequence + 1
           => r.target \in {Checkpoint(L[s][n]) : n \in DOMAIN L[s]}

Request(s, c) == [source |-> s, base |-> c]

(***************************************************************************)
(* What the Hub signs about its lineages: a changed set for two successive *)
(* checkpoints, and a rebase from one to a later one.                      *)
(***************************************************************************)
Positions(s) == DOMAIN lineages[s]
At(s, i) == Checkpoint(lineages[s][i])
PhysicalManifests == UNION {{lineages[s][i] : i \in Positions(s)} : s \in Sources}
PhysicalReceipts ==
  UNION {{Receipt(s, At(s, i), At(s, i + 1)) : i \in Positions(s) \ {Len(lineages[s])}} : s \in Sources}
Hint(s, i, j) ==
  [vehicle |-> s.vehicle, requested |-> At(s, i), replacement |-> At(s, j),
   retry |-> Request(s, At(s, j)), sealed |-> TRUE]
Hints == UNION {{Hint(s, p[1], p[2]) : p \in {q \in Positions(s) \X Positions(s) : q[1] < q[2]}} :
                  s \in Sources}
SignedReceipts == PhysicalReceipts \cup UNION {Misbound(r) : r \in PhysicalReceipts}

(* No alteration keeps the seal.                                           *)
Unsealed(x) == {y \in Altered(x) : ~y.sealed}
SomeReceipts == SignedReceipts \cup UNION {Unsealed(r) : r \in PhysicalReceipts}
SomeHints == Hints \cup UNION {Unsealed(h) : h \in Hints}
SomeManifests == PhysicalManifests \cup UNION {Unsealed(m) : m \in PhysicalManifests}

(***************************************************************************)
(* The checks, each in the order of the code.                              *)
(***************************************************************************)
SequenceValid(n) == n \in 1..MaxSequence

PhysicalRequestCheck(r) == First(<<
  <<"request-schema", ~SequenceValid(r.base.sequence)>>,
  <<"request-exceeds-limit", Length[r.base.manifest_id] + Length[r.base.receipt_id] > RequestRoom>> >>)

PhysicalManifestCheck(m, vehicle) == First(<<
  <<"manifest-schema", ~SequenceValid(m.sequence)>>,
  <<"manifest-vehicle", m.vehicle # vehicle>>,
  <<"manifest-chunks", ~m.contiguous>>,
  <<"manifest-signature", ~m.sealed>> >>)

Total(r) == MapThenSumSet(LAMBDA i : r.chunks[i].bytes, DOMAIN r.chunks)

(* Mutant: the source is not compared, only its vehicle. *)
ReceiptCheckAnySource(r, req, vehicle) == First(<<
  <<PhysicalRequestCheck(req), PhysicalRequestCheck(req) # "ok">>,
  <<"receipt-schema", ~SequenceValid(r.base.sequence) \/ ~SequenceValid(r.target.sequence)>>,
  <<"source-vehicle", r.vehicle # vehicle \/ r.source.vehicle # vehicle>>,
  <<"base", r.base # req.base>>,
  <<"target", r.target.sequence # r.base.sequence + 1>>,
  <<"chunks", \E i \in DOMAIN r.chunks : r.chunks[i].index # i - 1>>,
  <<"total", Total(r) # r.total>>,
  <<"signature", ~r.sealed>> >>)
PhysicalReceiptCheck(r, req, vehicle) == First(<<
  <<PhysicalRequestCheck(req), PhysicalRequestCheck(req) # "ok">>,
  <<"receipt-schema", ~SequenceValid(r.base.sequence) \/ ~SequenceValid(r.target.sequence)>>,
  <<"source-vehicle", r.vehicle # vehicle \/ r.source.vehicle # vehicle>>,
  <<"source", r.source # req.source>>,
  <<"base", r.base # req.base>>,
  <<"target", r.target.sequence # r.base.sequence + 1>>,
  <<"chunks", \E i \in DOMAIN r.chunks : r.chunks[i].index # i - 1>>,
  <<"total", Total(r) # r.total>>,
  <<"signature", ~r.sealed>> >>)

BindingCheck(c, m, vehicle) == First(<<
  <<PhysicalManifestCheck(m, vehicle), PhysicalManifestCheck(m, vehicle) # "ok">>,
  <<"manifest-digest", m # c.sha256>>,
  <<"manifest-identity", m.manifest_id # c.manifest_id \/ m.receipt_id # c.receipt_id
       \/ m.sequence # c.sequence>> >>)
Binds(r, baseRaw, targetRaw) ==
  BindingCheck(r.base, baseRaw, r.vehicle) = "ok" /\ BindingCheck(r.target, targetRaw, r.vehicle) = "ok"

PhysicalRebaseCheck(h, req, vehicle, raw) == First(<<
  <<PhysicalRequestCheck(req), PhysicalRequestCheck(req) # "ok">>,
  <<"rebase-schema", ~SequenceValid(h.requested.sequence) \/ ~SequenceValid(h.replacement.sequence)>>,
  <<PhysicalRequestCheck(h.retry), PhysicalRequestCheck(h.retry) # "ok">>,
  <<"rebase-source", h.vehicle # vehicle \/ h.retry.source # req.source>>,
  <<"rebase-base", h.requested # req.base>>,
  <<"rebase-retry", h.retry # [req EXCEPT !.base = h.replacement]>>,
  <<"rebase-digest", raw # h.replacement.sha256>>,
  <<PhysicalManifestCheck(raw, vehicle), PhysicalManifestCheck(raw, vehicle) # "ok">>,
  <<"rebase-manifest", Checkpoint(raw) # h.replacement>>,
  <<"rebase-signature", ~h.sealed>> >>)

-----------------------------------------------------------------------------
(* The client starts from a manifest published for its source.             *)
PhysicalInit ==
  /\ lineages \in Lineages
  /\ source \in Sources
  /\ held \in {lineages[source][i] : i \in Positions(source)}
  /\ checkpoint = Checkpoint(held)
  /\ moved = "start"

Asked == Request(source, checkpoint)

TakeReceipt ==
  \E r \in SomeReceipts :
    /\ PhysicalReceiptCheck(r, Asked, source.vehicle) = "ok"
    /\ \E baseRaw, targetRaw \in SomeManifests :
         /\ Binds(r, baseRaw, targetRaw)
         /\ checkpoint' = r.target
         /\ held' = targetRaw
    /\ moved' = "receipt"
    /\ UNCHANGED <<lineages, source>>

TakeRebase ==
  \E h \in SomeHints, raw \in SomeManifests :
    /\ PhysicalRebaseCheck(h, Asked, source.vehicle, raw) = "ok"
    /\ checkpoint' = h.replacement
    /\ held' = raw
    /\ moved' = "rebase"
    /\ UNCHANGED <<lineages, source>>

PhysicalNext == TakeReceipt \/ TakeRebase

PhysicalSpec == PhysicalInit /\ [][PhysicalNext]_physical_vars

-----------------------------------------------------------------------------
(* The client never leaves the history of its own source, although other   *)
(* sources share manifests with it and other vehicles its signing key, and *)
(* the manifest it keeps is the one its checkpoint names.                  *)
OnOwnLineage ==
  /\ \E i \in Positions(source) : checkpoint = At(source, i)
  /\ checkpoint = Checkpoint(held)

(* A changed set moves the client to the very next checkpoint, a rebase    *)
(* never back, whatever older statements are delivered again.              *)
Advances ==
  [][IF moved' = "receipt" THEN checkpoint'.sequence = checkpoint.sequence + 1
     ELSE checkpoint'.sequence > checkpoint.sequence]_<<checkpoint, held>>

(* A client that took a rebase can send the request it was told to.        *)
RetryFits == moved = "rebase" => PhysicalRequestCheck(Asked) = "ok"

(* The client of a physical source stays on its lineage and can go on      *)
(* asking (hub_sync_14.py:94-206).                                         *)
LineageKept == OnOwnLineage /\ RetryFits
=============================================================================
