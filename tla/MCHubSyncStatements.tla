------------------------- MODULE MCHubSyncStatements ------------------------
(***************************************************************************)
(* The checks of signed statements and of packs against them, for TLC:     *)
(* SyncClient, PhysicalSync, PreparedPack and PhysicalPack, each on inputs *)
(* of its own.  A behaviour is one of one of them; the other three idle.   *)
(***************************************************************************)
EXTENDS SyncClient, PhysicalSync, PreparedPack, PhysicalPack, Functions

(* A Hub that may sign all of this.  Two receipts, three sequence numbers, *)
(* the two schemas of the profile and ranges around them; every            *)
(* combination of what an answer says it was asked, what it leads to and   *)
(* what is to be retried, and one flaw of any other kind.                  *)
Bases == [receipt : {"r1", "r2"}, sequence : 0..2, schema : {2, 3}]
SomeRanges == {<<1, 2>>, <<2, 3>>, <<3, 4>>, <<3, 2>>, <<1, 1>>}
TwoSchemas == {2, 3}
TwoToThree == <<2, 3>>
Good == [digest |-> "own", key |-> "k1", by |-> "k1"]
BadSignatures == {[Good EXCEPT !.digest = "zeros"], [Good EXCEPT !.digest = "other"],
                  [Good EXCEPT !.key = "k3", !.by = "k3"], [Good EXCEPT !.by = "k3"]}
NoRetry == [base |-> NoBase, range |-> <<0, 0>>]
Plain == [kind |-> "changed", status |-> 200, formed |-> TRUE, vehicle |-> "v", asked |-> NoBase,
          next |-> NoBase, retry |-> NoRetry, packs |-> "within", sig |-> Good]
Flawed(value) ==
  {[value EXCEPT !.formed = FALSE], [value EXCEPT !.vehicle = "w"],
   [value EXCEPT !.packs = "oversized"], [value EXCEPT !.packs = "gap"]}
    \cup {[value EXCEPT !.sig = sig] : sig \in BadSignatures}

ChangedSets == {[Plain EXCEPT !.asked = a, !.next = n] : a \in Bases, n \in Bases}
Noops == {[Plain EXCEPT !.kind = "no_op", !.asked = a, !.next = [a EXCEPT !.schema = s]] :
             a \in Bases, s \in TwoSchemas}
Rebases == {[Plain EXCEPT !.kind = "rebase", !.status = 409, !.asked = a, !.next = n,
                          !.retry = [base |-> [n EXCEPT !.sequence = q], range |-> range]] :
               a \in Bases, n \in Bases, q \in 0..2, range \in SomeRanges \cup {<<2, 4>>}}
Newer(a) == [a EXCEPT !.receipt = "r2", !.sequence = 2]
FlawedAnswers ==
  UNION {Flawed([Plain EXCEPT !.asked = a, !.next = Newer(a)]) \cup
         Flawed([Plain EXCEPT !.kind = "no_op", !.asked = a, !.next = a]) \cup
         Flawed([Plain EXCEPT !.kind = "rebase", !.status = 409, !.asked = a, !.next = Newer(a),
                              !.retry = [base |-> Newer(a), range |-> TwoToThree]]) : a \in Bases}
Errors == [kind : {"error"}, status : {400, 404, 406, 413, 422}, formed : BOOLEAN,
           code : {"invalid_json", "schema_range_unsupported", "unknown_base_receipt"},
           noStore : BOOLEAN]
AnySigned == ChangedSets \cup Noops \cup Rebases \cup FlawedAnswers \cup Errors

KeyLists == {<<[id |-> "k1", stable |-> TRUE]>>,
             <<[id |-> "k1", stable |-> TRUE], [id |-> "k2", stable |-> TRUE]>>,
             <<[id |-> "k1", stable |-> TRUE], [id |-> "k1", stable |-> TRUE]>>,
             <<[id |-> "k1", stable |-> FALSE]>>}
AnyKeys == [status : {200, 404}, noStore : BOOLEAN,
            set : [vehicle : {"v", "w"}, keys : KeyLists]]
AnyManifests ==
  LET good == {[Plain EXCEPT !.kind = "manifest", !.next = n] : n \in Bases}
  IN  [raw : {"whole"}, status : {200, 406}, value : good \cup UNION {Flawed(g) : g \in good}]
        \cup [raw : {"oversized", "garbled"}, status : {200}, value : {Plain}]
AnyHeaders == [profile : {<<>>, <<"own">>, <<"other">>, <<"own", "own">>},
               schemas : {<<>>, <<"own">>, <<"other">>, <<"own", "own">>}]

(* Two generations of one vehicle and one of another share identifiers,    *)
(* one of which is so long that it fits a request only beside a short one. *)
(* Every alteration breaks the signature.                                  *)
SomeSources == {[vehicle |-> "v", generation |-> 0], [vehicle |-> "v", generation |-> 1],
         [vehicle |-> "w", generation |-> 0]}
Lengths == [a |-> 1, b |-> 1, long |-> 4]

Manifest(v, m, r, n) ==
  [manifest_id |-> m, receipt_id |-> r, vehicle |-> v, sequence |-> n, contiguous |-> TRUE, sealed |-> TRUE]
Chain(s, ids) == [n \in DOMAIN ids |-> Manifest(s.vehicle, ids[n][1], ids[n][2], n)]
IdChains == {<<<<"a", "a">>, <<"a", "a">>, <<"b", "a">>>>, <<<<"a", "a">>, <<"a", "a">>, <<"a", "long">>>>,
             <<<<"a", "a">>, <<"a", "b">>, <<"b", "a">>>>, <<<<"a", "a">>, <<"long", "long">>, <<"b", "a">>>>}
SomeLineages ==
  {[s \in SomeSources |-> Chain(s, choice[s])] : choice \in [SomeSources -> IdChains]}

(* A signed receipt that mixes the identifiers of one checkpoint with the  *)
(* digest of another.                                                      *)
MixedUp(r) ==
  {[r EXCEPT !.target.sha256 = r.base.sha256], [r EXCEPT !.target.receipt_id = "b"],
   [r EXCEPT !.target = r.base], [r EXCEPT !.target.sequence = @ + 1]}

Tampered(x) ==
  IF "chunks" \in DOMAIN x
    THEN {[x EXCEPT !.target.sequence = @ + 1], [x EXCEPT !.chunks = <<x.chunks[2], x.chunks[1]>>],
          [x EXCEPT !.total = 3], [x EXCEPT !.vehicle = "w"]}
  ELSE IF "retry" \in DOMAIN x
    THEN {[x EXCEPT !.retry.base = x.requested], [x EXCEPT !.replacement = x.requested]}
  ELSE {[x EXCEPT !.contiguous = FALSE], [x EXCEPT !.receipt_id = "b"], [x EXCEPT !.vehicle = "w"]}
Alter(x) == {[y EXCEPT !.sealed = FALSE] : y \in Tampered(x)}

(* A calendar of two years of two months, every window, one or two spans,  *)
(* named and plain receipts; packs made for the receipt or another one,    *)
(* with at most one fault of each kind.                                    *)
FourMonths == <<0, 2, 3, 4, 6>>
Small == [bytes |-> 24, segments |-> 2, tiles |-> 2, publication |-> 112, zooms |-> {0, 1}]

Ticks == 0..StartOf[Len(StartOf)]
Windows == {w \in Ticks \X Ticks : w[1] < w[2] \/ w = <<3, 3>>}
Span1(month, from, to, resolution, tiles) ==
  [month |-> month, from |-> from, to |-> to, resolution |-> resolution, tiles |-> tiles]
SpanLists(w) ==
  {<<Span1(m, w[1], w[2], "readyData", n)>> : m \in Months, n \in 1..2}
    \cup {<<Span1(m, f, w[2], "readyEmpty", 0)>> : m \in Months, f \in {w[1], w[1] + 1}}
    \cup {<<Span1(1, w[1], w[2], "readyData", 1), Span1(m, w[1], t, "readyEmpty", 0)>> :
             m \in {1, 2}, t \in {w[2], w[2] + 1}}
Ref == [bytes |-> 1, digest |-> "d", zst |-> TRUE, full |-> 9]
Base(v, s, w, spans, id) ==
  [formed |-> TRUE, vehicle |-> v, source |-> s, window |-> w, spans |-> spans, id |-> [month |-> id],
   generated |-> w[2], packWithin |-> TRUE, sealed |-> TRUE, pack |-> Ref]
Ids(v, s, w, spans) == {<<>>} \cup {<<v, s, m, w>> : m \in {spans[1].month, 1}}
Sound == UNION {UNION {{Base("v", s, w, spans, id) : id \in Ids("v", s, w, spans)} :
            spans \in SpanLists(w)} : <<s, w>> \in {"a", "b"} \X Windows}
SoundOne == Base("v", "a", <<0, 2>>, <<Span1(1, 0, 2, "readyData", 1)>>, <<>>)
Unsound == {[SoundOne EXCEPT !.formed = FALSE], [SoundOne EXCEPT !.vehicle = "w"],
            [SoundOne EXCEPT !.generated = 1], [SoundOne EXCEPT !.packWithin = FALSE],
            [SoundOne EXCEPT !.sealed = FALSE], [SoundOne EXCEPT !.pack.zst = FALSE],
            [SoundOne EXCEPT !.pack.digest = "e"], [SoundOne EXCEPT !.pack.full = 8]}
AnyReceipts == Sound \cup Unsound

Tile(month, x, bytes) ==
  [month |-> month, zoom |-> 1, x |-> x, y |-> 0, bytes |-> bytes, ascending |-> TRUE]
MadeFor(r) ==
  LET m == r.spans[1].month IN
  [file |-> [bytes |-> 1, digest |-> "d"], frame |-> [state |-> "valid", declared |-> 9, overLimit |-> FALSE, whole |-> TRUE],
   image |-> {}, metadata |-> Metadata(r), months |-> SpanRows(r),
   tiles |-> {Tile(m, x, 8) : x \in 0..r.spans[1].tiles - 1}]
Damaged(p, m) ==
  {p, [p EXCEPT !.file.bytes = 2], [p EXCEPT !.file.digest = "e"],
   [p EXCEPT !.frame.state = "invalid"], [p EXCEPT !.frame.state = "unsized"], [p EXCEPT !.frame.declared = 8],
   [p EXCEPT !.frame.overLimit = TRUE], [p EXCEPT !.frame.whole = FALSE],
   [p EXCEPT !.metadata.window = <<0, 0>>], [p EXCEPT !.metadata.source = "b"], [p EXCEPT !.months = {}],
   [p EXCEPT !.tiles = {}], [p EXCEPT !.tiles = @ \cup {Tile(m, 1, 16)}],
   [p EXCEPT !.tiles = @ \cup {Tile(9, 0, 8)}], [p EXCEPT !.tiles = {Tile(m, 2, 8)}],
   [p EXCEPT !.tiles = {Tile(m, 0, 12)}], [p EXCEPT !.tiles = {Tile(m, 0, 24)}],
   [p EXCEPT !.tiles = {Tile(m, 0, 16), Tile(m, 1, 16)}]}
  \cup {[p EXCEPT !.image = {f}] : f \in {ImageFaults[i][1] : i \in DOMAIN ImageFaults}
                                            \cup {"unreadable", "byte_domain"}}
OwnPack(r) == {MadeFor(r)}
SomePrepared(r) ==
  IF r.source = "b" \/ r.window \notin {<<0, 2>>, <<2, 3>>, <<4, 6>>} THEN OwnPack(r)
  ELSE Damaged(MadeFor(r), r.spans[1].month)

(* Two roots and one child in every history, with all contexts and all     *)
(* claims; the scope is the right one for every row, or lacks one row, or  *)
(* has the wrong effect for one.                                           *)
TwoRoots == {"r1", "r2"}
OneChild == {"c"}
RootRows == {Absent} \cup {[state |-> s, version |-> v] : s \in {"open", "closed"}, v \in {0, 1}}
ChildRows == {Absent} \cup {[owner |-> o, version |-> v] : o \in {NoOwner, "r1", "r2"}, v \in {0, 1}}
RootBase == {Absent, [state |-> "open", version |-> 0], [state |-> "closed", version |-> 0]}
ChildBase == {Absent} \cup {[owner |-> o, version |-> 0] : o \in {NoOwner, "r1", "r2"}}
States(roots, children) ==
  {[k \in Keys |-> IF k = "c" THEN c ELSE f[k]] : f \in [Roots -> roots], c \in children}
Possible(kind, db) ==
  kind = "charge" /\ Has(db, "c") => db["c"].owner # NoOwner /\ Has(db, db["c"].owner)
AllHistories ==
  {h \in [kind : {"drive", "charge"}, base : States(RootBase, ChildBase),
          target : States(RootRows, ChildRows)] :
     Possible(h.kind, h.base) /\ Possible(h.kind, h.target)}

Effect(h, k) == IF Has(h.target, k) THEN "recompute" ELSE "delete"
Full(h) == [k \in Keys |-> Effect(h, k)]
Wrong(e) == IF e = "delete" THEN "recompute" ELSE "delete"
Scopes(h) ==
  {Full(h)} \cup {[Full(h) EXCEPT ![k] = Wrong(@)] : k \in Keys}
    \cup {[j \in Keys \ {k} |-> Effect(h, j)] : k \in Keys}
Claims(h) ==
  LET honest == [r \in Roots |-> StateIn(h.target, r)]
  IN  {Restrict(honest, named) : named \in SUBSET Roots}
        \cup {[honest EXCEPT !["r1"] = s] : s \in {"absent", "open", "closed"}}
SomePacks(h) ==
  [faults : {{}}, context : SUBSET Unchanged(h), roots : Claims(h), scope : Scopes(h)]
    \cup {[faults |-> {Faults[i]}, context |-> Unchanged(h), roots |-> Restrict(Full(h), {}),
           scope |-> Full(h)] : i \in DOMAIN Faults}

-----------------------------------------------------------------------------
(* A client that was rejected, a Hub that has published one checkpoint of  *)
(* each source, an artefact and a pack that nobody judges.                 *)
SyncIdle ==
  /\ phase = "none" /\ keys = [vehicle |-> "none", keys |-> <<>>] /\ base = NoBase
  /\ request = [base |-> NoBase, range |-> TwoToThree] /\ seen = "none"
PhysicalIdle ==
  /\ lineages = [s \in Sources |-> Chain(s, <<<<"a", "a">>>>)]
  /\ source = [vehicle |-> "w", generation |-> 0] /\ held = lineages[source][1]
  /\ checkpoint = Checkpoint(held) /\ moved = "start"
PreparedIdle ==
  receipt = SoundOne /\ prepared = <<>> /\ prepared_phase = "refused" /\ prepared_label = "idle"
DeltaIdle == history = <<>> /\ pack = <<>> /\ label = "idle"

Init ==
  \/ SyncInit /\ PhysicalIdle /\ PreparedIdle /\ DeltaIdle
  \/ PhysicalInit /\ SyncIdle /\ PreparedIdle /\ DeltaIdle
  \/ PreparedInit /\ SyncIdle /\ PhysicalIdle /\ DeltaIdle
  \/ DeltaInit /\ SyncIdle /\ PhysicalIdle /\ PreparedIdle

Next ==
  \/ SyncNext /\ UNCHANGED <<physical_vars, prepared_vars, delta_vars>>
  \/ PhysicalNext /\ UNCHANGED <<sync_vars, prepared_vars, delta_vars>>
  \/ PreparedNext /\ UNCHANGED <<sync_vars, physical_vars, delta_vars>>
  \/ DeltaNext /\ UNCHANGED <<sync_vars, physical_vars, prepared_vars>>

Spec == Init /\ [][Next]_<<sync_vars, physical_vars, prepared_vars, delta_vars>>

(* Neither client goes back, or on to another schema, unless it is told to *)
(* by a rebase (hub_sync.py:265-315, hub_sync_14.py:94-206).               *)
Continues == ReceiptsContinue /\ Advances
=============================================================================
