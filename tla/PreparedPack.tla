---------------------------- MODULE PreparedPack ----------------------------
(***************************************************************************)
(* The admission of a prepared artefact by hub_sync.py: its signed receipt *)
(* first, with the calendar that a receipt naming one month must follow,   *)
(* then the pack it points to.  What the image of a pack is like inside is *)
(* SqliteWalk's, SqlitePage's and SqliteRecord's subject: here an image    *)
(* has a set of faults.  Time is counted in ticks, the first at the start  *)
(* of the calendar; a hash is the tuple of what it is computed from.       *)
(***************************************************************************)
EXTENDS Integers, Sequences, FiniteSets, FiniteSetsExt, Checks

CONSTANTS
  PreparedRoute,
  MonthsPerYear,    \* twelve
  StartOf,          \* the tick at which each month of the calendar starts, and its end
  PreparedReceipts,         \* the receipts that may arrive
  PreparedPacks(_),         \* and the packs that may arrive with one
  TileLimits        \* [bytes, segments, tiles, publication, zooms]

ASSUME CalendarAssumption ==
  /\ MonthsPerYear \in Nat \ {0}
  /\ StartOf \in Seq(Nat) /\ Len(StartOf) > 1 /\ (Len(StartOf) - 1) % MonthsPerYear = 0
  /\ StartOf[1] = 0 /\ \A m, n \in DOMAIN StartOf : m < n => StartOf[m] < StartOf[n]

(* The wire schema has only natural numbers; spans are listed, and a pack  *)
(* has finitely many tiles.                                                *)
ASSUME ReceiptAssumption ==
  \A r \in PreparedReceipts :
    /\ r.window \in Nat \X Nat
    /\ Len(r.spans) \in Nat /\ DOMAIN r.spans = 1..Len(r.spans)
    /\ \A i \in DOMAIN r.spans : r.spans[i].tiles \in Nat
    /\ \A p \in PreparedPacks(r) : IsFiniteSet(p.tiles)

Months == 1..Len(StartOf) - 1
Years == (Len(StartOf) - 1) \div MonthsPerYear
Calendar == 0..StartOf[Len(StartOf)] - 1
MonthOf(tick) == CHOOSE m \in Months : StartOf[m] <= tick /\ tick < StartOf[m + 1]
YearOf(month) == ((month - 1) \div MonthsPerYear) + 1
InYear(month) == ((month - 1) % MonthsPerYear) + 1

(* prepared_month_artifact_id hashes all of this.                          *)
MonthId(r, month) == <<r.vehicle, r.source, month, r.window>>

(***************************************************************************)
(* A receipt names one month when its id has the prefix; the id is then    *)
(* [month |-> the hash], otherwise [month |-> <<>>].                       *)
(***************************************************************************)
NamesMonth(r) == r.id.month # <<>>

(* The end of the month that begins at tick: a year is carried into; the   *)
(* date behind the last of the calendar cannot be built.                   *)
(* Mutant: the year is not carried. *)
EndFollowsSameYear(month) ==
  LET year == YearOf(month)
      next == (InYear(month) % MonthsPerYear) + 1
  IN  IF year > Years THEN -1 ELSE StartOf[(year - 1) * MonthsPerYear + next]
EndFollows(month) ==
  LET year == YearOf(month) + (IF InYear(month) = MonthsPerYear THEN 1 ELSE 0)
      next == (InYear(month) % MonthsPerYear) + 1
  IN  IF year > Years THEN -1 ELSE StartOf[(year - 1) * MonthsPerYear + next]

MonthCheck(r) ==
  IF Len(r.spans) # 1 \/ r.window[1] \notin Calendar THEN "month"
  ELSE LET month == MonthOf(r.window[1])
           span == r.spans[1]
           end == EndFollows(month)
       IN  First(<<
             <<"month", r.window[1] # StartOf[month] \/ span.month # month>>,
             <<"ValueError", end = -1>>,
             <<"month", r.window[2] # end \/ span.from # r.window[1] \/ span.to # r.window[2]>>,
             <<"identity", r.id.month # MonthId(r, span.month)>> >>)

PreparedReceiptCheck(r) == First(<<
  <<"schema", ~r.formed>>,
  <<"vehicle", r.vehicle # PreparedRoute>>,
  <<"window", r.window[1] >= r.window[2]>>,
  <<"repeats", \E i, j \in DOMAIN r.spans : i < j /\ r.spans[i].month = r.spans[j].month>>,
  <<"outside", \E i \in DOMAIN r.spans : LET s == r.spans[i] IN
      s.from >= s.to \/ s.from < r.window[1] \/ s.to > r.window[2]>>,
  <<IF NamesMonth(r) THEN MonthCheck(r) ELSE "ok", NamesMonth(r) /\ MonthCheck(r) # "ok">>,
  <<"predates", r.generated < r.window[2]>>,
  <<"limits", ~r.packWithin>>,
  <<"signature", ~r.sealed>> >>)

(***************************************************************************)
(* A pack: [file, frame, image, metadata, months, tiles].  file is what    *)
(* the receipt's pack reference is compared with, frame what zstd says of  *)
(* it, image the faults of the SQLite image.                               *)
(***************************************************************************)
(* In the order of the checks, each with the label it leads to.            *)
ImageFaults == <<
  <<"integrity", "integrity">>, <<"application_id", "application">>, <<"user_version", "version">>,
  <<"page_size", "page-size">>, <<"page_count", "image">>, <<"freelist", "image">>,
  <<"encoding", "encoding">>, <<"route_content", "route">>, <<"schema", "schema">>,
  <<"xinfo", "schema">>, <<"foreign_key_list", "schema">>, <<"foreign_keys", "foreign-keys">> >>

Metadata(r) == [id |-> r.id, vehicle |-> r.vehicle, source |-> r.source, window |-> r.window]

SpanRows(r) == {[month |-> r.spans[i].month, from |-> r.spans[i].from, to |-> r.spans[i].to,
                 resolution |-> r.spans[i].resolution, tiles |-> r.spans[i].tiles] :
                   i \in DOMAIN r.spans}

TileValid(t, months) ==
  /\ \E m \in months : m.month = t.month
  /\ t.zoom \in TileLimits.zooms
  /\ 0 <= t.x /\ t.x < 2^t.zoom /\ 0 <= t.y /\ t.y < 2^t.zoom
  /\ 8 <= t.bytes /\ t.bytes <= TileLimits.bytes
  /\ t.bytes % 8 = 0 /\ t.bytes \div 8 <= TileLimits.segments
  /\ t.ascending

MonthValid(m, own) ==
  /\ Cardinality(own) = m.tiles
  /\ IF m.resolution = "readyEmpty" THEN own = {}
     ELSE own # {} /\ Cardinality(own) <= TileLimits.tiles

PublicationBytes(own) == 8 + 40 * Cardinality(own) + MapThenSumSet(LAMBDA t : t.bytes, own)

(* The table's key keeps the tiles of a month apart, and a query orders them. *)
PreparedCheck(r, p) ==
  LET faulty(i) == ImageFaults[i][1] \in p.image
      image == First([i \in DOMAIN ImageFaults |-> <<ImageFaults[i][2], faulty(i)>>])
      tilesOf(m) == {t \in p.tiles : t.month = m.month}
  IN  First(<<
        <<"compressed-size", p.file.bytes # r.pack.bytes>>,
        <<"digest", p.file.digest # r.pack.digest>>,
        <<"object-name", ~r.pack.zst>>,
        <<"frame", p.frame.state = "invalid">>,
        <<"content-size", p.frame.state = "unsized">>,
        <<"uncompressed-size", p.frame.declared # r.pack.full>>,
        <<"limit", p.frame.overLimit>>,
        <<"payload", ~p.frame.whole>>,
        <<"SQLite-payload", "unreadable" \in p.image>>,
        <<image, image # "ok">>,
        <<"metadata", p.metadata # Metadata(r)>>,
        <<"spans", p.months # SpanRows(r)>>,
        <<"tile", \E t \in p.tiles : ~TileValid(t, p.months)>>,
        <<"resolution", \E m \in p.months : ~MonthValid(m, tilesOf(m))>>,
        <<"publication", \E m \in p.months :
            m.resolution # "readyEmpty" /\ PublicationBytes(tilesOf(m)) > TileLimits.publication>>,
        <<"image", "byte_domain" \in p.image>> >>)

-----------------------------------------------------------------------------
VARIABLES receipt, prepared, prepared_phase, prepared_label

prepared_vars == <<receipt, prepared, prepared_phase, prepared_label>>

PreparedInit == receipt \in PreparedReceipts /\ prepared \in PreparedPacks(receipt) /\ prepared_phase = "receipt" /\ prepared_label = "none"

(* validate_prepared_pack judges the receipt first and stops there.        *)
JudgeReceipt ==
  /\ prepared_phase = "receipt"
  /\ prepared_label' = PreparedReceiptCheck(receipt)
  /\ prepared_phase' = IF prepared_label' = "ok" THEN "pack" ELSE "refused"
  /\ UNCHANGED <<receipt, prepared>>

JudgePack ==
  /\ prepared_phase = "pack"
  /\ prepared_label' = PreparedCheck(receipt, prepared)
  /\ prepared_phase' = IF prepared_label' = "ok" THEN "admitted" ELSE "refused"
  /\ UNCHANGED <<receipt, prepared>>

PreparedNext == JudgeReceipt \/ JudgePack

PreparedSpec == PreparedInit /\ [][PreparedNext]_prepared_vars

-----------------------------------------------------------------------------
(* A receipt that names a month is taken exactly when its window and its   *)
(* one span are all the ticks of that month and its identity is the hash   *)
(* of what it says: at the end of a year as anywhere else.                 *)
FullMonth(r) ==
  /\ Len(r.spans) = 1
  /\ {t \in Calendar : r.window[1] <= t /\ t < r.window[2]} =
       {t \in Calendar : MonthOf(t) = r.spans[1].month}
  /\ r.window[2] - 1 \in Calendar
  /\ r.spans[1].from = r.window[1] /\ r.spans[1].to = r.window[2]
MonthExact ==
  NamesMonth(receipt) =>
    /\ prepared_phase \in {"pack", "admitted"} =>
         FullMonth(receipt) /\ receipt.id.month = MonthId(receipt, receipt.spans[1].month)
    /\ prepared_phase = "refused" /\ prepared_label = "month" => ~FullMonth(receipt)

(* A pack admitted with one receipt is admitted with no other that speaks  *)
(* of another vehicle, source, window or set of months: a pack cannot be   *)
(* moved under a receipt it was not made for, even one with its digest.    *)
OneReceiptPerPack ==
  prepared_phase = "admitted" =>
    \A other \in PreparedReceipts :
      PreparedCheck(other, prepared) = "ok" =>
        /\ other.vehicle = receipt.vehicle /\ other.source = receipt.source
        /\ other.window = receipt.window /\ other.id = receipt.id
        /\ SpanRows(other) = SpanRows(receipt)

(* What the tiles of an admitted pack add up to is what the signed receipt *)
(* promised for each month, and none lies outside a promised month.        *)
Promised(r) == UNION {{i} \X (1..r.spans[i].tiles) : i \in DOMAIN r.spans}
PromiseKept ==
  prepared_phase = "admitted" =>
    /\ Cardinality(prepared.tiles) = Cardinality(Promised(receipt))
    /\ \A t \in prepared.tiles : \E i \in DOMAIN receipt.spans :
         receipt.spans[i].month = t.month /\ receipt.spans[i].resolution # "readyEmpty"

(* hub_sync.py:39 says that only fixed labels leave this validator.        *)
OnlyFixedLabels == prepared_label # "ValueError"

(* A receipt names one calendar month, one receipt fits a pack, and the    *)
(* pack is what the receipt promises (hub_sync.py:408-445, 907-1087).      *)
PreparedExact == MonthExact /\ OneReceiptPerPack /\ PromiseKept
=============================================================================
