---------------------------- MODULE SqliteRecord ----------------------------
(***************************************************************************)
(* How hub_sync.py reads the record of a cell: varints, a header of serial *)
(* types and a body, each accepted only in the form its own encoder would  *)
(* write.  The widths are parameters: a byte has GroupBits + 1 bits        *)
(* (SQLite: 8), a varint at most MaxBytes bytes (SQLite: 9), the last of   *)
(* them all of its bits.                                                   *)
(***************************************************************************)
EXTENDS Integers, Sequences, FiniteSets, FiniteSetsExt, SequencesExt

CONSTANTS
  GroupBits, MaxBytes,
  FieldCounts,      \* the numbers of columns expected
  Payloads,         \* arbitrary payloads considered
  WrittenRows       \* rows whose own encoding is considered

ASSUME WidthAssumption == GroupBits \in Nat \ {0} /\ MaxBytes \in Nat \ {0, 1}

Power(base, n) ==
  LET power[i \in 0..n] == IF i = 0 THEN 1 ELSE base * power[i - 1]
  IN  power[n]

Flag == Power(2, GroupBits)
ByteRange == 2 * Flag

(***************************************************************************)
(* Varints.                                                                *)
(***************************************************************************)
Encode(value) ==
  IF value >= Power(Flag, MaxBytes - 1)
  THEN LET high == value \div ByteRange IN
       [i \in 1..MaxBytes |->
          IF i = MaxBytes THEN value % ByteRange
          ELSE ((high \div Power(Flag, MaxBytes - 1 - i)) % Flag) + Flag]
  ELSE LET groups == CHOOSE n \in 1..MaxBytes - 1 :
                       value < Power(Flag, n) /\ (n = 1 \/ value >= Power(Flag, n - 1))
       IN  [i \in 1..groups |->
              ((value \div Power(Flag, groups - i)) % Flag) + (IF i < groups THEN Flag ELSE 0)]

(* The loop of _sqlite_varint: offset is the number of bytes before.       *)
Read(data, offset, limit) ==
  LET ends == {n \in 1..MaxBytes :
                 /\ offset + n <= limit
                 /\ \A i \in 1..n - 1 : data[offset + i] >= Flag
                 /\ n < MaxBytes => data[offset + n] < Flag}
      n == CHOOSE k \in ends : TRUE
      value[i \in 0..n] ==
        IF i = 0 THEN 0
        ELSE IF i = MaxBytes THEN (value[i - 1] * ByteRange) + data[offset + i]
        ELSE (value[i - 1] * Flag) + (data[offset + i] % Flag)
  IN  IF ends = {} THEN [end |-> 0, value |-> 0] ELSE [end |-> offset + n, value |-> value[n]]

Varint(data, offset, limit) ==
  LET r == Read(data, offset, limit) IN
  [ok |-> r.end > 0 /\ SubSeq(data, offset + 1, r.end) = Encode(r.value),
   end |-> r.end, value |-> r.value]

(***************************************************************************)
(* Fields.  A value is null, an integer, a real (its bytes), a blob or a   *)
(* text.  Reals are NaN or infinite when all their bytes have the flag,    *)
(* texts ill formed when a byte has it: stand-ins for the two conversions. *)
(***************************************************************************)
Null == [kind |-> "null"]
Number(n) == [kind |-> "int", n |-> n]
Raw(kind, bytes) == [kind |-> kind, bytes |-> bytes]

Widths == <<1, 2, 3, 4, 6, 8>>
Unsigned(bytes) ==
  LET sum[i \in 0..Len(bytes)] == IF i = 0 THEN 0 ELSE sum[i - 1] * ByteRange + bytes[i]
  IN  sum[Len(bytes)]
FromBytes(bytes) ==
  IF bytes # <<>> /\ bytes[1] >= Flag THEN Unsigned(bytes) - Power(ByteRange, Len(bytes)) ELSE Unsigned(bytes)
ToBytes(n, width) ==
  LET u == IF n < 0 THEN n + Power(ByteRange, width) ELSE n
  IN  [i \in 1..width |-> (u \div Power(ByteRange, width - i)) % ByteRange]
Fits(n, width) == LET half == Power(ByteRange, width) \div 2 IN -half <= n /\ n < half

(* The one serial type and body a value is written with.                   *)
Serial(value) ==
  CASE value.kind = "null" -> <<0, <<>> >>
    [] value.kind = "int" /\ value.n \in {0, 1} -> <<8 + value.n, <<>> >>
    [] value.kind = "int" /\ value.n \notin {0, 1} ->
         LET type == CHOOSE t \in 1..6 :
                       Fits(value.n, Widths[t]) /\ \A s \in 1..t - 1 : ~Fits(value.n, Widths[s])
         IN  <<type, ToBytes(value.n, Widths[type])>>
    [] value.kind = "real" -> <<7, value.bytes>>
    [] value.kind = "blob" -> <<12 + 2 * Len(value.bytes), value.bytes>>
    [] value.kind = "text" -> <<13 + 2 * Len(value.bytes), value.bytes>>

WidthOf(type) ==
  CASE type \in {0, 8, 9} -> 0
    [] type \in 1..6 -> Widths[type]
    [] type = 7 -> 8
    [] type >= 12 -> (type - 12) \div 2

Readable(type, body) ==
  /\ type = 7 => \E i \in DOMAIN body : body[i] < Flag
  /\ type >= 12 /\ type % 2 = 1 => \A i \in DOMAIN body : body[i] < Flag

ValueOf(type, body) ==
  CASE type = 0 -> Null
    [] type \in 1..6 -> Number(FromBytes(body))
    [] type \in {8, 9} -> Number(type - 8)
    [] type = 7 -> Raw("real", body)
    [] type >= 12 -> Raw(IF type % 2 = 0 THEN "blob" ELSE "text", body)

(***************************************************************************)
(* _sqlite_record.                                                         *)
(***************************************************************************)
VARIABLES
  payload, fields,
  written,           \* the row this payload was written for, if any
  record_phase, offset, headerEnd, types, values

record_vars == <<payload, fields, written, record_phase, offset, headerEnd, types, values>>

Body(row) == FlattenSeq([i \in DOMAIN row |-> Serial(row[i])[2]])
TypeBytes(row) == FlattenSeq([i \in DOMAIN row |-> Encode(Serial(row[i])[1])])
(* Where the size crosses into another varint length two sizes may fit.    *)
HeaderSizes(row) ==
  {h \in 1..Len(TypeBytes(row)) + MaxBytes : h = Len(Encode(h)) + Len(TypeBytes(row))}
Encodings(row) == {Encode(h) \o TypeBytes(row) \o Body(row) : h \in HeaderSizes(row)}

(* What the encoder of the code takes: numbers of eight bytes, finite      *)
(* reals, well-formed texts, and no size beyond the largest varint.        *)
Writable(value) ==
  \/ value = Null
  \/ value.kind = "int" /\ value.n \in Int /\ value = Number(value.n) /\ Fits(value.n, 8)
  \/ /\ value.kind \in {"real", "blob", "text"} /\ value.bytes \in Seq(0..ByteRange - 1)
     /\ value = Raw(value.kind, value.bytes) /\ (value.kind = "real" => Len(value.bytes) = 8)
     /\ Readable(Serial(value)[1], value.bytes)

ASSUME RecordForm ==
  LET limit == Power(Flag, MaxBytes - 1) * ByteRange IN
  /\ FieldCounts \subseteq Nat /\ Payloads \subseteq Seq(0..ByteRange - 1)
  /\ \A row \in WrittenRows :
       /\ row \in Seq(ToSet(row))
       /\ \A i \in DOMAIN row : Writable(row[i]) /\ Serial(row[i])[1] < limit
       /\ Len(TypeBytes(row)) + MaxBytes < limit

RecordInit ==
  /\ fields \in FieldCounts
  /\ \/ payload \in Payloads /\ written = <<>>
     \/ \E row \in WrittenRows :
          written = row /\ Len(row) = fields /\ payload \in Encodings(row)
  /\ record_phase = "size" /\ offset = 0 /\ headerEnd = 0 /\ types = <<>> /\ values = <<>>

RefuseRecord == record_phase' = "refused" /\ UNCHANGED <<offset, headerEnd, types, values>>

ReadHeaderSize ==
  /\ record_phase = "size"
  /\ LET size == Varint(payload, 0, Len(payload)) IN
     IF size.ok /\ size.end <= size.value /\ size.value <= Len(payload)
     THEN /\ record_phase' = "types" /\ offset' = size.end /\ headerEnd' = size.value
          /\ UNCHANGED <<types, values>>
     ELSE RefuseRecord

Room == Len(types) < fields
ReadType ==
  /\ record_phase = "types" /\ offset < headerEnd
  /\ LET type == Varint(payload, offset, headerEnd) IN
     IF type.ok /\ Room
     THEN /\ types' = Append(types, type.value) /\ offset' = type.end
          /\ UNCHANGED <<record_phase, headerEnd, values>>
     ELSE RefuseRecord

EndTypes ==
  /\ record_phase = "types" /\ offset = headerEnd
  /\ IF Len(types) = fields
     THEN record_phase' = "body" /\ UNCHANGED <<offset, headerEnd, types, values>>
     ELSE RefuseRecord

(* Mutant: a value in a wider form than its own is taken. *)
CanonicalAny(type, body) == TRUE
Canonical(type, body) == Serial(ValueOf(type, body)) = <<type, body>>

ReadValue ==
  /\ record_phase = "body" /\ Len(values) < Len(types)
  /\ LET type == types[Len(values) + 1] IN
     IF /\ type \notin {10, 11}
        /\ offset + WidthOf(type) <= Len(payload)
        /\ LET body == SubSeq(payload, offset + 1, offset + WidthOf(type)) IN
           Readable(type, body) /\ Canonical(type, body)
     THEN /\ values' = Append(values,
               ValueOf(type, SubSeq(payload, offset + 1, offset + WidthOf(type))))
          /\ offset' = offset + WidthOf(type)
          /\ UNCHANGED <<record_phase, headerEnd, types>>
     ELSE RefuseRecord

EndBody ==
  /\ record_phase = "body" /\ Len(values) = Len(types)
  /\ record_phase' = IF offset = Len(payload) THEN "accepted" ELSE "refused"
  /\ UNCHANGED <<offset, headerEnd, types, values>>

RecordNext == (ReadHeaderSize \/ ReadType \/ EndTypes \/ ReadValue \/ EndBody)
          /\ UNCHANGED <<payload, fields, written>>

RecordSpec == RecordInit /\ [][RecordNext]_record_vars

-----------------------------------------------------------------------------
RecordTypeOK ==
  /\ record_phase \in {"idle", "size", "types", "body", "accepted", "refused"}
  /\ 0 <= offset /\ offset <= Len(payload)
  /\ Len(types) <= fields /\ Len(values) <= Len(types)

(* The weight of byte i of n.                                              *)
Weight(i, n) ==
  IF n < MaxBytes THEN Power(Flag, n - i)
  ELSE IF i = n THEN 1 ELSE Power(Flag, n - 1 - i) * ByteRange
PlainValue(n) ==
  LET digit(i) == IF i = MaxBytes THEN payload[i] ELSE payload[i] % Flag
      sum[i \in 0..n] == IF i = 0 THEN 0 ELSE sum[i - 1] + Weight(i, n) * digit(i)
  IN  sum[n]

(* _sqlite_varint takes exactly the shortest form of a number: a first run *)
(* of flagged bytes that ends in time, whose number no shorter run spells. *)
VarintExact ==
  record_phase = "size" =>
    LET r == Varint(payload, 0, Len(payload)) IN
    /\ r.ok <=>
         \E n \in 1..Len(payload) :
           /\ n <= MaxBytes
           /\ \A i \in 1..n - 1 : payload[i] >= Flag
           /\ n = MaxBytes \/ payload[n] < Flag
           /\ n = 1 \/ PlainValue(n) >= Power(Flag, n - 1)
    /\ r.ok => r.value = PlainValue(r.end)

(* A payload is accepted only as the encoding of the row read from it, and *)
(* the encoding of every row is accepted and read back as that row: two    *)
(* images of one row differ at most in the size of a long header.          *)
ReadsBack ==
  /\ record_phase = "accepted" => Len(values) = fields /\ payload \in Encodings(values)
  /\ written # <<>> => record_phase # "refused" /\ (record_phase = "accepted" => values = written)

(* A record: a varint is taken exactly when it is the shortest of its      *)
(* number, and a row exactly when it is the canonical encoding of what is  *)
(* read from it (hub_sync.py:500-625).                                     *)
RecordExact == RecordTypeOK /\ VarintExact /\ ReadsBack
=============================================================================
