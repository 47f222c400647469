----------------------------- MODULE RowFormats -----------------------------
(***************************************************************************)
(* An insert chunk on the wire: the columns of a log row (adapter/logs.rs),*)
(* the two encodings of a value and the calendar (adapter/mod.rs), the     *)
(* serializers (serializer/), and, external, how ClickHouse reads a body.  *)
(*                                                                         *)
(* Strings are those of Texts; the names and types of the header, which    *)
(* are strings of the program, stay whole.                                 *)
(***************************************************************************)
EXTENDS Texts

CONSTANT NanosPerSecond     \* 10^9 in the program

ASSUME FormatAssumption == NanosPerSecond \in Nat \ {0}

-----------------------------------------------------------------------------
(* log_row.  A record has the fields of DecodedLogRecord; `service` is a   *)
(* sequence of at most one string, an attribute map a function.            *)
COLUMNS ==
  <<"Timestamp", "ObservedTimestamp", "SeverityText", "SeverityNumber",
    "ServiceName", "Body", "ResourceAttributes", "LogAttributes", "TraceId",
    "SpanId", "_odb_sequence", "_odb_entry_index", "_odb_record_index",
    "_odb_manifest_path", "_odb_data_path", "_odb_ingestion_time_ms",
    "_adapter_version", "_odb_gateway_received_at">>

GatewayKey == <<0>>      \* the attribute "_odb_gateway_received_at"

SeverityToU8(n) == Min({Max({n, 0}), ByteBase - 1})

Value(type, val) == [type |-> type, val |-> val]
Without(map, key) == [k \in DOMAIN map \ {key} |-> map[k]]
GatewayReceivedAt(r) ==
  IF GatewayKey \in DOMAIN r.resource THEN ParseU64(r.resource[GatewayKey]) ELSE Absent

LogRowValues(version, r) ==
  <<Value("DateTime64", r.timestamp), Value("DateTime64", r.observed),
    Value("String", r.severityText), Value("UInt8", SeverityToU8(r.severityNumber)),
    Value("String", IF r.service = <<>> THEN <<>> ELSE r.service[1]),
    Value("String", r.body),
    Value("Map", Without(r.resource, GatewayKey)), Value("Map", r.attributes),
    Value("String", r.traceId), Value("String", r.spanId),
    Value("UInt64", r.key[1]), Value("UInt32", r.key[2]), Value("UInt32", r.key[3]),
    Value("String", r.manifest), Value("String", r.dataPath),
    Value("Int64", r.ingestionTime), Value("UInt32", version),
    Value("Nullable", GatewayReceivedAt(r))>>

-----------------------------------------------------------------------------
(* write_row_binary.  A byte of a varuint carries ByteBits - 1 bits of the *)
(* value, the lowest first, and its top bit says that more follow.         *)
More == 2 ^ (ByteBits - 1)
MaxGroups == (8 * ByteBits + ByteBits - 2) \div (ByteBits - 1)

(* Mutant: no byte is marked as having a successor. *)
WriteVaruintUnmarked(v) ==
  LET n == Min({k \in 1 .. MaxGroups : v < More ^ k})
  IN [k \in 1 .. n |-> (v \div More ^ (k - 1)) % More]

WriteVaruint(v) ==
  LET n == Min({k \in 1 .. MaxGroups : v < More ^ k})
  IN [k \in 1 .. n |-> ((v \div More ^ (k - 1)) % More) + IF k < n THEN More ELSE 0]

(* to_le_bytes; of a negative number, its two's complement. *)
LeBytes(n, v) == [k \in 1 .. n |-> (v \div ByteBase ^ (k - 1)) % ByteBase]

WriteString(s) == WriteVaruint(Len(s)) \o s

(* BTreeMap iterates in the order of its keys. *)
StringLess(a, b) ==
  \/ \E i \in DOMAIN a \cap DOMAIN b : a[i] < b[i] /\ \A j \in 1 .. i - 1 : a[j] = b[j]
  \/ Len(a) < Len(b) /\ IsPrefix(a, b)

WriteMap(map) ==
  LET keys == SetToSortSeq(DOMAIN map, StringLess)
  IN FoldLeft(LAMBDA o, k : o \o WriteString(k) \o WriteString(map[k]),
              WriteVaruint(Len(keys)), keys)

WriteRowBinary(v) ==
  CASE v.type = "String" -> WriteString(v.val)
    [] v.type = "Map" -> WriteMap(v.val)
    [] v.type = "UInt8" -> LeBytes(1, v.val)
    [] v.type \in {"UInt32", "Int32"} -> LeBytes(4, v.val)
    [] v.type \in {"UInt64", "Int64", "DateTime64"} -> LeBytes(8, v.val)
    [] v.type = "Nullable" ->
         IF v.val = Absent THEN <<1>> ELSE <<0>> \o LeBytes(8, v.val)

-----------------------------------------------------------------------------
(* The calendar of format_datetime64_ns. *)

(* Mutant: every fourth year is a leap year. *)
IsLeapEveryFourth(year) == year % 4 = 0

IsLeap(year) == (year % 4 = 0 /\ year % 100 # 0) \/ year % 400 = 0

DaysInMonth(year, month) ==
  CASE month \in {1, 3, 5, 7, 8, 10, 12} -> 31
    [] month \in {4, 6, 9, 11} -> 30
    [] month = 2 -> IF IsLeap(year) THEN 29 ELSE 28

DaysInYear(year) == IF IsLeap(year) THEN 366 ELSE 365

(* The loop over years: <<year, days into it>>. *)
YearLoop[days \in Int, year \in Int] ==
  CASE days >= DaysInYear(year) -> YearLoop[days - DaysInYear(year), year + 1]
    [] days < 0 -> YearLoop[days + DaysInYear(year - 1), year - 1]
    [] OTHER -> <<year, days>>

DateOf(days) ==
  LET year == YearLoop[days, 1970][1]
      left == YearLoop[days, 1970][2]
      Before(month) == MapThenSumSet(LAMBDA m : DaysInMonth(year, m), 1 .. month - 1)
      month == Max({m \in 1 .. 12 : Before(m) <= left})
  IN [year |-> year, month |-> month, day |-> left - Before(month) + 1]

(* Mutant: the hours stay in the seconds the minutes are taken from. *)
PartsOfDay(secs) ==
  LET ofDay == secs % 86400
  IN [date |-> DateOf(secs \div 86400), hour |-> ofDay \div 3600,
      minute |-> ofDay \div 60, second |-> ofDay % 60]

Parts(secs) ==
  LET ofDay == secs % 86400
  IN [date |-> DateOf(secs \div 86400), hour |-> ofDay \div 3600,
      minute |-> (ofDay % 3600) \div 60, second |-> ofDay % 60]

FormatDatetime64(ns) ==
  [time |-> Parts(ns \div NanosPerSecond), nanos |-> ns % NanosPerSecond]

ToJson(v) ==
  CASE v.type = "DateTime64" -> [json |-> "time", val |-> FormatDatetime64(v.val)]
    [] v.type = "Nullable" ->
         IF v.val = Absent THEN [json |-> "null"]
                           ELSE [json |-> "time", val |-> FormatDatetime64(v.val)]
    [] v.type = "Map" -> [json |-> "object", val |-> v.val]
    [] v.type = "String" -> [json |-> "string", val |-> v.val]
    [] OTHER -> [json |-> "number", val |-> v.val]

-----------------------------------------------------------------------------
(* The serializers.  A chunk is [columns, rows], a row its values. *)

(* clickhouse_type_for_column; "none" is its error. *)
ClickHouseType(name) ==
  CASE name \in {"Timestamp", "ObservedTimestamp"} -> "DateTime64(9)"
    [] name \in {"SeverityText", "ServiceName", "_odb_manifest_path"} -> "LowCardinality(String)"
    [] name \in {"Body", "TraceId", "SpanId", "_odb_data_path"} -> "String"
    [] name \in {"ResourceAttributes", "LogAttributes"} -> "Map(LowCardinality(String), String)"
    [] name = "SeverityNumber" -> "UInt8"
    [] name = "_odb_sequence" -> "UInt64"
    [] name \in {"_odb_entry_index", "_odb_record_index", "_adapter_version"} -> "UInt32"
    [] name = "_odb_ingestion_time_ms" -> "Int64"
    [] name = "_odb_gateway_received_at" -> "Nullable(DateTime64(9))"
    [] OTHER -> "none"

SerializationError == [ok |-> FALSE]

RowsHaveTheirColumns(chunk) ==
  \A k \in DOMAIN chunk.rows : Len(chunk.rows[k]) = Len(chunk.columns)

RowBinarySerialize(chunk) ==
  LET types == [k \in DOMAIN chunk.columns |-> ClickHouseType(chunk.columns[k])]
      Row(out, row) == FoldLeft(LAMBDA o, v : o \o WriteRowBinary(v), out, row)
  IN IF RowsHaveTheirColumns(chunk) /\ \A k \in DOMAIN types : types[k] # "none"
     THEN [ok |-> TRUE, columns |-> chunk.columns, types |-> types,
           bytes |-> FoldLeft(Row, <<>>, chunk.rows)]
     ELSE SerializationError

JsonEachRowSerialize(chunk) ==
  LET Object(row) ==
        [c \in ToSet(chunk.columns) |->
           ToJson(row[CHOOSE k \in DOMAIN chunk.columns : chunk.columns[k] = c])]
  IN IF RowsHaveTheirColumns(chunk)
     THEN [ok |-> TRUE, objects |-> [k \in DOMAIN chunk.rows |-> Object(chunk.rows[k])]]
     ELSE SerializationError

-----------------------------------------------------------------------------
(* The table of logs_table_ddl; the column with a default is left to the   *)
(* server.                                                                 *)
TableTypes ==
  [c \in ToSet(COLUMNS) |->
     CASE c \in {"Timestamp", "ObservedTimestamp"} -> "DateTime64(9)"
       [] c \in {"SeverityText", "ServiceName", "_odb_manifest_path"} -> "LowCardinality(String)"
       [] c \in {"SeverityNumber"} -> "UInt8"
       [] c \in {"Body", "TraceId", "SpanId", "_odb_data_path"} -> "String"
       [] c \in {"ResourceAttributes", "LogAttributes"} -> "Map(LowCardinality(String), String)"
       [] c \in {"_odb_sequence"} -> "UInt64"
       [] c \in {"_odb_entry_index", "_odb_record_index", "_adapter_version"} -> "UInt32"
       [] c \in {"_odb_ingestion_time_ms"} -> "Int64"
       [] c \in {"_odb_gateway_received_at"} -> "Nullable(DateTime64(9))"]

(* The server reads a value from position `at` of the bytes, as the type   *)
(* in the header says: [val, next].  Nothing separates values or rows.     *)
Byte(bytes, at) == IF at \in DOMAIN bytes THEN bytes[at] ELSE 0

ReadUnsigned(bytes, at, n) ==
  MapThenSumSet(LAMBDA k : Byte(bytes, at + k) * ByteBase ^ k, 0 .. n - 1)

ReadSigned(bytes, at, n) ==
  LET v == ReadUnsigned(bytes, at, n)
  IN IF 2 * v >= ByteBase ^ n THEN v - ByteBase ^ n ELSE v

ReadVaruint(bytes, at) ==
  LET last == Min({k \in 0 .. Len(bytes) : Byte(bytes, at + k) < More})
  IN [val |-> MapThenSumSet(LAMBDA k : (Byte(bytes, at + k) % More) * More ^ k, 0 .. last),
      next |-> at + last + 1]

ReadString(bytes, at) ==
  LET size == ReadVaruint(bytes, at)
  IN [val |-> [k \in 1 .. size.val |-> Byte(bytes, size.next + k - 1)],
      next |-> size.next + size.val]

ReadMap(bytes, at) ==
  LET size == ReadVaruint(bytes, at)
      Pair(st, n) ==
        LET k == ReadString(bytes, st.next)
            v == ReadString(bytes, k.next)
        IN [val |-> [x \in DOMAIN st.val \cup {k.val} |->
                       IF x = k.val THEN v.val ELSE st.val[x]],
            next |-> v.next]
  IN FoldLeft(Pair, [val |-> <<>>, next |-> size.next], [n \in 1 .. size.val |-> n])

ReadBinary(type, bytes, at) ==
  CASE type \in {"String", "LowCardinality(String)"} -> ReadString(bytes, at)
    [] type = "Map(LowCardinality(String), String)" -> ReadMap(bytes, at)
    [] type = "UInt8" -> [val |-> ReadUnsigned(bytes, at, 1), next |-> at + 1]
    [] type = "UInt32" -> [val |-> ReadUnsigned(bytes, at, 4), next |-> at + 4]
    [] type = "UInt64" -> [val |-> ReadUnsigned(bytes, at, 8), next |-> at + 8]
    [] type \in {"Int64", "DateTime64(9)"} ->
         [val |-> ReadSigned(bytes, at, 8), next |-> at + 8]
    [] type = "Nullable(DateTime64(9))" ->
         IF Byte(bytes, at) = 1 THEN [val |-> Absent, next |-> at + 1]
         ELSE [val |-> ReadSigned(bytes, at + 1, 8), next |-> at + 9]

(* The rows of a body, each a function of the column; none of a body whose *)
(* header does not fit the table.                                          *)
BinaryRows(body) ==
  LET Column(row, type) == Append(row, ReadBinary(type, body.bytes, Last(row).next))
      rows[at \in Nat] ==
        IF at > Len(body.bytes) THEN <<>>
        ELSE LET row == FoldLeft(Column, <<[next |-> at]>>, body.types)
             IN <<Tail(row)>> \o rows[Last(row).next]
      Named(row) == [c \in ToSet(body.columns) |->
                       row[CHOOSE k \in DOMAIN row : body.columns[k] = c].val]
  IN IF \A k \in DOMAIN body.columns : body.types[k] = TableTypes[body.columns[k]]
     THEN LET read == rows[1] IN [k \in DOMAIN read |-> Named(read[k])]
     ELSE <<>>

(* Days since 1970-01-01 of a date of the Gregorian calendar, counted from *)
(* the first of March of the year 0, so that the leap day comes last.      *)
DaysFromCivil(year, month, day) ==
  LET y == IF month > 2 THEN year ELSE year - 1
      m == (month + 9) % 12
  IN 365 * y + y \div 4 - y \div 100 + y \div 400 + (153 * m + 2) \div 5 + day - 1 - 719468

(* A text without a zone is a time of the server's: `zone` is the offset   *)
(* of its time zone from UTC, in seconds.                                  *)
ReadTime(zone, text) ==
  LET d == text.time.date
      secs == 86400 * DaysFromCivil(d.year, d.month, d.day)
                + 3600 * text.time.hour + 60 * text.time.minute + text.time.second
  IN (secs - zone) * NanosPerSecond + text.nanos

ReadJson(zone, value) ==
  CASE value.json = "time" -> ReadTime(zone, value.val)
    [] value.json = "null" -> Absent
    [] OTHER -> value.val

JsonRows(zone, body) ==
  [k \in DOMAIN body.objects |->
     [c \in DOMAIN body.objects[k] |-> ReadJson(zone, body.objects[k][c])]]
=============================================================================
