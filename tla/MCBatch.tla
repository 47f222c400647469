------------------------------- MODULE MCBatch -------------------------------
(***************************************************************************)
(* A batch on its way from the buffer to the table: entries, decoded       *)
(* records, plan, bytes of an insert.  Each initial state is one input: a  *)
(* fetched batch, records in any order with any thresholds, decoded log    *)
(* records in full, or a day of the calendar.  The invariants compare what *)
(* the functions return with what they should.                             *)
(***************************************************************************)
EXTENDS LogsAdapter, LogsDecoder, RowFormats

CONSTANTS MaxRecords, RecordBytes, Rows, Bytes, MaxEntries, MaxRanges, Years

VARIABLES config, batch, records, logs, day

vars == <<config, batch, records, logs, day>>

Config(rows, bytes) ==
  [table |-> "t", version |-> 1, maxRows |-> rows, maxBytes |-> bytes,
   quorum |-> "auto", useToken |-> TRUE]

(* Records in any order of arrival, their positions in two entries. *)
Inputs ==
  UNION {{[k \in 1 .. n |-> [manifest |-> "m", bytes |-> size[k],
                             key |-> <<0, order[k] \div 2, order[k] % 2>>]] :
            order \in SetToSeqs(1 .. n), size \in [1 .. n -> RecordBytes]} :
         n \in 0 .. MaxRecords}

(* Ranges in order, the first from entry 0 on; a later one may be empty,   *)
(* or begin after the last entry.  The time tells the ranges apart.        *)
LogsEnvelope == <<1, 2, 1, 0>>
Envelopes == {LogsEnvelope, <<1, 1, 1, 0>>, <<1, 2, 1>>}
Metadata ==
  UNION {{[k \in 1 .. n |-> [start |-> starts[k], time |-> k, payload |-> payload[k]]] :
            payload \in [1 .. n -> Envelopes],
            starts \in {s \in [1 .. n -> 0 .. MaxEntries] :
                          /\ n > 0 => s[1] = 0
                          /\ \A k \in 2 .. n : s[k - 1] <= s[k]}} :
         n \in 0 .. MaxRanges}

Text(n) == [k \in 1 .. n |-> k % 3]

(* A log tells itself apart by its time. *)
Log(time, body, attributes) ==
  [time |-> time, observed |-> 0, severityNumber |-> 9, severityText |-> <<2>>,
   body |-> body, attributes |-> attributes, traceId |-> <<ByteBase - 1, 1>>, spanId |-> <<>>]

None == [kind |-> "none", of |-> 0]
Resource(attributes, scopes) == [attributes |-> attributes, scopes |-> scopes]
Scope(name, attributes, under) == [name |-> name, attributes |-> attributes, logs |-> under]
Plain(times) == Scope(<<>>, <<>>, [k \in DOMAIN times |-> Log(times[k], None, <<>>)])

(* No record, records in several resources and scopes with empty ones, not *)
(* protobuf.                                                               *)
Bodies ==
  {[valid |-> TRUE, resources |-> <<>>],
   [valid |-> TRUE, resources |-> <<Resource(<<>>, <<Plain(<<1, 3>>), Plain(<<>>), Plain(<<2>>)>>),
                                    Resource(<<>>, <<>>), Resource(<<>>, <<Plain(<<4>>)>>)>>],
   [valid |-> FALSE, resources |-> <<>>]}

Batches ==
  [manifest : {<<>>}, dataPath : {<<>>}, sequence : {5}, metadata : Metadata,
   entries : UNION {[1 .. n -> Bodies] : n \in 0 .. MaxEntries}]

NoBatch ==
  [manifest |-> <<>>, dataPath |-> <<>>, sequence |-> 0, metadata |-> <<>>, entries |-> <<>>]

Raw == SplitIntoRawEntries(batch)

PlanInput ==
  /\ config \in {Config(r, b) : r \in Rows, b \in Bytes}
  /\ batch = NoBatch
  /\ records \in Inputs
  /\ logs = <<>>
  /\ day = 0

BatchInput ==
  /\ config = Config(2, 14)
  /\ batch \in Batches
  /\ records = IF Decodes(Raw) THEN DecodeLogs(batch, Raw) ELSE <<>>
  /\ logs = <<>>
  /\ day = 0

(* One request with two resources, the first with any two attributes: one  *)
(* without a value, of each kind, or the same key twice; the attributes of *)
(* a log and of its scope with and without a common key.                   *)
OtherKey == <<2, 1>>
Value1 == [kind |-> "string", of |-> <<2, 2>>]
Values ==
  {None, Value1, [kind |-> "bool", of |-> TRUE], [kind |-> "array", of |-> 0],
   [kind |-> "bytes", of |-> <<1, ByteBase - 1>>]}
    \cup {[kind |-> "int", of |-> n] : n \in {-1, Radix, Word \div 2 - 1}}
Attribute(key, value) == [key |-> key, value |-> value]
Attributes == {Attribute(k, v) : k \in {ServiceNameKey, GatewayKey, OtherKey}, v \in Values}
UnderLog ==
  {<<<<>>, <<>>>>,
   <<<<Attribute(OtherKey, Value1)>>, <<Attribute(OtherKey, [kind |-> "int", of |-> 1])>>>>,
   <<<<Attribute(OtherKey, Value1)>>, <<Attribute(OtherKey, None), Attribute(<<2>>, Value1)>>>>}

PayloadInput ==
  /\ config = Config(1, 1)
  /\ \E first \in UNION {[1 .. n -> Attributes] : n \in 0 .. 2}, under \in UnderLog :
       batch = [NoBatch EXCEPT
         !.sequence = 5,
         !.metadata = <<[start |-> 0, time |-> 1, payload |-> LogsEnvelope]>>,
         !.entries = <<[valid |-> TRUE, resources |->
           <<Resource(first, <<Scope(<<Text(3)>>, under[2], <<Log(1, Value1, under[1])>>)>>),
             Resource(under[1], <<Scope(<<>>, <<>>, <<Log(2, None, under[1])>>)>>)>>]>>]
  /\ records = <<>>
  /\ logs = <<>>
  /\ day = 0

-----------------------------------------------------------------------------
(* Decoded log records.  Texts and maps whose sizes take one, two and      *)
(* three bytes, numbers at the ends of their types, a gateway stamp that   *)
(* parses or does not; the stamp's text and what it means go together.     *)
Texts == {Text(0), Text(3), Text(4), Text(16)}
Maps == {<<>>, <<2>> :> Text(1), [k \in {<<>>, <<1>>, <<1, 0>>, <<2>>} |-> Text(Len(k))]}
Half == Word \div 2          \* one more than i64::MAX
Stamps ==
  {[text |-> <<>>, means |-> Absent], [text |-> <<Plus>>, means |-> Absent],
   [text |-> <<1, Radix>>, means |-> Absent],
   [text |-> <<Plus, 1, 2>>, means |-> Radix + 2], [text |-> <<0, 0>>, means |-> 0],
   [text |-> [k \in 1 .. 11 |-> Radix - 1], means |-> Absent]}

Decoded(key, time, text, map, severity, ingested, stamp) ==
  [key |-> key, manifest |-> text, dataPath |-> Text(3), ingestionTime |-> ingested,
   timestamp |-> time, observed |-> IF time = 0 THEN Half - 1 ELSE 0,
   severityNumber |-> severity, severityText |-> text, body |-> text,
   service |-> IF text = <<>> THEN <<>> ELSE <<text>>,
   resource |-> IF stamp = <<>> THEN map ELSE GatewayKey :> stamp[1].text @@ map,
   attributes |-> map, traceId |-> Text(16), spanId |-> text,
   bytes |-> 1, rest |-> map, stamp |-> IF stamp = <<>> THEN Absent ELSE stamp[1].means]

FirstLogs ==
  {Decoded(<<5, 1, 0>>, time, text, map, severity, 7, stamp) :
     time \in {0, 9, 86400 * NanosPerSecond + 1, Half - 1, Half}, text \in Texts, map \in Maps,
     severity \in {-1, ByteBase}, stamp \in {<<>>} \cup {<<x>> : x \in Stamps}}

(* The second record comes first in the order of the positions. *)
SecondLog == Decoded(<<5, 0, 3>>, 0, Text(4), <<>>, 3, -1, <<>>)

LogInput ==
  /\ config \in {Config(r, 4) : r \in {1, 2}}
  /\ batch = NoBatch
  /\ records = <<>>
  /\ logs \in {<<first, SecondLog>> : first \in FirstLogs}
  /\ day = 0

DayInput ==
  /\ config = Config(1, 1)
  /\ batch = NoBatch
  /\ records = <<>>
  /\ logs = <<>>
  /\ day \in UNION {DaysFromCivil(y, 1, 1) .. DaysFromCivil(y, 12, 31) : y \in Years}

Init == PlanInput \/ BatchInput \/ PayloadInput \/ LogInput \/ DayInput

Next == UNCHANGED vars

Spec == Init /\ [][Next]_vars

-----------------------------------------------------------------------------
(* The entry at index i gets the metadata of the last range whose start is *)
(* at most i (source.rs:97-98), through empty ranges and ranges that begin *)
(* after the last entry; without ranges, none.                             *)
EntryTakesItsRange ==
  /\ Len(Raw) = Len(batch.entries)
  /\ \A k \in DOMAIN Raw :
       LET begun == {j \in DOMAIN batch.metadata : batch.metadata[j].start <= k - 1}
       IN /\ Raw[k].body = batch.entries[k]
          /\ Raw[k].time = IF begun = {} THEN 0 ELSE batch.metadata[Max(begun)].time

(* A batch is decoded exactly when all of it is logs: one foreign or short *)
(* envelope on a range that holds an entry, anywhere in the batch, or one  *)
(* entry that does not parse, stops it as a whole (otel logs.rs:202-207);  *)
(* what a range without entries carries does not matter.                   *)
DecodesAllOrNothing ==
  LET Begins(j) == batch.metadata[j].start
      Ends(j) == IF j < Len(batch.metadata) THEN Begins(j + 1) ELSE Len(batch.entries)
      HoldsEntries(j) == Begins(j) < Len(batch.entries) /\ Begins(j) < Ends(j)
  IN Decodes(Raw) <=>
       /\ batch.entries # <<>> => batch.metadata # <<>>
       /\ \A j \in DOMAIN batch.metadata :
            HoldsEntries(j) => batch.metadata[j].payload = LogsEnvelope
       /\ \A k \in DOMAIN batch.entries : batch.entries[k].valid

LogsOf(resource) == FlattenSeq([j \in DOMAIN resource.scopes |-> resource.scopes[j].logs])

(* Every log record of a decoded batch becomes a row of its own: there are *)
(* as many positions (sequence, entry_index, record_index), the sort key   *)
(* of the table, among the planned rows as records in the payloads, so     *)
(* that ReplacingMergeTree never merges two records of one batch.          *)
RecordsKeepApart ==
  Decodes(Raw) /\ batch # NoBatch =>
    LET rows == FlattenSeq(Plan(config, DecodeLogs(batch, Raw)))
        LogsIn(entry) ==
          FlattenSeq([i \in DOMAIN entry.resources |-> LogsOf(entry.resources[i])])
        payloads == FlattenSeq([k \in DOMAIN batch.entries |-> LogsIn(batch.entries[k])])
    IN /\ Cardinality({rows[k].key : k \in DOMAIN rows}) = Len(payloads)
       /\ [k \in DOMAIN rows |-> rows[k].timestamp] = [k \in DOMAIN payloads |-> payloads[k].time]

-----------------------------------------------------------------------------
Size(chunk) == FoldLeft(LAMBDA n, r : n + r.bytes, 0, chunk)

Fits(chunk) ==
  /\ Len(chunk) <= AtLeast1(config.maxRows)
  /\ Len(chunk) > 1 => Size(chunk) <= AtLeast1(config.maxBytes)

(* plan is the greedy chunking of the records in (sequence, entry, record) *)
(* order, whatever order they arrived in (logs.rs:153-157).  Every record  *)
(* is in one chunk, also at a boundary and at the end of the loop; a chunk *)
(* is within both thresholds, a record larger than max_chunk_bytes alone   *)
(* excepted; none could have taken the first record of the next, so that   *)
(* the chunks depend on records and thresholds only (lines 196-199).       *)
PlanIsGreedyChunking ==
  LET chunks == Plan(config, records)
      rows == FlattenSeq(chunks)
  IN /\ Len(rows) = Len(records)
     /\ ToSet(rows) = ToSet(records)
     /\ \A j, k \in DOMAIN rows : j < k => KeyLess(rows[j].key, rows[k].key)
     /\ \A k \in DOMAIN chunks : chunks[k] # <<>> /\ Fits(chunks[k])
     /\ \A k \in 1 .. Len(chunks) - 1 :
          ~Fits(Append(chunks[k], chunks[k + 1][1]))

-----------------------------------------------------------------------------
ToChunk(rows) ==
  [columns |-> COLUMNS, rows |-> [k \in DOMAIN rows |-> LogRowValues(config.version, rows[k])]]

LogChunks == Plan(config, logs)

Distance(m, n) == IF m < n THEN n - m ELSE m - n

(* What the table should hold for a record, by the name of the column. *)
RowOf(r) ==
  [c \in ToSet(COLUMNS) |->
     CASE c = "Timestamp" -> r.timestamp
       [] c = "ObservedTimestamp" -> r.observed
       [] c = "SeverityText" -> r.severityText
       [] c = "SeverityNumber" ->
            CHOOSE n \in 0 .. ByteBase - 1 :      \* the nearest
              \A m \in 0 .. ByteBase - 1 :
                Distance(n, r.severityNumber) <= Distance(m, r.severityNumber)
       [] c = "ServiceName" -> FlattenSeq(r.service)
       [] c = "Body" -> r.body
       [] c = "ResourceAttributes" -> r.rest
       [] c = "LogAttributes" -> r.attributes
       [] c = "TraceId" -> r.traceId
       [] c = "SpanId" -> r.spanId
       [] c = "_odb_sequence" -> r.key[1]
       [] c = "_odb_entry_index" -> r.key[2]
       [] c = "_odb_record_index" -> r.key[3]
       [] c = "_odb_manifest_path" -> r.manifest
       [] c = "_odb_data_path" -> r.dataPath
       [] c = "_odb_ingestion_time_ms" -> r.ingestionTime
       [] c = "_adapter_version" -> config.version
       [] c = "_odb_gateway_received_at" -> r.stamp]

(* "Real-world timestamps fit i64" (adapter/mod.rs). *)
TimesFit == \A k \in DOMAIN logs : logs[k].timestamp < Half

(* A RowBinary insert is a stream of bytes without separators: read back   *)
(* by the types its header names, it gives every planned record one row,   *)
(* each field under its column, through empty strings, lengths of several  *)
(* bytes, maps and null markers (rowbinary.rs:20-84).  A value written as  *)
(* another type than the header says would shift all that follow.          *)
BinaryReadsBackRows ==
  TimesFit =>
    \A chunk \in ToSet(LogChunks) :
      \A body \in {RowBinarySerialize(ToChunk(chunk))} :
        BinaryRows(body) = [k \in DOMAIN chunk |-> RowOf(chunk[k])]

(* The attribute that stands for a key: the last one with a value. *)
Standing(attributes) ==
  LET With(key) == {j \in DOMAIN attributes :
                      attributes[j].key = key /\ attributes[j].value.kind # "none"}
      keys == {k \in {attributes[j].key : j \in DOMAIN attributes} : With(k) # {}}
  IN [k \in keys |-> attributes[Max(With(k))].value]

Texted(values, keys) == [k \in keys |-> StringValue(values[k])[1]]

RowsRead(chunks) ==
  LET bodies == {RowBinarySerialize(ToChunk(chunk)) : chunk \in ToSet(chunks)}
  IN UNION {ToSet(BinaryRows(body)) : body \in bodies}

ShowsLog(row, resource, scope, log) ==
  LET about == Standing(resource.attributes)
      own == Standing(log.attributes \o scope.attributes)
      stamp == IF GatewayKey \in DOMAIN about THEN about[GatewayKey] ELSE None
  IN /\ row["Timestamp"] = log.time
     /\ row["ServiceName"] =
          IF ServiceNameKey \in DOMAIN about
          THEN StringValue(about[ServiceNameKey])[1] ELSE <<>>
     /\ row["ResourceAttributes"] = Texted(about, DOMAIN about \ {GatewayKey})
     /\ row["LogAttributes"] = Texted(own, DOMAIN own)
     /\ stamp.kind = "int" =>
          row["_odb_gateway_received_at"] = IF stamp.of < 0 THEN Absent ELSE stamp.of
     /\ stamp.kind \in {"none", "bool", "array"} =>
          row["_odb_gateway_received_at"] = Absent

(* A log's row shows the resource and scope the log came under and no      *)
(* other's: the service name is the attribute stored beside it, empty if   *)
(* the resource has none; scope attributes go with those of the log; and   *)
(* an integer gateway stamp, printed by the decoder and parsed by the      *)
(* adapter, is the number in its own column and nowhere else, null if it   *)
(* is negative or no number (otel logs.rs:278-351, adapter logs.rs:301-314). *)
RowsCarryTheirPayload ==
  Decodes(Raw) /\ Len(batch.entries) = 1 =>
    \A chunks \in {Plan(config, DecodeLogs(batch, Raw))} :
      \A read \in {RowsRead(chunks)} :
        \A resource \in ToSet(batch.entries[1].resources) :
          \A scope \in ToSet(resource.scopes) : \A log \in ToSet(scope.logs) :
            \E row \in read : ShowsLog(row, resource, scope, log)

(* The row of a server whose clock is `zone` seconds ahead of UTC when it  *)
(* takes times in UTC for its own.                                         *)
Zones == {-18000, 0, 7200}
TakenAsLocal(zone, row) ==
  [c \in DOMAIN row |->
     IF c \in {"Timestamp", "ObservedTimestamp", "_odb_gateway_received_at"} /\ row[c] # Absent
     THEN row[c] - zone * NanosPerSecond ELSE row[c]]

(* The two formats of `serialization_format` against each other            *)
(* (adapter/mod.rs:57-137).  JSON gives the rows of RowBinary but for the  *)
(* times: these are written as a date and time of day in UTC without       *)
(* saying so (line 172), so they are off by the zone of the server, down   *)
(* to the nanosecond and through every change of the day, and by nothing   *)
(* else.  On a server in UTC, and on no other, a replay in the other       *)
(* format writes the rows it wrote before.                                 *)
FormatsAgreeUpToZone ==
  TimesFit =>
    \A chunk \in ToSet(LogChunks) :
      \A body \in {JsonEachRowSerialize(ToChunk(chunk))} :
        \A zone \in Zones :
          JsonRows(zone, body) = [k \in DOMAIN chunk |-> TakenAsLocal(zone, RowOf(chunk[k]))]

(* The date written for a day exists and is that day of the Gregorian      *)
(* calendar, also at the century years that are leap years and the ones    *)
(* that are not (chrono_internal::parts); the table is partitioned, sorted *)
(* and expired by it.                                                      *)
DatesAreCalendarDates ==
  LET d == DateOf(day)
  IN /\ DaysFromCivil(d.year, d.month, d.day) = day
     /\ d.day \in 1 .. 31
     /\ d.day >= 29 =>
          LET firstOfNext == IF d.month = 12 THEN DaysFromCivil(d.year + 1, 1, 1)
                                             ELSE DaysFromCivil(d.year, d.month + 1, 1)
          IN day < firstOfNext
=============================================================================
