----------------------------- MODULE LogsDecoder -----------------------------
(***************************************************************************)
(* From a fetched buffer batch to decoded log records: the split into      *)
(* entries (source.rs), the metadata envelope (envelope.rs) and the OTLP   *)
(* logs decoder (logs.rs), as decode_one of the runtime runs them.  Pure   *)
(* functions of the batch.                                                 *)
(*                                                                         *)
(* A batch is [manifest, dataPath, sequence, metadata, entries].  A        *)
(* metadata item is [start, time, payload], its payload the envelope's     *)
(* bytes.  An entry is [valid, resources]: whether its protobuf parses,    *)
(* and the tree of a request.  A resource has attributes and scopes, a     *)
(* scope a name (or none), attributes and logs; a resource or scope that   *)
(* is left out has no attributes.  An attribute is [key, value], a value   *)
(* [kind, of].                                                             *)
(***************************************************************************)
EXTENDS Texts

(* Mutant: at most one range forward per entry. *)
AdvanceRangeOnce(metadata, range, entryIndex) ==
  IF range < Len(metadata) /\ metadata[range + 1].start <= entryIndex
  THEN range + 1 ELSE range

(* The while loop: forward as long as the next range has begun. *)
AdvanceRange(metadata, range, entryIndex) ==
  Max({j \in range .. Max({range, Len(metadata)}) :
         \A k \in range + 1 .. j : metadata[k].start <= entryIndex})

(* An entry that no range covers has empty metadata and time 0. *)
NoMetadata == [payload |-> <<>>, time |-> 0]

SplitIntoRawEntries(batch) ==
  LET Emit(st, body) ==
        LET range == AdvanceRange(batch.metadata, st.range, Len(st.raw))
            meta == IF range <= Len(batch.metadata) THEN batch.metadata[range]
                                                    ELSE NoMetadata
        IN [range |-> range,
            raw |-> Append(st.raw, [index |-> Len(st.raw), body |-> body,
                                    metadata |-> meta.payload, time |-> meta.time])]
  IN FoldLeft(Emit, [range |-> 1, raw |-> <<>>], batch.entries).raw

-----------------------------------------------------------------------------
(* The envelope: version, signal type, encoding, reserved. *)
EnvelopeLen == 4
SignalType == [Metrics |-> 1, Logs |-> 2, Traces |-> 3]
PayloadEncoding == [OtlpProtobuf |-> 1]

EnvelopeParses(payload) ==
  /\ Len(payload) >= EnvelopeLen
  /\ payload[1] = 1
  /\ payload[2] \in {SignalType[s] : s \in DOMAIN SignalType}
  /\ payload[3] \in {PayloadEncoding[e] : e \in DOMAIN PayloadEncoding}

EnvelopeMatches(payload) ==
  /\ payload[1] = 1
  /\ payload[2] = SignalType.Logs
  /\ payload[3] = PayloadEncoding.OtlpProtobuf

(* decode_envelopes, then validate_consistent, over every entry. *)
EnvelopesValid(raw) ==
  /\ \A k \in DOMAIN raw : EnvelopeParses(raw[k].metadata)
  /\ \A k \in DOMAIN raw : EnvelopeMatches(raw[k].metadata)

(* Decoder::accepts, of the first entry's metadata. *)
Accepts(raw) ==
  raw # <<>> => EnvelopeParses(raw[1].metadata) /\ EnvelopeMatches(raw[1].metadata)

-----------------------------------------------------------------------------
(* string_value, an Option: a sequence of at most one string.  Doubles are *)
(* left out.                                                               *)
Complex == <<Letter>>
StringValue(value) ==
  CASE value.kind = "none" -> <<>>
    [] value.kind = "string" -> <<value.of>>
    [] value.kind = "bool" -> <<IF value.of THEN <<Letter, 1>> ELSE <<Letter, 0>>>>
    [] value.kind = "int" -> <<Decimal(value.of)>>
    [] value.kind = "bytes" -> <<HexEncode(value.of)>>
    [] value.kind \in {"array", "kvlist"} -> <<Complex>>

AnyValueToString(value) == FlattenSeq(StringValue(value))

(* merge_attributes: an attribute without a value is passed over, one with *)
(* a key already there replaces it.                                        *)
MergeAttributes(attributes, map) ==
  LET Insert(m, kv) ==
        IF StringValue(kv.value) = <<>> THEN m
        ELSE (kv.key :> StringValue(kv.value)[1]) @@ m
  IN FoldLeft(Insert, map, attributes)

EmptyMap == [key \in {} |-> <<>>]
ServiceNameKey == <<1>>      \* the attribute "service.name"

ServiceName(attributes) ==
  LET named == SelectSeq(attributes, LAMBDA kv : kv.key = ServiceNameKey
                                                 /\ StringValue(kv.value) # <<>>)
  IN IF named = <<>> THEN <<>> ELSE StringValue(Last(named).value)

(* approx_size_bytes, of which the fixed part is one. *)
ApproxSizeBytes(r) ==
  LET MapBytes(map) == MapThenSumSet(LAMBDA k : Len(k) + Len(map[k]), DOMAIN map)
  IN 1 + Len(r.severityText) + Len(r.body) + Len(FlattenSeq(r.service))
       + Len(FlattenSeq(r.scope)) + Len(r.traceId) + Len(r.spanId)
       + MapBytes(r.resource) + MapBytes(r.attributes)

(* Mutant: the attributes are not cleared between resources. *)
FlattenedCarrying(resources) ==
  LET Carrying(i) ==
        [resources[i] EXCEPT
           !.attributes = FlattenSeq([h \in 1 .. i |-> resources[h].attributes])]
  IN FlattenSeq([i \in DOMAIN resources |->
       FlattenSeq([j \in DOMAIN resources[i].scopes |->
         [k \in DOMAIN resources[i].scopes[j].logs |->
            [resource |-> Carrying(i), scope |-> resources[i].scopes[j],
             log |-> resources[i].scopes[j].logs[k]]]])])

(* The logs of a request in order, each with the resource and the scope it *)
(* is under.                                                               *)
Flattened(resources) ==
  FlattenSeq([i \in DOMAIN resources |->
    FlattenSeq([j \in DOMAIN resources[i].scopes |->
      [k \in DOMAIN resources[i].scopes[j].logs |->
         [resource |-> resources[i], scope |-> resources[i].scopes[j],
          log |-> resources[i].scopes[j].logs[k]]]])])

DecodedRecord(batch, entry, index, at) ==
  LET r == [manifest |-> batch.manifest, dataPath |-> batch.dataPath,
            key |-> <<batch.sequence, entry.index, index>>, ingestionTime |-> entry.time,
            timestamp |-> at.log.time, observed |-> at.log.observed,
            severityNumber |-> at.log.severityNumber,
            severityText |-> at.log.severityText, body |-> AnyValueToString(at.log.body),
            service |-> ServiceName(at.resource.attributes),
            resource |-> MergeAttributes(at.resource.attributes, EmptyMap),
            scope |-> at.scope.name,
            attributes |-> MergeAttributes(at.scope.attributes,
                             MergeAttributes(at.log.attributes, EmptyMap)),
            traceId |-> HexEncode(at.log.traceId), spanId |-> HexEncode(at.log.spanId)]
  IN ("bytes" :> ApproxSizeBytes(r)) @@ r

(* Mutant: the record index starts over in every scope. *)
DecodeEntryPerScope(batch, entry) ==
  LET PerScope(i, j) ==
        LET logs == Flattened(<<[entry.body.resources[i] EXCEPT !.scopes = <<@[j]>>]>>)
        IN [k \in DOMAIN logs |-> DecodedRecord(batch, entry, k - 1, logs[k])]
  IN FlattenSeq([i \in DOMAIN entry.body.resources |->
       FlattenSeq([j \in DOMAIN entry.body.resources[i].scopes |-> PerScope(i, j)])])

(* One counter numbers the records of an entry through its tree. *)
DecodeEntry(batch, entry) ==
  LET logs == Flattened(entry.body.resources)
  IN [k \in DOMAIN logs |-> DecodedRecord(batch, entry, k - 1, logs[k])]

(* Mutant: only the first entry's envelope is looked at. *)
DecodesFirst(raw) ==
  Accepts(raw) /\ \A k \in DOMAIN raw : raw[k].body.valid

(* decode_one goes through; anything else halts the runtime. *)
Decodes(raw) ==
  /\ Accepts(raw)
  /\ EnvelopesValid(raw)
  /\ \A k \in DOMAIN raw : raw[k].body.valid

DecodeLogs(batch, raw) ==
  FlattenSeq([k \in DOMAIN raw |-> DecodeEntry(batch, raw[k])])
=============================================================================
