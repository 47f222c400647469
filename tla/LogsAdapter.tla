----------------------------- MODULE LogsAdapter -----------------------------
(***************************************************************************)
(* The OTLP logs adapter (adapter/logs.rs): how the records of one commit  *)
(* become insert chunks, and which deduplication token each chunk carries. *)
(*                                                                         *)
(* A record is [manifest, key, bytes]: `key` is <<buffer_sequence,         *)
(* entry_index, record_index>>, `bytes` its approx_size_bytes.  A config   *)
(* is [table, version, maxRows, maxBytes, quorum, useToken], with `table`  *)
(* for database and table.                                                 *)
(***************************************************************************)
EXTENDS Integers, Sequences, Totals

AtLeast1(n) == IF n = 0 THEN 1 ELSE n

(* records.sort_by_key; tuples compare lexicographically. *)
KeyLess(a, b) ==
  \E i \in DOMAIN a : a[i] < b[i] /\ \A j \in 1 .. i - 1 : a[j] = b[j]

(* The sort is stable, so that a record has its place: after all those     *)
(* with a smaller key and those with an equal one that arrived before.     *)
SortsBefore(records, j, k) ==
  \/ KeyLess(records[j].key, records[k].key)
  \/ records[j].key = records[k].key /\ j < k

Place(records, k) == 1 + Cardinality({j \in DOMAIN records : SortsBefore(records, j, k)})

Sorted(records) ==
  [i \in DOMAIN records |-> records[CHOOSE k \in DOMAIN records : Place(records, k) = i]]

(* plan refuses a group whose records disagree on the manifest. *)
MixesManifests(records) ==
  \E k \in DOMAIN records : records[k].manifest # records[1].manifest

-----------------------------------------------------------------------------
(* The chunking loop.  `limit` holds max_rows and max_bytes, `open` is the *)
(* chunk being filled, `bytes` its size.                                   *)
Limit(conf) ==
  [rows |-> AtLeast1(conf.maxRows), bytes |-> AtLeast1(conf.maxBytes)]

Filling == [done |-> <<>>, open |-> <<>>, bytes |-> 0]

(* Mutant: flushes only when both thresholds are exceeded. *)
WouldExceedBoth(limit, st, r) ==
  /\ st.open # <<>>
  /\ Len(st.open) + 1 > limit.rows
  /\ st.bytes + r.bytes > limit.bytes

WouldExceed(limit, st, r) ==
  /\ st.open # <<>>
  /\ \/ Len(st.open) + 1 > limit.rows
     \/ st.bytes + r.bytes > limit.bytes

PushRecord(limit, st, r) ==
  IF WouldExceed(limit, st, r)
  THEN [done |-> Append(st.done, st.open), open |-> <<r>>, bytes |-> r.bytes]
  ELSE [done |-> st.done, open |-> Append(st.open, r), bytes |-> st.bytes + r.bytes]

(* The state of the loop after each record. *)
PushRecords(limit, records) ==
  LET after[k \in 0 .. Len(records)] ==
        IF k = 0 THEN Filling ELSE PushRecord(limit, after[k - 1], records[k])
  IN after

(* Sequence of chunks, each a sequence of records; none for no records. *)
Chunked(limit, records) ==
  LET end == PushRecords(limit, records)[Len(records)]
  IN IF end.open = <<>> THEN end.done ELSE Append(end.done, end.open)

Plan(conf, records) == Chunked(Limit(conf), Sorted(records))

RowsPlanned(chunks) == Total([k \in DOMAIN chunks |-> Len(chunks[k])], DOMAIN chunks)

-----------------------------------------------------------------------------
(* Mutant: the row threshold is not hashed. *)
ChunkingFingerprintNoRows(conf) ==
  <<conf.table, conf.version, conf.maxBytes, conf.quorum>>

(* The digest of everything that moves a chunk boundary (and the quorum);  *)
(* taken to be free of collisions.                                         *)
ChunkingFingerprint(conf) ==
  <<conf.table, conf.version, conf.maxRows, conf.maxBytes, conf.quorum>>

(* Mutant: the token of a commit, not of a chunk. *)
BuildTokenPerCommit(conf, manifest, seq, chunk) ==
  <<manifest, conf.table, seq, conf.version, ChunkingFingerprint(conf)>>

(* low and high are the one sequence of the commit. *)
BuildToken(conf, manifest, seq, chunk) ==
  <<manifest, conf.table, seq, conf.version, ChunkingFingerprint(conf), chunk>>

(* Mutant: every row carries the first mapping's version. *)
LogRowUnversioned(conf, r) == [manifest |-> r.manifest, key |-> r.key, version |-> 1]

(* The columns that tell rows apart; `version` is _adapter_version. *)
LogRow(conf, r) ==
  [manifest |-> r.manifest, key |-> r.key, version |-> conf.version]
=============================================================================
