--------------------------- MODULE ClickHouseSink ---------------------------
(***************************************************************************)
(* ClickHouseSink::write (sink.rs) with the writer's retry loop            *)
(* (writer.rs), called by the runtime's writer pool, against a ClickHouse  *)
(* table: a ReplacingMergeTree with a bounded window of deduplication      *)
(* tokens.  Requests time out and land late, the process stops and starts  *)
(* again with another configuration, commits are replayed.                 *)
(***************************************************************************)
EXTENDS LogsAdapter, FiniteSets

CONSTANTS
  Writers,        \* the runtime's writer workers
  Commits,        \* commits as [manifest, seq]
  RecordsOf,      \* the decoded records of each commit
  Configs,        \* configurations the operator may start the process with
  MaxAttempts,    \* writer.max_attempts
  MaxStops        \* bound: how often the process stops

ASSUME SinkAssumption ==
  /\ MaxAttempts \in Nat /\ MaxStops \in Nat
  /\ \A c, d \in Commits : c.manifest = d.manifest /\ c.seq = d.seq => c = d
  /\ \A c \in Commits :
       RecordsOf[c] \in Seq([manifest : {c.manifest}, key : Nat \X Nat \X Nat, bytes : Nat])
  /\ \A g \in Configs : g.version \in Nat /\ g.maxRows \in Nat /\ g.maxBytes \in Nat

VARIABLES
  config,     \* LogsAdapterConfig of the running process
  up,         \* the process is running
  stops,
  writer,     \* per worker: what it is inserting
  done,       \* commits this process has written
  acked,      \* history: every Ok(SinkCommitResult), with its version
  sent,       \* history: every insert request
  inTransit,  \* external: requests whose client has gone, still to land
  dedup,      \* external: the table's window of deduplication tokens
  table       \* external: rows inserted, before any merge

vars == <<config, up, stops, writer, done, acked, sent, inTransit, dedup, table>>

-----------------------------------------------------------------------------
(* What the adapter plans: a set, so that TLC computes each plan once. *)
Plans ==
  {[commit |-> c, config |-> g, chunks |-> Plan(g, RecordsOf[c])] : c \in Commits, g \in Configs}

Planned(c, g) == (CHOOSE p \in Plans : p.commit = c /\ p.config = g).chunks

(* An InsertChunk: one chunk of one commit as one configuration plans it. *)
Insert(c, g, k) ==
  [commit |-> c, config |-> g, chunk |-> k,
   rows   |-> {LogRow(g, r) : r \in Range(Planned(c, g)[k])},
   token  |-> BuildToken(g, c.manifest, c.seq, k)]

(* The server: an insert whose token is in the window is answered 200 and  *)
(* dropped, any other is applied as one block.                             *)
Lands(req) ==
  LET duplicate == req.config.useToken /\ req.token \in dedup
  IN /\ table' = IF duplicate THEN table ELSE table \cup req.rows
     /\ dedup' = IF req.config.useToken THEN dedup \cup {req.token} ELSE dedup

NotLanded == UNCHANGED <<table, dedup>>

Idle == [pc |-> "idle"]
Inserting(c, chunk, attempt) ==
  [pc |-> "insert", commit |-> c, chunk |-> chunk, attempt |-> attempt]

Busy(w) == writer[w].pc # "idle"
Request(w) == Insert(writer[w].commit, config, writer[w].chunk)
Chunks(c) == Planned(c, config)

Init ==
  /\ config \in Configs /\ up = TRUE /\ stops = 0
  /\ writer = [w \in Writers |-> Idle]
  /\ done = {} /\ acked = {} /\ sent = {} /\ inTransit = {}
  /\ dedup = {} /\ table = {}

-----------------------------------------------------------------------------
(* The process ends, by a crash or a fatal error: a request on the wire    *)
(* may still land.                                                         *)
StopProcess ==
  /\ stops < MaxStops
  /\ up' = FALSE /\ stops' = stops + 1
  /\ inTransit' = inTransit \cup {Request(w) : w \in {x \in Writers : writer[x].pc = "insert"}}
  /\ writer' = [w \in Writers |-> Idle]
  /\ done' = {}

Stop ==
  /\ up /\ StopProcess
  /\ UNCHANGED <<config, acked, sent, dedup, table>>

Start ==
  /\ ~up /\ up' = TRUE
  /\ config' \in Configs
  /\ UNCHANGED <<stops, writer, done, acked, sent, inTransit, dedup, table>>

-----------------------------------------------------------------------------
Acknowledge(w, c) ==
  /\ writer' = [writer EXCEPT ![w] = Idle]
  /\ done' = done \cup {c}
  /\ acked' = acked \cup {[commit |-> c, version |-> config.version]}

Send(w, state) ==
  /\ writer' = [writer EXCEPT ![w] = state]
  /\ sent' = sent \cup {Insert(state.commit, config, state.chunk)}

(* Sink::write: plan, the row-drop guard, and the first insert; a commit   *)
(* without records has no chunk and is done.  The guards before plan, on   *)
(* the identity's range and the type of the payload, hold of every commit  *)
(* the runtime builds; they would stop the process like the others.        *)
Write(w, c) ==
  /\ up /\ ~Busy(w) /\ c \notin done
  /\ \A x \in Writers : Busy(x) => writer[x].commit # c
  /\ IF MixesManifests(RecordsOf[c]) \/ RowsPlanned(Chunks(c)) # Len(RecordsOf[c])
     THEN StopProcess /\ UNCHANGED <<acked, sent>>
     ELSE /\ \/ /\ Chunks(c) = <<>>
                /\ Acknowledge(w, c)
                /\ UNCHANGED sent
             \/ /\ Chunks(c) # <<>>
                /\ Send(w, Inserting(c, 1, 1))
                /\ UNCHANGED <<done, acked>>
          /\ UNCHANGED <<up, stops, inTransit>>
  /\ NotLanded /\ UNCHANGED config

(* 200: on to the next chunk of execute_all, or Ok after the last. *)
InsertOk(w) ==
  /\ writer[w].pc = "insert"
  /\ Lands(Request(w))
  /\ LET c == writer[w].commit
         k == writer[w].chunk
     IN \/ /\ k = Len(Chunks(c))
           /\ Acknowledge(w, c)
           /\ UNCHANGED sent
        \/ /\ k < Len(Chunks(c))
           /\ Send(w, Inserting(c, k + 1, 1))
           /\ UNCHANGED <<done, acked>>
  /\ UNCHANGED <<config, up, stops, inTransit>>

(* Mutant: one attempt too many. *)
NextAttemptOnceMore(job) ==
  IF job.attempt <= MaxAttempts THEN [job EXCEPT !.attempt = job.attempt + 1]
                                ELSE [job EXCEPT !.pc = "maybe"]

(* The same chunk is sent again, until max_attempts makes it               *)
(* RetryBudgetExhausted: MaybeCommitted to the runtime.                    *)
NextAttempt(job) ==
  IF job.attempt < MaxAttempts THEN [job EXCEPT !.attempt = job.attempt + 1]
                               ELSE [job EXCEPT !.pc = "maybe"]

(* A timeout, a broken connection, 429 or 5xx: the request has landed, has *)
(* not, or will later.                                                     *)
InsertRetryable(w) ==
  /\ writer[w].pc = "insert"
  /\ \/ Lands(Request(w)) /\ UNCHANGED inTransit
     \/ NotLanded /\ UNCHANGED inTransit
     \/ NotLanded /\ inTransit' = inTransit \cup {Request(w)}
  /\ writer' = [writer EXCEPT ![w] = NextAttempt(writer[w])]
  /\ UNCHANGED <<config, up, stops, done, acked, sent>>

(* Any other status is NonRetryable: Fatal, which ends the run. *)
InsertRejected(w) ==
  /\ writer[w].pc = "insert"
  /\ StopProcess
  /\ UNCHANGED <<config, acked, sent, dedup, table>>

(* check_committed answers Unknown, so the runtime calls write again, from *)
(* the first chunk, or has used up its own attempts and stops.             *)
CheckCommitted(w) ==
  /\ writer[w].pc = "maybe"
  /\ \/ /\ Send(w, Inserting(writer[w].commit, 1, 1))
        /\ UNCHANGED <<up, stops, done, inTransit>>
     \/ StopProcess /\ UNCHANGED sent
  /\ UNCHANGED <<config, acked, dedup, table>>

-----------------------------------------------------------------------------
(* ClickHouse: a late request lands; the oldest tokens leave the window.   *)
LandLate ==
  /\ \E req \in inTransit : Lands(req) /\ inTransit' = inTransit \ {req}
  /\ UNCHANGED <<config, up, stops, writer, done, acked, sent>>

Expire ==
  /\ \E t \in dedup : dedup' = dedup \ {t}
  /\ UNCHANGED <<config, up, stops, writer, done, acked, sent, inTransit, table>>

Next ==
  \/ Stop \/ Start \/ LandLate \/ Expire
  \/ \E w \in Writers :
       \/ \E c \in Commits : Write(w, c)
       \/ InsertOk(w) \/ InsertRetryable(w) \/ InsertRejected(w)
       \/ CheckCommitted(w)

Spec == Init /\ [][Next]_vars

-----------------------------------------------------------------------------
Inserts ==
  UNION {UNION {{Insert(c, g, k) : k \in DOMAIN Planned(c, g)} : g \in Configs} : c \in Commits}

TypeOK ==
  /\ config \in Configs /\ up \in BOOLEAN /\ stops \in 0 .. MaxStops
  /\ \A w \in Writers :
       \/ writer[w] = Idle
       \/ /\ writer[w].pc \in {"insert", "maybe"}
          /\ writer[w].commit \in Commits \ done
          /\ writer[w].chunk \in 1 .. Len(Chunks(writer[w].commit))
          /\ writer[w].attempt \in 1 .. AtLeast1(MaxAttempts)
  /\ done \subseteq Commits
  /\ acked \subseteq [commit : Commits, version : Nat]
  /\ sent \subseteq Inserts /\ inTransit \subseteq sent

(* The ORDER BY of the table is the sort key ReplacingMergeTree collapses  *)
(* rows by: day and service (alike for all records here) and the source    *)
(* position, without the manifest.  Of equal keys the greatest             *)
(* _adapter_version stays; of equal versions either, so neither is safe.   *)
(* No row has reached the age at which the table's TTL deletes it.         *)
Survives(row) ==
  \A q \in table \ {row} : q.key = row.key => q.version < row.version

Stands(r, version) ==
  \E row \in table :
    /\ row.manifest = r.manifest /\ row.key = r.key /\ row.version >= version
    /\ Survives(row)

RecordsIn(c) == {RecordsOf[c][k] : k \in DOMAIN RecordsOf[c]}

(* Ok from write means the whole commit is in the table (sink.rs of the    *)
(* runtime, line 134: "only when the full commit is durable"): no token    *)
(* left by an earlier attempt, chunking, or process makes the server drop  *)
(* a chunk whose rows it does not have, and no late request undoes it.     *)
CommittedIsVisible ==
  \A a \in acked : \A r \in RecordsIn(a.commit) : Stands(r, 0)

(* "a replay after a row-mapping change resolves to the new mapping"       *)
(* (logs.rs:347): a record committed under one adapter version is never    *)
(* shown with the mapping of an earlier one, late requests included.       *)
NewestMappingStands ==
  \A a \in acked : \A r \in RecordsIn(a.commit) : Stands(r, a.version)

(* Requests with the same token carry the same rows, under any change of   *)
(* configuration between them (logs.rs:87: "every input that affects chunk *)
(* boundaries"), so that dropping one of them loses nothing.               *)
TokenIdentifiesRows ==
  \A p, q \in sent : p.token = q.token => p.rows = q.rows

(* No position in the source belongs to records of two manifests: the      *)
(* table is fed from one manifest.                                         *)
OneManifestPerKey ==
  \A c, d \in Commits : \A r \in RecordsIn(c), q \in RecordsIn(d) :
    r.key = q.key => r.manifest = q.manifest

(* "The manifest segment makes two ingestors writing the same (database,   *)
(* table) from different manifests safe" (logs.rs:284): what both have     *)
(* committed stays in the table.                                           *)
ManifestsShareTable ==
  \A a, b \in acked :
    a.commit.manifest # b.commit.manifest =>
      \A r \in RecordsIn(a.commit) \cup RecordsIn(b.commit) : Stands(r, 0)

-----------------------------------------------------------------------------
Job ==
  {Idle} \cup [pc : {"insert", "maybe"}, commit : Commits, chunk : Nat \ {0},
               attempt : 1 .. AtLeast1(MaxAttempts)]

LogRows == {LogRow(g, r) : g \in Configs, r \in UNION {RecordsIn(c) : c \in Commits}}

(* No two workers write the same commit, and none writes while the process *)
(* is down, so that all chunks of a write are planned under one            *)
(* configuration.                                                          *)
WritersApart ==
  /\ writer \in [Writers -> Job]
  /\ ~up => \A w \in Writers : ~Busy(w)
  /\ \A w, x \in Writers :
       Busy(w) /\ Busy(x) /\ writer[w].commit = writer[x].commit => w = x

(* A worker has sent the chunk in hand and has those before it in the      *)
(* table.                                                                  *)
ChunksInOrder ==
  \A w \in Writers : Busy(w) =>
    /\ Request(w) \in sent
    /\ \A k \in 1 .. writer[w].chunk - 1 : 
         Insert(writer[w].commit, config, k).rows \subseteq table

(* A token in the window was left by a request whose rows are in the       *)
(* table, so that dropping a request with that token loses nothing.        *)
WindowIsInTable ==
  \A t \in dedup : \E p \in sent : p.token = t /\ p.rows \subseteq table

(* What is acknowledged is in the table with the mapping it was            *)
(* acknowledged under, though not yet the row that survives a merge.       *)
AckedIsInTable ==
  \A a \in acked : \A r \in RecordsIn(a.commit) :
    \E row \in table :
      row.manifest = r.manifest /\ row.key = r.key /\ row.version = a.version

(* What makes the claims above inductive. *)
IInv ==
  /\ TypeOK /\ WritersApart /\ ChunksInOrder /\ WindowIsInTable /\ AckedIsInTable
  /\ table \subseteq LogRows /\ IsFiniteSet(table)
=============================================================================
