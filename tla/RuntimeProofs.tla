---------------------------- MODULE RuntimeProofs ----------------------------
(***************************************************************************)
(* Proofs about the delivery side of Runtime: the coordinator, the         *)
(* completions and the acks, for any number of workers and sequences, any  *)
(* faults and any number of crashes.                                       *)
(***************************************************************************)
EXTENDS RuntimeFlowProofs, OperatorProofs

-----------------------------------------------------------------------------
(* The units the coordinator waits for. *)
Open(c) == {r.low : r \in {x \in c.pending : ~x.committed}}

(* The open units of a coordinator that tracks the admitted and            *)
(* uncommitted ones are exactly those.                                     *)
LEMMA OpenIs ==
  ASSUME NEW c, NEW cursor \in OptSeqNum, NEW open, Tracks(c, cursor + 1, (0 .. cursor) \ open),
         open \subseteq 0 .. cursor,
         c.lastHigh = None => open = {},
         c.lastHigh # None => open \subseteq Floor(c) + 1 .. cursor
  PROVE  Open(c) = open
<1> USE MaxSeqAssumption DEF OptSeqNum, SeqNums, None
<1>1. /\ \A r \in c.pending : /\ r.low < cursor + 1 /\ r.low \in SeqNums
                              /\ r.committed <=> r.low \in (0 .. cursor) \ open
      /\ c.lastHigh = None => c.pending = {}
  BY DEF Tracks, Coordinator, PendingRange
<1>2. c.lastHigh # None => \A s \in Floor(c) + 1 .. cursor : \E r \in c.pending : r.low = s
  BY DEF Tracks
<1>3. Open(c) \subseteq open
  BY <1>1 DEF Open
<1>4. ASSUME NEW s \in open
      PROVE  s \in Open(c)
  <2>1. PICK r \in c.pending : r.low = s
    BY <1>2
  <2>2. ~r.committed
    BY SMTT(30), <1>1, <2>1
  <2> QED
    BY <2>1, <2>2 DEF Open
<1> QED
  BY Zenon, <1>3, <1>4

(* Under the invariant the coordinator's open units are the uncommitted    *)
(* ones.                                                                   *)
LEMMA OpenNow ==
  ASSUME IInv
  PROVE  /\ Open(coord) = Uncommitted
         /\ coord.lastHigh = None => Uncommitted = {}
         /\ coord.lastHigh # None => OpenIn(coord, source.cursor, Uncommitted)
         /\ IsFiniteSet(Uncommitted) /\ Cardinality(Uncommitted) \in Nat
<1>1. /\ source.cursor \in OptSeqNum
      /\ Tracks(coord, source.cursor + 1, (0 .. source.cursor) \ Uncommitted)
  BY SMTT(30), Before DEF Tracking
<1>2. \A r \in coord.pending : Floor(coord) < r.low /\ r.low < source.cursor + 1 /\ r.low \in SeqNums
  BY <1>1 DEF Tracks, Coordinator, PendingRange
<1>a. Floor(coord) \in OptSeqNum
  BY SMTT(30), <1>1 DEF Tracks, Coordinator, Floor
<1>3. Uncommitted \subseteq Floor(coord) + 1 .. source.cursor /\ Uncommitted \subseteq 0 .. source.cursor
  BY SMTT(30), <1>1, <1>2, <1>a, MaxSeqAssumption DEF Uncommitted, OptSeqNum, SeqNums, None
<1>4. coord.lastHigh = None => Uncommitted = {}
  BY <1>1 DEF Tracks, Uncommitted
<1>5. IsFiniteSet(0 .. source.cursor)
  BY <1>1, FS_Interval, MaxSeqAssumption DEF OptSeqNum, SeqNums, None
<1>6. IsFiniteSet(Uncommitted) /\ Cardinality(Uncommitted) \in Nat
  BY Zenon, <1>3, <1>5, FS_Subset, FS_CardinalityType
<1> QED
  BY <1>1, <1>3, <1>4, <1>6 DEF OpenIn, Open, Uncommitted

(* n descriptors are registered: the coordinator c waits for them too, and *)
(* its frontier is where it was, or right below them when they are the     *)
(* first ones.                                                             *)
Admits(b, cursor, open, n, c) ==
  /\ c.lastHigh # None /\ c.initial = b.initial /\ c.frontier = b.frontier
  /\ Tracks(c, cursor + n + 1, (0 .. cursor + n) \ (open \cup (cursor + 1 .. cursor + n)))
  /\ b.lastHigh # None => Floor(c) = Floor(b) /\ Floor(b) <= cursor
  /\ b.lastHigh = None => Floor(c) = cursor
  /\ Floor(c) \in OptSeqNum
  /\ Open(c) = open \cup (cursor + 1 .. cursor + n)

(* The coordinator accepts the n groups after the cursor, one after the    *)
(* other, and they are open afterwards.                                    *)
LEMMA AdmissionOpens ==
  ASSUME NEW b, NEW cursor \in OptSeqNum, NEW open, Tracks(b, cursor + 1, (0 .. cursor) \ open),
         open \subseteq 0 .. cursor,
         b.lastHigh = None => open = {},
         b.lastHigh # None => open \subseteq Floor(b) + 1 .. cursor,
         NEW n \in Nat \ {0}, cursor + n <= MaxSeq
  PROVE  /\ RunAccepts(b, cursor + 1, n)
         /\ Admits(b, cursor, open, n, RegisteredRun(b, cursor + 1, n)[n])
<1> USE MaxSeqAssumption
<1> DEFINE c == RegisteredRun(b, cursor + 1, n)[n]
           first == cursor + 1
           done == (0 .. cursor) \ open
           open2 == open \cup (cursor + 1 .. cursor + n)
<1>0. cursor \in Int /\ cursor >= -1 /\ n \in Int /\ n >= 1 /\ MaxSeq \in Int
  BY DEF OptSeqNum, SeqNums, None
<1>1. first \in SeqNums /\ first + n - 1 <= MaxSeq
  BY <1>0 DEF SeqNums
<1>2. Tracks(b, first, done)
  BY SMTT(30)
<1> HIDE DEF done
<1>3. /\ RunAccepts(b, first, n)
      /\ Tracks(c, first + n, done) /\ c.lastHigh = first + n - 1
      /\ c.frontier = b.frontier /\ c.initial = b.initial
  BY SMTT(30), <1>1, <1>2, RunNext
<1>a. b.fixed => c.baseline = b.baseline
  BY SMTT(30), <1>1, <1>2, RunNext
<1>b. ~b.fixed => c.baseline = first - 1
  BY SMTT(30), <1>1, <1>2, RunNext
<1>4. RunAccepts(b, cursor + 1, n)
  BY SMTT(30), <1>3
<1> HIDE DEF c
<1>5. /\ b.fixed <=> (b.initial # None \/ b.lastHigh # None)
      /\ b.lastHigh = None =>
           /\ b.frontier = None /\ b.baseline = b.initial
           /\ b.initial # None => first = b.initial + 1
      /\ b.lastHigh # None =>
           /\ first = b.lastHigh + 1 /\ b.baseline < b.lastHigh
           /\ b.frontier # None => b.baseline < b.frontier /\ b.frontier <= b.lastHigh
      /\ b \in Coordinator
  BY <1>2 DEF Tracks
<1>6. b.initial \in OptSeqNum /\ b.baseline \in OptSeqNum /\ b.frontier \in OptSeqNum
      /\ b.lastHigh \in OptSeqNum
  BY SMTT(30), <1>5 DEF Coordinator
<1>7. b.lastHigh # None => Floor(c) = Floor(b) /\ Floor(b) <= cursor
  BY <1>0, <1>3, <1>a, <1>5, <1>6 DEF Floor, OptSeqNum, SeqNums, None
<1>8. b.lastHigh = None => Floor(c) = cursor
  BY <1>0, <1>3, <1>a, <1>b, <1>5, <1>6 DEF Floor, OptSeqNum, SeqNums, None
<1>9. Floor(c) \in OptSeqNum
  BY <1>6, <1>7, <1>8 DEF Floor
<1>10. c.lastHigh # None
  BY <1>0, <1>3 DEF None
<1>11. (0 .. cursor + n) \ open2 = done
  BY <1>0 DEF done
<1>12. Tracks(c, cursor + n + 1, (0 .. cursor + n) \ open2)
  <2>1. first + n = cursor + n + 1
    BY <1>0
  <2> QED
    BY <1>3, <1>11, <2>1
<1>13. cursor + n \in OptSeqNum
  BY <1>0 DEF OptSeqNum, SeqNums
<1>14. open2 \subseteq Floor(c) + 1 .. cursor + n /\ open2 \subseteq 0 .. cursor + n
  BY <1>0, <1>7, <1>8, <1>9 DEF OptSeqNum, SeqNums, None
<1>15. Open(c) = open2
  <2> HIDE DEF open2
  <2> DEFINE k == cursor + n
  <2>1. /\ k \in OptSeqNum /\ Tracks(c, k + 1, (0 .. k) \ open2)
        /\ open2 \subseteq Floor(c) + 1 .. k /\ open2 \subseteq 0 .. k
    BY <1>12, <1>13, <1>14
  <2> HIDE DEF k
  <2> QED
    BY Zenon, <1>10, <2>1, OpenIs
<1>16. Admits(b, cursor, open, n, c)
  BY <1>3, <1>7, <1>8, <1>9, <1>10, <1>12, <1>15 DEF Admits
<1> QED
  BY <1>4, <1>16 DEF c

(* An admission: the groups are polled, registered and charged as one      *)
(* step.                                                                   *)
LEMMA AdmitKeeps ==
  ASSUME IInv, Admit
  PROVE  IInv' /\ [Delivery!Next]_(Delivery!vars)
<1> USE MaxSeqAssumption
<1> DEFINE cursor == source.cursor
<1>0. /\ FlowTypeOK /\ Tracking /\ Reporting /\ Delivering /\ actor \in ActorState
      /\ queue \in QueueState /\ actor.pc = "select" /\ actor.unsent = <<>>
      /\ cursor \in OptSeqNum /\ manifest.produced \in OptSeqNum /\ manifest.dequeued \in OptSeqNum
      /\ source \in [cursor : OptSeqNum, pendingAck : OptSeqNum]
      /\ cursor <= manifest.produced /\ manifest.dequeued <= cursor
      /\ Tracks(coord, cursor + 1, (0 .. cursor) \ Uncommitted)
  BY Before DEF Admit, FlowTypeOK, Tracking
<1>1. PICK gates \in 1 .. KTarget :
        LET n == NextDescriptors(gates)
            first == source.cursor + 1
        IN /\ n > 0
           /\ source' = [source EXCEPT !.cursor = @ + n]
           /\ IF RunAccepts(coord, first, n)
              THEN /\ coord' = RegisteredRun(coord, first, n)[n]
                   /\ actor' = [actor EXCEPT !.pc = "send", !.inFlight = @ + n,
                                             !.unsent = [k \in 1 .. n |-> first + k - 1]]
                   /\ UNCHANGED token
              ELSE ActorFails("rejected")
  BY Zenon DEF Admit
<1>2. /\ manifest' = manifest /\ written' = written /\ worker' = worker /\ crashes' = crashes
      /\ queue' = queue
  BY DEF Admit, KeepWorld
<1> DEFINE n == NextDescriptors(gates)
           new == cursor + 1 .. cursor + n
<1>3. n \in Nat \ {0} /\ cursor + n <= manifest.produced /\ cursor + n <= MaxSeq
  <2>1. gates \in Int /\ manifest.produced - cursor \in Int
    BY <1>0 DEF OptSeqNum, SeqNums, None
  <2>2. n \in Int /\ n <= manifest.produced - cursor
    BY <2>1, MinOfTwo DEF NextDescriptors
  <2>3. n > 0
    BY <1>1
  <2> HIDE DEF n
  <2> QED
    BY <1>0, <2>2, <2>3 DEF OptSeqNum, SeqNums, None
<1>4. /\ RunAccepts(coord, cursor + 1, n)
      /\ Admits(coord, cursor, Uncommitted, n, RegisteredRun(coord, cursor + 1, n)[n])
  <2> HIDE DEF n, cursor
  <2>1. /\ coord.lastHigh = None => Uncommitted = {}
        /\ coord.lastHigh # None => Uncommitted \subseteq Floor(coord) + 1 .. cursor
        /\ Uncommitted \subseteq 0 .. cursor
    BY OpenNow, UncommittedIsRead DEF OpenIn, cursor
  <2> QED
    BY Zenon, <1>0, <1>3, <2>1, AdmissionOpens
<1>5. /\ source' = [source EXCEPT !.cursor = @ + n]
      /\ coord' = RegisteredRun(coord, cursor + 1, n)[n]
      /\ actor' = [actor EXCEPT !.pc = "send", !.inFlight = @ + n,
                                !.unsent = [k \in 1 .. n |-> cursor + 1 + k - 1]]
      /\ token' = token
  BY <1>1, <1>4
<1> DEFINE units == [k \in 1 .. n |-> cursor + 1 + k - 1]
<1>6. /\ units \in Seq(SeqNums) /\ units # <<>> /\ Distinct(units)
      /\ Elems(units) = new
  <2> HIDE DEF n
  <2>0. IsRun(units, cursor + 1, n)
    BY SMTT(30) DEF IsRun
  <2> HIDE DEF units, cursor
  <2>1. cursor + 1 \in Nat /\ cursor + 1 + n - 1 = cursor + n /\ cursor + 1 + n - 1 <= MaxSeq
    BY SMTT(30), <1>0, <1>3 DEF OptSeqNum, SeqNums, None
  <2>2. Elems(units) = cursor + 1 .. cursor + 1 + n - 1
    BY <1>3, <2>0, <2>1, RunOfUnits
  <2> QED
    BY <1>3, <2>0, <2>1, <2>2, RunOfUnits
<1> HIDE DEF n, units
<1>7. actor' = [actor EXCEPT !.pc = "send", !.inFlight = @ + n, !.unsent = units]
  BY <1>5 DEF units
<1>8. /\ cursor + n \in OptSeqNum /\ cursor \in Int /\ n \in Nat /\ cursor >= -1
      /\ actor.inFlight + n \in Nat /\ manifest.dequeued \in Int
  BY SMTT(30), <1>0, <1>3 DEF OptSeqNum, SeqNums, None, ActorState
<1>9. /\ actor' \in ActorState /\ actor'.pc = "send" /\ actor'.inFlight = actor.inFlight + n
      /\ actor'.unsent = units /\ actor'.dryRun = actor.dryRun /\ actor'.lastAck = actor.lastAck
  BY Zenon, <1>0, <1>6, <1>7, <1>8 DEF ActorState
<1>10. /\ source' \in [cursor : OptSeqNum, pendingAck : OptSeqNum]
       /\ source'.cursor = cursor + n /\ source'.pendingAck = source.pendingAck
  BY <1>0, <1>5, <1>8
<1>11. Admits(coord, cursor, Uncommitted, n, coord')
  BY SMTT(30), <1>4, <1>5
<1>12. Uncommitted' = Uncommitted \cup new
  BY <1>11 DEF Admits, Open, Uncommitted
<1>13. /\ Uncommitted \subseteq 0 .. cursor /\ Uncommitted \cap new = {}
       /\ IsFiniteSet(Uncommitted) /\ Cardinality(Uncommitted) \in Nat
  <2>1. Uncommitted \subseteq 0 .. cursor
    BY UncommittedIsRead
  <2> QED
    BY <1>8, <2>1, OpenNow
<1> HIDE DEF cursor
<1>14. FlowTypeOK'
  BY Zenon, <1>0, <1>2, <1>5, <1>6, <1>9, <1>10 DEF FlowTypeOK, ActorState
<1>15. Tracking'
  <2>1. manifest'.dequeued <= source'.cursor /\ source'.cursor <= manifest'.produced
    BY <1>0, <1>2, <1>3, <1>8, <1>10
  <2>2. Tracks(coord', source'.cursor + 1, (0 .. source'.cursor) \ Uncommitted')
    BY <1>10, <1>11, <1>12 DEF Admits
  <2>3. coord'.lastHigh # None
    BY <1>11 DEF Admits
  <2>4. manifest'.dequeued <= Floor(coord')
    <3>1. CASE coord.lastHigh = None
      BY SMTT(30), <1>0, <1>2, <1>11, <3>1 DEF Admits, Tracking
    <3>2. CASE coord.lastHigh # None
      BY <1>0, <1>2, <1>11, <3>2 DEF Admits, Tracking
    <3> QED
      BY SMTT(30), <3>1, <3>2
  <2>5. Floor(coord') < source'.cursor => Floor(coord') + 1 \in Uncommitted'
    <3>1. cursor + 1 \in new
      BY <1>3, <1>8
    <3>2. CASE Floor(coord') = cursor
      BY <1>12, <3>1, <3>2
    <3>3. CASE Floor(coord') # cursor
      <4>1. coord.lastHigh # None /\ Floor(coord') = Floor(coord) /\ Floor(coord) <= cursor
            /\ Floor(coord) \in Int
        BY <1>11, <3>3 DEF Admits, OptSeqNum, SeqNums, None
      <4>2. Floor(coord) < cursor
        BY SMTT(30), <1>8, <3>3, <4>1
      <4>3. Floor(coord) + 1 \in Uncommitted
        BY SMTT(30), <1>0, <4>1, <4>2 DEF Tracking, cursor
      <4> QED
        BY <1>12, <4>1, <4>3
    <3> QED
      BY <3>2, <3>3
  <2> QED
    BY <2>1, <2>2, <2>3, <2>4, <2>5 DEF Tracking
<1>16. unreported' = unreported /\ Reported' = Reported /\ queue'.completion = queue.completion
  BY <1>2 DEF unreported, Reported
<1>17. Flow(lane', unreported) /\ Pipeline' = Pipeline \cup new
  <2>1. Sets(lane, "unsent", units, lane')
    BY <1>2, <1>9, UnsentLane
  <2>2. Flow(lane, unreported) /\ "unsent" \in Lanes /\ lane["unsent"] = <<>>
    BY SMTT(30), <1>0, FlowNow, LaneIs DEF Lanes
  <2>3. units \in Seq(SeqNums) /\ Distinct(units) /\ Unplaced(units, lane, unreported)
    BY <1>0, <1>6, <1>13 DEF Reporting, Pipeline, Unplaced
  <2>4. Flow(lane', unreported) /\ In(lane', unreported) = In(lane, unreported) \cup Elems(units)
    BY SMTT(30), <2>1, <2>2, <2>3, AdmitFlow
  <2> QED
    BY <1>6, <1>16, <2>4 DEF Pipeline, In
<1>18. ActorRunning /\ ActorRunning'
  BY <1>0, <1>9 DEF ActorRunning
<1>19. Reporting'
  <2>1. /\ Pipeline \subseteq Uncommitted \ Reported /\ Reported \subseteq Uncommitted
        /\ actor.inFlight = Cardinality(Uncommitted)
        /\ Fatal \in Elems(queue.completion) => ~(Uncommitted \subseteq Pipeline \cup Reported)
    BY SMTT(30), <1>0, <1>18 DEF Reporting
  <2>2. Pipeline' \subseteq Uncommitted' \ Reported' /\ Reported' \subseteq Uncommitted'
    <3> HIDE DEF new
    <3>1. new \cap Reported = {}
      BY Zenon, <1>13, <2>1
    <3> QED
      BY <1>12, <1>16, <1>17, <2>1, <3>1
  <2>3. actor'.inFlight = Cardinality(Uncommitted')
    <3>1. IsFiniteSet(new) /\ Cardinality(new) = n
      <4> DEFINE a == cursor + 1
                 b == cursor + n
      <4>1. a \in Int /\ b \in Int /\ ~(a > b) /\ b - a + 1 = n
        BY <1>3, <1>8
      <4> HIDE DEF a, b
      <4>2. IsFiniteSet(a .. b) /\ Cardinality(a .. b) = n
        BY <4>1, FS_Interval
      <4> QED
        BY <4>2 DEF a, b
    <3>2. Cardinality(Uncommitted \cup new) = Cardinality(Uncommitted) + n
      <4>1. Cardinality(Uncommitted \cap new) = 0
        BY <1>13, FS_EmptySet
      <4>2. Cardinality(Uncommitted \cup new)
              = Cardinality(Uncommitted) + Cardinality(new) - Cardinality(Uncommitted \cap new)
        BY Zenon, <1>13, <3>1, FS_Union
      <4> QED
        BY <1>8, <1>13, <3>1, <4>1, <4>2
    <3> QED
      BY <1>9, <1>12, <2>1, <3>2
  <2>4. Fatal \in Elems(queue'.completion) => ~(Uncommitted' \subseteq Pipeline' \cup Reported')
    BY <1>12, <1>13, <1>16, <1>17, <2>1
  <2>5. Apart(lane', unreported')
    BY <1>16, <1>17 DEF Flow
  <2> QED
    BY Zenon, <1>0, <1>16, <2>2, <2>3, <2>4, <2>5 DEF Reporting
<1>20. Delivering'
  <2>1. (0 .. source'.cursor) \ Uncommitted' = (0 .. cursor) \ Uncommitted
    BY <1>3, <1>8, <1>10, <1>12
  <2>2. coord'.frontier = coord.frontier /\ coord'.initial = coord.initial
    BY <1>11 DEF Admits
  <2> QED
    BY Zenon, <1>0, <1>2, <1>9, <1>10, <1>16, <1>18, <2>1, <2>2 DEF Delivering, cursor
<1>21. CleanExit' /\ CoordinatorNeverRejects'
  BY <1>9 DEF CleanExit, CoordinatorNeverRejects
<1> QED
  BY <1>2, <1>14, <1>15, <1>19, <1>20, <1>21, DeliveryStutters DEF IInv

-----------------------------------------------------------------------------
(* A completion is taken from its channel. *)
LEMMA Pops ==
  ASSUME IInv, Complete
  PROVE  /\ queue' \in QueueState /\ actor.pc = "select" /\ actor.unsent = <<>>
         /\ queue'.completion = Tail(queue.completion)
         /\ Elems(queue.completion) = {Head(queue.completion)} \cup Elems(queue'.completion)
         /\ \A j, k \in DOMAIN queue'.completion :
              queue'.completion[j] = queue'.completion[k] /\ j # k => queue'.completion[j] = Fatal
         /\ Head(queue.completion) = Fatal => Reported' = Reported
         /\ Head(queue.completion) # Fatal =>
              /\ Head(queue.completion) \in Reported
              /\ Reported' = Reported \ {Head(queue.completion)}
         /\ queue'.descriptor = queue.descriptor /\ queue'.fetched = queue.fetched
         /\ queue'.commit = queue.commit
<1> DEFINE q == queue.completion
           t == Tail(q)
           s == Head(q)
<1>0. queue \in QueueState /\ actor.pc = "select" /\ actor.unsent = <<>> /\ Reporting
  BY Before DEF Complete, FlowTypeOK
<1>1. q \in Seq(SeqNums \cup {Fatal}) /\ q # <<>>
  BY <1>0 DEF QueueState, Complete
<1>2. /\ t \in Seq(SeqNums \cup {Fatal}) /\ s \in Elems(q) /\ 1 \in DOMAIN q
      /\ \A k \in DOMAIN t : k + 1 \in DOMAIN q /\ k + 1 # 1 /\ t[k] = q[k + 1]
      /\ Elems(q) = {s} \cup Elems(t) /\ s = q[1]
      /\ DOMAIN t \subseteq Int
  BY <1>1, TailElems
<1>3. queue' = [queue EXCEPT !.completion = t]
  BY SMTT(30) DEF Complete
<1>a. \A j, k \in DOMAIN q : q[j] = q[k] /\ j # k => q[j] = Fatal
  BY <1>0 DEF Reporting
<1>b. Reported = Elems(q) \ {Fatal}
  BY DEF Reported
<1> HIDE DEF t, s, q
<1>4. /\ queue' \in QueueState /\ queue'.completion = t
      /\ queue'.descriptor = queue.descriptor /\ queue'.fetched = queue.fetched
      /\ queue'.commit = queue.commit
  BY Zenon, <1>0, <1>2, <1>3 DEF QueueState
<1>5. \A j, k \in DOMAIN t : t[j] = t[k] /\ j # k => t[j] = Fatal
  <2> SUFFICES ASSUME NEW j \in DOMAIN t, NEW k \in DOMAIN t, t[j] = t[k], j # k
               PROVE  t[j] = Fatal
    OBVIOUS
  <2>1. j + 1 # k + 1
    BY SMTT(30), <1>2
  <2> QED
    BY <1>2, <1>a, <2>1
<1>6. Reported' = Elems(t) \ {Fatal}
  BY <1>4 DEF Reported
<1>7. s # Fatal => s \notin Elems(t)
  BY <1>2, <1>a DEF Elems
<1>8. /\ s = Fatal => Reported' = Reported
      /\ s # Fatal => s \in Reported /\ Reported' = Reported \ {s}
  BY <1>2, <1>6, <1>7, <1>b
<1> QED
  BY Zenon, <1>0, <1>2, <1>4, <1>5, <1>8 DEF q, s, t

(* A Fatal completion ends the actor. *)
LEMMA FatalCompletionKeeps ==
  ASSUME IInv, Complete, Head(queue.completion) = Fatal
  PROVE  IInv' /\ [Delivery!Next]_(Delivery!vars)
<1>0. /\ FlowTypeOK /\ Tracking /\ Reporting /\ Delivering
  BY Before
<1>1. /\ manifest' = manifest /\ source' = source /\ coord' = coord /\ written' = written
      /\ worker' = worker /\ crashes' = crashes /\ ActorFails("failed")
  BY SMTT(30) DEF Complete
<1>2. /\ queue' \in QueueState /\ actor.pc = "select" /\ actor.unsent = <<>>
      /\ \A j, k \in DOMAIN queue'.completion :
           queue'.completion[j] = queue'.completion[k] /\ j # k => queue'.completion[j] = Fatal
      /\ Reported' = Reported
      /\ queue'.descriptor = queue.descriptor /\ queue'.fetched = queue.fetched
      /\ queue'.commit = queue.commit
  BY SMTT(30), Pops
<1>3. /\ actor' \in ActorState /\ actor'.pc = "failed" /\ ~ActorRunning'
      /\ actor'.unsent = <<>> /\ actor'.dryRun = actor.dryRun
      /\ token' \in [shutdown : BOOLEAN, abort : BOOLEAN]
  BY <1>1, <1>2, SelectFails
<1>4. lane' = lane /\ unreported' = unreported /\ Uncommitted' = Uncommitted
  BY <1>1, <1>2, <1>3 DEF lane, unreported, Uncommitted
<1>5. Pipeline' = Pipeline
  BY <1>4 DEF Pipeline, In
<1>6. FlowTypeOK'
  BY Zenon, <1>0, <1>1, <1>2, <1>3 DEF FlowTypeOK, ActorState, QueueState
<1>7. Tracking'
  BY SMTT(30), <1>0, <1>1, <1>4 DEF Tracking
<1>8. Reporting'
  BY <1>0, <1>2, <1>3, <1>4, <1>5 DEF Reporting
<1>9. Delivering'
  BY Zenon, <1>0, <1>1, <1>2, <1>3, <1>4 DEF Delivering
<1>10. CleanExit' /\ CoordinatorNeverRejects'
  BY <1>3 DEF CleanExit, CoordinatorNeverRejects
<1> QED
  BY <1>1, <1>6, <1>7, <1>8, <1>9, <1>10, DeliveryStutters DEF IInv

(* What the actor does once the frontier is at h. *)
Acks(h) ==
  /\ source' \in [cursor : OptSeqNum, pendingAck : OptSeqNum] /\ source'.cursor = source.cursor
  /\ manifest' \in [produced : OptSeqNum, dequeued : OptSeqNum]
  /\ manifest'.produced = manifest.produced
  /\ actor' \in ActorState /\ actor'.pc \in {"select", "failed"} /\ actor'.unsent = <<>>
  /\ actor'.dryRun = actor.dryRun /\ token' \in [shutdown : BOOLEAN, abort : BOOLEAN]
  /\ manifest'.dequeued \in {manifest.dequeued, h}
  /\ source'.pendingAck \in {source.pendingAck, None, h}
  /\ actor.dryRun => manifest' = manifest /\ source' = source
  /\ actor'.pc = "select" =>
       /\ actor'.inFlight = actor.inFlight - 1
       /\ ~actor.dryRun =>
            /\ actor'.lastAck = IF coord'.frontier # None THEN coord'.frontier ELSE coord'.initial
            /\ source'.pendingAck \in {None, coord'.frontier}
            /\ source'.pendingAck = None => actor'.lastAck <= manifest'.dequeued

(* What on_committed does: the coordinator completes the unit, and the ack *)
(* and the flush follow the high watermark.                                *)
LEMMA CommitEffect ==
  ASSUME IInv, actor.pc = "select", actor.inFlight > 0, NEW s \in Uncommitted, OnCommitted(s)
  PROVE  \E h : Completes(coord, source.cursor, Uncommitted, s, coord', h) /\ Acks(h)
<1> USE MaxSeqAssumption
<1> DEFINE c == Advanced(Committed(coord, s))
           ack == Acked(c, actor.lastAck)
           groups == actor.groups + 1
           last2 == IF ack THEN c.frontier ELSE actor.lastAck
           groups2 == IF ~ack THEN actor.groups ELSE IF FlushDue(groups) THEN 0 ELSE groups
           done == [actor EXCEPT !.inFlight = @ - 1, !.lastAck = last2, !.groups = groups2]
<1>0. /\ FlowTypeOK /\ Tracking /\ Delivering /\ actor \in ActorState /\ actor.unsent = <<>>
      /\ source \in [cursor : OptSeqNum, pendingAck : OptSeqNum]
      /\ manifest \in [produced : OptSeqNum, dequeued : OptSeqNum]
      /\ manifest.dequeued \in OptSeqNum /\ source.pendingAck \in OptSeqNum
      /\ actor.lastAck \in OptSeqNum /\ actor.groups \in Nat /\ actor.inFlight \in Nat
      /\ token \in [shutdown : BOOLEAN, abort : BOOLEAN]
  BY Before DEF FlowTypeOK, ActorState
<1>1. coord.lastHigh # None /\ OpenIn(coord, source.cursor, Uncommitted)
  BY OpenNow
<1>2. MarkAccepts(coord, s, s) /\ \E h : Completes(coord, source.cursor, Uncommitted, s, c, h)
  BY <1>1, CompletionAdvances
<1>3. PICK h : Completes(coord, source.cursor, Uncommitted, s, c, h)
  BY <1>2
<1>4. /\ coord' = c
      /\ \/ /\ ~ack
            /\ actor' = done
            /\ UNCHANGED <<source, manifest, token>>
         \/ /\ ack /\ ~FlushDue(groups)
            /\ AckThrough(c.frontier)
            /\ actor' = done
            /\ UNCHANGED <<manifest, token>>
         \/ /\ ack /\ FlushDue(groups)
            /\ FlushOk(c.frontier)
            /\ actor' = done
            /\ UNCHANGED token
         \/ /\ ack /\ FlushDue(groups)
            /\ FlushFails(c.frontier)
            /\ ActorFails("failed")
  BY SMTT(30), <1>2 DEF OnCommitted
<1> HIDE DEF c
<1>5. /\ h \in OptSeqNum /\ Floor(coord) \in OptSeqNum /\ Floor(coord) <= h /\ Floor(c) = h
      /\ c.initial = coord.initial /\ c.frontier \in OptSeqNum
      /\ h = Floor(coord) => c.frontier = coord.frontier
      /\ h > Floor(coord) => c.frontier = h /\ h > coord.frontier /\ h # None
  BY SMTT(30), <1>3 DEF Completes, Tracks, Coordinator
<1>6. c.frontier # None => c.frontier = h
  BY <1>5 DEF Floor
<1>7. ack => ~actor.dryRun /\ c.frontier = h /\ h # None /\ h > actor.lastAck
  BY SMTT(30), <1>6 DEF Acked
<1>8. ~actor.dryRun =>
        /\ actor.lastAck = IF coord.frontier # None THEN coord.frontier ELSE coord.initial
        /\ source.pendingAck \in {None, coord.frontier}
        /\ source.pendingAck = None => actor.lastAck <= manifest.dequeued
  BY <1>0 DEF Delivering, ActorRunning
<1>9. ~actor.dryRun /\ ~ack => h = Floor(coord) /\ c.frontier = coord.frontier
  <2> SUFFICES ASSUME ~actor.dryRun, ~ack, h # Floor(coord)
               PROVE  FALSE
    BY Zenon, <1>5
  <2>1. h > Floor(coord) /\ c.frontier = h /\ h > coord.frontier /\ h # None
    BY <1>5 DEF OptSeqNum, SeqNums, None
  <2>2. ~(h > actor.lastAck)
    BY <2>1 DEF Acked
  <2>3. CASE coord.frontier # None
    BY SMTT(30), <1>8, <2>1, <2>2, <2>3
  <2>4. CASE coord.frontier = None
    <3>1. actor.lastAck <= manifest.dequeued
      BY SMTT(30), <1>8, <2>4
    <3>2. manifest.dequeued <= Floor(coord)
      BY SMTT(30), <1>0, <1>1 DEF Tracking
    <3> QED
      BY SMTT(30), <1>0, <1>5, <2>1, <2>2, <3>1, <3>2 DEF OptSeqNum, SeqNums, None
  <2> QED
    BY <2>3, <2>4
<1> HIDE DEF ack
<1>10. last2 \in OptSeqNum /\ groups2 \in Nat /\ actor.inFlight - 1 \in Nat
  <2>1. groups \in Nat /\ actor.inFlight - 1 \in Nat
    BY SMTT(30), <1>0
  <2> HIDE DEF groups
  <2>2. last2 \in OptSeqNum
    BY <1>0, <1>5
  <2>3. groups2 \in Nat
    BY <1>0, <2>1
  <2> QED
    BY SMTT(30), <2>1, <2>2, <2>3
<1> HIDE DEF last2, groups2, groups
<1>11. /\ done \in ActorState /\ done.pc = "select" /\ done.unsent = <<>>
       /\ done.dryRun = actor.dryRun /\ done.inFlight = actor.inFlight - 1
       /\ done.lastAck = last2
  BY Zenon, <1>0, <1>10 DEF ActorState
<1> HIDE DEF done
<1>12. \A v \in OptSeqNum :
         /\ [source EXCEPT !.pendingAck = v] \in [cursor : OptSeqNum, pendingAck : OptSeqNum]
         /\ [source EXCEPT !.pendingAck = v].cursor = source.cursor
         /\ [source EXCEPT !.pendingAck = v].pendingAck = v
         /\ [manifest EXCEPT !.dequeued = v] \in [produced : OptSeqNum, dequeued : OptSeqNum]
         /\ [manifest EXCEPT !.dequeued = v].produced = manifest.produced
         /\ [manifest EXCEPT !.dequeued = v].dequeued = v
  BY <1>0
<1>13. None \in OptSeqNum
  BY DEF OptSeqNum
<1>14. Acks(h)
  <2>1. CASE ~ack /\ actor' = done /\ UNCHANGED <<source, manifest, token>>
    <3>1. last2 = actor.lastAck
      BY SMTT(30), <2>1 DEF last2
    <3>2. ~actor.dryRun => coord'.frontier = coord.frontier /\ coord'.initial = coord.initial
      BY <1>4, <1>5, <1>9, <2>1
    <3> QED
      BY Zenon, <1>0, <1>8, <1>11, <2>1, <3>1, <3>2 DEF Acks
  <2>2. CASE ack /\ AckThrough(c.frontier) /\ actor' = done /\ UNCHANGED <<manifest, token>>
    <3>1. last2 = h /\ c.frontier = h /\ h # None /\ ~actor.dryRun
      BY <1>7, <2>2 DEF last2
    <3>2. source' = [source EXCEPT !.pendingAck = h]
      BY <2>2, <3>1 DEF AckThrough
    <3>3. /\ source' \in [cursor : OptSeqNum, pendingAck : OptSeqNum]
          /\ source'.cursor = source.cursor /\ source'.pendingAck = h
      BY Zenon, <1>5, <1>12, <3>2
    <3> QED
      BY Zenon, <1>0, <1>4, <1>11, <2>2, <3>1, <3>3 DEF Acks
  <2>3. CASE ack /\ FlushOk(c.frontier) /\ actor' = done /\ UNCHANGED token
    <3>1. last2 = h /\ c.frontier = h /\ h # None /\ ~actor.dryRun
      BY <1>7, <2>3 DEF last2
    <3>2. source' = [source EXCEPT !.pendingAck = None] /\ manifest' = [manifest EXCEPT !.dequeued = h]
      BY <2>3, <3>1 DEF FlushOk
    <3>3. /\ source' \in [cursor : OptSeqNum, pendingAck : OptSeqNum]
          /\ source'.cursor = source.cursor /\ source'.pendingAck = None
          /\ manifest' \in [produced : OptSeqNum, dequeued : OptSeqNum]
          /\ manifest'.produced = manifest.produced /\ manifest'.dequeued = h
      BY Zenon, <1>5, <1>12, <1>13, <3>2
    <3>4. h <= h
      BY <1>5 DEF OptSeqNum, SeqNums, None
    <3> QED
      BY Zenon, <1>0, <1>4, <1>11, <2>3, <3>1, <3>3, <3>4 DEF Acks
  <2>4. CASE ack /\ FlushFails(c.frontier) /\ ActorFails("failed")
    <3>1. c.frontier = h /\ ~actor.dryRun
      BY <1>7, <2>4
    <3>2. source' = [source EXCEPT !.pendingAck = h]
      BY <2>4, <3>1 DEF FlushFails, AckThrough
    <3>3. PICK moved \in {manifest.dequeued, h} : manifest' = [manifest EXCEPT !.dequeued = moved]
      BY SMTT(30), <2>4, <3>1 DEF FlushFails
    <3>4. moved \in OptSeqNum
      BY <1>0, <1>5
    <3>5. /\ source' \in [cursor : OptSeqNum, pendingAck : OptSeqNum]
          /\ source'.cursor = source.cursor /\ source'.pendingAck = h
          /\ manifest' \in [produced : OptSeqNum, dequeued : OptSeqNum]
          /\ manifest'.produced = manifest.produced /\ manifest'.dequeued = moved
      BY Zenon, <1>5, <1>12, <3>2, <3>3, <3>4
    <3>6. /\ actor' \in ActorState /\ actor'.pc = "failed" /\ actor'.unsent = <<>>
          /\ actor'.dryRun = actor.dryRun /\ token' \in [shutdown : BOOLEAN, abort : BOOLEAN]
      BY <2>4, SelectFails
    <3> QED
      BY <3>1, <3>3, <3>5, <3>6 DEF Acks
  <2> QED
    BY <1>4, <2>1, <2>2, <2>3, <2>4
<1> QED
  BY SMTT(30), <1>3, <1>4, <1>14

(* A Committed message handled by the actor. *)
LEMMA CommittedCompletionKeeps ==
  ASSUME IInv, Complete, Head(queue.completion) # Fatal
  PROVE  IInv' /\ [Delivery!Next]_(Delivery!vars)
<1> USE MaxSeqAssumption
<1> DEFINE s == Head(queue.completion)
           cursor == source.cursor
           left == Uncommitted \ {s}
<1>0. /\ FlowTypeOK /\ Tracking /\ Reporting /\ Delivering /\ ActorRunning
      /\ cursor \in OptSeqNum /\ manifest.produced \in OptSeqNum /\ manifest.dequeued \in OptSeqNum
      /\ source.pendingAck \in OptSeqNum
      /\ cursor <= manifest.produced /\ manifest.dequeued <= cursor
  BY Before DEF Tracking, Complete, ActorRunning
<1>1. /\ written' = written /\ worker' = worker /\ crashes' = crashes /\ OnCommitted(s)
      /\ actor.inFlight > 0
  BY SMTT(30) DEF Complete
<1>2. /\ queue' \in QueueState /\ actor.pc = "select" /\ actor.unsent = <<>>
      /\ Elems(queue.completion) = {s} \cup Elems(queue'.completion)
      /\ \A j, k \in DOMAIN queue'.completion :
           queue'.completion[j] = queue'.completion[k] /\ j # k => queue'.completion[j] = Fatal
      /\ s \in Reported /\ Reported' = Reported \ {s}
      /\ queue'.descriptor = queue.descriptor /\ queue'.fetched = queue.fetched
      /\ queue'.commit = queue.commit
  BY SMTT(30), Pops
<1> HIDE DEF s
<1>3. s \in Uncommitted /\ s \notin Pipeline
  BY <1>0, <1>2 DEF Reporting
<1>4. PICK h : Completes(coord, cursor, Uncommitted, s, coord', h) /\ Acks(h)
  BY Zenon, <1>1, <1>2, <1>3, CommitEffect
<1> HIDE DEF cursor
<1>5. /\ coord'.lastHigh # None /\ Tracks(coord', cursor + 1, (0 .. cursor) \ left)
      /\ Floor(coord) <= h /\ Floor(coord') = h /\ h <= cursor /\ h \in OptSeqNum
      /\ Floor(coord) \in OptSeqNum
      /\ left \subseteq h + 1 .. cursor /\ (h < cursor => h + 1 \in left)
  BY <1>4 DEF Completes
<1>6. /\ source' \in [cursor : OptSeqNum, pendingAck : OptSeqNum] /\ source'.cursor = cursor
      /\ manifest' \in [produced : OptSeqNum, dequeued : OptSeqNum]
      /\ manifest'.produced = manifest.produced
      /\ actor' \in ActorState /\ actor'.pc \in {"select", "failed"} /\ actor'.unsent = <<>>
      /\ actor'.dryRun = actor.dryRun /\ token' \in [shutdown : BOOLEAN, abort : BOOLEAN]
      /\ manifest'.dequeued \in {manifest.dequeued, h}
      /\ source'.pendingAck \in {source.pendingAck, None, h}
      /\ actor.dryRun => manifest' = manifest /\ source' = source
  BY Zenon, <1>4 DEF Acks, cursor
<1>7. /\ cursor \in Int /\ h \in Int /\ manifest.dequeued \in Int /\ manifest.produced \in Int
      /\ h >= -1
  BY <1>0, <1>5 DEF OptSeqNum, SeqNums, None
<1>8. Uncommitted' = left
  <2>1. left \subseteq 0 .. cursor
    BY <1>5, <1>7
  <2>2. left \subseteq Floor(coord') + 1 .. cursor
    BY <1>5
  <2> HIDE DEF left
  <2>3. Open(coord') = left
    BY Zenon, <1>0, <1>5, <2>1, <2>2, OpenIs
  <2> QED
    BY <2>3 DEF Open, Uncommitted
<1>9. manifest.dequeued <= h
  <2>1. manifest.dequeued <= Floor(coord)
    BY <1>0, <1>3, OpenNow DEF Tracking
  <2> QED
    BY <1>5, <1>7, <2>1 DEF OptSeqNum, SeqNums, None
<1>10. FlowTypeOK'
  BY Zenon, <1>0, <1>1, <1>2, <1>6 DEF FlowTypeOK, ActorState, QueueState
<1>11. Tracking'
  <2>1. manifest'.dequeued <= h
    BY SMTT(30), <1>6, <1>7, <1>9
  <2>2. manifest'.dequeued <= cursor
    BY <1>0, <1>5, <1>6, <1>7
  <2> QED
    BY Zenon, <1>0, <1>5, <1>6, <1>8, <2>1, <2>2 DEF Tracking
<1>12. lane' = lane /\ unreported' = unreported
  BY <1>1, <1>2, <1>6 DEF lane, unreported
<1>13. Pipeline' = Pipeline
  BY <1>12 DEF Pipeline, In
<1>14. Reporting'
  <2>1. /\ Pipeline \subseteq Uncommitted \ Reported /\ Reported \subseteq Uncommitted
        /\ actor.inFlight = Cardinality(Uncommitted)
        /\ Fatal \in Elems(queue.completion) => ~(Uncommitted \subseteq Pipeline \cup Reported)
    BY SMTT(30), <1>0 DEF Reporting
  <2>2. Pipeline' \subseteq Uncommitted' \ Reported' /\ Reported' \subseteq Uncommitted'
    BY <1>2, <1>3, <1>8, <1>13, <2>1
  <2>3. ActorRunning' => actor'.inFlight = Cardinality(Uncommitted')
    <3>1. Cardinality(Uncommitted \ {s}) = Cardinality(Uncommitted) - 1
      BY Zenon, <1>3, OpenNow, FS_RemoveElement
    <3>2. ActorRunning' => actor'.inFlight = actor.inFlight - 1
      BY Zenon, <1>4, <1>6 DEF Acks, ActorRunning
    <3> QED
      BY <1>8, <2>1, <3>1, <3>2
  <2>4. Fatal \in Elems(queue'.completion) => ~(Uncommitted' \subseteq Pipeline' \cup Reported')
    BY <1>2, <1>8, <1>13, <2>1
  <2> QED
    BY Zenon, <1>0, <1>2, <1>12, <2>2, <2>3, <2>4 DEF Reporting
<1>15. ~actor.dryRun => (0 .. cursor) \ left \subseteq written
  BY Zenon, <1>0, <1>2 DEF Delivering, cursor
<1>16. ~actor.dryRun => 0 .. h \subseteq written
  <2>1. 0 .. h \subseteq (0 .. cursor) \ left
    BY SMTT(30), <1>5, <1>7
  <2> QED
    BY <1>15, <2>1
<1>17. Delivering'
  <2>1. 0 .. manifest'.dequeued \subseteq written'
    BY SMTT(30), <1>0, <1>1, <1>6, <1>16 DEF Delivering
  <2>2. 0 .. source'.pendingAck \subseteq written'
    <3>1. 0 .. None = {}
      BY SMTT(30) DEF None
    <3> QED
      BY <1>0, <1>1, <1>6, <1>16, <3>1 DEF Delivering
  <2>3. actor'.dryRun => source'.pendingAck = None
    BY SMTT(30), <1>0, <1>6 DEF Delivering
  <2>4. ~actor'.dryRun =>
          /\ (0 .. source'.cursor) \ Uncommitted' \subseteq written'
          /\ Reported' \subseteq written'
          /\ \A w \in Workers : worker'[w].pc = "report" => worker'[w].seq \in written'
    BY <1>0, <1>1, <1>2, <1>6, <1>8, <1>15 DEF Delivering
  <2>5. ~actor'.dryRun /\ ActorRunning' =>
            /\ actor'.lastAck = IF coord'.frontier # None THEN coord'.frontier ELSE coord'.initial
            /\ source'.pendingAck \in {None, coord'.frontier}
            /\ source'.pendingAck = None => actor'.lastAck <= manifest'.dequeued
    BY Zenon, <1>4, <1>6 DEF Acks, ActorRunning
  <2>6. written' \subseteq 0 .. manifest'.produced
    BY SMTT(30), <1>0, <1>1, <1>6 DEF Delivering
  <2> QED
    BY <2>1, <2>2, <2>3, <2>4, <2>5, <2>6 DEF Delivering
<1>18. CleanExit' /\ CoordinatorNeverRejects'
  BY <1>6 DEF CleanExit, CoordinatorNeverRejects
<1>19. [Delivery!Next]_(Delivery!vars)
  <2>1. CASE manifest'.dequeued = manifest.dequeued
    BY <1>1, <1>6, <2>1 DEF Delivery!vars
  <2>2. CASE manifest'.dequeued # manifest.dequeued
    <3>1. manifest'.dequeued = h /\ ~actor.dryRun
      BY <1>6, <2>2
    <3>2. manifest.dequeued < h /\ h <= manifest.produced
      BY <1>0, <1>5, <1>7, <1>9, <2>2, <3>1
    <3>3. \A e \in manifest.dequeued + 1 .. h : e \in written
      <4>1. manifest.dequeued + 1 .. h \subseteq 0 .. h
        BY SMTT(30), <1>0, <1>7 DEF OptSeqNum, SeqNums, None
      <4> QED
        BY <1>16, <3>1, <4>1
    <3>4. Delivery!Dequeue
      BY <1>1, <1>6, <3>1, <3>2, <3>3 DEF Delivery!Dequeue
    <3> QED
      BY <3>4 DEF Delivery!Next
  <2> QED
    BY SMTT(30), <2>1, <2>2
<1> QED
  BY <1>10, <1>11, <1>14, <1>17, <1>18, <1>19 DEF IInv

-----------------------------------------------------------------------------
(* The loop ends with nothing in flight. *)
LEMMA DrainedState ==
  ASSUME IInv, Drained
  PROVE  /\ Uncommitted = {} /\ Pipeline = {} /\ queue.completion = <<>>
         /\ coord.pending = {} /\ actor.unsent = <<>> /\ ActorRunning
         /\ ~actor.dryRun => 0 .. source.cursor \subseteq written
         /\ ~actor.dryRun /\ source.pendingAck = None => manifest.dequeued = source.cursor
         /\ ~actor.dryRun /\ source.pendingAck # None => source.pendingAck = source.cursor
<1> USE MaxSeqAssumption
<1>0. /\ FlowTypeOK /\ Tracking /\ Reporting /\ Delivering /\ actor.pc = "select"
      /\ actor.unsent = <<>> /\ actor.inFlight = 0 /\ ActorRunning
      /\ source.cursor \in OptSeqNum /\ manifest.dequeued \in OptSeqNum
      /\ queue \in QueueState
  BY SMTT(30), Before DEF Drained, FlowTypeOK, ActorRunning
<1>1. Uncommitted = {}
  BY SMTT(30), <1>0, OpenNow, FS_EmptySet DEF Reporting
<1>2. Pipeline = {} /\ Reported = {} /\ Fatal \notin Elems(queue.completion)
  BY <1>0, <1>1 DEF Reporting
<1>3. queue.completion = <<>>
  <2> DEFINE q == queue.completion
  <2>1. Elems(q) = {} /\ q \in Seq(SeqNums \cup {Fatal})
    BY <1>0, <1>2 DEF Reported, QueueState
  <2> HIDE DEF q
  <2>2. ASSUME q # <<>> PROVE FALSE
    BY SMTT(30), <2>1, <2>2, TailElems
  <2> QED
    BY <2>2 DEF q
<1>4. /\ Tracks(coord, source.cursor + 1, (0 .. source.cursor) \ Uncommitted)
      /\ coord.lastHigh = None => source.cursor = manifest.dequeued
      /\ coord.lastHigh # None =>
           manifest.dequeued <= Floor(coord) /\ ~(Floor(coord) < source.cursor)
  BY SMTT(30), <1>0, <1>1 DEF Tracking
<1>5. /\ coord \in Coordinator
      /\ coord.lastHigh = None => coord.pending = {} /\ coord.frontier = None
      /\ coord.lastHigh # None =>
           /\ source.cursor + 1 = coord.lastHigh + 1 /\ coord.baseline < coord.lastHigh
           /\ coord.frontier # None => coord.frontier <= coord.lastHigh
      /\ \A r \in coord.pending :
           Floor(coord) < r.low /\ r.low < source.cursor + 1 /\ r.low \in SeqNums
  BY <1>4 DEF Tracks, Coordinator, PendingRange
<1>6. coord.baseline \in OptSeqNum /\ coord.frontier \in OptSeqNum /\ coord.lastHigh \in OptSeqNum
  BY SMTT(30), <1>5 DEF Coordinator
<1>7. coord.lastHigh # None => coord.frontier # None /\ coord.frontier = source.cursor
                                /\ Floor(coord) = source.cursor
  BY SMTT(30), <1>0, <1>4, <1>5, <1>6 DEF Floor, OptSeqNum, SeqNums, None
<1>8. coord.pending = {}
  BY SMTT(30), <1>0, <1>5, <1>7 DEF OptSeqNum, SeqNums, None
<1>9. ~actor.dryRun =>
        /\ 0 .. source.cursor \subseteq written
        /\ actor.lastAck = IF coord.frontier # None THEN coord.frontier ELSE coord.initial
        /\ source.pendingAck \in {None, coord.frontier}
        /\ source.pendingAck = None => actor.lastAck <= manifest.dequeued
  BY <1>0, <1>1 DEF Delivering
<1>10. ~actor.dryRun /\ source.pendingAck = None => manifest.dequeued = source.cursor
  <2> SUFFICES ASSUME ~actor.dryRun, source.pendingAck = None, coord.lastHigh # None
               PROVE  manifest.dequeued = source.cursor
    BY <1>4
  <2>1. source.cursor <= manifest.dequeued /\ manifest.dequeued <= source.cursor
    BY SMTT(30), <1>4, <1>7, <1>9
  <2> QED
    BY <1>0, <2>1 DEF OptSeqNum, SeqNums, None
<1>11. ~actor.dryRun /\ source.pendingAck # None => source.pendingAck = source.cursor
  BY <1>5, <1>7, <1>9
<1> QED
  BY Zenon, <1>0, <1>1, <1>2, <1>3, <1>8, <1>9, <1>10, <1>11

(* The final flush: Ok is returned only from an empty pipeline. *)
LEMMA DrainedKeeps ==
  ASSUME IInv, Drained
  PROVE  IInv' /\ [Delivery!Next]_(Delivery!vars)
<1> USE MaxSeqAssumption
<1>0. /\ FlowTypeOK /\ Tracking /\ Reporting /\ Delivering /\ actor.pc = "select"
      /\ actor \in ActorState /\ token \in [shutdown : BOOLEAN, abort : BOOLEAN]
      /\ source \in [cursor : OptSeqNum, pendingAck : OptSeqNum]
      /\ manifest \in [produced : OptSeqNum, dequeued : OptSeqNum]
      /\ manifest.produced \in OptSeqNum /\ queue \in QueueState
      /\ manifest.dequeued \in OptSeqNum /\ source.pendingAck \in OptSeqNum
      /\ source.cursor \in OptSeqNum /\ None \in OptSeqNum
      /\ source.cursor <= manifest.produced /\ manifest.dequeued <= source.cursor
  BY Before DEF Drained, FlowTypeOK, OptSeqNum, Tracking
<1>1. /\ written' = written /\ coord' = coord /\ queue' = queue /\ worker' = worker
      /\ crashes' = crashes
  BY SMTT(30) DEF Drained
<1>2. /\ Uncommitted = {} /\ Pipeline = {} /\ queue.completion = <<>>
      /\ coord.pending = {} /\ actor.unsent = <<>> /\ ActorRunning
      /\ ~actor.dryRun => 0 .. source.cursor \subseteq written
      /\ ~actor.dryRun /\ source.pendingAck = None => manifest.dequeued = source.cursor
      /\ ~actor.dryRun /\ source.pendingAck # None => source.pendingAck = source.cursor
  BY DrainedState
<1>3. \A v \in OptSeqNum :
        /\ [source EXCEPT !.pendingAck = v] \in [cursor : OptSeqNum, pendingAck : OptSeqNum]
        /\ [source EXCEPT !.pendingAck = v].cursor = source.cursor
        /\ [source EXCEPT !.pendingAck = v].pendingAck = v
        /\ [manifest EXCEPT !.dequeued = v] \in [produced : OptSeqNum, dequeued : OptSeqNum]
        /\ [manifest EXCEPT !.dequeued = v].produced = manifest.produced
        /\ [manifest EXCEPT !.dequeued = v].dequeued = v
  BY <1>0
<1>4. LET done == [actor EXCEPT !.pc = "ok"]
      IN /\ done \in ActorState /\ done.pc = "ok" /\ done.unsent = <<>>
         /\ done.dryRun = actor.dryRun
  BY <1>0, <1>2 DEF ActorState
<1>5. /\ source' \in [cursor : OptSeqNum, pendingAck : OptSeqNum] /\ source'.cursor = source.cursor
      /\ manifest' \in [produced : OptSeqNum, dequeued : OptSeqNum]
      /\ manifest'.produced = manifest.produced
      /\ actor' \in ActorState /\ actor'.pc \in {"ok", "failed"} /\ actor'.unsent = <<>>
      /\ actor'.dryRun = actor.dryRun /\ token' \in [shutdown : BOOLEAN, abort : BOOLEAN]
      /\ manifest'.dequeued \in {manifest.dequeued, source.cursor}
      /\ source'.pendingAck \in {source.pendingAck, None}
      /\ actor.dryRun => manifest' = manifest /\ source' = source
      /\ actor'.pc = "ok" => actor.dryRun \/ manifest'.dequeued = source.cursor
  <2>1. CASE actor.dryRun /\ actor' = [actor EXCEPT !.pc = "ok"] /\ UNCHANGED <<source, manifest, token>>
    BY Zenon, <1>0, <1>4, <2>1
  <2>2. CASE /\ ~actor.dryRun /\ FlushOk(source.pendingAck) /\ actor' = [actor EXCEPT !.pc = "ok"]
             /\ UNCHANGED token
    <3> DEFINE v == IF source.pendingAck = None THEN manifest.dequeued ELSE source.pendingAck
    <3>1. v = source.cursor
      BY <1>2, <2>2
    <3>2. source' = [source EXCEPT !.pendingAck = None] /\ manifest' = [manifest EXCEPT !.dequeued = v]
      BY <2>2 DEF FlushOk
    <3> HIDE DEF v
    <3>3. /\ source' \in [cursor : OptSeqNum, pendingAck : OptSeqNum]
          /\ source'.cursor = source.cursor /\ source'.pendingAck = None
          /\ manifest' \in [produced : OptSeqNum, dequeued : OptSeqNum]
          /\ manifest'.produced = manifest.produced /\ manifest'.dequeued = source.cursor
      BY <1>0, <1>3, <3>1, <3>2
    <3> QED
      BY <1>0, <1>4, <2>2, <3>3
  <2>3. CASE ~actor.dryRun /\ FlushFails(source.pendingAck) /\ ActorFails("failed")
    <3>1. source.pendingAck = source.cursor
      BY <1>2, <2>3 DEF FlushFails
    <3>2. source' = [source EXCEPT !.pendingAck = source.pendingAck]
      BY <2>3 DEF FlushFails, AckThrough
    <3>3. PICK moved \in {manifest.dequeued, source.cursor} :
            manifest' = [manifest EXCEPT !.dequeued = moved]
      BY <2>3, <3>1 DEF FlushFails
    <3>4. moved \in OptSeqNum
      BY <1>0
    <3>5. /\ source' \in [cursor : OptSeqNum, pendingAck : OptSeqNum]
          /\ source'.cursor = source.cursor /\ source'.pendingAck = source.pendingAck
          /\ manifest' \in [produced : OptSeqNum, dequeued : OptSeqNum]
          /\ manifest'.produced = manifest.produced /\ manifest'.dequeued = moved
      BY SMTT(30), <1>0, <1>3, <3>2, <3>3, <3>4
    <3>6. /\ actor' \in ActorState /\ actor'.pc = "failed" /\ actor'.unsent = <<>>
          /\ actor'.dryRun = actor.dryRun /\ token' \in [shutdown : BOOLEAN, abort : BOOLEAN]
      BY <1>0, <2>3, SelectFails
    <3> QED
      BY <2>3, <3>3, <3>5, <3>6
  <2> QED
    BY <2>1, <2>2, <2>3 DEF Drained
<1>6. ~ActorRunning'
  BY SMTT(30), <1>5 DEF ActorRunning
<1>7. Uncommitted' = {} /\ Reported' = {} /\ queue'.completion = <<>> /\ coord'.pending = {}
  BY <1>0, <1>1, <1>2 DEF Uncommitted, Reported, Reporting
<1>8. lane' = lane /\ unreported' = unreported
  BY SMTT(30), <1>1, <1>2, <1>5 DEF lane, unreported
<1>9. Pipeline' = {}
  BY <1>2, <1>8 DEF Pipeline, In
<1>10. FlowTypeOK'
  BY Zenon, <1>0, <1>1, <1>5 DEF FlowTypeOK, ActorState
<1>11. Tracking'
  <2>1. coord.lastHigh # None =>
          /\ manifest.dequeued <= Floor(coord)
          /\ ~(Floor(coord) < source.cursor) /\ Floor(coord) \in OptSeqNum
    BY Zenon, <1>0, <1>2 DEF Tracking, Tracks, Coordinator, Floor
  <2>2. coord.lastHigh # None => manifest'.dequeued <= Floor(coord)
    BY SMTT(30), <1>0, <1>5, <2>1 DEF OptSeqNum, SeqNums, None
  <2>3. coord.lastHigh = None => manifest'.dequeued = source.cursor
    BY SMTT(30), <1>0, <1>5 DEF Tracking
  <2>4. manifest'.dequeued <= source.cursor
    BY SMTT(30), <1>0, <1>5 DEF OptSeqNum, SeqNums, None
  <2>5. Tracks(coord', source'.cursor + 1, (0 .. source'.cursor) \ Uncommitted')
    BY <1>0, <1>1, <1>2, <1>5, <1>7 DEF Tracking
  <2> QED
    BY Zenon, <1>0, <1>1, <1>5, <2>1, <2>2, <2>3, <2>4, <2>5 DEF Tracking
<1>12. Reporting'
  <2>1. Apart(lane', unreported')
    BY <1>0, <1>8 DEF Reporting
  <2>2. DOMAIN queue'.completion = {}
    BY <1>7
  <2> QED
    BY <1>6, <1>7, <1>9, <2>1, <2>2 DEF Reporting
<1>13. Delivering'
  <2>1. 0 .. manifest'.dequeued \subseteq written'
    BY Zenon, <1>0, <1>1, <1>2, <1>5 DEF Delivering
  <2>2. 0 .. source'.pendingAck \subseteq written'
    <3>1. 0 .. None = {}
      BY DEF None
    <3> QED
      BY Zenon, <1>0, <1>1, <1>5, <3>1 DEF Delivering
  <2>3. actor'.dryRun => source'.pendingAck = None
    BY Zenon, <1>0, <1>5 DEF Delivering
  <2>4. ~actor'.dryRun =>
          /\ (0 .. source'.cursor) \ Uncommitted' \subseteq written'
          /\ Reported' \subseteq written'
          /\ \A w \in Workers : worker'[w].pc = "report" => worker'[w].seq \in written'
    BY Zenon, <1>0, <1>1, <1>2, <1>5, <1>7 DEF Delivering
  <2>5. written' \subseteq 0 .. manifest'.produced
    BY Zenon, <1>0, <1>1, <1>5 DEF Delivering
  <2> QED
    BY Zenon, <1>6, <2>1, <2>2, <2>3, <2>4, <2>5 DEF Delivering
<1>14. CleanExit'
  <2>1. Elems(actor'.unsent) = {} /\ Elems(queue'.descriptor) = {} /\ Elems(queue'.fetched) = {}
        /\ Elems(queue'.commit) = {}
    <3>1. lane \in [Lanes -> Seq(SeqNums)]
      BY FlowNow DEF Flow
    <3>2. \A l \in Lanes : Elems(lane[l]) \subseteq SeqNums
      BY SMTT(30), <3>1, NoneInNoLane
    <3>3. \A l \in Lanes : Elems(lane[l]) = {}
      BY SMTT(30), <1>2, <3>2 DEF Pipeline, In
    <3> QED
      BY <1>1, <1>2, <1>5, <3>3, LaneIs DEF Lanes
  <2>2. Units' \subseteq Owned'
    BY <2>1 DEF Units
  <2> QED
    BY SMTT(30), <1>5, <1>7, <2>2 DEF CleanExit
<1>15. CoordinatorNeverRejects'
  BY <1>5 DEF CoordinatorNeverRejects
<1>16. [Delivery!Next]_(Delivery!vars)
  <2>1. CASE manifest'.dequeued = manifest.dequeued
    BY <1>1, <1>5, <2>1 DEF Delivery!vars
  <2>2. CASE manifest'.dequeued # manifest.dequeued
    <3>1. manifest'.dequeued = source.cursor /\ ~actor.dryRun
      BY <1>5, <2>2
    <3>2. manifest.dequeued < source.cursor
      BY SMTT(30), <1>0, <2>2, <3>1 DEF OptSeqNum, SeqNums, None
    <3>3. \A e \in manifest.dequeued + 1 .. source.cursor : e \in written
      <4>1. manifest.dequeued + 1 .. source.cursor \subseteq 0 .. source.cursor
        BY SMTT(30), <1>0 DEF OptSeqNum, SeqNums, None
      <4> QED
        BY <1>2, <3>1, <4>1
    <3>4. Delivery!Dequeue
      BY <1>0, <1>1, <1>5, <3>1, <3>2, <3>3 DEF Delivery!Dequeue
    <3> QED
      BY <3>4 DEF Delivery!Next
  <2> QED
    BY <2>1, <2>2
<1> QED
  BY <1>10, <1>11, <1>12, <1>13, <1>14, <1>15, <1>16 DEF IInv

-----------------------------------------------------------------------------
(* A process that has just been started over the manifest and the sink. *)
JustStarted ==
  /\ manifest \in [produced : OptSeqNum, dequeued : OptSeqNum]
  /\ manifest.dequeued <= manifest.produced
  /\ 0 .. manifest.dequeued \subseteq written /\ written \subseteq 0 .. manifest.produced
  /\ crashes \in 0 .. MaxCrashes
  /\ \E baseline \in {None, manifest.dequeued}, dryRun \in DryRuns :
       coord = New(baseline) /\ actor = FreshActor(baseline, dryRun)
  /\ source = FreshSource(manifest.dequeued)
  /\ queue = FreshQueue /\ worker = FreshWorkers /\ token = FreshToken

(* A runtime that just started from the durable manifest satisfies the     *)
(* invariant.                                                              *)
LEMMA JustStartedIInv == JustStarted => IInv
<1> SUFFICES ASSUME JustStarted
             PROVE  IInv
  OBVIOUS
<1> USE MaxSeqAssumption
<1>0. /\ manifest \in [produced : OptSeqNum, dequeued : OptSeqNum]
      /\ manifest.dequeued \in OptSeqNum /\ manifest.produced \in OptSeqNum
      /\ manifest.dequeued <= manifest.produced
  BY DEF JustStarted
<1>1. PICK baseline \in {None, manifest.dequeued}, dryRun \in DryRuns :
        coord = New(baseline) /\ actor = FreshActor(baseline, dryRun)
  BY DEF JustStarted
<1>2. baseline \in OptSeqNum /\ None \in OptSeqNum /\ None \notin SeqNums
  BY <1>0 DEF OptSeqNum, SeqNums, None
<1>3. /\ source = [cursor |-> manifest.dequeued, pendingAck |-> None]
      /\ source.cursor = manifest.dequeued /\ source.pendingAck = None
      /\ queue = FreshQueue /\ worker = FreshWorkers /\ token = FreshToken
      /\ crashes \in 0 .. MaxCrashes
  BY DEF JustStarted, FreshSource
<1>4. /\ queue.descriptor = <<>> /\ queue.fetched = <<>> /\ queue.commit = <<>>
      /\ queue.completion = <<>> /\ queue \in QueueState
  BY SMTT(30), <1>3 DEF FreshQueue, QueueState
<1>5. /\ actor \in ActorState /\ actor.pc = "select" /\ actor.unsent = <<>>
      /\ actor.inFlight = 0 /\ actor.lastAck = baseline /\ actor.dryRun = dryRun
  <2>1. actor = [pc |-> "select", dryRun |-> dryRun, open |-> TRUE, inFlight |-> 0,
                 lastAck |-> baseline, groups |-> 0, unsent |-> <<>>]
    BY <1>1 DEF FreshActor
  <2>2. <<>> \in Seq(SeqNums) /\ 0 \in Nat /\ TRUE \in BOOLEAN
    OBVIOUS
  <2> QED
    BY SMTT(30), <1>1, <1>2, <2>1, <2>2 DEF ActorState
<1>6. /\ worker \in [Workers -> WorkerState]
      /\ \A w \in Workers : worker[w].pc = "idle" /\ worker[w].seq = None
  BY Zenon, <1>3, IdleState DEF FreshWorkers
<1>7. /\ coord.initial = baseline /\ coord.lastHigh = None /\ coord.frontier = None
      /\ coord.pending = {}
  BY <1>1 DEF New
<1>8. Uncommitted = {}
  BY <1>7 DEF Uncommitted
<1>9. FlowTypeOK
  <2>1. token \in [shutdown : BOOLEAN, abort : BOOLEAN]
    BY <1>3 DEF FreshToken
  <2>2. source \in [cursor : OptSeqNum, pendingAck : OptSeqNum]
    BY SMTT(30), <1>0, <1>2, <1>3
  <2> QED
    BY Zenon, <1>0, <1>3, <1>4, <1>5, <1>6, <2>1, <2>2 DEF FlowTypeOK, ActorState, QueueState
<1>10. Tracking
  <2>1. Tracks(coord, source.cursor + 1, (0 .. source.cursor) \ Uncommitted)
    <3> DEFINE next == manifest.dequeued + 1
               done == 0 .. manifest.dequeued
    <3>1. next \in 0 .. MaxSeq + 1 /\ (baseline # None => next = baseline + 1)
          /\ done \subseteq 0 .. next - 1
      BY <1>0, <1>1 DEF OptSeqNum, SeqNums, None
    <3> HIDE DEF next, done
    <3>2. Tracks(New(baseline), next, done)
      BY Zenon, <1>2, <3>1, NewTracks
    <3>3. (0 .. source.cursor) \ Uncommitted = done
      BY <1>3, <1>8 DEF done
    <3> QED
      BY <1>1, <1>3, <3>2, <3>3 DEF next
  <2>2. manifest.dequeued <= manifest.dequeued
    BY <1>0 DEF OptSeqNum, SeqNums, None
  <2> QED
    BY <1>0, <1>3, <1>7, <2>1, <2>2 DEF Tracking
<1>11. /\ \A l \in Lanes : lane[l] = <<>>
       /\ \A w \in Workers : unreported[w] = None
  BY <1>4, <1>5, <1>6 DEF lane, Lanes, unreported
<1>12. \A l \in Lanes : DOMAIN lane[l] = {} /\ Elems(lane[l]) = {}
  BY <1>11 DEF Elems
<1>13. Apart(lane, unreported)
  BY Zenon, <1>11, <1>12 DEF Apart
<1>14. Pipeline = {} /\ Reported = {} /\ DOMAIN queue.completion = {}
       /\ Elems(queue.completion) = {}
  BY SMTT(30), <1>2, <1>4, <1>11, <1>12 DEF Pipeline, In, Reported, Elems
<1>15. Reporting
  BY <1>5, <1>8, <1>13, <1>14, FS_EmptySet DEF Reporting
<1>16. Delivering
  <2>1. 0 .. source.pendingAck = {}
    BY <1>3 DEF None
  <2>2. baseline <= manifest.dequeued
    BY <1>0, <1>1 DEF OptSeqNum, SeqNums, None
  <2>3. 0 .. manifest.dequeued \subseteq written /\ written \subseteq 0 .. manifest.produced
    BY DEF JustStarted
  <2> QED
    BY Zenon, <1>3, <1>5, <1>6, <1>7, <1>8, <1>14, <2>1, <2>2, <2>3 DEF Delivering
<1>17. CleanExit /\ CoordinatorNeverRejects
  BY <1>5 DEF CleanExit, CoordinatorNeverRejects
<1> QED
  BY <1>9, <1>10, <1>15, <1>16, <1>17 DEF IInv

(* The initial states satisfy the invariant and are initial states of the  *)
(* delivery promise.                                                       *)
LEMMA InitIInv == Init => IInv /\ Delivery!Init
<1> SUFFICES ASSUME Init
             PROVE  IInv /\ Delivery!Init
  OBVIOUS
<1>1. manifest = [produced |-> None, dequeued |-> None] /\ written = {} /\ crashes = 0
  BY DEF Init
<1>2. /\ manifest \in [produced : OptSeqNum, dequeued : OptSeqNum]
      /\ manifest.produced = None /\ manifest.dequeued = None
  BY SMTT(30), <1>1 DEF OptSeqNum
<1>3. manifest.dequeued <= manifest.produced /\ 0 .. manifest.dequeued = {}
      /\ crashes \in 0 .. MaxCrashes
  BY SMTT(30), <1>1, <1>2, RuntimeAssumption DEF None
<1>4. JustStarted
  BY <1>1, <1>2, <1>3 DEF Init, JustStarted
<1>5. Delivery!Init
  BY <1>1, <1>2 DEF Delivery!Init, None
<1> QED
  BY <1>4, <1>5, JustStartedIInv

(* A crash loses all but the manifest and the sink, and the next run       *)
(* starts from those.                                                      *)
LEMMA CrashKeeps ==
  ASSUME IInv, Crash
  PROVE  IInv' /\ [Delivery!Next]_(Delivery!vars)
<1> USE MaxSeqAssumption
<1>0. /\ FlowTypeOK /\ Tracking /\ Reporting /\ Delivering
      /\ manifest.dequeued \in OptSeqNum /\ manifest.produced \in OptSeqNum
      /\ source.cursor \in OptSeqNum
      /\ manifest \in [produced : OptSeqNum, dequeued : OptSeqNum]
  BY Before
<1>1. manifest.dequeued <= manifest.produced
  BY <1>0 DEF Tracking, OptSeqNum, SeqNums, None
<1>2. manifest' = manifest
  BY SMTT(30) DEF Crash
<1>3. \A w \in Writers : worker[w].pc \in {"busy", "hung"} => worker[w].seq \in 0 .. manifest.produced
  BY AtWorker DEF Workers
<1>4. PICK landed \in SUBSET Writing : written' = written \cup landed
  BY DEF Crash
<1>5. landed \subseteq 0 .. manifest.produced
  BY <1>3 DEF Writing
<1>6. /\ written \subseteq written' /\ 0 .. manifest.dequeued \subseteq written
      /\ written' \subseteq 0 .. manifest.produced
  BY Zenon, <1>0, <1>4, <1>5 DEF Delivering
<1>7. crashes' \in 0 .. MaxCrashes
  BY SMTT(30), <1>0, RuntimeAssumption DEF Crash, FlowTypeOK
<1>8. JustStarted'
  BY <1>0, <1>1, <1>2, <1>6, <1>7 DEF Crash, JustStarted
<1>9. IInv'
  BY <1>8, JustStartedIInv, PTL
<1>10. \A e \in written' \ written : e \in manifest.dequeued + 1 .. manifest.produced
  BY <1>0, <1>6 DEF OptSeqNum, SeqNums, None
<1>11. Delivery!Deliver
  BY <1>2, <1>6, <1>10 DEF Delivery!Deliver
<1> QED
  BY <1>9, <1>11 DEF Delivery!Next

(* A completion handled by the actor, Committed or Fatal. *)
LEMMA CompleteKeeps ==
  ASSUME IInv, Complete
  PROVE  IInv' /\ [Delivery!Next]_(Delivery!vars)
BY FatalCompletionKeeps, CommittedCompletionKeeps

(* Every step keeps the invariant and is a step of AtLeastOnce. *)
LEMMA NextKeeps ==
  ASSUME IInv, [Next]_vars
  PROVE  IInv' /\ [Delivery!Next]_(Delivery!vars)
<1>1. CASE UNCHANGED vars
  <2>1. UNCHANGED <<manifest, written, source, coord, queue, worker, crashes, actor, token>>
    BY <1>1 DEF vars
  <2>2. /\ manifest \in [produced : OptSeqNum, dequeued : OptSeqNum] /\ manifest.produced \in OptSeqNum
        /\ actor \in ActorState /\ token \in [shutdown : BOOLEAN, abort : BOOLEAN]
    BY Before DEF FlowTypeOK
  <2>3. manifest.produced <= manifest.produced
    BY <2>2, MaxSeqAssumption DEF OptSeqNum, SeqNums, None
  <2> QED
    BY <2>1, <2>2, <2>3, QuietKeeps, DeliveryStutters
<1>2. CASE Produce \/ RequestShutdown
  BY <1>2, ProduceKeeps, RequestShutdownKeeps
<1>3. CASE Admit
  BY <1>3, AdmitKeeps
<1>4. CASE SourceError \/ Orphaned
  BY <1>4, StopKeeps
<1>5. CASE AdmitSend
  BY <1>5, AdmitSendKeeps
<1>6. CASE CloseAdmission
  BY <1>6, CloseAdmissionKeeps
<1>7. CASE Complete
  BY <1>7, CompleteKeeps
<1>8. CASE Drained
  BY <1>8, DrainedKeeps
<1>9. CASE \/ \E w \in Fetchers : FetchStep(w)
           \/ \E w \in Decoders : DecodeStep(w)
           \/ \E w \in Writers : WriterStep(w)
           \/ \E w \in Workers : WorkerFault(w) \/ AbortWorker(w)
  <2>1. Works
    BY <1>9, WorkerSteps
  <2> QED
    BY <2>1, WorksKeeps
<1>10. CASE Crash
  BY <1>10, CrashKeeps
<1> QED
  BY <1>1, <1>2, <1>3, <1>4, <1>5, <1>6, <1>7, <1>8, <1>9, <1>10 DEF Next

-----------------------------------------------------------------------------
(* The inductive invariant holds of every behaviour, for every number of   *)
(* workers, every bound and every choice of the faults.                    *)
THEOREM RuntimeInvariant == Spec => []IInv
<1>1. Init => IInv
  BY InitIInv
<1>2. IInv /\ [Next]_vars => IInv'
  BY NextKeeps
<1> QED
  BY <1>1, <1>2, PTL DEF Spec

(* Nothing is acked, or about to be made durable by a flush, that is not   *)
(* in the sink, across restarts in live and in dry-run mode.               *)
THEOREM NoAckBeforeCommit == Spec => []AckedIsWritten
<1>1. IInv => AckedIsWritten
  <2> SUFFICES ASSUME IInv, NEW s \in SeqNums,
                      s <= manifest.dequeued \/ s <= source.pendingAck
               PROVE  s \in written
    BY SMTT(30) DEF AckedIsWritten
  <2>1. 0 .. manifest.dequeued \subseteq written /\ 0 .. source.pendingAck \subseteq written
        /\ manifest.dequeued \in OptSeqNum /\ source.pendingAck \in OptSeqNum
    BY Before DEF Delivering
  <2> QED
    BY <2>1, MaxSeqAssumption DEF OptSeqNum, SeqNums, None
<1> QED
  BY <1>1, RuntimeInvariant, PTL

(* register_pending and mark_committed never fail in the actor's hands. *)
THEOREM CoordinatorAcceptsAll == Spec => []CoordinatorNeverRejects
<1>1. IInv => CoordinatorNeverRejects
  BY DEF IInv
<1> QED
  BY <1>1, RuntimeInvariant, PTL

(* Ok(()) from run means drained, committed, acked and flushed. *)
THEOREM OkMeansDrained == Spec => []CleanExit
<1>1. IInv => CleanExit
  BY DEF IInv
<1> QED
  BY <1>1, RuntimeInvariant, PTL

(* The runtime with its crashes delivers every sequence at least once. *)
THEOREM RuntimeDeliversAtLeastOnce == Spec => ImplementsAtLeastOnce
<1>1. Init => Delivery!Init
  BY InitIInv
<1>2. IInv /\ [Next]_vars => [Delivery!Next]_(Delivery!vars)
  BY NextKeeps
<1> QED
  BY <1>1, <1>2, RuntimeInvariant, PTL DEF Spec, ImplementsAtLeastOnce, Delivery!Spec
=============================================================================
