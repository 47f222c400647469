------------------------ MODULE AckCoordinatorProofs ------------------------
(***************************************************************************)
(* Proofs about AckCoordinator for every MaxSeq.                           *)
(***************************************************************************)
EXTENDS AckCoordinator, OperatorProofs

-----------------------------------------------------------------------------
(* The state a fresh coordinator starts in satisfies the invariant. *)
LEMMA InitIInv == Init => IInv
<1> SUFFICES ASSUME Init PROVE IInv
  OBVIOUS
<1> USE MaxSeqAssumption
<1>1. PICK initial \in OptSeqNum \ {MaxSeq} : coord = New(initial)
  BY DEF Init
<1>2. admitted = {} /\ marked = {}
  BY DEF Init
<1>3. TypeOK
  BY <1>1, <1>2 DEF TypeOK, Coordinator, New, OptSeqNum, SeqNums, None
<1>4. FieldsAgree
  BY <1>1, <1>2 DEF FieldsAgree, New, OptSeqNum, SeqNums, None
<1>5. PendingTilesTail
  BY <1>1, <1>2 DEF PendingTilesTail, New, OptSeqNum, SeqNums, None, Floor
<1>6. MarksAgree
  BY <1>1, <1>2 DEF MarksAgree, New
<1>7. FrontierNeverOverHole
  BY <1>1, <1>2 DEF FrontierNeverOverHole, New, SeqNums, None
<1> QED
  BY <1>3, <1>4, <1>5, <1>6, <1>7 DEF IInv

-----------------------------------------------------------------------------
(* An accepted register_pending starts right above everything registered:  *)
(* the neighbour and frontier checks are what rules out the saturated      *)
(* successor of u64::MAX.                                                  *)
LEMMA RegisterIsNext ==
  ASSUME IInv, NEW low \in SeqNums, NEW high \in SeqNums,
         RegisterAccepts(coord, low, high)
  PROVE  /\ low <= high
         /\ coord.lastHigh # None => low = coord.lastHigh + 1
         /\ coord.lastHigh = None => (coord.initial # None => low = coord.initial + 1)
<1> USE MaxSeqAssumption DEF IInv, TypeOK, Coordinator, OptSeqNum, SeqNums, None
<1>1. low <= high
  BY DEF RegisterAccepts
<1>2. ASSUME coord.lastHigh = None, coord.initial # None
      PROVE  low = coord.initial + 1
  BY <1>2 DEF RegisterAccepts, SaturatingSucc, FieldsAgree
<1>3. ASSUME coord.lastHigh # None
      PROVE  low = coord.lastHigh + 1
  <2>1. low = SaturatingSucc(coord.lastHigh)
    BY <1>3 DEF RegisterAccepts
  <2>2. CASE coord.lastHigh # MaxSeq
    BY <2>1, <2>2 DEF SaturatingSucc
  <2>3. CASE coord.lastHigh = MaxSeq
    <3>1. low = MaxSeq /\ high = MaxSeq
      BY <2>1, <2>3, <1>1 DEF SaturatingSucc
    <3>2. Floor(coord) < MaxSeq
      BY <3>1, <1>3, <2>3 DEF Floor, FieldsAgree, RegisterAccepts
    <3>3. PICK r \in coord.pending : Covers(r, MaxSeq)
      BY <3>2, <2>3 DEF PendingTilesTail
    <3>4. r \in PendingRange
      BY <3>3
    <3>5. \A q \in coord.pending : q.low <= r.low
      BY <3>3, <3>4 DEF PendingTilesTail, Covers, PendingRange
    <3>6. BelowNeighbour(coord, high, r)
      BY <3>1, <3>3, <3>4, <3>5 DEF BelowNeighbour, Covers
    <3>7. r.high < low
      BY <3>3, <3>6 DEF RegisterAccepts
    <3> QED
      BY <3>1, <3>3, <3>4, <3>7 DEF Covers, PendingRange
  <2> QED
    BY <2>2, <2>3
<1> QED
  BY <1>1, <1>2, <1>3

(* Registration keeps the invariant. *)
LEMMA RegisterIInv ==
  ASSUME IInv, NEW low \in SeqNums, NEW high \in SeqNums,
         RegisterPending(low, high)
  PROVE  IInv'
<1> DEFINE new == [low |-> low, high |-> high, committed |-> FALSE]
<1>1. RegisterAccepts(coord, low, high)
  BY DEF RegisterPending
<1>2. /\ low <= high
      /\ coord.lastHigh # None => low = coord.lastHigh + 1
      /\ coord.lastHigh = None => (coord.initial # None => low = coord.initial + 1)
  BY <1>1, RegisterIsNext
<1>3. /\ coord \in Coordinator /\ coord.pending \subseteq PendingRange
      /\ low \in Int /\ high \in Int /\ MaxSeq \in Int
      /\ coord.lastHigh \in Int /\ coord.baseline \in Int
      /\ coord.frontier \in Int /\ coord.initial \in Int
  BY MaxSeqAssumption DEF IInv, TypeOK, Coordinator, OptSeqNum, SeqNums, None
<1>4. \A r \in coord.pending : r.low # low
  BY <1>2, <1>3 DEF IInv, FieldsAgree, PendingTilesTail, New, PendingRange,
     SeqNums, None
<1>5. /\ coord' \in Coordinator
      /\ coord'.pending = coord.pending \cup {new}
      /\ coord'.lastHigh = high
      /\ coord'.fixed
      /\ coord'.frontier = coord.frontier
      /\ coord'.initial = coord.initial
      /\ coord'.baseline = IF coord.lastHigh = None THEN low - 1 ELSE coord.baseline
  <2>1. coord' = Registered(coord, low, high)
    BY DEF RegisterPending
  <2>2. {r \in coord.pending : r.low # low} = coord.pending
    BY <1>4
  <2>3. new \in PendingRange
    BY DEF PendingRange
  <2>4. coord.lastHigh = None =>
          coord.baseline = coord.initial /\ (coord.fixed <=> coord.initial # None)
    <3> SUFFICES ASSUME coord.lastHigh = None
                 PROVE  coord.baseline = coord.initial /\ (coord.fixed <=> coord.initial # None)
      OBVIOUS
    <3>1. coord = New(coord.initial)
      BY DEF IInv, FieldsAgree
    <3>2. New(coord.initial).fixed = (coord.initial # None)
      BY DEF New
    <3>3. New(coord.initial).baseline = coord.initial
      BY DEF New
    <3> QED
      BY Zenon, <3>1, <3>2, <3>3
  <2>5. coord.lastHigh # None => coord.fixed
    BY DEF IInv, FieldsAgree
  <2> DEFINE b == IF coord.fixed THEN coord.baseline
                  ELSE IF low = 0 THEN None ELSE low - 1
  <2>6. b = IF coord.lastHigh = None THEN low - 1 ELSE coord.baseline
    BY <1>2, <1>3, <2>4, <2>5 DEF None
  <2>7. b \in OptSeqNum
    BY <1>3, MaxSeqAssumption DEF Coordinator, OptSeqNum, SeqNums, None
  <2>8. coord' = [coord EXCEPT !.baseline = b, !.fixed = TRUE,
                              !.pending = coord.pending \cup {new},
                              !.lastHigh = high]
    BY Zenon, <2>1, <2>2 DEF Registered
  <2>9. high \in OptSeqNum
    BY DEF OptSeqNum
  <2> HIDE DEF b, new
  <2> QED
    BY Zenon, <1>3, <2>3, <2>6, <2>7, <2>8, <2>9 DEF Coordinator
<1>6. admitted' = admitted \cup (low .. high) /\ marked' = marked
  BY DEF RegisterPending
<1>7. TypeOK'
  BY <1>3, <1>5, <1>6 DEF IInv, TypeOK, SeqNums
<1>8. /\ coord.lastHigh = None =>
           /\ coord.pending = {} /\ coord.frontier = None
           /\ admitted = {} /\ marked = {}
      /\ coord.lastHigh # None => coord.frontier <= coord.lastHigh
  BY <1>3 DEF IInv, TypeOK, FieldsAgree, MarksAgree, New, SeqNums, None
<1>9. FieldsAgree'
  BY <1>2, <1>3, <1>5, <1>6, <1>8 DEF IInv, FieldsAgree, SeqNums, None
<1>10. Floor(coord') = IF coord.lastHigh = None THEN low - 1 ELSE Floor(coord)
  BY <1>5, <1>8 DEF Floor
<1>11. PendingTilesTail'
  <2>1. \A r \in coord.pending : coord.lastHigh # None /\ r.high <= coord.lastHigh
                                  /\ Floor(coord) < r.low /\ r.low <= r.high
    BY <1>8 DEF IInv, PendingTilesTail
  <2>2. \A r \in coord.pending : r.low \in Int /\ r.high \in Int
    BY <1>3 DEF PendingRange, SeqNums
  <2>3. Floor(coord) \in Int /\ (coord.lastHigh # None => Floor(coord) <= coord.lastHigh)
    BY <1>3 DEF Floor, IInv, FieldsAgree
  <2>4. \A r \in coord'.pending :
          Floor(coord') < r.low /\ r.low <= r.high /\ r.high <= coord'.lastHigh
    BY <1>2, <1>3, <1>5, <1>10, <2>1, <2>2, <2>3
  <2>5. \A s \in SeqNums :
          (Floor(coord') < s /\ s <= coord'.lastHigh)
             => \E r \in coord'.pending : Covers(r, s)
    <3> SUFFICES ASSUME NEW s \in SeqNums, Floor(coord') < s, s <= high
                 PROVE  \E r \in coord'.pending : Covers(r, s)
      BY <1>5
    <3>1. CASE s >= low
      <4>1. Covers(new, s)
        BY <3>1 DEF Covers
      <4> QED
        BY <4>1, <1>5
    <3>2. CASE s < low
      <4>1. coord.lastHigh # None /\ s <= coord.lastHigh /\ Floor(coord) < s
        BY <3>2, <1>2, <1>3, <1>10 DEF SeqNums
      <4>2. \E r \in coord.pending : Covers(r, s)
        BY <4>1 DEF IInv, PendingTilesTail
      <4> QED
        BY <4>2, <1>5
    <3> QED
      BY <3>1, <3>2, <1>3 DEF SeqNums
  <2>6. \A r, q \in coord'.pending : r # q => r.high < q.low \/ q.high < r.low
    <3>1. \A r \in coord.pending : r.high < new.low
      BY <1>2, <1>3, <2>1, <2>2
    <3> QED
      BY Zenon, <3>1, <1>5 DEF IInv, PendingTilesTail
  <2> QED
    BY <2>4, <2>5, <2>6 DEF PendingTilesTail
<1>12. MarksAgree'
  <2>1. \A s \in marked : s < low
    BY <1>2, <1>3, <1>8 DEF IInv, MarksAgree, FieldsAgree, TypeOK, SeqNums
  <2>2. \A s \in SeqNums : Covers(new, s) => s \notin marked
    BY <2>1, <1>3 DEF Covers, SeqNums
  <2>3. marked' \subseteq admitted'
    BY <1>6 DEF IInv, MarksAgree
  <2>4. ASSUME NEW r \in coord'.pending, NEW s \in SeqNums, Covers(r, s)
        PROVE  s \in marked' <=> r.committed
    <3>1. CASE r \in coord.pending
      BY <3>1, <2>4, <1>6 DEF IInv, MarksAgree
    <3>2. CASE r = new
      BY Zenon, <3>2, <2>4, <2>2, <1>6
    <3> QED
      BY <3>1, <3>2, <1>5
  <2> QED
    BY <2>3, <2>4 DEF MarksAgree
<1>13. FrontierNeverOverHole'
  BY <1>3, <1>5, <1>6, <1>8 DEF IInv, FrontierNeverOverHole, SeqNums, None
<1> QED
  BY <1>7, <1>9, <1>11, <1>12, <1>13 DEF IInv

-----------------------------------------------------------------------------
(* Marking keeps the invariant: the only range whose bit changes is the    *)
(* one whose sequences are marked.                                         *)
LEMMA MarkIInv ==
  ASSUME IInv, NEW low \in SeqNums, NEW high \in SeqNums,
         MarkCommitted(low, high)
  PROVE  IInv'
<1>1. PICK r \in coord.pending : r.low = low /\ r.high = high
  BY DEF MarkCommitted, MarkAccepts
<1> DEFINE done == [r EXCEPT !.committed = TRUE]
<1>2. /\ coord \in Coordinator /\ coord.pending \subseteq PendingRange
      /\ low \in Int /\ high \in Int
      /\ \A q \in coord.pending : q.low \in Int /\ q.high \in Int
  BY MaxSeqAssumption DEF IInv, TypeOK, Coordinator, PendingRange, SeqNums
<1>3. \A q \in coord.pending : q.low = low => q = r
  BY <1>1, <1>2 DEF IInv, PendingTilesTail
<1>4. /\ done \in PendingRange /\ done.low = low /\ done.high = high
      /\ done.committed = TRUE
  BY Zenon, <1>1, <1>2 DEF PendingRange
<1>5. {[q EXCEPT !.committed = TRUE] : q \in {q \in coord.pending : q.low = low}}
        = {done}
  BY <1>1, <1>3
<1>6. coord' = [coord EXCEPT !.pending =
                  {q \in coord.pending : q.low # low} \cup {done}]
  BY <1>5 DEF MarkCommitted, Committed
<1>7. /\ coord' \in Coordinator
      /\ coord'.pending = {q \in coord.pending : q.low # low} \cup {done}
      /\ coord'.initial = coord.initial /\ coord'.baseline = coord.baseline
      /\ coord'.fixed = coord.fixed /\ coord'.frontier = coord.frontier
      /\ coord'.lastHigh = coord.lastHigh
  <2> HIDE DEF done
  <2> QED
    BY <1>2, <1>4, <1>6 DEF Coordinator
<1>8. admitted' = admitted /\ marked' = marked \cup (low .. high)
  BY DEF MarkCommitted
<1>9. Floor(coord') = Floor(coord)
  BY <1>7 DEF Floor
<1>10. /\ Floor(coord) < low /\ low <= high /\ high <= coord.lastHigh
       /\ coord.baseline <= Floor(coord)
       /\ coord.lastHigh # None
  BY <1>1, <1>2 DEF IInv, PendingTilesTail, FieldsAgree, New, Floor, Coordinator,
     OptSeqNum, SeqNums, None
<1>11. TypeOK'
  <2>1. low .. high \subseteq SeqNums
    BY MaxSeqAssumption DEF SeqNums
  <2> QED
    BY <2>1, <1>7, <1>8 DEF IInv, TypeOK
<1>12. FieldsAgree'
  BY <1>7, <1>8, <1>10 DEF IInv, FieldsAgree
<1> HIDE DEF done
<1>13. PendingTilesTail'
  <2>1. \A q \in coord'.pending :
          Floor(coord') < q.low /\ q.low <= q.high /\ q.high <= coord'.lastHigh
    BY <1>4, <1>7, <1>9, <1>10 DEF IInv, PendingTilesTail
  <2>2. \A s \in SeqNums :
          (Floor(coord') < s /\ s <= coord'.lastHigh)
             => \E q \in coord'.pending : Covers(q, s)
    <3> SUFFICES ASSUME NEW s \in SeqNums, Floor(coord) < s, s <= coord.lastHigh
                 PROVE  \E q \in coord'.pending : Covers(q, s)
      BY <1>7, <1>9
    <3>1. PICK q \in coord.pending : Covers(q, s)
      BY DEF IInv, PendingTilesTail
    <3>2. CASE q.low # low
      BY <3>1, <3>2, <1>7
    <3>3. CASE q.low = low
      <4>1. q = r
        BY <3>3, <1>3
      <4>2. Covers(done, s)
        BY <4>1, <3>1, <1>1, <1>4 DEF Covers
      <4> QED
        BY <4>2, <1>7
    <3> QED
      BY <3>2, <3>3
  <2>3. \A p, q \in coord'.pending : p # q => p.high < q.low \/ q.high < p.low
    <3>1. \A q \in coord.pending : q.low # low => q.high < done.low \/ done.high < q.low
      BY <1>1, <1>4 DEF IInv, PendingTilesTail
    <3> QED
      BY <3>1, <1>7 DEF IInv, PendingTilesTail
  <2> QED
    BY <2>1, <2>2, <2>3 DEF PendingTilesTail
<1>14. MarksAgree'
  <2>1. \A s \in low .. high : s \in admitted
    BY <1>2, <1>10, MaxSeqAssumption DEF IInv, TypeOK, FieldsAgree, Coordinator,
       OptSeqNum, SeqNums, None, Floor
  <2>2. marked' \subseteq admitted'
    BY <2>1, <1>8 DEF IInv, MarksAgree
  <2>3. ASSUME NEW q \in coord'.pending, NEW s \in SeqNums, Covers(q, s)
        PROVE  s \in marked' <=> q.committed
    <3>1. CASE q = done
      <4>1. s \in low .. high
        BY <3>1, <2>3, <1>2, <1>4 DEF Covers, SeqNums
      <4> QED
        BY <4>1, <3>1, <1>4, <1>8
    <3>2. CASE q \in coord.pending /\ q.low # low
      <4>1. q.high < low \/ high < q.low
        BY <3>2, <1>1 DEF IInv, PendingTilesTail
      <4>2. s \notin low .. high
        BY <4>1, <2>3, <3>2, <1>2 DEF Covers, SeqNums
      <4>3. s \in marked <=> q.committed
        BY <3>2, <2>3 DEF IInv, MarksAgree
      <4> QED
        BY <4>2, <4>3, <1>8
    <3> QED
      BY <3>1, <3>2, <1>7
  <2> QED
    BY <2>2, <2>3 DEF MarksAgree
<1>15. FrontierNeverOverHole'
  BY <1>7, <1>8 DEF IInv, FrontierNeverOverHole
<1> QED
  BY <1>11, <1>12, <1>13, <1>14, <1>15 DEF IInv

-----------------------------------------------------------------------------
(* What advance_frontier leaves when it pops something: the new frontier   *)
(* is the high of the last popped range, and it separates the popped       *)
(* ranges, all committed, from the ones that stay.                         *)
LEMMA AdvanceCuts ==
  ASSUME IInv, coord.fixed, Popped(coord) # {}
  PROVE  LET m == LastOf(Popped(coord)) IN
         /\ m \in Popped(coord) /\ m \in coord.pending /\ m \in PendingRange
         /\ Floor(coord) < m.low /\ m.low <= m.high /\ m.high <= coord.lastHigh
         /\ \A q \in Popped(coord) : q.high <= m.high /\ q.committed
         /\ \A q \in coord.pending \ Popped(coord) : m.high < q.low
<1> DEFINE gone == Popped(coord)
           m == LastOf(gone)
<1>1. /\ gone \subseteq coord.pending /\ coord.pending \subseteq PendingRange
      /\ \A q \in coord.pending : q.low \in Int /\ q.high \in Int /\ q.low <= q.high
  BY MaxSeqAssumption
  DEF Popped, IInv, TypeOK, Coordinator, PendingRange, SeqNums, PendingTilesTail
<1>2. m \in gone /\ \A q \in gone : q.low <= m.low
  <2>1. gone \subseteq PendingRange /\ gone # {}
    BY <1>1
  <2> HIDE DEF gone
  <2> QED
    BY <2>1, LastOfRanges
<1>3. \A q \in gone : q.committed
  BY <1>1 DEF Popped
<1>4. \A q \in gone : q.high <= m.high
  BY <1>1, <1>2 DEF IInv, PendingTilesTail
<1>5. ASSUME NEW q \in coord.pending, q.low <= m.low
      PROVE  q \in gone
  <2> SUFFICES ASSUME NEW p \in coord.pending, p.low <= q.low
               PROVE  p.committed /\ Linked(coord, p)
    BY DEF Popped
  <2>1. p.low <= m.low
    BY <1>1, <1>2, <1>5
  <2> QED
    BY <2>1, <1>2 DEF Popped
<1>6. \A q \in coord.pending \ gone : m.high < q.low
  <2> SUFFICES ASSUME NEW q \in coord.pending, q \notin gone
               PROVE  m.high < q.low
    OBVIOUS
  <2>1. m.low < q.low /\ m # q
    BY <1>1, <1>2, <1>5
  <2> QED
    BY <2>1, <1>1, <1>2 DEF IInv, PendingTilesTail
<1>7. Floor(coord) < m.low /\ m.high <= coord.lastHigh
  BY <1>1, <1>2 DEF IInv, PendingTilesTail
<1> QED
  BY <1>1, <1>2, <1>3, <1>4, <1>6, <1>7

(* Advancing keeps the invariant. *)
LEMMA AdvanceIInv ==
  ASSUME IInv, AdvanceFrontier
  PROVE  IInv'
<1>1. CASE coord' = coord
  BY <1>1 DEF AdvanceFrontier, IInv, TypeOK, FieldsAgree, PendingTilesTail,
     MarksAgree, FrontierNeverOverHole
<1>2. CASE coord' # coord
  <2> DEFINE gone == Popped(coord)
             m == LastOf(gone)
  <2>1. /\ coord.fixed /\ gone # {}
        /\ coord' = [coord EXCEPT !.frontier = m.high, !.pending = coord.pending \ gone]
        /\ admitted' = admitted /\ marked' = marked
    BY <1>2 DEF AdvanceFrontier, Advanced
  <2>2. /\ m \in gone /\ m \in coord.pending /\ m \in PendingRange
        /\ Floor(coord) < m.low /\ m.low <= m.high /\ m.high <= coord.lastHigh
        /\ \A q \in gone : q.high <= m.high /\ q.committed
        /\ \A q \in coord.pending \ gone : m.high < q.low
    BY <2>1, AdvanceCuts
  <2>3. /\ coord \in Coordinator /\ coord.pending \subseteq PendingRange
        /\ m.low \in Int /\ m.high \in Int /\ m.high \in OptSeqNum /\ m.high >= 0
        /\ coord.frontier \in Int /\ coord.baseline \in Int /\ coord.lastHigh \in Int
        /\ \A q \in coord.pending : q.low \in Int /\ q.high \in Int
    BY <2>2, MaxSeqAssumption DEF IInv, TypeOK, Coordinator, PendingRange,
       OptSeqNum, SeqNums, None
  <2> HIDE DEF gone, m
  <2>4. /\ coord' \in Coordinator
        /\ coord'.pending = coord.pending \ gone
        /\ coord'.initial = coord.initial /\ coord'.baseline = coord.baseline
        /\ coord'.fixed = coord.fixed /\ coord'.frontier = m.high
        /\ coord'.lastHigh = coord.lastHigh
    BY Zenon, <2>1, <2>3 DEF Coordinator
  <2>5. /\ Floor(coord') = m.high
        /\ coord.lastHigh # None
        /\ coord.baseline <= Floor(coord) /\ Floor(coord) \in Int
    BY <2>2, <2>3, <2>4 DEF Floor, IInv, FieldsAgree, New, None
  <2>6. TypeOK'
    BY <2>1, <2>4 DEF IInv, TypeOK
  <2>7. FieldsAgree'
    BY <2>1, <2>2, <2>3, <2>4, <2>5 DEF IInv, FieldsAgree
  <2>8. PendingTilesTail'
    <3>1. \A q \in coord'.pending :
            Floor(coord') < q.low /\ q.low <= q.high /\ q.high <= coord'.lastHigh
      BY <2>2, <2>4, <2>5 DEF IInv, PendingTilesTail
    <3>2. ASSUME NEW s \in SeqNums, Floor(coord') < s, s <= coord'.lastHigh
          PROVE  \E q \in coord'.pending : Covers(q, s)
      <4>1. Floor(coord) < s /\ s <= coord.lastHigh /\ m.high < s
        BY <3>2, <2>2, <2>3, <2>4, <2>5 DEF SeqNums
      <4>2. PICK q \in coord.pending : Covers(q, s)
        BY <4>1 DEF IInv, PendingTilesTail
      <4>3. q \notin gone
        BY <4>1, <4>2, <2>2, <2>3 DEF Covers, SeqNums
      <4> QED
        BY <4>2, <4>3, <2>4
    <3>3. \A p, q \in coord'.pending : p # q => p.high < q.low \/ q.high < p.low
      BY <2>4 DEF IInv, PendingTilesTail
    <3> QED
      BY <3>1, <3>2, <3>3 DEF PendingTilesTail
  <2>9. MarksAgree'
    BY <2>1, <2>4 DEF IInv, MarksAgree
  <2>10. FrontierNeverOverHole'
    <3> SUFFICES ASSUME NEW s \in SeqNums, coord.baseline < s, s <= m.high
                 PROVE  s \in marked
      BY <2>1, <2>4 DEF FrontierNeverOverHole
    <3>1. CASE s <= Floor(coord)
      <4>1. s <= coord.frontier
        BY <3>1, <2>3 DEF Floor, SeqNums
      <4> QED
        BY <4>1 DEF IInv, FrontierNeverOverHole
    <3>2. CASE Floor(coord) < s
      <4>1. s <= coord.lastHigh
        BY <2>2, <2>3 DEF SeqNums
      <4>2. PICK q \in coord.pending : Covers(q, s)
        BY <4>1, <3>2 DEF IInv, PendingTilesTail
      <4>3. q \in gone
        BY <4>2, <2>2, <2>3 DEF Covers, SeqNums
      <4> QED
        BY <4>2, <4>3, <2>2 DEF IInv, MarksAgree
    <3> QED
      BY <3>1, <3>2, <2>5 DEF SeqNums
  <2> QED
    BY <2>6, <2>7, <2>8, <2>9, <2>10 DEF IInv
<1> QED
  BY <1>1, <1>2

(* Every step of the coordinator keeps the inductive invariant. *)
LEMMA StepIInv ==
  ASSUME IInv, [Next]_vars
  PROVE  IInv'
<1>1. CASE Next
  BY <1>1, RegisterIInv, MarkIInv, AdvanceIInv DEF Next
<1>2. CASE UNCHANGED vars
  BY <1>2 DEF vars, IInv, TypeOK, FieldsAgree, PendingTilesTail, MarksAgree,
     FrontierNeverOverHole
<1> QED
  BY <1>1, <1>2

-----------------------------------------------------------------------------
(* The strengthened invariant holds in every reachable state, for every    *)
(* width of the sequence numbers.                                          *)
THEOREM Invariance == Spec => []IInv
<1>1. Init => IInv
  BY InitIInv
<1>2. IInv /\ [Next]_vars => IInv'
  BY StepIInv
<1> QED
  BY <1>1, <1>2, PTL DEF Spec

(* Type correctness of the coordinator's fields (ack_coordinator.rs:67).   *)
THEOREM TypeCorrect == Spec => []TypeOK
<1>1. IInv => TypeOK
  BY DEF IInv
<1> QED
  BY <1>1, Invariance, PTL

(* INV-FRONTIER-NEVER-OVER-HOLE: advance_frontier never moves the frontier *)
(* past a sequence that was not marked committed (ack_coordinator.rs:12).  *)
THEOREM NeverOverHole == Spec => []FrontierNeverOverHole
<1>1. IInv => FrontierNeverOverHole
  BY DEF IInv
<1> QED
  BY <1>1, Invariance, PTL

(* The pending map tiles the sequences above the frontier: no range is     *)
(* lost and none overlaps (ack_coordinator.rs:14-36).                      *)
THEOREM PendingTiles == Spec => []PendingTilesTail
<1>1. IInv => PendingTilesTail
  BY DEF IInv
<1> QED
  BY <1>1, Invariance, PTL

-----------------------------------------------------------------------------
(* A step never moves the frontier back nor a fixed baseline.              *)
LEMMA StepMonotonic ==
  ASSUME IInv, [Next]_vars
  PROVE  /\ coord.frontier <= coord'.frontier
         /\ coord.fixed => coord'.fixed /\ coord'.baseline = coord.baseline
<1>1. coord \in Coordinator /\ coord.frontier \in Int /\ coord.baseline \in Int
  BY MaxSeqAssumption DEF IInv, TypeOK, Coordinator, OptSeqNum, SeqNums, None
<1>2. CASE UNCHANGED vars
  BY <1>1, <1>2 DEF vars
<1>3. ASSUME NEW low \in SeqNums, NEW high \in SeqNums, RegisterPending(low, high)
      PROVE  /\ coord.frontier <= coord'.frontier
             /\ coord.fixed => coord'.fixed /\ coord'.baseline = coord.baseline
  BY <1>1, <1>3 DEF RegisterPending, Registered, Coordinator
<1>4. ASSUME NEW low \in SeqNums, NEW high \in SeqNums, MarkCommitted(low, high)
      PROVE  /\ coord.frontier <= coord'.frontier
             /\ coord.fixed => coord'.fixed /\ coord'.baseline = coord.baseline
  BY <1>1, <1>4 DEF MarkCommitted, Committed, Coordinator
<1>5. CASE AdvanceFrontier
  <2>1. CASE coord' = coord
    BY <1>1, <2>1
  <2>2. CASE coord' # coord
    <3> DEFINE m == LastOf(Popped(coord))
    <3>1. /\ coord.fixed /\ Popped(coord) # {}
          /\ coord' = [coord EXCEPT !.frontier = m.high,
                                    !.pending = coord.pending \ Popped(coord)]
      BY <1>5, <2>2 DEF AdvanceFrontier, Advanced
    <3>2. m \in PendingRange /\ Floor(coord) < m.low /\ m.low <= m.high
      BY <3>1, AdvanceCuts
    <3>3. m.low \in Nat /\ m.high \in Nat
      BY <3>2, MaxSeqAssumption DEF PendingRange, SeqNums
    <3> HIDE DEF m
    <3>4. /\ coord'.frontier = m.high /\ coord'.fixed = coord.fixed
          /\ coord'.baseline = coord.baseline
      BY Zenon, <1>1, <3>1 DEF Coordinator
    <3>5. coord.frontier <= m.high
      BY <1>1, <3>2, <3>3 DEF Floor, None
    <3> QED
      BY <3>4, <3>5
  <2> QED
    BY <2>1, <2>2
<1> QED
  BY <1>2, <1>3, <1>4, <1>5 DEF Next

(* INV-FRONTIER-BASELINE-FLOOR: the acked frontier never moves back and a  *)
(* fixed baseline never moves (ack_coordinator.rs:24-29).                  *)
THEOREM Monotonic == Spec => FrontierMonotonic
<1>1. IInv /\ [Next]_vars =>
        [/\ coord.frontier <= coord'.frontier
         /\ coord.fixed => coord'.fixed /\ coord'.baseline = coord.baseline]_vars
  BY StepMonotonic
<1> QED
  BY <1>1, Invariance, PTL DEF Spec, FrontierMonotonic

-----------------------------------------------------------------------------
(* Refinement, one lemma per action.                                       *)
LEMMA RegisterRefines ==
  ASSUME IInv, NEW low \in SeqNums, NEW high \in SeqNums,
         RegisterPending(low, high)
  PROVE  Abstract!Admit
<1>1. /\ low <= high
      /\ coord.lastHigh # None => low = coord.lastHigh + 1
  BY RegisterIsNext DEF RegisterPending
<1>2. /\ admitted' = admitted \cup (low .. high) /\ marked' = marked
      /\ coord'.frontier = coord.frontier
  BY DEF RegisterPending, Registered, IInv, TypeOK, Coordinator
<1>3. /\ low \in Int /\ high \in Int /\ MaxSeq \in Int
      /\ coord.lastHigh \in Int /\ coord.baseline \in Int /\ coord.frontier \in Int
  BY MaxSeqAssumption DEF IInv, TypeOK, Coordinator, OptSeqNum, SeqNums, None
<1>4. /\ coord.lastHigh = None => admitted = {} /\ coord.frontier = None
      /\ coord.lastHigh # None => coord.frontier <= coord.lastHigh
                                   /\ coord.lastHigh \in admitted
                                   /\ \A s \in admitted : s <= coord.lastHigh
  BY <1>3 DEF IInv, TypeOK, Coordinator, FieldsAgree, New, OptSeqNum, SeqNums, None
<1>5. \A s \in admitted : s \in Int /\ s < low
  BY <1>1, <1>3, <1>4 DEF IInv, TypeOK, SeqNums
<1>6. admitted # {} => low - 1 \in admitted
  BY <1>1, <1>3, <1>4
<1>7. acked' = acked
  <2>1. coord.frontier < low
    BY <1>1, <1>3, <1>4 DEF SeqNums, None
  <2>2. \A s \in low .. high : ~(s <= coord.frontier)
    BY <2>1, <1>3
  <2> QED
    BY <2>2, <1>2 DEF acked
<1>8. low \in admitted' /\ high \in admitted'
  BY <1>1, <1>2, <1>3
<1> QED
  BY <1>1, <1>2, <1>5, <1>6, <1>7, <1>8 DEF Abstract!Admit

(* mark_committed is a commit of the abstract frontier. *)
LEMMA MarkRefines ==
  ASSUME IInv, NEW low \in SeqNums, NEW high \in SeqNums,
         MarkCommitted(low, high)
  PROVE  Abstract!Commit
<1>1. coord'.frontier = coord.frontier /\ admitted' = admitted /\ marked \subseteq marked'
  BY DEF MarkCommitted, Committed, IInv, TypeOK, Coordinator
<1>2. marked' \subseteq admitted'
  BY MarkIInv DEF IInv, MarksAgree
<1> QED
  BY <1>1, <1>2 DEF Abstract!Commit, acked

(* The range that starts right above a fully committed prefix is popped    *)
(* with it if it is committed: advance_frontier stops nowhere else.        *)
LEMMA PoppedIsMaximal ==
  ASSUME IInv, NEW r \in coord.pending,
         \A q \in coord.pending : q.low <= r.low => q.committed
  PROVE  r \in Popped(coord)
<1>1. /\ coord.pending \subseteq PendingRange /\ MaxSeq \in Int
      /\ \A q \in coord.pending : q.low \in SeqNums /\ q.high \in SeqNums
      /\ \A q \in coord.pending : q.low \in Int /\ q.high \in Int /\ q.low <= q.high
      /\ Floor(coord) \in Int /\ Floor(coord) >= -1
      /\ coord.lastHigh \in Int /\ coord.lastHigh <= MaxSeq
  BY MaxSeqAssumption DEF IInv, TypeOK, Coordinator, PendingRange, OptSeqNum,
     SeqNums, None, PendingTilesTail, Floor
<1> SUFFICES ASSUME NEW q \in coord.pending, q.low <= r.low
             PROVE  Linked(coord, q)
  BY DEF Popped
<1>2. Floor(coord) < q.low /\ q.low <= coord.lastHigh
  BY <1>1 DEF IInv, PendingTilesTail
<1>3. CASE q.low = Floor(coord) + 1
  <2>1. \A p \in coord.pending : p.low >= q.low
    BY <1>1, <1>3 DEF IInv, PendingTilesTail
  <2>2. q.low = SaturatingSucc(Floor(coord))
    BY <1>1, <1>2, <1>3 DEF SaturatingSucc
  <2> QED
    BY <2>1, <2>2 DEF Linked
<1>4. CASE q.low # Floor(coord) + 1
  <2>1. q.low - 1 \in SeqNums /\ Floor(coord) < q.low - 1 /\ q.low - 1 <= coord.lastHigh
    BY <1>1, <1>2, <1>4 DEF SeqNums
  <2>2. PICK p \in coord.pending : Covers(p, q.low - 1)
    BY <2>1 DEF IInv, PendingTilesTail
  <2>3. p.low < q.low /\ p.high >= q.low - 1 /\ p # q
    BY <2>2, <1>1 DEF Covers
  <2>4. p.high = q.low - 1
    <3>1. p.high < q.low \/ q.high < p.low
      BY <2>3 DEF IInv, PendingTilesTail
    <3> QED
      BY <3>1, <2>3, <1>1
  <2>5. q.low = SaturatingSucc(p.high)
    BY <2>4, <1>1, <1>2 DEF SaturatingSucc
  <2>6. \A x \in coord.pending : x.low <= p.low \/ x.low >= q.low
    BY <2>3, <2>4, <1>1 DEF IInv, PendingTilesTail
  <2> QED
    BY <2>3, <2>5, <2>6 DEF Linked
<1> QED
  BY <1>3, <1>4

(* advance_frontier is an advance of the abstract frontier. *)
LEMMA AdvanceRefines ==
  ASSUME IInv, AdvanceFrontier
  PROVE  Abstract!Advance
<1> DEFINE prefix == {s \in admitted : \A t \in admitted : t <= s => t \in marked}
<1>1. IInv' /\ admitted' = admitted /\ marked' = marked
  BY AdvanceIInv DEF AdvanceFrontier
<1>2. /\ MaxSeq \in Int
      /\ coord.lastHigh \in Int /\ coord.baseline \in Int /\ coord.frontier \in Int
      /\ coord'.frontier \in Int /\ coord'.baseline \in Int /\ coord'.frontier >= -1
      /\ admitted \subseteq SeqNums /\ \A s \in admitted : s \in Int
      /\ coord.pending \subseteq PendingRange
      /\ \A q \in coord.pending : q.low \in SeqNums /\ q.low \in Int /\ q.high \in Int
  BY <1>1, MaxSeqAssumption DEF IInv, TypeOK, Coordinator, PendingRange, OptSeqNum,
     SeqNums, None
<1>3. acked' \subseteq prefix
  <2> SUFFICES ASSUME NEW s \in admitted, s <= coord'.frontier,
                      NEW t \in admitted, t <= s
               PROVE  t \in marked
    BY <1>1 DEF acked
  <2>1. t \in SeqNums /\ coord'.baseline < t /\ t <= coord'.frontier
    BY <1>1, <1>2 DEF IInv, FieldsAgree
  <2> QED
    BY <2>1, <1>1 DEF IInv, FrontierNeverOverHole
<1>4. prefix \subseteq acked'
  <2> SUFFICES ASSUME NEW s \in admitted,
                      \A t \in admitted : t <= s => t \in marked
               PROVE  s <= coord'.frontier
    BY <1>1 DEF acked
  <2> SUFFICES ASSUME s > coord'.frontier
               PROVE  FALSE
    BY <1>2
  <2>1. coord.lastHigh # None /\ coord.fixed /\ s <= coord.lastHigh /\ coord.baseline < s
    BY <1>2 DEF IInv, TypeOK, FieldsAgree, SeqNums, New, None
  <2>2. coord.frontier <= coord'.frontier
    BY StepMonotonic DEF Next
  <2>3. s \in SeqNums /\ Floor(coord) < s
    BY <2>1, <2>2, <1>2 DEF Floor
  <2>4. PICK r \in coord.pending : Covers(r, s)
    BY <2>1, <2>3 DEF IInv, PendingTilesTail
  <2>5. ASSUME NEW q \in coord.pending, q.low <= r.low
        PROVE  q.committed
    <3>1. q.low <= s /\ q.low <= q.high /\ Floor(coord) < q.low /\ q.high <= coord.lastHigh
      BY <2>4, <2>5, <1>2 DEF IInv, PendingTilesTail, Covers
    <3>2. coord.baseline <= Floor(coord) /\ Floor(coord) \in Int
      BY <2>1, <1>2 DEF Floor, IInv, FieldsAgree
    <3>3. q.low \in admitted
      BY <3>1, <3>2, <1>2 DEF IInv, FieldsAgree
    <3>4. q.low \in marked /\ Covers(q, q.low)
      BY <3>1, <3>3, <1>2 DEF Covers
    <3> QED
      BY <3>4, <1>2 DEF IInv, MarksAgree
  <2>6. r \in Popped(coord)
    BY <2>5, PoppedIsMaximal
  <2>7. coord'.frontier >= r.high
    <3> DEFINE m == LastOf(Popped(coord))
    <3>1. coord' = [coord EXCEPT !.frontier = m.high,
                                !.pending = coord.pending \ Popped(coord)]
      BY <2>1, <2>6 DEF AdvanceFrontier, Advanced
    <3>2. m \in coord.pending /\ r.high <= m.high
      BY <2>1, <2>6, AdvanceCuts
    <3> HIDE DEF m
    <3>3. coord'.frontier = m.high
      BY <3>1 DEF IInv, TypeOK, Coordinator
    <3> QED
      BY <3>2, <3>3, <1>2
  <2> QED
    BY <2>4, <2>7, <1>2 DEF Covers
<1> QED
  BY <1>1, <1>3, <1>4 DEF Abstract!Advance

(* The coordinator implements AckFrontier: ranges enter once and in order, *)
(* and one advance_frontier acks exactly the committed prefix              *)
(* (ack_coordinator.rs:294-323).                                           *)
THEOREM Refinement == Spec => ImplementsAckFrontier
<1>1. Init => Abstract!Init
  BY DEF Init, Abstract!Init, acked
<1>2. IInv /\ [Next]_vars => [Abstract!Next]_(Abstract!vars)
  <2> SUFFICES ASSUME IInv, [Next]_vars
               PROVE  [Abstract!Next]_(Abstract!vars)
    OBVIOUS
  <2>1. CASE Next
    BY <2>1, RegisterRefines, MarkRefines, AdvanceRefines DEF Next, Abstract!Next
  <2>2. CASE UNCHANGED vars
    BY <2>2 DEF vars, Abstract!vars, acked
  <2> QED
    BY <2>1, <2>2
<1> QED
  BY <1>1, <1>2, Invariance, PTL DEF Spec, ImplementsAckFrontier, Abstract!Spec
=============================================================================
