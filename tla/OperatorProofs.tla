--------------------------- MODULE OperatorProofs ---------------------------
(***************************************************************************)
(* The lemmas about operators that the proofs about the processes share.   *)
(* First, what the methods of `AckCoordinator` do to a coordinator whose   *)
(* ranges cover one sequence each, as those of BufferSource do.  Then what *)
(* MapThenSumSet computes over a finite set: the library defines it by a   *)
(* recursive function on the subsets, which is shown to exist and to       *)
(* depend neither on the order in which elements are chosen nor on         *)
(* anything outside the set.                                               *)
(***************************************************************************)
EXTENDS AckCoordinatorOps, Totals, FiniteSetTheorems, NaturalsInduction, TLAPS

-----------------------------------------------------------------------------
(* A nonempty set of naturals has a least element. *)
LEMMA LeastExists ==
  ASSUME NEW S, S \subseteq Nat, S # {}
  PROVE  \E m \in S : \A y \in S : m <= y
<1> DEFINE R == {ss \in Nat \X Nat : ss[1] < ss[2]}
<1>1. IsWellFoundedOn(R, Nat)
  BY NatLessThanWellFounded DEF OpToRel
<1>2. \A x, y \in Nat : y < x => <<y, x>> \in R
  OBVIOUS
<1> HIDE DEF R
<1>3. PICK x \in S : \A y \in S : ~(<<y, x>> \in R)
  BY Zenon, <1>1, WFMin
<1>4. \A y \in S : x <= y
  <2> TAKE y \in S
  <2>1. ~(y < x)
    BY Zenon, <1>2, <1>3
  <2> QED
    BY <2>1
<1> QED
  BY <1>4

(* A nonempty set of integers with an upper bound has a greatest element. *)
LEMMA GreatestExists ==
  ASSUME NEW N \in Int, NEW S, S \subseteq Int, S # {}, \A x \in S : x <= N
  PROVE  \E m \in S : \A y \in S : y <= m
<1> DEFINE T == {N - x : x \in S}
<1>1. T \subseteq Nat
  <2>1. \A x \in S : N - x \in Nat
    OBVIOUS
  <2> QED
    BY <2>1
<1>2. T # {}
  BY Zenon
<1>3. PICK t \in T : \A u \in T : t <= u
  <2> HIDE DEF T
  <2> QED
    BY Zenon, <1>1, <1>2, LeastExists
<1>4. PICK m \in S : t = N - m
  OBVIOUS
<1>5. \A y \in S : y <= m
  <2> TAKE y \in S
  <2>1. N - y \in T
    OBVIOUS
  <2>2. t <= N - y
    BY <2>1, <1>3
  <2> QED
    BY <2>2, <1>4
<1> QED
  BY Zenon, <1>5

(* LastOf picks a range with the greatest low. *)
LEMMA LastOfRanges ==
  ASSUME NEW ranges, ranges \subseteq PendingRange, ranges # {}
  PROVE  /\ LastOf(ranges) \in ranges
         /\ \A q \in ranges : q.low <= LastOf(ranges).low
<1> DEFINE lows == {r.low : r \in ranges}
<1>1. lows \subseteq Int /\ lows # {} /\ \A x \in lows : x <= MaxSeq
  BY MaxSeqAssumption DEF PendingRange, SeqNums
<1>2. \E m \in lows : \A y \in lows : y <= m
  <2>1. MaxSeq \in Int
    BY MaxSeqAssumption
  <2> HIDE DEF lows
  <2> QED
    BY Zenon, <1>1, <2>1, GreatestExists
<1>3. \E r \in ranges : \A q \in ranges : q.low <= r.low
  BY <1>2
<1> QED
  BY <1>3 DEF LastOf

-----------------------------------------------------------------------------
(* A new coordinator has nothing to track. *)
LEMMA NewTracks ==
  ASSUME NEW initial \in OptSeqNum, NEW next \in 0 .. MaxSeq + 1,
         initial # None => next = initial + 1,
         NEW done, done \subseteq 0 .. next - 1
  PROVE  Tracks(New(initial), next, done)
BY Zenon, MaxSeqAssumption DEF Tracks, New, Coordinator, OptSeqNum, SeqNums, None, PendingRange

(* register_pending accepts the next sequence. *)
LEMMA RegisterNext ==
  ASSUME NEW c, NEW next \in SeqNums, NEW done, Tracks(c, next, done)
  PROVE  /\ RegisterAccepts(c, next, next)
         /\ Tracks(Registered(c, next, next), next + 1, done)
         /\ Registered(c, next, next).lastHigh = next
         /\ Registered(c, next, next).frontier = c.frontier
         /\ Registered(c, next, next).initial = c.initial
         /\ c.fixed => Registered(c, next, next).baseline = c.baseline
         /\ ~c.fixed => Registered(c, next, next).baseline = next - 1
<1> USE MaxSeqAssumption DEF Tracks, Coordinator, OptSeqNum, SeqNums, None, PendingRange
<1>1. RegisterAccepts(c, next, next)
  BY DEF RegisterAccepts, SaturatingSucc, BelowNeighbour, Floor
<1> DEFINE d == Registered(c, next, next)
           new == [low |-> next, high |-> next, committed |-> FALSE]
<1>2. d.pending = c.pending \cup {new}
  <2>1. \A r \in c.pending : r.low # next
    OBVIOUS
  <2> QED
    BY <2>1 DEF Registered
<1>3. /\ d.lastHigh = next /\ d.frontier = c.frontier /\ d.initial = c.initial
      /\ d.fixed = TRUE
      /\ d.baseline = IF c.fixed THEN c.baseline ELSE next - 1
  BY DEF Registered
<1>4. d \in Coordinator
  <2>1. new \in PendingRange
    OBVIOUS
  <2>3. d = [c EXCEPT !.baseline = d.baseline, !.fixed = TRUE, !.pending = d.pending,
                      !.lastHigh = next]
    BY DEF Registered
  <2> HIDE DEF d
  <2>a. d.pending \in SUBSET PendingRange
    BY Zenon, <2>1, <1>2
  <2>b. d.baseline \in OptSeqNum
    BY <1>3
  <2>2. d.pending \in SUBSET PendingRange /\ d.baseline \in OptSeqNum
    BY <2>a, <2>b
  <2> QED
    BY Zenon, <2>2, <2>3
<1> HIDE DEF d
<1>5. c.lastHigh # None => Floor(d) = Floor(c)
  BY <1>3 DEF Floor
<1>6. c.lastHigh = None => Floor(d) = next - 1 /\ c.pending = {}
  BY <1>3 DEF Floor
<1>7. Floor(d) < next
  BY <1>5, <1>6 DEF Floor
<1>8. \A r \in d.pending : /\ r.low = r.high /\ Floor(d) < r.low /\ r.low < next + 1
                           /\ r.committed <=> r.low \in done
  <2>1. next \notin done
    OBVIOUS
  <2>2. ASSUME NEW r \in c.pending
        PROVE  /\ r.low = r.high /\ Floor(d) < r.low /\ r.low < next + 1
               /\ r.committed <=> r.low \in done
    BY <1>5, <1>6
  <2>3. /\ new.low = new.high /\ Floor(d) < new.low /\ new.low < next + 1
        /\ new.committed <=> new.low \in done
    BY <1>7, <2>1
  <2> QED
    BY <1>2, <2>2, <2>3
<1>9. \A s \in Floor(d) + 1 .. next : \E r \in d.pending : r.low = s
  <2> TAKE s \in Floor(d) + 1 .. next
  <2>1. CASE s = next
    <3>1. new \in d.pending /\ new.low = next
      BY <1>2
    <3> QED
      BY <2>1, <3>1
  <2>2. CASE s # next
    <3>1. c.lastHigh # None /\ s \in Floor(c) + 1 .. next - 1
      BY <2>2, <1>5, <1>6, <1>7 DEF Floor
    <3>2. \E r \in c.pending : r.low = s
      BY <3>1
    <3> QED
      BY <3>2, <1>2
  <2> QED
    BY <2>1, <2>2
<1>10. Tracks(d, next + 1, done)
  BY <1>3, <1>4, <1>8, <1>9 DEF Floor
<1> QED
  BY <1>1, <1>3, <1>10 DEF d

(* mark_committed accepts a pending sequence. *)
LEMMA MarkPending ==
  ASSUME NEW c, NEW next, NEW done, Tracks(c, next, done), c.lastHigh # None,
         NEW s \in Floor(c) + 1 .. next - 1
  PROVE  /\ MarkAccepts(c, s, s)
         /\ Tracks(Committed(c, s), next, done \cup {s})
         /\ Floor(Committed(c, s)) = Floor(c)
         /\ Committed(c, s).lastHigh = c.lastHigh
         /\ Committed(c, s).frontier = c.frontier
         /\ Committed(c, s).baseline = c.baseline
         /\ Committed(c, s).initial = c.initial
         /\ Committed(c, s).fixed = c.fixed
<1> USE MaxSeqAssumption DEF Coordinator, OptSeqNum, SeqNums, None
<1>0. /\ c \in Coordinator /\ next \in 0 .. MaxSeq + 1 /\ done \subseteq 0 .. next - 1
      /\ \A r \in c.pending : r \in PendingRange
  BY DEF Tracks
<1>a. s \in SeqNums /\ s \in 0 .. next - 1
  BY <1>0 DEF Floor
<1>1. PICK r \in c.pending : r.low = s
  BY DEF Tracks
<1>2. MarkAccepts(c, s, s)
  BY <1>1 DEF Tracks, MarkAccepts
<1> DEFINE d == Committed(c, s)
<1>3. /\ d.lastHigh = c.lastHigh /\ d.frontier = c.frontier /\ d.initial = c.initial
      /\ d.fixed = c.fixed /\ d.baseline = c.baseline
      /\ d.pending = {q \in c.pending : q.low # s}
              \cup {[q EXCEPT !.committed = TRUE] : q \in {x \in c.pending : x.low = s}}
  BY <1>0 DEF Committed
<1>4. \A q \in d.pending :
        /\ q \in PendingRange
        /\ \E x \in c.pending : /\ q.low = x.low /\ q.high = x.high
                                /\ q.committed <=> (x.committed \/ x.low = s)
  <2> SUFFICES ASSUME NEW q \in d.pending
               PROVE  /\ q \in PendingRange
                      /\ \E x \in c.pending : /\ q.low = x.low /\ q.high = x.high
                                              /\ q.committed <=> (x.committed \/ x.low = s)
    OBVIOUS
  <2>1. CASE q \in c.pending /\ q.low # s
    BY <2>1, <1>0
  <2>2. CASE \E x \in c.pending : x.low = s /\ q = [x EXCEPT !.committed = TRUE]
    <3>1. PICK x \in c.pending : x.low = s /\ q = [x EXCEPT !.committed = TRUE]
      BY Zenon, <2>2
    <3>2. x \in PendingRange
      BY <1>0
    <3>3. q \in PendingRange /\ q.low = x.low /\ q.high = x.high /\ q.committed = TRUE
      BY Zenon, <3>1, <3>2 DEF PendingRange
    <3> QED
      BY <3>1, <3>3
  <2> QED
    BY <1>3, <2>1, <2>2
<1>5. \A x \in c.pending : \E q \in d.pending : q.low = x.low
  <2> TAKE x \in c.pending
  <2>1. CASE x.low # s
    BY <2>1, <1>3
  <2>2. CASE x.low = s
    <3>1. [x EXCEPT !.committed = TRUE] \in d.pending
      BY Zenon, <2>2, <1>3
    <3>2. [x EXCEPT !.committed = TRUE].low = x.low
      BY <1>0 DEF PendingRange
    <3> QED
      BY Zenon, <3>1, <3>2
  <2> QED
    BY <2>1, <2>2
<1>6. d \in Coordinator
  <2>1. d.pending \in SUBSET PendingRange
    BY <1>4
  <2>2. d = [c EXCEPT !.pending = d.pending]
    BY <1>0 DEF Committed
  <2> HIDE DEF d
  <2> QED
    BY <2>1, <2>2, <1>0
<1> HIDE DEF d
<1>7. Floor(d) = Floor(c)
  BY <1>3 DEF Floor
<1>8. Tracks(d, next, done \cup {s})
  <2>1. done \cup {s} \subseteq 0 .. next - 1
    BY <1>0, <1>a
  <2>2. \A q \in d.pending : /\ q.low = q.high /\ Floor(d) < q.low /\ q.low < next
                             /\ q.committed <=> q.low \in done \cup {s}
    BY <1>4, <1>7 DEF Tracks
  <2>3. \A x \in Floor(d) + 1 .. next - 1 : \E q \in d.pending : q.low = x
    BY <1>5, <1>7 DEF Tracks
  <2> QED
    BY <1>0, <1>3, <1>6, <1>7, <2>1, <2>2, <2>3 DEF Tracks
<1> QED
  BY <1>2, <1>3, <1>7, <1>8 DEF d

-----------------------------------------------------------------------------
(* What the admission loop has registered after k groups, from what it had *)
(* after k - 1.  A function that satisfies the recursive equation exists   *)
(* for every length, by the least length that would have none, and so      *)
(* RegisteredRun satisfies it.                                             *)
LEMMA RunEquation ==
  ASSUME NEW c, NEW first, NEW n \in Nat, NEW k \in 0 .. n
  PROVE  RegisteredRun(c, first, n)[k]
           = IF k = 0 THEN c
             ELSE Registered(RegisteredRun(c, first, n)[k - 1], first + k - 1, first + k - 1)
<1> DEFINE Step(g, x) == IF x = 0 THEN c ELSE Registered(g[x - 1], first + x - 1, first + x - 1)
           Solves(g, m) == g = [x \in 0 .. m |-> Step(g, x)]
           Bad == {m \in Nat : ~ \E g : Solves(g, m)}
<1>1. RegisteredRun(c, first, n) = CHOOSE g : Solves(g, n)
  BY DEF RegisteredRun
<1>2. ASSUME NEW m \in Nat, NEW h, m > 0 => Solves(h, m - 1)
      PROVE  \E g : Solves(g, m)
  <2> DEFINE g == [x \in 0 .. m |-> Step(h, x)]
  <2>1. ASSUME NEW x \in 0 .. m, x > 0 PROVE g[x - 1] = h[x - 1]
    <3>1. m > 0 /\ x - 1 \in 0 .. m - 1 /\ x - 1 \in 0 .. m
      BY <2>1
    <3>2. h[x - 1] = Step(h, x - 1)
      BY <1>2, <3>1
    <3> QED
      BY <3>1, <3>2
  <2>2. \A x \in 0 .. m : Step(g, x) = Step(h, x)
    <3> HIDE DEF g
    <3> QED
      BY <2>1
  <2>3. Solves(g, m)
    BY <2>2
  <2> QED
    BY <2>3
<1>3. Bad = {}
  <2> SUFFICES ASSUME Bad # {} PROVE FALSE
    OBVIOUS
  <2> HIDE DEF Solves
  <2>1. Bad \subseteq Nat
    OBVIOUS
  <2>2. PICK m \in Bad : \A x \in Bad : m <= x
    <3> HIDE DEF Bad
    <3> QED
      BY <2>1, LeastExists
  <2>3. m > 0 => m - 1 \in Nat \ Bad
    BY <2>2
  <2>4. PICK h : m > 0 => Solves(h, m - 1)
    BY Zenon, <2>3
  <2>5. m \in Nat /\ ~ \E g : Solves(g, m)
    BY <2>2
  <2> QED
    BY Zenon, <1>2, <2>4, <2>5
<1> DEFINE g == RegisteredRun(c, first, n)
<1>4. Solves(g, n)
  <2> HIDE DEF Solves
  <2>1. \E h : Solves(h, n)
    BY Zenon, <1>3
  <2> QED
    BY Zenon, <1>1, <2>1
<1> HIDE DEF g
<1>5. g[k] = Step(g, k)
  BY <1>4
<1> QED
  BY <1>5 DEF g

(* A run that starts at the next sequence is accepted. *)
LEMMA RunNext ==
  ASSUME NEW c, NEW next \in SeqNums, NEW done, Tracks(c, next, done),
         NEW n \in Nat \ {0}, next + n - 1 <= MaxSeq
  PROVE  /\ RunAccepts(c, next, n)
         /\ Tracks(RegisteredRun(c, next, n)[n], next + n, done)
         /\ RegisteredRun(c, next, n)[n].lastHigh = next + n - 1
         /\ RegisteredRun(c, next, n)[n].frontier = c.frontier
         /\ RegisteredRun(c, next, n)[n].initial = c.initial
         /\ c.fixed => RegisteredRun(c, next, n)[n].baseline = c.baseline
         /\ ~c.fixed => RegisteredRun(c, next, n)[n].baseline = next - 1
<1> DEFINE g == RegisteredRun(c, next, n)
           Good(k) ==
             /\ Tracks(g[k], next + k, done)
             /\ k = 0 => g[k] = c
             /\ k > 0 =>
                  /\ RegisterAccepts(g[k - 1], next + k - 1, next + k - 1)
                  /\ g[k].lastHigh = next + k - 1 /\ g[k].frontier = c.frontier
                  /\ g[k].initial = c.initial
                  /\ c.fixed => g[k].baseline = c.baseline
                  /\ ~c.fixed => g[k].baseline = next - 1
           Bad == {k \in 0 .. n : ~Good(k)}
<1> USE MaxSeqAssumption DEF SeqNums
<1>0. \A k \in 0 .. n :
        g[k] = IF k = 0 THEN c ELSE Registered(g[k - 1], next + k - 1, next + k - 1)
  BY RunEquation
<1> HIDE DEF g
<1>1. Good(0)
  BY <1>0
<1>2. ASSUME NEW k \in 1 .. n, Good(k - 1) PROVE Good(k)
  <2> DEFINE s == next + k - 1
  <2>1. s \in SeqNums /\ next + (k - 1) = s /\ s + 1 = next + k
    OBVIOUS
  <2>2. g[k] = Registered(g[k - 1], s, s)
    BY <1>0
  <2> HIDE DEF s
  <2>3. Tracks(g[k - 1], s, done)
    BY <1>2, <2>1
  <2>4. /\ RegisterAccepts(g[k - 1], s, s)
        /\ Tracks(g[k], s + 1, done)
        /\ g[k].lastHigh = s
        /\ g[k].frontier = g[k - 1].frontier
        /\ g[k].initial = g[k - 1].initial
        /\ g[k - 1].fixed => g[k].baseline = g[k - 1].baseline
        /\ ~g[k - 1].fixed => g[k].baseline = s - 1
    BY <2>1, <2>2, <2>3, RegisterNext
  <2>5. CASE k = 1
    <3>1. g[k - 1] = c /\ s = next
      BY <1>0, <2>5 DEF s
    <3> QED
      BY <2>1, <2>4, <2>5, <3>1 DEF s
  <2>6. CASE k > 1
    <3>1. /\ g[k - 1].lastHigh # None /\ g[k - 1].frontier = c.frontier
          /\ g[k - 1].initial = c.initial
          /\ c.fixed => g[k - 1].baseline = c.baseline
          /\ ~c.fixed => g[k - 1].baseline = next - 1
      BY <1>2, <2>6 DEF None
    <3>2. g[k - 1].fixed
      BY <3>1, <2>3 DEF Tracks
    <3> QED
      BY <2>1, <2>4, <2>6, <3>1, <3>2 DEF s
  <2> QED
    BY <2>5, <2>6
<1>3. Bad = {}
  <2> SUFFICES ASSUME Bad # {} PROVE FALSE
    OBVIOUS
  <2>1. PICK k \in Bad : \A m \in Bad : k <= m
    <3>1. Bad \subseteq Nat
      OBVIOUS
    <3> HIDE DEF Bad
    <3> QED
      BY Zenon, <3>1, LeastExists
  <2>2. k \in 0 .. n /\ ~Good(k)
    OBVIOUS
  <2>3. k # 0
    BY <2>2, <1>1
  <2>4. k - 1 \in 0 .. n /\ k \in 1 .. n /\ ~(k <= k - 1)
    BY <2>2, <2>3
  <2>5. Good(k - 1)
    BY <2>1, <2>4
  <2> QED
    BY <2>2, <2>4, <2>5, <1>2
<1>4. \A k \in 0 .. n : Good(k)
  BY <1>3
<1>5. RunAccepts(c, next, n)
  BY <1>4 DEF RunAccepts, g
<1> QED
  BY <1>4, <1>5 DEF g

-----------------------------------------------------------------------------
(* advance_frontier goes as far as the committed sequences reach. *)
LEMMA AdvanceReaches ==
  ASSUME NEW c, NEW next, NEW done, Tracks(c, next, done)
  PROVE  \E h \in Int :
           /\ Floor(c) <= h
           /\ \A s \in Floor(c) + 1 .. h : s \in done
           /\ c.lastHigh # None => h < next /\ (h + 1 < next => h + 1 \notin done)
           /\ Tracks(Advanced(c), next, done)
           /\ h = Floor(c) => Advanced(c) = c
           /\ h > Floor(c) => Advanced(c).frontier = h
           /\ Floor(Advanced(c)) = h
           /\ Advanced(c).lastHigh = c.lastHigh /\ Advanced(c).initial = c.initial
           /\ Advanced(c).baseline = c.baseline /\ Advanced(c).fixed = c.fixed
<1> USE MaxSeqAssumption DEF OptSeqNum, SeqNums, None
<1>0. /\ c \in Coordinator /\ next \in 0 .. MaxSeq + 1 /\ done \subseteq 0 .. next - 1
      /\ \A r \in c.pending : r \in PendingRange
      /\ Floor(c) \in Int /\ -1 <= Floor(c)
  BY DEF Tracks, Coordinator, Floor
<1>1. CASE c.lastHigh = None
  <2>1. c.pending = {}
    BY <1>1 DEF Tracks
  <2>2. Popped(c) = {}
    BY <2>1 DEF Popped
  <2>3. Advanced(c) = c
    BY <2>2 DEF Advanced
  <2> QED
    BY <1>0, <1>1, <2>3
<1>2. CASE c.lastHigh # None
  <2> DEFINE f == Floor(c)
             H == {x \in f .. next - 1 : \A s \in f + 1 .. x : s \in done}
  <2>1. f < next /\ c.fixed
    BY <1>0, <1>2 DEF Tracks, Floor, Coordinator
  <2>2. f \in H
    BY <1>0, <2>1
  <2>3. PICK h \in H : \A x \in H : x <= h
    <3>1. H \subseteq Int /\ H # {} /\ \A x \in H : x <= MaxSeq
      BY <1>0, <2>2
    <3>2. MaxSeq \in Int
      OBVIOUS
    <3> HIDE DEF H
    <3> QED
      BY Zenon, <3>1, <3>2, GreatestExists
  <2>4. h \in Int /\ f <= h /\ h < next /\ \A s \in f + 1 .. h : s \in done
    BY <1>0, <2>3
  <2>5. h + 1 < next => h + 1 \notin done
    <3> SUFFICES ASSUME h + 1 < next, h + 1 \in done PROVE FALSE
      OBVIOUS
    <3>1. h + 1 \in f .. next - 1
      BY <1>0, <2>4
    <3>2. \A s \in f + 1 .. h + 1 : s \in done
      BY <1>0, <2>4
    <3>3. h + 1 \in H
      BY <3>1, <3>2
    <3> QED
      BY <2>3, <2>4, <3>3
  <2> HIDE DEF H
  <2>6. \A r \in c.pending : /\ r.low \in Int /\ r.low = r.high /\ f < r.low /\ r.low < next
                             /\ r.committed <=> r.low \in done
    BY <1>0 DEF Tracks, PendingRange
  <2>7. \A s \in f + 1 .. next - 1 : \E r \in c.pending : r.low = s
    BY <1>2 DEF Tracks
  <2>8. \A q \in c.pending : Linked(c, q)
    <3> TAKE q \in c.pending
    <3>1. q.low \in Int /\ f < q.low /\ q.low < next
      BY <2>6
    <3>2. CASE q.low = f + 1
      <4>1. \A r \in c.pending : r.low >= q.low
        BY <1>0, <2>6, <3>2
      <4>2. q.low = SaturatingSucc(Floor(c))
        BY <1>0, <3>1, <3>2 DEF SaturatingSucc
      <4> QED
        BY <4>1, <4>2 DEF Linked
    <3>3. CASE q.low # f + 1
      <4>1. q.low - 1 \in f + 1 .. next - 1
        BY <1>0, <3>1, <3>3
      <4>2. PICK p \in c.pending : p.low = q.low - 1
        BY <4>1, <2>7
      <4>3. \A r \in c.pending : r.low <= p.low \/ r.low >= q.low
        BY <4>2, <3>1, <2>6
      <4>4. q.low = SaturatingSucc(p.high)
        BY <1>0, <4>2, <3>1, <2>6 DEF SaturatingSucc
      <4>5. p.low < q.low
        BY <3>1, <4>2
      <4> QED
        BY <4>2, <4>3, <4>4, <4>5 DEF Linked
    <3> QED
      BY <3>2, <3>3
  <2>9. Popped(c) = {r \in c.pending : r.low <= h}
    <3>1. ASSUME NEW r \in Popped(c) PROVE r.low <= h
      <4>1. r \in c.pending /\ \A q \in c.pending : q.low <= r.low => q.committed
        BY DEF Popped
      <4> SUFFICES ASSUME h < r.low PROVE FALSE
        BY <4>1, <2>4, <2>6
      <4>2. h + 1 \in f + 1 .. next - 1 /\ h + 1 <= r.low
        BY <1>0, <2>4, <2>6, <4>1
      <4>3. PICK q \in c.pending : q.low = h + 1
        BY <4>2, <2>7
      <4>4. h + 1 \in done
        BY <4>1, <4>2, <4>3, <2>6
      <4> QED
        BY <1>0, <4>2, <4>4, <2>4, <2>5
    <3>2. ASSUME NEW r \in c.pending, r.low <= h PROVE r \in Popped(c)
      <4>1. ASSUME NEW q \in c.pending, q.low <= r.low PROVE q.committed
        <5>1. q.low \in f + 1 .. h
          BY <1>0, <2>4, <2>6, <3>2, <4>1
        <5> QED
          BY <5>1, <2>4, <2>6
      <4> QED
        BY <4>1, <2>8 DEF Popped
    <3>3. Popped(c) \subseteq c.pending
      BY DEF Popped
    <3> QED
      BY <3>1, <3>2, <3>3
  <2>10. CASE h = f
    <3>1. Popped(c) = {}
      BY <2>9, <2>10, <2>6, <1>0
    <3>2. Advanced(c) = c
      BY <3>1 DEF Advanced
    <3> QED
      BY <1>0, <1>2, <2>4, <2>5, <2>10, <3>2
  <2>11. CASE h > f
    <3> DEFINE d == Advanced(c)
    <3>1. PICK top \in c.pending : top.low = h
      BY <1>0, <2>4, <2>7, <2>11
    <3>2. Popped(c) # {} /\ top \in Popped(c) /\ Popped(c) \subseteq PendingRange
      BY <1>0, <2>4, <2>9, <3>1
    <3>3. LastOf(Popped(c)) \in Popped(c) /\ top.low <= LastOf(Popped(c)).low
      BY <3>2, LastOfRanges
    <3>4. LastOf(Popped(c)).high = h
      BY <2>4, <2>6, <2>9, <3>1, <3>3
    <3>5. d = [c EXCEPT !.frontier = h, !.pending = @ \ Popped(c)]
      BY <2>1, <3>2, <3>4 DEF Advanced
    <3> HIDE DEF d
    <3>6. /\ d.frontier = h /\ d.pending = c.pending \ Popped(c)
          /\ d.lastHigh = c.lastHigh /\ d.initial = c.initial
          /\ d.baseline = c.baseline /\ d.fixed = c.fixed
      BY <1>0, <3>5 DEF Coordinator
    <3>7. h \in SeqNums
      BY <1>0, <2>4, <2>11
    <3>8. d \in Coordinator
      BY Zenon, <1>0, <3>5, <3>7 DEF Coordinator
    <3>9. Floor(d) = h
      BY <3>6, <3>7 DEF Floor
    <3>10. c.baseline < h /\ h <= c.lastHigh /\ next = c.lastHigh + 1
      BY <1>0, <1>2, <2>4, <2>11 DEF Tracks, Floor, Coordinator
    <3>11. \A r \in d.pending : /\ r.low = r.high /\ Floor(d) < r.low /\ r.low < next
                                /\ r.committed <=> r.low \in done
      BY <2>4, <2>6, <2>9, <3>6, <3>9
    <3>12. \A s \in Floor(d) + 1 .. next - 1 : \E r \in d.pending : r.low = s
      <4> TAKE s \in Floor(d) + 1 .. next - 1
      <4>1. s \in f + 1 .. next - 1 /\ ~(s <= h)
        BY <1>0, <2>4, <3>9
      <4>2. PICK r \in c.pending : r.low = s
        BY <4>1, <2>7
      <4> QED
        BY <4>1, <4>2, <2>9, <3>6
    <3>13. Tracks(d, next, done)
      BY <1>0, <1>2, <3>6, <3>8, <3>10, <3>11, <3>12 DEF Tracks
    <3> QED
      BY <2>4, <2>5, <2>11, <3>6, <3>9, <3>13 DEF d
  <2> QED
    BY <2>4, <2>10, <2>11, <1>0
<1> QED
  BY <1>1, <1>2

(* Of the sequences read up to `cursor`, those in `open` are not committed. *)
OpenIn(b, cursor, open) ==
  /\ b.lastHigh # None /\ cursor \in OptSeqNum
  /\ Tracks(b, cursor + 1, (0 .. cursor) \ open)
  /\ open \subseteq Floor(b) + 1 .. cursor

(* s is committed next, which leaves the coordinator c: the frontier h is  *)
(* as far as it can go, and acked_frontier has moved only if it has.       *)
Completes(b, cursor, open, s, c, h) ==
  /\ c.lastHigh # None /\ c.initial = b.initial
  /\ Tracks(c, cursor + 1, (0 .. cursor) \ (open \ {s}))
  /\ Floor(b) \in OptSeqNum /\ h \in OptSeqNum /\ Floor(b) <= h /\ h <= cursor
  /\ Floor(c) = h
  /\ open \ {s} \subseteq h + 1 .. cursor
  /\ h < cursor => h + 1 \in open \ {s}
  /\ h = Floor(b) => c.frontier = b.frontier
  /\ h > Floor(b) => c.frontier = h /\ h > b.frontier /\ h # None

(* mark_committed accepts any open unit, and advance_frontier then moves   *)
(* the high watermark to just below the lowest unit still open.            *)
LEMMA CompletionAdvances ==
  ASSUME NEW b, NEW cursor, NEW open, OpenIn(b, cursor, open), NEW s \in open
  PROVE  /\ MarkAccepts(b, s, s)
         /\ \E h : Completes(b, cursor, open, s, Advanced(Committed(b, s)), h)
<1>0. /\ b.lastHigh # None /\ cursor \in OptSeqNum
      /\ Tracks(b, cursor + 1, (0 .. cursor) \ open)
      /\ open \subseteq Floor(b) + 1 .. cursor
  BY DEF OpenIn
<1> USE MaxSeqAssumption
<1> DEFINE m == Committed(b, s)
           c == Advanced(m)
           left == open \ {s}
           D == (0 .. cursor) \ open
           E == (0 .. cursor) \ left
<1>1. b \in Coordinator
  BY <1>0 DEF Tracks
<1>2. Floor(b) \in OptSeqNum /\ b.frontier \in OptSeqNum
  BY <1>1 DEF Coordinator, Floor
<1>3. s \in 0 .. cursor /\ s \in Floor(b) + 1 .. (cursor + 1) - 1
  BY <1>0, <1>2 DEF OptSeqNum, SeqNums, None
<1>4. D \cup {s} = E
  BY <1>3
<1> HIDE DEF D, E, left
<1>5. /\ MarkAccepts(b, s, s)
      /\ Tracks(m, cursor + 1, E)
      /\ Floor(m) = Floor(b) /\ m.lastHigh = b.lastHigh /\ m.frontier = b.frontier
      /\ m.initial = b.initial
  <2>1. Tracks(b, cursor + 1, D)
    BY <1>0 DEF D
  <2>2. /\ MarkAccepts(b, s, s)
        /\ Tracks(m, cursor + 1, D \cup {s})
        /\ Floor(m) = Floor(b) /\ m.lastHigh = b.lastHigh /\ m.frontier = b.frontier
        /\ m.initial = b.initial
    BY Zenon, <1>0, <1>3, <2>1, MarkPending
  <2> QED
    BY Zenon, <2>2, <1>4
<1> HIDE DEF m
<1>6. PICK h \in Int :
         /\ Floor(m) <= h
         /\ \A e \in Floor(m) + 1 .. h : e \in E
         /\ m.lastHigh # None =>
              h < cursor + 1 /\ (h + 1 < cursor + 1 => h + 1 \notin E)
         /\ Tracks(c, cursor + 1, E)
         /\ h = Floor(m) => c = m
         /\ h > Floor(m) => c.frontier = h
         /\ Floor(c) = h
         /\ c.lastHigh = m.lastHigh /\ c.initial = m.initial
  BY Zenon, <1>5, AdvanceReaches
<1> HIDE DEF c
<1>7. h \in OptSeqNum /\ Floor(b) <= h /\ h <= cursor
  BY <1>0, <1>2, <1>5, <1>6 DEF OptSeqNum, SeqNums, None
<1>8. left \subseteq h + 1 .. cursor
  <2> SUFFICES ASSUME NEW e \in left
               PROVE  e \in h + 1 .. cursor
    OBVIOUS
  <2>1. e \in Floor(b) + 1 .. cursor
    BY <1>0 DEF left
  <2>2. e \notin E
    BY DEF E
  <2>3. e \notin Floor(b) + 1 .. h
    BY <2>2, <1>5, <1>6
  <2> QED
    BY <2>1, <2>3, <1>0, <1>2, <1>7 DEF OptSeqNum, SeqNums, None
<1>9. h < cursor => h + 1 \in left
  <2> SUFFICES ASSUME h < cursor
               PROVE  h + 1 \in left
    OBVIOUS
  <2>1. h + 1 \in 0 .. cursor /\ h + 1 < cursor + 1
    BY <1>0, <1>7 DEF OptSeqNum, SeqNums, None
  <2>2. h + 1 \notin E
    BY <2>1, <1>0, <1>5, <1>6
  <2> QED
    BY <2>1, <2>2 DEF E
<1>10. h = Floor(b) => c.frontier = b.frontier
  BY <1>5, <1>6
<1>11. h > Floor(b) => c.frontier = h /\ h > b.frontier /\ h # None
  BY <1>2, <1>5, <1>6, <1>7 DEF Floor, OptSeqNum, SeqNums, None
<1>12. Tracks(c, cursor + 1, E) /\ c.lastHigh # None /\ c.initial = b.initial
  BY <1>0, <1>5, <1>6
<1>13. Completes(b, cursor, open, s, c, h)
  BY <1>2, <1>6, <1>7, <1>8, <1>9, <1>10, <1>11, <1>12 DEF Completes, left, E
<1> QED
  BY <1>5, <1>13 DEF c, m

-----------------------------------------------------------------------------
(* A nonempty collection of subsets of a finite set has a minimal one:     *)
(* the form of induction over finite sets that the provers can use.        *)
LEMMA MinimalSubset ==
  ASSUME NEW S, IsFiniteSet(S), NEW Bad, Bad \subseteq SUBSET S, Bad # {}
  PROVE  \E U \in Bad : \A V \in Bad : V \subseteq U => V = U
<1>1. IsWellFoundedOn(StrictSubsetOrdering(S), FiniteSubsetsOf(S))
  BY FS_StrictSubsetOrderingWellFounded
<1>2. FiniteSubsetsOf(S) = SUBSET S
  BY FS_FiniteSubsetsOfFinite
<1>3. PICK U \in Bad : \A V \in Bad : ~(<<V, U>> \in StrictSubsetOrdering(S))
  BY <1>1, <1>2, WFMin
<1>4. ASSUME NEW V \in Bad, V \subseteq U PROVE V = U
  BY Zenon, <1>3, <1>4 DEF StrictSubsetOrdering
<1> QED
  BY <1>4

AnyOf(s) == CHOOSE x \in s : TRUE

(* AnyOf picks a member. *)
LEMMA AnyOfIn == ASSUME NEW s, s # {} PROVE AnyOf(s) \in s
BY DEF AnyOf

(* The sum of nothing is 0; else an element is added to the sum of the     *)
(* others.  The fold that Total is made of chooses a function on the       *)
(* subsets of S that satisfies its recursive equation: there is one, on    *)
(* the subsets of at most n members for every n, and any two agree.        *)
LEMMA TotalEquation ==
  ASSUME NEW f, NEW S, IsFiniteSet(S)
  PROVE  Total(f, S) = IF S = {} THEN 0
                       ELSE f[AnyOf(S)] + Total(f, S \ {AnyOf(S)})
<1> DEFINE Step(g, s) == IF s = {} THEN 0 ELSE f[AnyOf(s)] + g[s \ {AnyOf(s)}]
           Solves(g, D) == g = [s \in D |-> Step(g, s)]
           Sums(T) == CHOOSE g : Solves(g, SUBSET T)
           UpTo(n) == {s \in SUBSET S : Cardinality(s) <= n}
<1>1. \A T : Total(f, T) = Sums(T)[T]
  BY DEF Total, MapThenSumSet, MapThenFoldSet, AnyOf
<1> HIDE DEF Sums
<1>2. \A s \in SUBSET S : IsFiniteSet(s) /\ Cardinality(s) \in Nat
  BY FS_Subset, FS_CardinalityType
<1>3. ASSUME NEW n \in Nat, NEW h, n > 0 => Solves(h, UpTo(n - 1))
      PROVE  \E g : Solves(g, UpTo(n))
  <2> DEFINE g == [s \in UpTo(n) |-> Step(h, s)]
  <2>1. ASSUME NEW s \in UpTo(n), s # {}
        PROVE  n > 0 /\ s \ {AnyOf(s)} \in UpTo(n - 1)
    <3>1. AnyOf(s) \in s
      BY <2>1, AnyOfIn
    <3>2. Cardinality(s \ {AnyOf(s)}) = Cardinality(s) - 1 /\ Cardinality(s \ {AnyOf(s)}) \in Nat
      BY <1>2, <3>1, FS_RemoveElement
    <3> QED
      BY <1>2, <3>2
  <2>2. ASSUME n > 0, NEW t \in UpTo(n - 1)
        PROVE  t \in UpTo(n) /\ g[t] = h[t]
    <3>1. t \in UpTo(n)
      BY <1>2
    <3>2. h[t] = Step(h, t)
      BY <1>3, <2>2
    <3> QED
      BY <3>1, <3>2
  <2>3. \A s \in UpTo(n) : Step(h, s) = Step(g, s)
    <3> HIDE DEF g, UpTo
    <3> QED
      BY <2>1, <2>2
  <2>4. Solves(g, UpTo(n))
    BY <2>3
  <2> QED
    BY <2>4
<1>4. \E g : Solves(g, SUBSET S)
  <2> HIDE DEF Solves, UpTo
  <2> DEFINE Bad == {n \in Nat : ~ \E g : Solves(g, UpTo(n))}
  <2>1. Bad = {}
    <3> SUFFICES ASSUME Bad # {} PROVE FALSE
      OBVIOUS
    <3>1. Bad \subseteq Nat
      OBVIOUS
    <3>2. PICK n \in Bad : \A m \in Bad : n <= m
      <4> HIDE DEF Bad
      <4> QED
        BY <3>1, LeastExists
    <3>3. n > 0 => n - 1 \in Nat \ Bad
      BY <3>2
    <3>4. PICK h : n > 0 => Solves(h, UpTo(n - 1))
      BY Zenon, <3>3
    <3>5. n \in Nat /\ ~ \E g : Solves(g, UpTo(n))
      BY <3>2
    <3> QED
      BY Zenon, <1>3, <3>4, <3>5
  <2>2. UpTo(Cardinality(S)) = SUBSET S /\ Cardinality(S) \in Nat
    BY <1>2, FS_Subset DEF UpTo
  <2>3. \E g : Solves(g, UpTo(Cardinality(S)))
    BY Zenon, <2>1, <2>2
  <2> QED
    BY Zenon, <2>2, <2>3
<1> DEFINE g == Sums(S)
<1>5. Solves(g, SUBSET S)
  <2> HIDE DEF Solves
  <2> QED
    BY Zenon, <1>4 DEF Sums
<1> HIDE DEF g
<1>6. g[S] = Step(g, S)
  BY <1>5
<1>7. CASE S = {}
  BY <1>1, <1>6, <1>7 DEF g
<1>8. CASE S # {}
  <2> DEFINE T == S \ {AnyOf(S)}
             h == Sums(T)
             Bad == {V \in SUBSET T : g[V] # h[V]}
  <2>1. Solves(h, SUBSET T)
    <3> DEFINE k == [s \in SUBSET T |-> g[s]]
    <3>1. \A s \in SUBSET T : g[s] = Step(g, s)
      BY <1>5
    <3>2. \A s \in SUBSET T : Step(k, s) = Step(g, s)
      OBVIOUS
    <3>3. Solves(k, SUBSET T)
      BY <3>1, <3>2
    <3> HIDE DEF Solves, k
    <3> QED
      BY Zenon, <3>3 DEF Sums
  <2> HIDE DEF h
  <2>2. Bad = {}
    <3> SUFFICES ASSUME Bad # {} PROVE FALSE
      OBVIOUS
    <3>1. IsFiniteSet(T) /\ Bad \subseteq SUBSET T
      BY FS_Subset
    <3>2. PICK V \in Bad : \A W \in Bad : W \subseteq V => W = V
      <4> HIDE DEF Bad, T
      <4> QED
        BY <3>1, MinimalSubset
    <3>3. V \in SUBSET T /\ V \in SUBSET S /\ g[V] # h[V]
      OBVIOUS
    <3>4. g[V] = Step(g, V) /\ h[V] = Step(h, V)
      BY <1>5, <2>1, <3>3
    <3>5. V # {} => V \ {AnyOf(V)} \in SUBSET T /\ V \ {AnyOf(V)} # V
      BY <3>3, AnyOfIn
    <3>6. V # {} => g[V \ {AnyOf(V)}] = h[V \ {AnyOf(V)}]
      BY <3>2, <3>5
    <3> QED
      BY <3>3, <3>4, <3>6
  <2>3. g[T] = h[T]
    BY Zenon, <2>2
  <2> QED
    BY <1>1, <1>6, <1>8, <2>3 DEF g, h
<1> QED
  BY <1>7, <1>8

(* Nothing adds up to zero. *)
LEMMA TotalEmpty ==
  ASSUME NEW f
  PROVE  Total(f, {}) = 0
BY FS_EmptySet, TotalEquation

(* A total of integers is an integer. *)
LEMMA TotalInt ==
  ASSUME NEW f, NEW S, IsFiniteSet(S), \A x \in S : f[x] \in Int
  PROVE  Total(f, S) \in Int
<1> DEFINE Bad == {T \in SUBSET S : Total(f, T) \notin Int}
<1> SUFFICES ASSUME Bad # {} PROVE FALSE
  OBVIOUS
<1>1. PICK T \in Bad : \A U \in Bad : U \subseteq T => U = T
  <2>1. Bad \subseteq SUBSET S
    OBVIOUS
  <2> HIDE DEF Bad
  <2> QED
    BY <2>1, MinimalSubset
<1>2. IsFiniteSet(T)
  BY FS_Subset
<1>3. T # {}
  BY TotalEmpty
<1>4. AnyOf(T) \in T
  BY <1>3, AnyOfIn
<1>5. Total(f, T \ {AnyOf(T)}) \in Int
  BY <1>1, <1>4
<1> QED
  BY <1>2, <1>3, <1>4, <1>5, TotalEquation

(* Any element can be taken out. *)
LEMMA TotalRemove ==
  ASSUME NEW f, NEW S, IsFiniteSet(S), \A y \in S : f[y] \in Int, NEW x \in S
  PROVE  Total(f, S) = f[x] + Total(f, S \ {x})
<1> DEFINE Bad == {T \in SUBSET S : \E y \in T : Total(f, T) # f[y] + Total(f, T \ {y})}
<1> SUFFICES ASSUME Bad # {} PROVE FALSE
  BY Zenon
<1>1. PICK T \in Bad : \A U \in Bad : U \subseteq T => U = T
  <2>1. Bad \subseteq SUBSET S
    OBVIOUS
  <2> HIDE DEF Bad
  <2> QED
    BY <2>1, MinimalSubset
<1>2. PICK y \in T : Total(f, T) # f[y] + Total(f, T \ {y})
  OBVIOUS
<1> DEFINE p == AnyOf(T)
           R == T \ {p, y}
<1>3. IsFiniteSet(T) /\ IsFiniteSet(R)
  BY FS_Subset
<1>4. p \in T
  BY AnyOfIn
<1>5. Total(f, T) = f[p] + Total(f, T \ {p})
  BY <1>3, TotalEquation
<1>6. p # y
  BY <1>2, <1>5
<1>7. Total(f, T \ {p}) = f[y] + Total(f, R)
  <2>1. T \ {p} \notin Bad /\ (T \ {p}) \ {y} = R
    BY <1>1, <1>4
  <2> QED
    BY Zenon, <2>1, <1>6
<1>8. Total(f, T \ {y}) = f[p] + Total(f, R)
  <2>1. T \ {y} \notin Bad /\ (T \ {y}) \ {p} = R
    BY Zenon, <1>1
  <2> QED
    BY Zenon, <2>1, <1>4, <1>6
<1>9. Total(f, R) \in Int /\ f[p] \in Int /\ f[y] \in Int
  BY <1>3, <1>4, TotalInt
<1> QED
  BY <1>2, <1>5, <1>7, <1>8, <1>9

(* One more member adds its value. *)
LEMMA TotalAdd ==
  ASSUME NEW f, NEW S, IsFiniteSet(S), NEW x, x \notin S,
         \A y \in S \cup {x} : f[y] \in Int
  PROVE  Total(f, S \cup {x}) = f[x] + Total(f, S)
<1>1. IsFiniteSet(S \cup {x}) /\ (S \cup {x}) \ {x} = S
  BY FS_AddElement
<1> QED
  BY <1>1, TotalRemove

(* Larger values have a larger sum; only the values on the set matter. *)
LEMMA TotalMonotonic ==
  ASSUME NEW f, NEW g, NEW S, IsFiniteSet(S),
         \A x \in S : f[x] \in Int /\ g[x] \in Int /\ f[x] <= g[x]
  PROVE  Total(f, S) <= Total(g, S)
<1> DEFINE Bad == {T \in SUBSET S : ~(Total(f, T) <= Total(g, T))}
<1> SUFFICES ASSUME Bad # {} PROVE FALSE
  OBVIOUS
<1>1. PICK T \in Bad : \A U \in Bad : U \subseteq T => U = T
  <2>1. Bad \subseteq SUBSET S
    OBVIOUS
  <2> HIDE DEF Bad
  <2> QED
    BY <2>1, MinimalSubset
<1>2. IsFiniteSet(T)
  BY FS_Subset
<1>3. T # {}
  BY TotalEmpty
<1> DEFINE p == AnyOf(T)
           R == T \ {p}
<1>4. p \in T /\ IsFiniteSet(R)
  BY <1>2, <1>3, AnyOfIn, FS_RemoveElement
<1>5. Total(f, R) <= Total(g, R)
  BY <1>1, <1>4
<1>6. Total(f, T) = f[p] + Total(f, R) /\ Total(g, T) = g[p] + Total(g, R)
  BY <1>2, <1>3, TotalEquation
<1>7. Total(f, R) \in Int /\ Total(g, R) \in Int
  BY <1>4, TotalInt
<1>8. f[p] \in Int /\ g[p] \in Int /\ f[p] <= g[p]
  BY <1>4
<1>9. ~(Total(f, T) <= Total(g, T))
  OBVIOUS
<1> HIDE DEF p, R
<1> QED
  BY <1>5, <1>6, <1>7, <1>8, <1>9

(* A total depends only on the values at the members. *)
LEMMA TotalSame ==
  ASSUME NEW f, NEW g, NEW S, IsFiniteSet(S),
         \A x \in S : f[x] \in Int /\ g[x] = f[x]
  PROVE  Total(g, S) = Total(f, S)
<1>1. Total(f, S) <= Total(g, S) /\ Total(g, S) <= Total(f, S)
  BY TotalMonotonic
<1> QED
  BY <1>1, TotalInt

(* A total of naturals is a natural, and no member exceeds it. *)
LEMMA TotalNat ==
  ASSUME NEW f, NEW S, IsFiniteSet(S), \A x \in S : f[x] \in Nat
  PROVE  /\ Total(f, S) \in Nat
         /\ \A x \in S : f[x] <= Total(f, S)
<1> DEFINE Bad == {T \in SUBSET S : Total(f, T) \notin Nat}
<1>1. ASSUME NEW T \in SUBSET S PROVE Total(f, T) \in Nat
  <2> SUFFICES ASSUME Bad # {} PROVE FALSE
    OBVIOUS
  <2>1. PICK V \in Bad : \A U \in Bad : U \subseteq V => U = V
    <3>1. Bad \subseteq SUBSET S
      OBVIOUS
    <3> HIDE DEF Bad
    <3> QED
      BY <3>1, MinimalSubset
  <2>2. IsFiniteSet(V) /\ V # {}
    <3>1. V \in SUBSET S /\ Total(f, V) \notin Nat
      OBVIOUS
    <3> HIDE DEF Bad
    <3>2. IsFiniteSet(V)
      BY <3>1, FS_Subset
    <3>3. Total(f, {}) \in Nat
      BY TotalEmpty
    <3> QED
      BY <3>1, <3>2, <3>3
  <2>3. AnyOf(V) \in V
    BY <2>2, AnyOfIn
  <2>4. Total(f, V \ {AnyOf(V)}) \in Nat
    BY <2>1, <2>3
  <2> QED
    BY <2>2, <2>3, <2>4, TotalEquation
<1>2. ASSUME NEW x \in S PROVE f[x] <= Total(f, S)
  <2>1. Total(f, S) = f[x] + Total(f, S \ {x})
    BY TotalRemove
  <2>2. Total(f, S \ {x}) \in Nat
    BY <1>1
  <2> QED
    BY <2>1, <2>2
<1> QED
  BY <1>1, <1>2

(* Changing one value changes the sum by as much. *)
LEMMA TotalUpdate ==
  ASSUME NEW f, NEW g, NEW S, IsFiniteSet(S), NEW x \in S,
         \A y \in S : f[y] \in Int /\ g[y] \in Int,
         \A y \in S \ {x} : g[y] = f[y]
  PROVE  Total(g, S) = Total(f, S) - f[x] + g[x]
<1>1. IsFiniteSet(S \ {x})
  BY FS_RemoveElement
<1>2. Total(g, S \ {x}) = Total(f, S \ {x})
  BY <1>1, TotalSame
<1>3. Total(f, S) = f[x] + Total(f, S \ {x}) /\ Total(g, S) = g[x] + Total(g, S \ {x})
  BY TotalRemove
<1>4. Total(f, S \ {x}) \in Int
  BY <1>1, TotalInt
<1> QED
  BY <1>2, <1>3, <1>4

(* A sum over two disjoint sets. *)
LEMMA TotalUnion ==
  ASSUME NEW f, NEW S, NEW T, IsFiniteSet(S), IsFiniteSet(T), S \cap T = {},
         \A x \in S \cup T : f[x] \in Int
  PROVE  Total(f, S \cup T) = Total(f, S) + Total(f, T)
<1> DEFINE Bad == {U \in SUBSET T : Total(f, S \cup U) # Total(f, S) + Total(f, U)}
<1> SUFFICES ASSUME Bad # {} PROVE FALSE
  BY Zenon
<1>1. PICK U \in Bad : \A V \in Bad : V \subseteq U => V = U
  <2>1. Bad \subseteq SUBSET T
    OBVIOUS
  <2> HIDE DEF Bad
  <2> QED
    BY <2>1, MinimalSubset
<1>2. IsFiniteSet(U)
  BY FS_Subset
<1>3. Total(f, S) \in Int
  BY TotalInt
<1>4. U # {}
  <2>1. S \cup {} = S
    OBVIOUS
  <2> QED
    BY <2>1, <1>3, TotalEmpty
<1> DEFINE p == AnyOf(U)
           R == U \ {p}
<1>5. p \in U /\ IsFiniteSet(R) /\ IsFiniteSet(S \cup R) /\ IsFiniteSet(S \cup U)
  BY Zenon, <1>2, <1>4, AnyOfIn, FS_RemoveElement, FS_Union
<1>6. Total(f, S \cup R) = Total(f, S) + Total(f, R)
  BY <1>1, <1>5
<1>7. Total(f, U) = f[p] + Total(f, R)
  BY <1>2, <1>4, TotalEquation
<1>8. Total(f, S \cup U) = f[p] + Total(f, S \cup R)
  <2>1. (S \cup U) \ {p} = S \cup R /\ p \in S \cup U
    BY <1>5
  <2>2. \A y \in S \cup U : f[y] \in Int
    OBVIOUS
  <2> HIDE DEF p, R
  <2> QED
    BY <2>1, <2>2, <1>5, TotalRemove
<1>9. Total(f, R) \in Int /\ f[p] \in Int
  BY <1>5, TotalInt
<1> QED
  BY <1>3, <1>6, <1>7, <1>8, <1>9

(* Values up to B: the sum is at most B for each element. *)
LEMMA TotalBound ==
  ASSUME NEW f, NEW S, IsFiniteSet(S), NEW B \in Int,
         \A x \in S : f[x] \in Int /\ f[x] <= B
  PROVE  Total(f, S) <= B * Cardinality(S)
<1> DEFINE Bad == {T \in SUBSET S : ~(Total(f, T) <= B * Cardinality(T))}
<1> SUFFICES ASSUME Bad # {} PROVE FALSE
  OBVIOUS
<1>1. PICK T \in Bad : \A U \in Bad : U \subseteq T => U = T
  <2>1. Bad \subseteq SUBSET S
    OBVIOUS
  <2> HIDE DEF Bad
  <2> QED
    BY <2>1, MinimalSubset
<1>2. IsFiniteSet(T)
  BY FS_Subset
<1>3. T # {}
  BY TotalEmpty, FS_EmptySet
<1> DEFINE p == AnyOf(T)
           R == T \ {p}
<1>4. p \in T /\ IsFiniteSet(R)
  BY <1>2, <1>3, AnyOfIn, FS_RemoveElement
<1>5. Total(f, R) <= B * Cardinality(R)
  BY <1>1, <1>4
<1>6. Total(f, T) = f[p] + Total(f, R)
  BY <1>2, <1>3, TotalEquation
<1>7. Total(f, R) \in Int /\ f[p] \in Int /\ f[p] <= B
  BY <1>4, TotalInt
<1>8. Cardinality(R) = Cardinality(T) - 1 /\ Cardinality(T) \in Nat
  BY <1>2, <1>4, FS_RemoveElement, FS_CardinalityType
<1>9. B * Cardinality(T) = B * Cardinality(R) + B
  BY <1>8
<1>10. B * Cardinality(R) \in Int
  BY <1>8
<1> QED
  BY <1>1, <1>5, <1>6, <1>7, <1>9, <1>10

(* Every element counts the same. *)
LEMMA TotalConstant ==
  ASSUME NEW f, NEW S, IsFiniteSet(S), NEW B \in Int, \A x \in S : f[x] = B
  PROVE  Total(f, S) = B * Cardinality(S)
<1> DEFINE Bad == {T \in SUBSET S : ~(Total(f, T) = B * Cardinality(T))}
<1> SUFFICES ASSUME Bad # {} PROVE FALSE
  OBVIOUS
<1>1. PICK T \in Bad : \A U \in Bad : U \subseteq T => U = T
  <2>1. Bad \subseteq SUBSET S
    OBVIOUS
  <2> HIDE DEF Bad
  <2> QED
    BY <2>1, MinimalSubset
<1>2. IsFiniteSet(T)
  BY FS_Subset
<1>3. T # {}
  BY TotalEmpty, FS_EmptySet
<1> DEFINE p == AnyOf(T)
           R == T \ {p}
<1>4. p \in T /\ IsFiniteSet(R)
  BY <1>2, <1>3, AnyOfIn, FS_RemoveElement
<1>5. Total(f, R) = B * Cardinality(R)
  BY <1>1, <1>4
<1>6. Total(f, T) = f[p] + Total(f, R)
  BY <1>2, <1>3, TotalEquation
<1>7. f[p] = B
  BY <1>4
<1>8. Cardinality(R) = Cardinality(T) - 1 /\ Cardinality(T) \in Nat
  BY <1>2, <1>4, FS_RemoveElement, FS_CardinalityType
<1>9. B * Cardinality(T) = B * Cardinality(R) + B
  BY <1>8
<1>10. B * Cardinality(R) \in Int
  BY <1>8
<1> QED
  BY <1>1, <1>5, <1>6, <1>7, <1>9, <1>10

-----------------------------------------------------------------------------
(* The size of a disjoint union. *)
LEMMA DisjointSizes ==
  ASSUME NEW S, NEW T, IsFiniteSet(S), IsFiniteSet(T), S \cap T = {}
  PROVE  Cardinality(S \cup T) = Cardinality(S) + Cardinality(T)
<1>1. Cardinality(S \cup T) = Cardinality(S) + Cardinality(T) - Cardinality(S \cap T)
  BY FS_Union
<1>2. Cardinality(S \cap T) = 0 /\ Cardinality(S) \in Nat /\ Cardinality(T) \in Nat
  BY FS_EmptySet, FS_CardinalityType
<1> QED
  BY <1>1, <1>2

(* A sum bounded element by element, over a set that free places complete  *)
(* to `most`.                                                              *)
LEMMA GrowthBounded ==
  ASSUME NEW S, IsFiniteSet(S), NEW g, \A x \in S : g[x] \in Int, NEW h \in Nat,
         \A x \in S : g[x] <= h,
         NEW free \in Nat, NEW most, free + Cardinality(S) = most,
         NEW used \in Nat, NEW cap \in Nat, used <= cap + Total(g, S)
  PROVE  used <= cap + most * h
<1> DEFINE k == Cardinality(S)
           sum == Total(g, S)
<1>1. k \in Nat /\ most = free + k
  BY FS_CardinalityType
<1>2. sum <= h * k /\ sum \in Int
  <2>1. h \in Int
    OBVIOUS
  <2> QED
    BY <2>1, TotalBound, TotalInt
<1>3. used <= cap + sum
  OBVIOUS
<1> HIDE DEF k, sum
<1>4. most * h = h * k + free * h /\ free * h \in Nat /\ h * k \in Nat
  BY <1>1
<1> QED
  BY <1>1, <1>2, <1>3, <1>4

(* What the sums of f and g, g no larger, become without some elements.    *)
LessWithout(S, gone, left, f, g, f2, g2) ==
  /\ Cardinality(S) = Cardinality(gone) + Cardinality(left)
  /\ Total(f2, left) = Total(f, S) - Total(f, gone)
  /\ Total(g, S) - Total(f, gone) <= Total(g2, left)
  /\ {Total(f, S), Total(f, gone), Total(g, S), Total(g2, left)} \subseteq Int

(* The two sums when elements leave the set.                               *)
LEMMA SumsWithout ==
  ASSUME NEW S, IsFiniteSet(S), NEW gone, gone \subseteq S, NEW left, left = S \ gone,
         NEW f, NEW g, \A x \in S : f[x] \in Nat /\ g[x] \in Nat /\ g[x] <= f[x],
         NEW f2, NEW g2, \A x \in left : f2[x] = f[x] /\ g2[x] = g[x]
  PROVE  LessWithout(S, gone, left, f, g, f2, g2)
<1>1. /\ IsFiniteSet(gone) /\ IsFiniteSet(left)
      /\ gone \cap left = {} /\ gone \cup left = S
  BY FS_Subset
<1>2. Cardinality(S) = Cardinality(gone) + Cardinality(left)
  BY Zenon, <1>1, DisjointSizes
<1>3. \A x \in gone \cup left : f[x] \in Int /\ g[x] \in Int
  BY <1>1
<1>4. Total(f, S) = Total(f, gone) + Total(f, left)
  BY <1>1, <1>3, TotalUnion
<1>5. Total(g, S) = Total(g, gone) + Total(g, left)
  BY <1>1, <1>3, TotalUnion
<1>6. Total(f2, left) = Total(f, left) /\ Total(g2, left) = Total(g, left)
  BY <1>1, <1>3, TotalSame
<1>7. Total(g, gone) <= Total(f, gone)
  BY Zenon, <1>1, <1>3, TotalMonotonic
<1>8. /\ Total(f, gone) \in Int /\ Total(f, left) \in Int
      /\ Total(g, gone) \in Int /\ Total(g, left) \in Int
  BY Zenon, <1>1, <1>3, TotalInt
<1> QED
  BY <1>2, <1>4, <1>5, <1>6, <1>7, <1>8 DEF LessWithout

(* What the sums become with new elements, each e in f and nothing in g.   *)
MoreWith(S, new, all, e, f, g, f2, g2) ==
  /\ Cardinality(all) = Cardinality(S) + Cardinality(new)
  /\ Total(f2, all) = Total(f, S) + Cardinality(new) * e
  /\ Total(g2, all) = Total(g, S)
  /\ Total(f, S) \in Int /\ Total(g, S) \in Nat

(* The two sums when elements join the set.                                *)
LEMMA SumsWith ==
  ASSUME NEW S, IsFiniteSet(S), NEW new, IsFiniteSet(new), new \cap S = {},
         NEW all, all = S \cup new, NEW e \in Nat,
         NEW f, NEW g, \A x \in S : f[x] \in Nat /\ g[x] \in Nat,
         NEW f2, NEW g2, \A x \in S : f2[x] = f[x] /\ g2[x] = g[x],
         \A x \in new : f2[x] = e /\ g2[x] = 0
  PROVE  MoreWith(S, new, all, e, f, g, f2, g2)
<1>1. Cardinality(all) = Cardinality(S) + Cardinality(new) /\ Cardinality(new) \in Nat
  <2>1. Cardinality(S \cup new) = Cardinality(S) + Cardinality(new)
    BY DisjointSizes
  <2> QED
    BY <2>1, FS_CardinalityType
<1>2. \A x \in S \cup new : f2[x] \in Int /\ g2[x] \in Int
  OBVIOUS
<1>3. Total(f2, all) = Total(f2, S) + Total(f2, new)
  BY <1>2, TotalUnion
<1>4. Total(g2, all) = Total(g2, S) + Total(g2, new)
  BY <1>2, TotalUnion
<1>5. Total(f2, S) = Total(f, S) /\ Total(g2, S) = Total(g, S)
  <2>1. \A x \in S : f[x] \in Int /\ g[x] \in Int
    OBVIOUS
  <2> QED
    BY Zenon, <2>1, TotalSame
<1>6. Total(f2, new) = e * Cardinality(new)
  BY TotalConstant
<1>7. Total(g2, new) = 0 * Cardinality(new)
  BY TotalConstant
<1>8. Total(f, S) \in Nat /\ Total(g, S) \in Nat
  BY TotalNat
<1>9. e * Cardinality(new) = Cardinality(new) * e /\ 0 * Cardinality(new) = 0
      /\ e * Cardinality(new) \in Nat
  BY <1>1
<1> QED
  BY <1>1, <1>3, <1>4, <1>5, <1>6, <1>7, <1>8, <1>9 DEF MoreWith

(* The larger of a number and zero. *)
LEMMA AtLeastZero ==
  ASSUME NEW d \in Int
  PROVE  Max({0, d}) = IF d > 0 THEN d ELSE 0
<1>1. \E x \in {0, d} : \A y \in {0, d} : x >= y
  OBVIOUS
<1>2. Max({0, d}) \in {0, d} /\ \A y \in {0, d} : Max({0, d}) >= y
  BY <1>1 DEF Max
<1> QED
  BY <1>2

(* The floor of a quotient. *)
LEMMA QuotientBound ==
  ASSUME NEW a \in Nat, NEW e \in Nat \ {0}, NEW k \in Nat, k <= a \div e
  PROVE  k * e <= a
<1> DEFINE q == a \div e
<1>1. q \in Nat /\ e * q <= a
  OBVIOUS
<1> HIDE DEF q
<1>2. k <= q
  BY DEF q
<1>3. q - k \in Nat /\ (q - k) * e >= 0
  BY <1>1, <1>2
<1>4. (q - k) * e = e * q - k * e
  BY <1>1, <1>2
<1>5. k * e \in Int /\ e * q \in Int
  BY <1>1
<1> QED
  BY <1>1, <1>3, <1>4, <1>5

(* How much may be taken at once: perTake, what is free, and what fits     *)
(* beside a first unit of size e.                                          *)
TakeTarget(free, used, e, cap, perTake) ==
  Min({Max({perTake, 1}), free, 1 + Max({0, cap - (used + e)}) \div Max({e, 1})})

(* A take of n at a gate that found one place free and, for units of a     *)
(* size, room for one unit: within the free places and within the room.    *)
LEMMA TakeFits ==
  ASSUME NEW free \in Nat, NEW used \in Nat, NEW e \in Nat, NEW cap \in Nat,
         NEW perTake \in Nat, e = 0 \/ used + e <= cap,
         NEW gates \in 1 .. TakeTarget(free, used, e, cap, perTake),
         NEW n \in Nat \ {0}, n <= gates
  PROVE  n <= free /\ (e = 0 \/ used + n * e <= cap)
<1> DEFINE first == Max({perTake, 1})
           unit == Max({e, 1})
           room == Max({0, cap - (used + e)})
           extra == room \div unit
           target == TakeTarget(free, used, e, cap, perTake)
<1>1. first \in Int
  <2>1. \E x \in {perTake, 1} : \A y \in {perTake, 1} : x >= y
    OBVIOUS
  <2> QED
    BY <2>1 DEF Max
<1>2. unit \in Nat \ {0} /\ (e # 0 => unit = e)
  <2>1. \E x \in {e, 1} : \A y \in {e, 1} : x >= y
    OBVIOUS
  <2>2. unit \in {e, 1} /\ \A y \in {e, 1} : unit >= y
    BY <2>1 DEF Max
  <2> QED
    BY <2>2
<1>3. room \in Nat /\ (e # 0 => room = cap - (used + e))
  <2> DEFINE d == cap - (used + e)
  <2>1. d \in Int /\ room = Max({0, d}) /\ (e # 0 => d >= 0)
    OBVIOUS
  <2> HIDE DEF d
  <2>2. room = IF d > 0 THEN d ELSE 0
    BY <2>1, AtLeastZero
  <2>3. room \in Nat /\ (e # 0 => room = d)
    BY <2>1, <2>2
  <2> QED
    BY <2>3 DEF d
<1> HIDE DEF unit, first, room
<1>4. extra \in Nat /\ extra = room \div unit
  BY <1>2, <1>3
<1> DEFINE most == 1 + extra
<1>5. most \in Int /\ most = 1 + extra
  BY <1>4
<1>6. target = Min({first, free, most})
  BY DEF first, unit, room, TakeTarget
<1> HIDE DEF extra, most, target
<1>7. target \in Int /\ target <= free /\ target <= most
  <2>1. \E x \in {first, free, most} : \A y \in {first, free, most} : x <= y
    BY <1>1, <1>5
  <2>2. target \in {first, free, most} /\ \A y \in {first, free, most} : target <= y
    BY <1>6, <2>1 DEF Min
  <2> QED
    BY <1>1, <1>5, <2>2
<1>8. n <= free /\ n - 1 \in Nat /\ n - 1 <= extra
  <2>1. gates \in Int /\ gates <= target
    BY <1>7 DEF target
  <2> QED
    BY <1>4, <1>5, <1>7, <2>1
<1>9. CASE e # 0
  <2> DEFINE k == n - 1
  <2>1. k \in Nat /\ k <= room \div unit /\ n = k + 1
    BY <1>4, <1>8
  <2> HIDE DEF k
  <2>2. k * unit <= room
    BY <1>2, <1>3, <2>1, QuotientBound
  <2>3. n * e = k * e + e
    BY <2>1
  <2>4. k * e <= cap - (used + e) /\ k * e \in Int
    BY <1>2, <1>3, <1>9, <2>1, <2>2
  <2>5. used + n * e <= cap
    BY <2>3, <2>4
  <2> QED
    BY <1>8, <2>5
<1> QED
  BY <1>8, <1>9

(* The size of a set that a function counts.                               *)
LEMMA SizeOfImage ==
  ASSUME NEW S, IsFiniteSet(S), NEW T, NEW f \in [S -> T],
         \A x, y \in S : f[x] = f[y] => x = y, \A t \in T : \E x \in S : f[x] = t
  PROVE  IsFiniteSet(T) /\ Cardinality(T) = Cardinality(S)
<1>1. f \in Injection(S, T) /\ f \in Surjection(S, T)
  BY DEF Injection, Surjection, IsInjective
<1>2. ExistsBijection(S, T)
  BY <1>1 DEF ExistsBijection, Bijection
<1> QED
  BY <1>2, FS_Bijection
=============================================================================
