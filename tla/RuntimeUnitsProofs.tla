-------------------------- MODULE RuntimeUnitsProofs --------------------------
(***************************************************************************)
(* Proofs about the permits and the reserved bytes of Runtime: what taking *)
(* and giving back does to the accounts of both, and, under IInv, that     *)
(* every step keeps UnitsInv.                                              *)
(***************************************************************************)
EXTENDS RuntimeProofs

-----------------------------------------------------------------------------
(* What a unit holds above the estimate. *)
LEMMA GrowthIs ==
  ASSUME NEW h \in [SeqNums -> Nat], NEW s \in SeqNums
  PROVE  /\ Growth(h)[s] \in Nat /\ Growth(h)[s] <= h[s]
         /\ h[s] - Estimated <= Growth(h)[s]
         /\ h[s] <= Estimated => Growth(h)[s] = 0
         /\ h[s] > Estimated => Growth(h)[s] = h[s] - Estimated
<1> DEFINE d == h[s] - Estimated
<1>1. d \in Int /\ h[s] \in Nat /\ Estimated \in Nat /\ d <= h[s]
  BY RuntimeAssumption
<1>2. Growth(h)[s] = Max({0, d})
  BY DEF Growth
<1>3. d = h[s] - Estimated
  OBVIOUS
<1> HIDE DEF d
<1>4. Max({0, d}) = IF d > 0 THEN d ELSE 0
  BY <1>1, AtLeastZero
<1> QED
  BY <1>1, <1>2, <1>3, <1>4

(* The most a unit may grow. *)
Headroom == Max({0, FaultLimit - Estimated})

(* The oversize gate's headroom bounds the growth of any unit it lets      *)
(* through.                                                                *)
LEMMA HeadroomIs ==
  /\ FaultLimit \in Nat /\ Headroom \in Nat
  /\ \A b \in Nat : b <= FaultLimit => b - Estimated <= Headroom
<1>1. FaultLimit \in Nat /\ Estimated \in Nat
  BY RuntimeAssumption DEF FaultLimit
<1> DEFINE d == FaultLimit - Estimated
<1>2. d \in Int /\ d = FaultLimit - Estimated
  BY <1>1
<1>3. Headroom = Max({0, d})
  BY DEF Headroom
<1> HIDE DEF d
<1>4. Max({0, d}) = IF d > 0 THEN d ELSE 0
  BY <1>2, AtLeastZero
<1> QED
  BY <1>1, <1>2, <1>3, <1>4

(* The units are finitely many. *)
LEMMA UnitsFinite ==
  ASSUME NEW units, units \subseteq SeqNums
  PROVE  IsFiniteSet(units) /\ Cardinality(units) \in Nat
<1>1. IsFiniteSet(SeqNums)
  BY MaxSeqAssumption, FS_Interval DEF SeqNums
<1> QED
  BY <1>1, FS_Subset, FS_CardinalityType

-----------------------------------------------------------------------------
(* Nothing is taken or given back, and no unit becomes undecoded. *)
LEMMA AccountsKept ==
  ASSUME NEW units, NEW undecoded, NEW free, NEW bytes, NEW holds,
         Accounts(units, undecoded, free, bytes, holds),
         NEW undecoded2, undecoded2 \subseteq undecoded
  PROVE  Accounts(units, undecoded2, free, bytes, holds)
BY Zenon DEF Accounts

(* The owners of some units drop. *)
Frees(units, holds, holds2) ==
  holds2 = [s \in SeqNums |-> IF s \in units THEN 0 ELSE holds[s]]

(* Units that leave the pipeline give back their permits and the bytes     *)
(* they hold.                                                              *)
LEMMA AccountsReleased ==
  ASSUME NEW units, units \subseteq SeqNums, NEW undecoded, NEW free, NEW bytes, NEW holds,
         Accounts(units, undecoded, free, bytes, holds),
         NEW gone, gone \subseteq units,
         NEW left, left = units \ gone,
         NEW holds2, Frees(gone, holds, holds2),
         NEW undecoded2, undecoded2 \subseteq undecoded, undecoded2 \subseteq left
  PROVE  Accounts(left, undecoded2, free + Cardinality(gone),
                  bytes - Total(holds, gone), holds2)
<1> DEFINE g == Growth(holds)
           g2 == Growth(holds2)
<1>0. /\ free \in Nat /\ free + Cardinality(units) = MaxInflight
      /\ holds \in [SeqNums -> Nat] /\ bytes = Total(holds, units)
      /\ \A s \in undecoded : holds[s] = Estimated
      /\ \A s \in units : g[s] <= Headroom
      /\ bytes <= Capacity + Total(g, units)
  BY Zenon DEF Accounts, Headroom
<1>1. /\ IsFiniteSet(units) /\ IsFiniteSet(gone) /\ IsFiniteSet(left)
      /\ Cardinality(units) \in Nat /\ Cardinality(gone) \in Nat /\ Cardinality(left) \in Nat
      /\ gone \cap left = {} /\ gone \cup left = units
  BY UnitsFinite
<1>2. holds2 \in [SeqNums -> Nat] /\ \A s \in left : holds2[s] = holds[s]
  BY <1>0 DEF Frees
<1>3. \A s \in SeqNums : g[s] \in Nat /\ g[s] <= holds[s] /\ g2[s] \in Nat
  BY <1>0, <1>2, GrowthIs
<1>4. \A s \in left : g2[s] = g[s]
  BY <1>2 DEF Growth
<1> HIDE DEF g, g2
<1>5. LessWithout(units, gone, left, holds, g, holds2, g2)
  <2>1. \A s \in units : holds[s] \in Nat /\ g[s] \in Nat /\ g[s] <= holds[s]
    BY <1>0, <1>3
  <2>2. \A s \in left : holds2[s] = holds[s] /\ g2[s] = g[s]
    BY Zenon, <1>2, <1>4
  <2> QED
    BY Zenon, <1>1, <2>1, <2>2, SumsWithout
<1>10. free + Cardinality(gone) \in Nat /\ free + Cardinality(gone) + Cardinality(left) = MaxInflight
  BY <1>0, <1>1, <1>5 DEF LessWithout
<1>11. bytes - Total(holds, gone) = Total(holds2, left)
  BY Zenon, <1>0, <1>5 DEF LessWithout
<1>12. bytes - Total(holds, gone) <= Capacity + Total(g2, left)
  BY <1>0, <1>5, RuntimeAssumption DEF LessWithout
<1>13. \A s \in undecoded2 : holds2[s] = Estimated
  BY <1>0, <1>2
<1>14. \A s \in left : g2[s] <= Headroom
  BY <1>0, <1>4
<1> QED
  BY Zenon, <1>2, <1>10, <1>11, <1>12, <1>13, <1>14 DEF Accounts, Headroom, g2

(* A decoded unit is charged what it turned out to have. *)
LEMMA AccountsReconciled ==
  ASSUME NEW units, units \subseteq SeqNums, NEW undecoded, NEW free, NEW bytes, NEW holds,
         Accounts(units, undecoded, free, bytes, holds),
         NEW s \in undecoded, s \in units, NEW actual \in Nat, actual <= FaultLimit,
         NEW holds2, Sets(holds, s, actual, holds2),
         NEW undecoded2, undecoded2 \subseteq undecoded, s \notin undecoded2
  PROVE  Accounts(units, undecoded2, free, bytes + actual - holds[s], holds2)
<1> DEFINE g == Growth(holds)
           g2 == Growth(holds2)
<1>0. /\ free \in Nat /\ free + Cardinality(units) = MaxInflight
      /\ holds \in [SeqNums -> Nat] /\ bytes = Total(holds, units)
      /\ \A t \in undecoded : holds[t] = Estimated
      /\ \A t \in units : g[t] <= Headroom
      /\ bytes <= Capacity + Total(g, units)
  BY Zenon DEF Accounts, Headroom
<1>1. IsFiniteSet(units) /\ s \in SeqNums /\ holds[s] = Estimated /\ Estimated \in Nat
  BY <1>0, UnitsFinite, RuntimeAssumption
<1>2. /\ holds2 \in [SeqNums -> Nat] /\ holds2[s] = actual
      /\ \A t \in SeqNums \ {s} : holds2[t] = holds[t]
  BY <1>0, <1>1 DEF Sets
<1>3. \A t \in SeqNums : g[t] \in Nat /\ g2[t] \in Nat
  BY <1>0, <1>2, GrowthIs
<1>4. g[s] = 0 /\ actual - Estimated <= g2[s] /\ g2[s] <= Headroom
  <2>1. g[s] = 0
    BY <1>0, <1>1, GrowthIs
  <2>2. /\ actual - Estimated <= g2[s] /\ (actual <= Estimated => g2[s] = 0)
        /\ (actual > Estimated => g2[s] = actual - Estimated)
    BY Zenon, <1>1, <1>2, GrowthIs
  <2>3. actual - Estimated <= Headroom /\ Headroom \in Nat
    BY HeadroomIs
  <2> QED
    BY <1>1, <2>1, <2>2, <2>3
<1>5. \A t \in SeqNums \ {s} : g2[t] = g[t]
  BY <1>2 DEF Growth
<1> HIDE DEF g, g2
<1>6. Total(holds2, units) = Total(holds, units) - holds[s] + holds2[s]
  <2>1. \A t \in units : holds[t] \in Int /\ holds2[t] \in Int
    BY <1>0, <1>2
  <2> QED
    BY <1>1, <1>2, <2>1, TotalUpdate
<1>7. /\ Total(g2, units) = Total(g, units) - g[s] + g2[s]
      /\ Total(holds, units) \in Int /\ Total(g, units) \in Int
  <2>1. \A t \in units : holds[t] \in Int /\ g[t] \in Int /\ g2[t] \in Int
    BY <1>0, <1>3
  <2> QED
    BY <1>1, <1>5, <2>1, TotalUpdate, TotalInt
<1>8. g2[s] \in Nat
  BY <1>1, <1>3
<1>9. bytes + actual - holds[s] = Total(holds2, units)
  BY <1>0, <1>1, <1>2, <1>6, <1>7
<1>10. bytes + actual - holds[s] <= Capacity + Total(g2, units)
  BY <1>0, <1>1, <1>4, <1>7, <1>8, RuntimeAssumption
<1>11. \A t \in undecoded2 : holds2[t] = Estimated
  <2>1. \A t \in SeqNums : t # s => holds2[t] = holds[t]
    BY <1>2
  <2>2. \A t : t \notin SeqNums => holds2[t] = holds[t]
    BY <1>0, <1>1 DEF Sets
  <2> QED
    BY <1>0, <2>1, <2>2
<1>12. \A t \in units : g2[t] <= Headroom
  BY <1>0, <1>4, <1>5
<1> QED
  BY <1>0, <1>2, <1>9, <1>10, <1>11, <1>12 DEF Accounts, Headroom, g2

(* New units take their permits and reservations. *)
Charges(units, holds, holds2) ==
  holds2 = [s \in SeqNums |-> IF s \in units THEN Estimated ELSE holds[s]]

(* Admitted units take their permits and the bytes of the estimate. *)
LEMMA AccountsAdmitted ==
  ASSUME NEW units, units \subseteq SeqNums, NEW undecoded, undecoded \subseteq units,
         NEW free, NEW bytes, NEW holds,
         Accounts(units, undecoded, free, bytes, holds),
         NEW new, new \subseteq SeqNums, new \cap units = {},
         NEW n \in Nat, Cardinality(new) = n, n <= free,
         Estimated = 0 \/ bytes + n * Estimated <= Capacity,
         NEW holds2, Charges(new, holds, holds2),
         NEW undecoded2, undecoded2 \subseteq undecoded \cup new,
         NEW all, all = units \cup new
  PROVE  Accounts(all, undecoded2, free - n, bytes + n * Estimated, holds2)
<1> DEFINE g == Growth(holds)
           g2 == Growth(holds2)
<1>0. /\ free \in Nat /\ free + Cardinality(units) = MaxInflight
      /\ holds \in [SeqNums -> Nat] /\ bytes = Total(holds, units)
      /\ \A s \in undecoded : holds[s] = Estimated
      /\ \A s \in units : g[s] <= Headroom
      /\ bytes <= Capacity + Total(g, units)
  BY Zenon DEF Accounts, Headroom
<1>1. /\ IsFiniteSet(units) /\ IsFiniteSet(new) /\ Cardinality(units) \in Nat
      /\ units \cap new = {}
  BY UnitsFinite
<1>2. /\ holds2 \in [SeqNums -> Nat] /\ \A s \in units : holds2[s] = holds[s]
      /\ \A s \in new : holds2[s] = Estimated
  BY <1>0, <1>1, RuntimeAssumption DEF Charges
<1>3. \A s \in SeqNums : g[s] \in Nat /\ g2[s] \in Nat
  BY <1>0, <1>2, GrowthIs
<1>4. \A s \in units : g2[s] = g[s]
  BY <1>2 DEF Growth
<1>5. \A s \in new : g2[s] = 0
  <2> TAKE s \in new
  <2>1. s \in SeqNums /\ holds2[s] = Estimated /\ Estimated \in Nat
    BY <1>2, RuntimeAssumption
  <2> QED
    BY <1>2, <2>1, GrowthIs
<1> HIDE DEF g, g2
<1>6. MoreWith(units, new, all, Estimated, holds, g, holds2, g2)
  <2>1. \A s \in units : holds[s] \in Nat /\ g[s] \in Nat
    BY <1>0, <1>3
  <2>2. \A s \in units : holds2[s] = holds[s] /\ g2[s] = g[s]
    BY Zenon, <1>2, <1>4
  <2>3. \A s \in new : holds2[s] = Estimated /\ g2[s] = 0
    BY Zenon, <1>2, <1>5
  <2>4. Estimated \in Nat
    BY Zenon, RuntimeAssumption
  <2> QED
    BY Zenon, <1>1, <2>1, <2>2, <2>3, <2>4, SumsWith
<1>10. n * Estimated \in Nat
  BY RuntimeAssumption
<1>11. free - n \in Nat /\ free - n + Cardinality(all) = MaxInflight
  BY <1>0, <1>1, <1>6 DEF MoreWith
<1>12. bytes + n * Estimated = Total(holds2, all)
  BY Zenon, <1>0, <1>6 DEF MoreWith
<1>13. bytes + n * Estimated <= Capacity + Total(g2, all)
  <2>1. CASE Estimated = 0
    <3>1. n * Estimated = 0
      BY <2>1
    <3> QED
      BY <1>0, <1>6, <3>1, RuntimeAssumption DEF MoreWith
  <2>2. CASE bytes + n * Estimated <= Capacity
    BY <1>0, <1>6, <1>10, <2>2, RuntimeAssumption DEF MoreWith
  <2> QED
    BY <2>1, <2>2
<1>14. \A s \in undecoded2 : holds2[s] = Estimated
  BY <1>0, <1>2
<1>15. \A s \in all : g2[s] <= Headroom
  BY <1>0, <1>4, <1>5, HeadroomIs
<1> QED
  BY Zenon, <1>2, <1>11, <1>12, <1>13, <1>14, <1>15 DEF Accounts, Headroom, g2

-----------------------------------------------------------------------------
(* A channel with no duplicates holds as many units as it is long. *)
LEMMA SizeOfLane ==
  ASSUME NEW q \in Seq(SeqNums), Distinct(q)
  PROVE  IsFiniteSet(Elems(q)) /\ Cardinality(Elems(q)) = Len(q) /\ Len(q) \in Nat
<1> DEFINE n == Len(q)
           T == Elems(q)
<1>1. n \in Nat /\ DOMAIN q = 1 .. n /\ q = [k \in 1 .. n |-> q[k]]
  OBVIOUS
<1>2. q \in [1 .. n -> T] /\ \A t \in T : \E k \in 1 .. n : q[k] = t
  BY <1>1 DEF Elems
<1>3. \A j, k \in 1 .. n : q[j] = q[k] => j = k
  BY <1>1 DEF Distinct
<1> HIDE DEF n, T
<1>4. IsFiniteSet(1 .. n) /\ Cardinality(1 .. n) = n
  <2>1. 1 \in Int /\ n \in Int
    BY <1>1
  <2>2. IsFiniteSet(1 .. n) /\ Cardinality(1 .. n) = IF 1 > n THEN 0 ELSE n - 1 + 1
    BY <2>1, FS_Interval
  <2> QED
    BY <1>1, <2>2
<1>5. IsFiniteSet(T) /\ Cardinality(T) = Cardinality(1 .. n)
  BY Zenon, <1>2, <1>3, <1>4, SizeOfImage
<1> QED
  BY <1>1, <1>4, <1>5 DEF n, T

-----------------------------------------------------------------------------
(* The steps that keep every unit, and those that let units go. *)
LEMMA StaysKeeps ==
  ASSUME IInv, UnitsInv, KeepUnits, source'.cursor = source.cursor,
         Flow(lane', owner'), In(lane', owner') = In(lane, owner),
         Undecoded' \subseteq Undecoded
  PROVE  UnitsInv'
<1>1. Accounts(In(lane, owner), Undecoded, permits, inFlight, held)
  BY DEF UnitsInv
<1>2. Accounts(In(lane, owner), Undecoded', permits, inFlight, held)
  BY <1>1, AccountsKept
<1>3. permits' = permits /\ inFlight' = inFlight /\ held' = held
  BY DEF KeepUnits
<1>4. Accounts(In(lane', owner'), Undecoded', permits', inFlight', held')
  BY <1>2, <1>3
<1>5. Apart(lane', owner') /\ In(lane', owner') \subseteq 0 .. source'.cursor
  BY DEF Flow, UnitsInv
<1> QED
  BY <1>4, <1>5 DEF UnitsInv

(* A step that releases the units that leave keeps the accounts. *)
LEMMA ReleaseKeeps ==
  ASSUME IInv, UnitsInv, NEW gone, gone \subseteq In(lane, owner), Release(gone),
         source'.cursor = source.cursor,
         Flow(lane', owner'), In(lane', owner') = In(lane, owner) \ gone,
         Undecoded' \subseteq Undecoded
  PROVE  UnitsInv'
<1> DEFINE units == In(lane, owner)
           left == In(lane', owner')
<1>1. Accounts(units, Undecoded, permits, inFlight, held) /\ units \subseteq SeqNums
  BY UnitsTyped DEF UnitsInv
<1>2. Undecoded' \subseteq left
  <2>1. (Undecoded \subseteq In(lane, owner))'
    BY UndecodedIsIn, PTL
  <2> QED
    BY <2>1
<1>3. /\ Frees(gone, held, held') /\ permits' = permits + Cardinality(gone)
      /\ inFlight' = inFlight - Total(held, gone)
  BY DEF Release, Frees
<1>4. left = units \ gone /\ gone \subseteq units
  OBVIOUS
<1>5. Apart(lane', owner') /\ left \subseteq 0 .. source'.cursor
  BY DEF Flow, UnitsInv
<1> HIDE DEF units, left
<1>6. Accounts(left, Undecoded', permits', inFlight', held')
  <2>1. Accounts(left, Undecoded', permits + Cardinality(gone), inFlight - Total(held, gone), held')
    BY <1>1, <1>2, <1>3, <1>4, AccountsReleased
  <2> QED
    BY <1>3, <2>1, Zenon
<1> QED
  BY <1>5, <1>6 DEF UnitsInv, left

-----------------------------------------------------------------------------
(* A worker takes a unit from a lane. *)
LEMMA TakeUnits ==
  ASSUME IInv, UnitsInv, KeepUnits, source' = source, NEW w \in Workers, worker[w].pc = "idle",
         NEW l \in Lanes, lane[l] # <<>>, lane' = [lane EXCEPT ![l] = Tail(@)],
         Take(w, lane[l]), l # "commit" \/ w \in Writers
  PROVE  UnitsInv'
<1> DEFINE s == Head(lane[l])
           st == [IdleWorker EXCEPT !.pc = "busy", !.seq = s]
<1>0. /\ worker \in [Workers -> WorkerState] /\ owner[w] = None
      /\ lane \in [Lanes -> Seq(SeqNums)] /\ Flow(lane, owner)
  BY Before, UnitsTyped, UnitsFlow
<1>1. lane[l] \in Seq(SeqNums)
  BY <1>0
<1>2. s \in Elems(lane[l]) /\ Elems(Tail(lane[l])) \subseteq Elems(lane[l])
  BY <1>1, TailElems
<1>3. st.seq = s
  BY DEF IdleWorker
<1>4. worker' = [worker EXCEPT ![w] = st]
  BY DEF Take, SetWorker
<1> HIDE DEF st
<1>5. Sets(owner, w, s, owner') /\ Sets(lane, l, Tail(lane[l]), lane')
  BY Zenon, <1>0, <1>3, <1>4, OwnerIs DEF Sets
<1>6. Flow(lane', owner') /\ In(lane', owner') = In(lane, owner)
  <2>1. Flow(lane, owner) /\ owner[w] = None
    BY <1>0
  <2> QED
    BY <1>5, <2>1, TakeFlow
<1> HIDE DEF s
<1>7. \A m \in Lanes \ {"commit"} : Elems(lane'[m]) \subseteq Undecoded
  <2>1. \A m \in Lanes : Elems(lane'[m]) \subseteq Elems(lane[m])
    <3>1. \A m \in Lanes : lane'[m] = IF m = l THEN Tail(lane[l]) ELSE lane[m]
      BY <1>0
    <3> QED
      BY <1>2, <3>1
  <2> QED
    BY <2>1, UndecodedLanes
<1>8. st.seq \in Undecoded \/ w \in Writers
  BY <1>2, <1>3, UndecodedLanes
<1>9. Undecoded' \subseteq Undecoded
  BY Zenon, <1>0, <1>4, <1>7, <1>8, UndecodedKept
<1> QED
  BY <1>6, <1>9, StaysKeeps

(* A worker drops its unit, and with it the permit and the bytes. *)
LEMMA DropUnits ==
  ASSUME IInv, UnitsInv, source' = source, lane' = lane, NEW w \in Workers,
         NEW st, worker' = [worker EXCEPT ![w] = st], st.seq = None,
         Release({worker[w].seq} \ {None})
  PROVE  UnitsInv'
<1> DEFINE s == worker[w].seq
<1>0. /\ worker \in [Workers -> WorkerState] /\ owner[w] = s /\ Flow(lane, owner)
      /\ s \in OptSeqNum /\ In(lane, owner) \subseteq SeqNums
  BY Before, UnitsTyped, UnitsFlow
<1>a. None \notin SeqNums
  BY MaxSeqAssumption DEF SeqNums, None
<1> DEFINE gone == {s} \ {None}
<1>1. Sets(owner, w, None, owner')
  <2>1. Sets(owner, w, st.seq, owner')
    BY Zenon, <1>0, OwnerIs
  <2> QED
    BY <2>1
<1>2. Flow(lane, owner') /\ In(lane, owner') = In(lane, owner) \ {owner[w]}
  BY <1>0, <1>1, DropFlow
<1>3. In(lane', owner') = In(lane, owner) \ gone
  BY <1>0, <1>a, <1>2
<1>4. gone \subseteq In(lane, owner)
  BY <1>0 DEF In, OptSeqNum
<1>5. Undecoded' \subseteq Undecoded
  BY Zenon, <1>0, <1>a, UndecodedLanes, UndecodedKept
<1> HIDE DEF gone
<1>6. Flow(lane', owner')
  BY <1>2
<1>7. Release(gone)
  BY DEF gone
<1> QED
  BY <1>3, <1>4, <1>5, <1>6, <1>7, ReleaseKeeps

(* A step within a worker that keeps its unit keeps the accounts. *)
LEMMA WithinUnits ==
  ASSUME IInv, UnitsInv, KeepUnits, source' = source, lane' = lane, NEW w \in Workers, NEW st,
         worker' = [worker EXCEPT ![w] = st], st.seq = worker[w].seq,
         w \in Decoders => st.pc # "busy"
  PROVE  UnitsInv'
BY Zenon, WithinFlowUnits, StaysKeeps

(* A decoded unit is reconciled. *)
LEMMA ReconcileUnits ==
  ASSUME IInv, UnitsInv, source' = source, permits' = permits,
         NEW s \in Undecoded, s \notin Undecoded',
         NEW actual \in Actuals, ~Oversize(actual), Reconcile(s, actual),
         Flow(lane', owner'), In(lane', owner') = In(lane, owner),
         Undecoded' \subseteq Undecoded
  PROVE  UnitsInv'
<1> DEFINE units == In(lane, owner)
<1>1. Accounts(units, Undecoded, permits, inFlight, held) /\ units \subseteq SeqNums
  BY UnitsTyped DEF UnitsInv
<1>2. actual \in Nat /\ actual <= FaultLimit
  BY RuntimeAssumption, HeadroomIs DEF Oversize
<1>3. Sets(held, s, actual, held') /\ inFlight' = inFlight + actual - held[s]
  BY DEF Reconcile, Sets
<1>4. s \in units
  BY UndecodedIsIn
<1>5. Apart(lane', owner') /\ units \subseteq 0 .. source'.cursor
  BY DEF Flow, UnitsInv
<1>6. In(lane', owner') = units
  OBVIOUS
<1> HIDE DEF units
<1>7. Accounts(units, Undecoded', permits', inFlight', held')
  <2>1. Accounts(units, Undecoded', permits, inFlight + actual - held[s], held')
    BY <1>1, <1>2, <1>3, <1>4, AccountsReconciled
  <2> QED
    BY <1>3, <2>1, Zenon
<1> QED
  BY <1>5, <1>6, <1>7 DEF UnitsInv

(* Every step of a worker. *)
LEMMA WorkerUnits ==
  ASSUME IInv, UnitsInv
  PROVE  /\ \A w \in Fetchers : FetchStep(w) => UnitsInv'
         /\ \A w \in Decoders : DecodeStep(w) => UnitsInv'
         /\ \A w \in Writers : WriterStep(w) => UnitsInv'
         /\ \A w \in Workers : WorkerFault(w) \/ AbortWorker(w) => UnitsInv'

(* A fetcher's receive. *)
<1>FetchRecv. ASSUME NEW w \in Fetchers, FetchRecv(w) PROVE UnitsInv'
  <2> USE <1>FetchRecv
  <2>0. /\ w \in Workers /\ KeepUnits /\ source' = source /\ actor' = actor
        /\ worker[w].pc = "idle" /\ queue \in QueueState /\ worker[w].seq = None
    BY Before, WorkerKeepsSource DEF FetchRecv, Workers
  <2>1. CASE queue.descriptor # <<>>
    <3> DEFINE q == Tail(queue.descriptor)
    <3>1. "descriptor" \in Lanes /\ lane["descriptor"] = queue.descriptor /\ "descriptor" # "commit"
      BY LaneIs DEF Lanes
    <3>2. queue' = [queue EXCEPT !.descriptor = q] /\ Take(w, queue.descriptor)
      BY <2>1 DEF FetchRecv
    <3>3. lane' = [lane EXCEPT !["descriptor"] = q]
      <4> HIDE DEF q
      <4> QED
        BY <2>0, <3>2, DescriptorLane
    <3>4. /\ lane' = [lane EXCEPT !["descriptor"] = Tail(@)] /\ Take(w, lane["descriptor"])
          /\ lane["descriptor"] # <<>>
      BY <2>1, <3>1, <3>2, <3>3
    <3> QED
      BY Zenon, <2>0, <3>1, <3>4, TakeUnits
  <2>2. CASE queue.descriptor = <<>>
    <3>1. worker' = [worker EXCEPT ![w] = Exited] /\ lane' = lane
      BY <2>0, <2>2 DEF FetchRecv, SetWorker, lane
    <3> QED
      BY Zenon, <2>0, <3>1, ExitedState, WithinUnits
  <2> QED
    BY <2>1, <2>2

(* A decoder's receive. *)
<1>DecodeRecv. ASSUME NEW w \in Decoders, DecodeRecv(w) PROVE UnitsInv'
  <2> USE <1>DecodeRecv
  <2>0. /\ w \in Workers /\ KeepUnits /\ source' = source /\ actor' = actor
        /\ worker[w].pc = "idle" /\ queue \in QueueState /\ worker[w].seq = None
    BY SMTT(30), Before, WorkerKeepsSource DEF DecodeRecv, Workers
  <2>1. CASE queue.fetched # <<>>
    <3> DEFINE q == Tail(queue.fetched)
    <3>1. "fetched" \in Lanes /\ lane["fetched"] = queue.fetched /\ "fetched" # "commit"
      BY LaneIs DEF Lanes
    <3>2. queue' = [queue EXCEPT !.fetched = q] /\ Take(w, queue.fetched)
      BY <2>1 DEF DecodeRecv
    <3>3. lane' = [lane EXCEPT !["fetched"] = q]
      <4> HIDE DEF q
      <4> QED
        BY <2>0, <3>2, FetchedLane
    <3>4. /\ lane' = [lane EXCEPT !["fetched"] = Tail(@)] /\ Take(w, lane["fetched"])
          /\ lane["fetched"] # <<>>
      BY <2>1, <3>1, <3>2, <3>3
    <3> QED
      BY Zenon, <2>0, <3>1, <3>4, TakeUnits
  <2>2. CASE queue.fetched = <<>>
    <3>1. worker' = [worker EXCEPT ![w] = Exited] /\ lane' = lane
      BY <2>0, <2>2 DEF DecodeRecv, SetWorker, lane
    <3> QED
      BY Zenon, <2>0, <3>1, ExitedState, WithinUnits
  <2> QED
    BY <2>1, <2>2

(* A writer's receive. *)
<1>WriterRecv. ASSUME NEW w \in Writers, WriterRecv(w) PROVE UnitsInv'
  <2> USE <1>WriterRecv
  <2>0. /\ w \in Workers /\ KeepUnits /\ source' = source /\ actor' = actor
        /\ worker[w].pc = "idle" /\ queue \in QueueState /\ worker[w].seq = None
    BY SMTT(30), Before, WorkerKeepsSource DEF WriterRecv, Workers
  <2>1. CASE queue.commit # <<>>
    <3> DEFINE q == Tail(queue.commit)
    <3>1. "commit" \in Lanes /\ lane["commit"] = queue.commit
      BY LaneIs DEF Lanes
    <3>2. queue' = [queue EXCEPT !.commit = q] /\ Take(w, queue.commit)
      BY <2>1 DEF WriterRecv
    <3>3. lane' = [lane EXCEPT !["commit"] = q]
      <4> HIDE DEF q
      <4> QED
        BY <2>0, <3>2, CommitLane
    <3>4. /\ lane' = [lane EXCEPT !["commit"] = Tail(@)] /\ Take(w, lane["commit"])
          /\ lane["commit"] # <<>>
      BY <2>1, <3>1, <3>2, <3>3
    <3> QED
      BY Zenon, <2>0, <3>1, <3>4, TakeUnits
  <2>2. CASE queue.commit = <<>>
    <3>1. worker' = [worker EXCEPT ![w] = Exited] /\ lane' = lane
      BY <2>0, <2>2 DEF WriterRecv, SetWorker, lane
    <3> QED
      BY Zenon, <2>0, <3>1, ExitedState, WithinUnits
  <2> QED
    BY <2>1, <2>2

(* A worker task ends, with its unit and whatever it reports. *)
<1>Exit. ASSUME source' = source, lane' = lane, NEW w \in Workers, Exit(w) PROVE UnitsInv'
  <2> USE <1>Exit
  <2>1. worker' = [worker EXCEPT ![w] = Exited] /\ Release({worker[w].seq} \ {None})
    BY DEF Exit, SetWorker
  <2> QED
    BY Zenon, <2>1, ExitedState, DropUnits

(* A fatal exit drops the worker's guard. *)
<1>ExitFatally. ASSUME source' = source, actor' = actor, NEW w \in Workers, ExitFatally(w)
                PROVE  UnitsInv'
  <2> USE <1>ExitFatally
  <2>1. SendCompletion(Fatal) /\ Exit(w) /\ Fatal \in SeqNums \cup {Fatal}
    BY DEF ExitFatally
  <2>2. lane' = lane
    BY <2>1, Sends
  <2> QED
    BY <2>1, <2>2, <1>Exit

(* A fetch that succeeds. *)
<1>FetchDone. ASSUME NEW w \in Fetchers, FetchDone(w) PROVE UnitsInv'
  <2> USE <1>FetchDone
  <2>0. /\ w \in Workers /\ source' = source /\ actor' = actor /\ worker[w].pc = "busy"
        /\ queue \in QueueState /\ worker[w].seq \in Undecoded /\ worker[w].seq # None
    BY Before, WorkerKeepsSource, BusyIsUndecoded DEF FetchDone, Workers
  <2>1. CASE AllExited(Decoders)
    BY <2>0, <2>1, <1>ExitFatally DEF FetchDone
  <2>2. CASE ~AllExited(Decoders)
    <3> DEFINE q == Append(queue.fetched, worker[w].seq)
    <3>1. "fetched" \in Lanes /\ lane["fetched"] = queue.fetched
      BY LaneIs DEF Lanes
    <3>2. queue' = [queue EXCEPT !.fetched = q] /\ SetWorker(w, IdleWorker) /\ KeepUnits
      BY <2>2 DEF FetchDone
    <3>3. lane' = [lane EXCEPT !["fetched"] = q]
      <4> HIDE DEF q
      <4> QED
        BY <2>0, <3>2, FetchedLane
    <3>4. lane' = [lane EXCEPT !["fetched"] = Append(@, worker[w].seq)]
      BY <3>1, <3>3
    <3>5. /\ Flow(lane', owner') /\ In(lane', owner') = In(lane, owner)
          /\ Undecoded' \subseteq Undecoded
      BY Zenon, <2>0, <3>1, <3>2, <3>4, PutFlowUnits
    <3> QED
      BY <2>0, <3>2, <3>5, StaysKeeps
  <2> QED
    BY <2>1, <2>2

(* A decode that succeeds: the reservation is reconciled to the decoded    *)
(* size, within the oversize gate, or the unit is dropped.                 *)
<1>DecodeDone. ASSUME NEW w \in Decoders, DecodeDone(w) PROVE UnitsInv'
  <2> USE <1>DecodeDone
  <2> DEFINE s == worker[w].seq
  <2>0. /\ w \in Workers /\ source' = source /\ actor' = actor /\ worker[w].pc = "busy"
        /\ queue \in QueueState /\ s \in Undecoded /\ s # None /\ s \in SeqNums
    BY Before, WorkerKeepsSource, BusyIsUndecoded DEF DecodeDone, Workers
  <2>1. PICK actual \in Actuals :
          IF Oversize(actual)
          THEN ExitFatally(w)
          ELSE /\ UNCHANGED permits
               /\ Reconcile(s, actual)
               /\ IF actor.dryRun
                  THEN SetWorker(w, [worker[w] EXCEPT !.pc = "report"]) /\ UNCHANGED queue
                  ELSE /\ queue' = [queue EXCEPT !.commit = Append(@, s)]
                       /\ SetWorker(w, IdleWorker)
    BY DEF DecodeDone
  <2>2. CASE Oversize(actual)
    BY <2>0, <2>1, <2>2, <1>ExitFatally
  <2>3. CASE ~Oversize(actual) /\ actor.dryRun
    <3> DEFINE st == [worker[w] EXCEPT !.pc = "report"]
    <3>1. st.pc = "report" /\ st.seq = s /\ st \in WorkerState
      BY Zenon, <2>0, StateAt
    <3>2. /\ worker' = [worker EXCEPT ![w] = st] /\ queue' = queue /\ lane' = lane
          /\ Reconcile(s, actual) /\ permits' = permits
      BY <2>0, <2>1, <2>3 DEF SetWorker, lane
    <3> HIDE DEF st
    <3>3. /\ Flow(lane', owner') /\ In(lane', owner') = In(lane, owner)
          /\ Undecoded' \subseteq Undecoded
      BY Zenon, <2>0, <3>1, <3>2, WithinFlowUnits
    <3>4. s \notin Undecoded'
      <4>1. Apart(lane, owner)'
        BY <3>3 DEF Flow
      <4>2. ReportedDecoded'
        BY <4>1, ReportedIsDecoded, PTL
      <4>3. worker'[w] = st
        BY <2>0, <3>2, Before
      <4> QED
        BY <2>0, <3>1, <4>2, <4>3 DEF ReportedDecoded
    <3> HIDE DEF s
    <3> QED
      BY <2>0, <2>3, <3>2, <3>3, <3>4, ReconcileUnits
  <2>4. CASE ~Oversize(actual) /\ ~actor.dryRun
    <3> DEFINE q == Append(queue.commit, s)
    <3>1. "commit" \in Lanes /\ lane["commit"] = queue.commit
      BY LaneIs DEF Lanes
    <3>2. /\ queue' = [queue EXCEPT !.commit = q] /\ SetWorker(w, IdleWorker)
          /\ Reconcile(s, actual) /\ permits' = permits
      BY <2>1, <2>4
    <3>3. lane' = [lane EXCEPT !["commit"] = q]
      <4> HIDE DEF q
      <4> QED
        BY <2>0, <3>2, CommitLane
    <3>4. lane' = [lane EXCEPT !["commit"] = Append(@, worker[w].seq)]
      BY <3>1, <3>3
    <3>5. /\ Flow(lane', owner') /\ In(lane', owner') = In(lane, owner)
          /\ Undecoded' \subseteq Undecoded
      BY Zenon, <2>0, <3>1, <3>2, <3>4, PutFlowUnits
    <3>6. s \notin Undecoded'
      <4>1. Apart(lane, owner)'
        BY <3>5 DEF Flow
      <4>2. CommitDecoded'
        BY <4>1, CommitIsDecoded, PTL
      <4>3. lane'["commit"] = q /\ queue.commit \in Seq(SeqNums)
        BY <2>0, <3>1, <3>3, UnitsTyped DEF QueueState
      <4>4. s \in Elems(q)
        BY <2>0, <4>3, AppendElems
      <4> QED
        BY <4>2, <4>3, <4>4 DEF CommitDecoded
    <3> HIDE DEF s
    <3> QED
      BY <2>0, <2>4, <3>2, <3>5, <3>6, ReconcileUnits
  <2> QED
    BY <2>2, <2>3, <2>4

(* A writer, or a worker whose call hangs, goes on with its unit. *)
<1>GoOn. ASSUME KeepUnits, source' = source, actor' = actor, queue' = queue,
                NEW w \in Fetchers \cup Writers, NEW st, SetWorker(w, st), st.seq = worker[w].seq
         PROVE  UnitsInv'
  <2> USE <1>GoOn
  <2>1. w \in Workers /\ w \notin Decoders /\ lane' = lane /\ worker' = [worker EXCEPT ![w] = st]
    BY RuntimeAssumption DEF Workers, lane, SetWorker
  <2> QED
    BY Zenon, <2>1, WithinUnits

(* A retryable failure. *)
<1>RetryOrFail. ASSUME NEW w \in Writers, RetryOrFail(w), source' = source, actor' = actor
                PROVE  UnitsInv'
  <2> USE <1>RetryOrFail
  <2>0. w \in Workers /\ worker[w] \in WorkerState
    BY Before DEF Workers
  <2>1. CASE worker[w].attempt >= MaxAttempts
    BY <2>0, <2>1, <1>ExitFatally DEF RetryOrFail
  <2>2. CASE ~(worker[w].attempt >= MaxAttempts)
    <3> DEFINE st == [worker[w] EXCEPT !.pc = "busy", !.attempt = @ + 1]
    <3>1. SetWorker(w, st) /\ queue' = queue /\ KeepUnits
      BY <2>2 DEF RetryOrFail
    <3>2. st.seq = worker[w].seq
      BY <2>0 DEF WorkerState
    <3> HIDE DEF st
    <3> QED
      BY <3>1, <3>2, <1>GoOn
  <2> QED
    BY <2>1, <2>2

(* The outcomes of a write that leave the unit with its writer. *)
<1>Writes. ASSUME NEW w \in Writers,
                  WriteOk(w) \/ WriteMaybeCommitted(w) \/ CheckCommitted(w)
           PROVE  UnitsInv'
  <2> USE <1>Writes
  <2>0. /\ worker[w] \in WorkerState /\ KeepUnits /\ source' = source /\ actor' = actor
        /\ queue' = queue
    BY Before, WorkerKeepsSource DEF WriteOk, WriteMaybeCommitted, CheckCommitted, Workers
  <2>1. PICK st \in WorkerState : SetWorker(w, st) /\ st.seq = worker[w].seq
    <3>1. CASE WriteOk(w) \/ CheckCommitted(w)
      <4> DEFINE st == [worker[w] EXCEPT !.pc = "report"]
      <4>1. st \in WorkerState /\ st.seq = worker[w].seq
        BY <2>0 DEF WorkerState
      <4>2. SetWorker(w, st)
        BY <3>1 DEF WriteOk, CheckCommitted
      <4> HIDE DEF st
      <4> QED
        BY <4>1, <4>2
    <3>2. CASE WriteMaybeCommitted(w)
      <4> DEFINE st == [worker[w] EXCEPT !.pc = "check", !.checked = TRUE]
      <4>1. st \in WorkerState /\ st.seq = worker[w].seq
        BY Zenon, <2>0 DEF WorkerState
      <4>2. SetWorker(w, st)
        BY <3>2 DEF WriteMaybeCommitted
      <4> HIDE DEF st
      <4> QED
        BY <4>1, <4>2
    <3> QED
      BY <3>1, <3>2
  <2> QED
    BY <2>0, <2>1, <1>GoOn

(* A call that never returns keeps its permit and its bytes. *)
<1>Hang. ASSUME NEW w \in Workers, Hang(w) PROVE UnitsInv'
  <2> USE <1>Hang
  <2> DEFINE st == [worker[w] EXCEPT !.pc = "hung"]
  <2>0. /\ w \in Fetchers \cup Writers /\ worker[w] \in WorkerState /\ KeepUnits
        /\ source' = source /\ actor' = actor /\ queue' = queue /\ SetWorker(w, st)
    BY Before, WorkerKeepsSource DEF Hang
  <2>1. st.seq = worker[w].seq
    BY <2>0 DEF WorkerState
  <2> HIDE DEF st
  <2> QED
    BY <2>0, <2>1, <1>GoOn

(* The Committed message precedes the release. *)
<1>Report. ASSUME NEW w \in Workers, Report(w) PROVE UnitsInv'
  <2> USE <1>Report
  <2> DEFINE st == [worker[w] EXCEPT !.pc = "release"]
  <2>0. /\ worker[w].pc = "report" /\ source' = source /\ actor' = actor
        /\ SendCompletion(worker[w].seq)
    BY WorkerKeepsSource DEF Report
  <2>1. worker[w].seq \in SeqNums \cup {Fatal}
    BY <2>0, AtWorker
  <2>2. lane' = lane
    BY <2>0, <2>1, Sends
  <2>3. CASE ActorRunning
    <3>1. worker' = [worker EXCEPT ![w] = st] /\ KeepUnits
      BY <2>3 DEF Report, SetWorker
    <3>2. st.seq = worker[w].seq /\ st.pc = "release"
      BY StateAt
    <3> HIDE DEF st
    <3> QED
      BY Zenon, <2>0, <2>2, <3>1, <3>2, WithinUnits
  <2>4. CASE ~ActorRunning
    BY <2>0, <2>2, <2>4, <1>Exit DEF Report
  <2> QED
    BY <2>3, <2>4

(* The release after the message. *)
<1>ReleaseUnit. ASSUME NEW w \in Workers, ReleaseUnit(w) PROVE UnitsInv'
  <2> USE <1>ReleaseUnit
  <2>0. /\ worker[w].pc = "release" /\ source' = source /\ actor' = actor /\ queue' = queue
        /\ worker' = [worker EXCEPT ![w] = IdleWorker] /\ Release({worker[w].seq})
    BY WorkerKeepsSource DEF ReleaseUnit, SetWorker
  <2>1. worker[w].seq # None
    BY <2>0, Before
  <2>2. {worker[w].seq} = {worker[w].seq} \ {None} /\ lane' = lane
    BY <2>0, <2>1 DEF lane
  <2>3. Release({worker[w].seq} \ {None})
    BY <2>0, <2>2, Zenon
  <2> QED
    BY Zenon, <2>0, <2>2, <2>3, IdleState, DropUnits

(* A worker that is aborted or panics drops its guard. *)
<1>Abort. ASSUME NEW w \in Workers, AbortWorker(w) \/ Panic(w) PROVE UnitsInv'
  <2> USE <1>Abort
  <2>1. Exit(w) /\ source' = source /\ actor' = actor /\ queue' = queue
    BY DEF AbortWorker, Panic
  <2> QED
    BY <2>1, SameLane, <1>Exit
<1>0. \A w \in Workers : WorkerKeeps /\ ExitFatally(w) => UnitsInv'
  BY <1>ExitFatally, WorkerKeepsSource
<1>1. \A w \in Workers : Report(w) \/ ReleaseUnit(w) => UnitsInv'
  BY <1>Report, <1>ReleaseUnit
<1>2. \A w \in Fetchers : FetchStep(w) => UnitsInv'
  BY <1>FetchRecv, <1>FetchDone DEF FetchStep
<1>3. \A w \in Decoders : DecodeStep(w) => UnitsInv'
  <2>1. \A w \in Decoders : DecodeLost(w) => UnitsInv'
    BY <1>0 DEF DecodeLost, Workers
  <2> QED
    BY <1>1, <2>1, <1>DecodeRecv, <1>DecodeDone DEF DecodeStep, Workers
<1>4. \A w \in Writers : CheckUnknown(w) \/ WriteNotCommitted(w) => UnitsInv'
  BY <1>RetryOrFail, WorkerKeepsSource DEF CheckUnknown, WriteNotCommitted
<1>5. \A w \in Writers : WriterStep(w) => UnitsInv'
  BY <1>1, <1>4, <1>WriterRecv, <1>Writes DEF WriterStep, Workers
<1>6. \A w \in Workers : FetchError(w) \/ DecodeError(w) \/ CheckError(w) => UnitsInv'
  BY <1>0 DEF FetchError, DecodeError, CheckError
<1>7. \A w \in Writers : WriteFatal(w) => UnitsInv'
  BY <1>ExitFatally DEF WriteFatal, Workers
<1>8. \A w \in Workers : WorkerFault(w) => UnitsInv'
  BY <1>4, <1>6, <1>7, <1>Writes, <1>Hang, <1>Abort DEF WorkerFault
<1> QED
  BY <1>2, <1>3, <1>5, <1>8, <1>Abort

-----------------------------------------------------------------------------
(* The steps of the actor that leave the units alone. *)
LEMMA QuietUnits ==
  ASSUME IInv, UnitsInv, KeepUnits, source'.cursor = source.cursor, lane' = lane, worker' = worker
  PROVE  UnitsInv'
<1>1. owner' = owner /\ Undecoded' = Undecoded
  BY DEF owner, Undecoded
<1> QED
  BY <1>1, UnitsFlow, StaysKeeps

(* The actor's steps that move no unit. *)
LEMMA ActorQuietUnits ==
  ASSUME IInv, UnitsInv,
         \/ Produce \/ RequestShutdown \/ SourceError \/ CloseAdmission
         \/ Complete \/ Orphaned \/ Drained \/ UNCHANGED vars
  PROVE  UnitsInv'
<1>0. source \in [cursor : OptSeqNum, pendingAck : OptSeqNum] /\ actor \in ActorState
  BY Before
<1>1. CASE Produce \/ RequestShutdown \/ UNCHANGED vars
  <2>1. KeepUnits /\ source' = source /\ actor' = actor /\ queue' = queue /\ worker' = worker
    BY <1>1 DEF Produce, RequestShutdown, vars, KeepUnits
  <2> QED
    BY <2>1, SameLane, QuietUnits
<1>2. CASE SourceError \/ CloseAdmission \/ Orphaned
  <2>1. /\ KeepUnits /\ source' = source /\ worker' = worker /\ actor.pc = "select"
        /\ queue' = queue
    BY <1>2 DEF SourceError, CloseAdmission, Orphaned
  <2>2. actor'.unsent = actor.unsent \/ actor'.unsent = <<>>
    BY Zenon, <1>0, <1>2 DEF SourceError, CloseAdmission, Orphaned, ActorFails, ActorState
  <2> QED
    BY <2>1, <2>2, SelectLane, QuietUnits
<1>3. CASE Complete \/ Drained
  <2>1. /\ KeepUnits /\ worker' = worker /\ actor.pc = "select"
        /\ queue' = queue \/ queue' = [queue EXCEPT !.completion = Tail(@)]
    BY SMTT(30), <1>3 DEF Complete, Drained
  <2>2. actor'.unsent = actor.unsent \/ actor'.unsent = <<>>
    BY Zenon, <1>0, <1>3 DEF Complete, Drained, OnCommitted, ActorFails, ActorState
  <2>3. source'.cursor = source.cursor
    BY <1>0, <1>3 DEF Complete, Drained, OnCommitted, FlushOk, FlushFails, AckThrough
  <2> QED
    BY <2>1, <2>2, <2>3, SelectLane, QuietUnits
<1> QED
  BY <1>1, <1>2, <1>3

(* The actor's send of a descriptor. *)
LEMMA AdmitSendUnits ==
  ASSUME IInv, UnitsInv, AdmitSend
  PROVE  UnitsInv'
<1>0. /\ actor.pc = "send" /\ actor.unsent # <<>> /\ source' = source /\ worker' = worker
      /\ actor \in ActorState /\ queue \in QueueState /\ Flow(lane, owner)
      /\ actor.unsent \in Seq(SeqNums) /\ lane \in [Lanes -> Seq(SeqNums)]
  BY Before, UnitsFlow, UnitsTyped DEF AdmitSend, FlowTypeOK, ActorState
<1>1. /\ "unsent" \in Lanes /\ "descriptor" \in Lanes /\ "unsent" # "commit"
      /\ "descriptor" # "commit" /\ lane["unsent"] = actor.unsent
  BY LaneIs DEF Lanes
<1>2. owner' = owner
  BY <1>0 DEF owner
<1>3. CASE AllExited(Fetchers)
  <2>1. ActorFails("failed") /\ queue' = queue /\ Release(Elems(actor.unsent))
    BY <1>3 DEF AdmitSend, Elems
  <2>2. actor'.unsent = <<>>
    BY <1>0, <2>1 DEF ActorFails, ActorState
  <2>3. Sets(lane, "unsent", <<>>, lane')
    BY <2>1, <2>2, UnsentLane
  <2>4. Flow(lane', owner) /\ In(lane', owner) = In(lane, owner) \ Elems(lane["unsent"])
    <3>1. Flow(lane, owner) /\ "unsent" \in Lanes
      BY <1>0, <1>1
    <3> QED
      BY <2>3, <3>1, ClearFlow
  <2>5. \A l \in Lanes \ {"commit"} : Elems(lane'[l]) \subseteq Undecoded \cup {}
    <3>1. \A l \in Lanes : lane'[l] = IF l = "unsent" THEN <<>> ELSE lane[l]
      BY <1>0, <2>3 DEF Sets
    <3>2. Elems(<<>>) = {}
      BY DEF Elems
    <3> QED
      BY <3>1, <3>2, UndecodedLanes
  <2>6. Undecoded' \subseteq Undecoded
    <3>1. Undecoded' \subseteq Undecoded \cup {}
      BY <1>0, <2>5, UndecodedInLanes
    <3> QED
      BY <3>1
  <2>7. Elems(actor.unsent) \subseteq In(lane, owner)
    BY <1>0, <1>1, NoneInNoLane DEF In
  <2> DEFINE gone == Elems(actor.unsent)
  <2>8. /\ gone \subseteq In(lane, owner) /\ Release(gone) /\ Flow(lane', owner')
        /\ In(lane', owner') = In(lane, owner) \ gone /\ source'.cursor = source.cursor
    BY <1>0, <1>1, <1>2, <2>1, <2>4, <2>7
  <2> HIDE DEF gone
  <2> QED
    BY <2>6, <2>8, ReleaseKeeps
<1>4. CASE ~AllExited(Fetchers)
  <2>1. /\ queue' = [queue EXCEPT !.descriptor = Append(@, Head(actor.unsent))]
        /\ KeepUnits /\ actor'.unsent = Tail(actor.unsent)
    BY Zenon, <1>0, <1>4 DEF AdmitSend, ActorState
  <2>2. SendsOn(lane, "unsent", "descriptor", lane')
    BY <1>0, <2>1, SendLanes
  <2>3. Flow(lane', owner) /\ In(lane', owner) = In(lane, owner)
    <3>1. /\ Flow(lane, owner) /\ "unsent" \in Lanes /\ "descriptor" \in Lanes
          /\ "unsent" # "descriptor" /\ lane["unsent"] # <<>>
      BY <1>0, <1>1
    <3> QED
      BY <2>2, <3>1, SendFlow
  <2>4. \A l \in Lanes \ {"commit"} : Elems(lane'[l]) \subseteq Undecoded \cup {}
    <3> DEFINE q == lane["unsent"]
               r == lane["descriptor"]
    <3>1. \A l \in Lanes : lane'[l] = IF l = "descriptor" THEN Append(r, Head(q))
                                      ELSE IF l = "unsent" THEN Tail(q) ELSE lane[l]
      BY Zenon, <1>0, <1>1, <2>2 DEF SendsOn
    <3>2. q \in Seq(SeqNums) /\ q # <<>> /\ r \in Seq(SeqNums)
      BY <1>0, <1>1
    <3> HIDE DEF q, r
    <3>3. Head(q) \in Elems(q) /\ Elems(Tail(q)) \subseteq Elems(q) /\ Head(q) \in SeqNums
      BY <3>2, TailElems
    <3>4. Elems(Append(r, Head(q))) = Elems(r) \cup {Head(q)}
      BY <3>2, <3>3, AppendElems
    <3>5. Elems(q) \subseteq Undecoded /\ Elems(r) \subseteq Undecoded
      BY <1>1, UndecodedLanes DEF q, r
    <3> QED
      BY <3>1, <3>3, <3>4, <3>5, UndecodedLanes
  <2>5. Undecoded' \subseteq Undecoded
    <3>1. Undecoded' \subseteq Undecoded \cup {}
      BY <1>0, <2>4, UndecodedInLanes
    <3> QED
      BY <3>1
  <2> QED
    BY <1>0, <1>2, <2>1, <2>3, <2>5, StaysKeeps
<1> QED
  BY <1>3, <1>4

-----------------------------------------------------------------------------
(* An admission takes no more permits than there are, and no more bytes    *)
(* than there is room for.                                                 *)
LEMMA GatesFit ==
  ASSUME permits \in Nat, inFlight \in Nat, GateOpen,
         NEW gates \in 1 .. KTarget, NEW n \in Nat \ {0}, n <= gates
  PROVE  n <= permits /\ (Estimated = 0 \/ inFlight + n * Estimated <= Capacity)
<1>1. Estimated \in Nat /\ Capacity \in Nat /\ PerPoll \in Nat
  BY RuntimeAssumption
<1>2. Estimated = 0 \/ inFlight + Estimated <= Capacity
  BY Zenon DEF GateOpen
<1>3. gates \in 1 .. TakeTarget(permits, inFlight, Estimated, Capacity, PerPoll)
  BY Zenon DEF KTarget, RoomBytes, TakeTarget
<1> QED
  BY SMTT(20), <1>1, <1>2, <1>3, TakeFits

(* What the budget has out is a count of bytes. *)
LEMMA BytesNat ==
  ASSUME IInv, UnitsInv
  PROVE  inFlight \in Nat /\ permits \in Nat /\ held \in [SeqNums -> Nat]
<1> DEFINE units == In(lane, owner)
<1>1. /\ inFlight = Total(held, units) /\ held \in [SeqNums -> Nat] /\ permits \in Nat
      /\ units \subseteq SeqNums
  BY UnitsTyped DEF UnitsInv, Accounts
<1> HIDE DEF units
<1>2. IsFiniteSet(units) /\ \A s \in units : held[s] \in Nat
  BY <1>1, UnitsFinite
<1>3. Total(held, units) \in Nat
  BY <1>2, TotalNat
<1> QED
  BY <1>1, <1>3

(* An admission, within the permits and the bytes its guards found free. *)
LEMMA AdmitUnits ==
  ASSUME IInv, IInv', UnitsInv, Admit
  PROVE  UnitsInv'
<1> USE MaxSeqAssumption
<1> DEFINE cursor == source.cursor
<1>0. /\ actor \in ActorState /\ queue \in QueueState /\ actor.pc = "select"
      /\ actor.unsent = <<>> /\ cursor \in OptSeqNum /\ manifest.produced \in OptSeqNum
      /\ source \in [cursor : OptSeqNum, pendingAck : OptSeqNum]
      /\ actor'.pc # "rejected" /\ GateOpen
  BY Before DEF Admit, FlowTypeOK, IInv, CoordinatorNeverRejects
<1>1. PICK gates \in 1 .. KTarget :
        LET n == NextDescriptors(gates)
            first == source.cursor + 1
        IN /\ n > 0
           /\ source' = [source EXCEPT !.cursor = @ + n]
           /\ IF RunAccepts(coord, first, n)
              THEN /\ actor' = [actor EXCEPT !.pc = "send", !.inFlight = @ + n,
                                             !.unsent = [k \in 1 .. n |-> first + k - 1]]
                   /\ permits' = permits - n
                   /\ inFlight' = inFlight + n * Estimated
                   /\ held' = [s \in SeqNums |->
                                 IF s \in first .. first + n - 1 THEN Estimated ELSE held[s]]
              ELSE ActorFails("rejected")
  BY Zenon DEF Admit
<1>2. queue' = queue /\ worker' = worker
  BY DEF Admit
<1> DEFINE n == NextDescriptors(gates)
           first == cursor + 1
           new == first .. first + n - 1
           units == [k \in 1 .. n |-> first + k - 1]
<1>3. n \in Nat \ {0} /\ cursor + n <= MaxSeq /\ n <= gates
  <2>1. gates \in Int /\ manifest.produced - cursor \in Int
    BY <1>0 DEF OptSeqNum, SeqNums, None
  <2>2. n \in Int /\ n <= manifest.produced - cursor /\ n <= gates
    BY Zenon, <2>1, MinOfTwo DEF NextDescriptors
  <2>3. n > 0
    BY <1>1
  <2> HIDE DEF n
  <2> QED
    BY <1>0, <2>2, <2>3 DEF OptSeqNum, SeqNums, None
<1>4. RunAccepts(coord, first, n)
  <2>1. ~ActorFails("rejected")
    BY Zenon, <1>0 DEF ActorFails, ActorState
  <2> QED
    BY <1>1, <2>1
<1>5. /\ source' = [source EXCEPT !.cursor = @ + n]
      /\ actor' = [actor EXCEPT !.pc = "send", !.inFlight = @ + n, !.unsent = units]
      /\ permits' = permits - n /\ inFlight' = inFlight + n * Estimated
      /\ Charges(new, held, held')
  BY <1>1, <1>4 DEF Charges
<1> HIDE DEF n
<1>6. units \in Seq(SeqNums) /\ Distinct(units) /\ Elems(units) = new
  <2>0. IsRun(units, first, n)
    BY DEF IsRun
  <2>1. first \in Nat /\ first + n - 1 <= MaxSeq
    BY <1>0, <1>3 DEF OptSeqNum, SeqNums, None
  <2> HIDE DEF units, first
  <2> QED
    BY <1>3, <2>0, <2>1, RunOfUnits
<1>7. actor'.unsent = units /\ source'.cursor = cursor + n
  <2> HIDE DEF units
  <2> QED
    BY <1>0, <1>5 DEF ActorState
<1> DEFINE before == In(lane, owner)
<1>8. /\ Accounts(before, Undecoded, permits, inFlight, held) /\ before \subseteq SeqNums
      /\ before \subseteq 0 .. cursor /\ Undecoded \subseteq before
      /\ Flow(lane, owner) /\ inFlight \in Nat /\ permits \in Nat
  BY UnitsTyped, UnitsFlow, UndecodedIsIn, BytesNat DEF UnitsInv
<1> HIDE DEF units
<1>9. new \subseteq SeqNums /\ new \cap before = {} /\ IsFiniteSet(new) /\ Cardinality(new) = n
  <2>1. first \in Int /\ first \in Nat /\ cursor = first - 1 /\ first + n - 1 <= MaxSeq
    BY <1>0, <1>3 DEF OptSeqNum, SeqNums, None
  <2> DEFINE last == first + n - 1
  <2>2. last \in Int /\ ~(first > last) /\ last - first + 1 = n /\ last <= MaxSeq
    BY <1>3, <2>1
  <2>3. new = first .. last
    OBVIOUS
  <2> HIDE DEF first, last, new
  <2>4. IsFiniteSet(first .. last) /\ Cardinality(first .. last) = n
    BY <2>1, <2>2, FS_Interval
  <2>5. new \subseteq SeqNums /\ new \cap before = {}
    BY <1>8, <2>1, <2>2, <2>3 DEF SeqNums
  <2> QED
    BY <2>3, <2>4, <2>5
<1>10. /\ n <= permits
       /\ Estimated = 0 \/ inFlight + n * Estimated <= Capacity
  BY <1>0, <1>3, <1>8, GatesFit
<1>11. owner' = owner
  BY <1>2 DEF owner
<1>12. Flow(lane', owner) /\ In(lane', owner) = before \cup new
  <2>1. Sets(lane, "unsent", units, lane')
    BY SMTT(30), <1>2, <1>7, UnsentLane
  <2>2. Flow(lane, owner) /\ "unsent" \in Lanes /\ lane["unsent"] = <<>>
    BY <1>0, <1>8, LaneIs DEF Lanes
  <2>3. units \in Seq(SeqNums) /\ Distinct(units) /\ Unplaced(units, lane, owner)
    BY SMTT(30), <1>6, <1>9 DEF Unplaced
  <2>4. Flow(lane', owner) /\ In(lane', owner) = In(lane, owner) \cup Elems(units)
    BY <2>1, <2>2, <2>3, AdmitFlow
  <2> QED
    BY <1>6, <2>4
<1>13. Undecoded' \subseteq Undecoded \cup new
  <2>1. \A l \in Lanes : lane'[l] = IF l = "unsent" THEN units ELSE lane[l]
    <3>1. Sets(lane, "unsent", units, lane') /\ lane \in [Lanes -> Seq(SeqNums)]
      BY <1>2, <1>7, UnsentLane, UnitsTyped
    <3> QED
      BY SMTT(30), <3>1 DEF Sets
  <2> HIDE DEF new
  <2>2. \A l \in Lanes \ {"commit"} : Elems(lane'[l]) \subseteq Undecoded \cup new
    BY <1>6, <2>1, UndecodedLanes
  <2> QED
    BY <1>2, <2>2, UndecodedInLanes
<1> DEFINE all == In(lane', owner')
<1>14. all = before \cup new
  BY SMTT(30), <1>11, <1>12
<1>15. all \subseteq 0 .. source'.cursor
  BY <1>0, <1>3, <1>7, <1>8, <1>14 DEF OptSeqNum, SeqNums, None
<1>16. Apart(lane', owner')
  BY <1>11, <1>12 DEF Flow
<1> HIDE DEF new, before, all
<1>17. Accounts(all, Undecoded', permits', inFlight', held')
  <2>1. Accounts(all, Undecoded', permits - n, inFlight + n * Estimated, held')
    BY <1>3, <1>5, <1>8, <1>9, <1>10, <1>13, <1>14, AccountsAdmitted
  <2> QED
    BY <1>5, <2>1, Zenon
<1> QED
  BY <1>15, <1>16, <1>17 DEF UnitsInv, all

-----------------------------------------------------------------------------
(* A process that has just been started has no units. *)
NoUnits ==
  /\ \E baseline, dryRun : actor = FreshActor(baseline, dryRun)
  /\ queue = FreshQueue /\ worker = FreshWorkers
  /\ permits = MaxInflight /\ inFlight = 0 /\ held = NothingHeld

(* A runtime with no unit has every permit free and no byte reserved. *)
LEMMA NoUnitsInv == NoUnits => UnitsInv
<1> SUFFICES ASSUME NoUnits
             PROVE  UnitsInv
  BY SMTT(30)
<1>1. /\ queue.descriptor = <<>> /\ queue.fetched = <<>> /\ queue.commit = <<>>
      /\ actor.unsent = <<>> /\ \A w \in Workers : worker[w].seq = None
  BY DEF NoUnits, FreshQueue, FreshActor, FreshWorkers, IdleWorker
<1>2. \A l \in Lanes : DOMAIN lane[l] = {} /\ Elems(lane[l]) = {}
  BY SMTT(30), <1>1 DEF lane, Lanes, Elems
<1>3. \A w \in Workers : owner[w] = None
  BY <1>1 DEF owner
<1>4. Apart(lane, owner)
  BY <1>2, <1>3 DEF Apart
<1>5. In(lane, owner) = {}
  <2>1. None \notin SeqNums
    BY MaxSeqAssumption DEF SeqNums, None
  <2> QED
    BY <1>2, <1>3, <2>1 DEF In
<1>6. Undecoded = {}
  BY SMTT(30), <1>5, UndecodedIsIn
<1>7. Accounts({}, {}, permits, inFlight, held)
  <2>1. /\ permits \in Nat /\ permits + Cardinality({}) = MaxInflight
        /\ held \in [SeqNums -> Nat] /\ inFlight = 0
    BY RuntimeAssumption, FS_EmptySet DEF NoUnits, NothingHeld
  <2>2. Total(held, {}) = 0 /\ Total(Growth(held), {}) = 0
    BY TotalEmpty
  <2> QED
    BY <2>1, <2>2, RuntimeAssumption DEF Accounts
<1> QED
  BY <1>4, <1>5, <1>6, <1>7 DEF UnitsInv

(* Every step keeps the accounts. *)
LEMMA UnitsNext ==
  ASSUME IInv, IInv', UnitsInv, [Next]_vars
  PROVE  UnitsInv'
<1>1. CASE \/ Produce \/ RequestShutdown \/ SourceError \/ CloseAdmission
           \/ Complete \/ Orphaned \/ Drained \/ UNCHANGED vars
  BY <1>1, ActorQuietUnits
<1>2. CASE Admit
  BY <1>2, AdmitUnits
<1>3. CASE AdmitSend
  BY <1>3, AdmitSendUnits
<1>4. CASE \/ \E w \in Fetchers : FetchStep(w)
           \/ \E w \in Decoders : DecodeStep(w)
           \/ \E w \in Writers : WriterStep(w)
           \/ \E w \in Workers : WorkerFault(w) \/ AbortWorker(w)
  BY <1>4, WorkerUnits
<1>5. CASE Crash
  <2>1. NoUnits'
    BY <1>5 DEF Crash, NoUnits
  <2> QED
    BY <2>1, NoUnitsInv, PTL
<1> QED
  BY <1>1, <1>2, <1>3, <1>4, <1>5 DEF Next

-----------------------------------------------------------------------------
(* The accounts of permits and bytes balance in every reachable state. *)
THEOREM UnitsInvariant == Spec => []UnitsInv
<1>1. Init => UnitsInv
  <2>1. Init => NoUnits
    BY DEF Init, NoUnits
  <2> QED
    BY <2>1, NoUnitsInv
<1>2. IInv /\ IInv' /\ UnitsInv /\ [Next]_vars => UnitsInv'
  BY UnitsNext
<1> QED
  BY <1>1, <1>2, RuntimeInvariant, PTL DEF Spec

-----------------------------------------------------------------------------
(* No two units are in one place. *)
LEMMA UnitsCounted ==
  ASSUME IInv, UnitsInv
  PROVE  /\ Cardinality(Units) =
              Len(actor.unsent) + Len(queue.descriptor) + Len(queue.fetched)
                + Len(queue.commit) + Cardinality({w \in Workers : worker[w].seq # None})
         /\ Len(actor.unsent) \in Nat /\ Len(queue.descriptor) \in Nat
         /\ Len(queue.fetched) \in Nat /\ Len(queue.commit) \in Nat
         /\ IsFiniteSet({w \in Workers : worker[w].seq # None})
<1> DEFINE a == Elems(lane["unsent"])
           b == Elems(lane["descriptor"])
           c == Elems(lane["fetched"])
           d == Elems(lane["commit"])
           busy == {w \in Workers : worker[w].seq # None}
<1>0. /\ lane \in [Lanes -> Seq(SeqNums)] /\ Apart(lane, owner)
      /\ owner \in [Workers -> OptSeqNum] /\ \A w \in Workers : owner[w] = worker[w].seq
  BY UnitsTyped DEF UnitsInv
<1>1. \A l \in Lanes : /\ IsFiniteSet(Elems(lane[l])) /\ Len(lane[l]) \in Nat
                       /\ Cardinality(Elems(lane[l])) = Len(lane[l])
  <2> TAKE l \in Lanes
  <2>1. lane[l] \in Seq(SeqNums)
    BY <1>0
  <2>2. Distinct(lane[l])
    BY SMTT(30), <1>0 DEF Apart, Distinct
  <2> QED
    BY <2>1, <2>2, SizeOfLane
<1>2. \A l, m \in Lanes : l # m => Elems(lane[l]) \cap Elems(lane[m]) = {}
  BY SMTT(30), <1>0 DEF Apart, Elems
<1>3. \A l \in Lanes : Elems(lane[l]) \cap Owned = {}
  BY <1>0, UnitsAre DEF Apart
<1>4. IsFiniteSet(Owned) /\ Cardinality(Owned) = Cardinality(busy) /\ IsFiniteSet(busy)
  <2>1. IsFiniteSet(busy)
    BY RuntimeAssumption, FS_Subset
  <2> DEFINE f == [w \in busy |-> worker[w].seq]
  <2>2. f \in [busy -> Owned] /\ \A s \in Owned : \E w \in busy : f[w] = s
    BY SMTT(30) DEF Owned
  <2>3. \A v, w \in busy : f[v] = f[w] => v = w
    BY <1>0 DEF Apart
  <2> HIDE DEF f, busy
  <2> QED
    BY <2>1, <2>2, <2>3, SizeOfImage
<1>5. /\ "unsent" \in Lanes /\ "descriptor" \in Lanes /\ "fetched" \in Lanes /\ "commit" \in Lanes
  BY SMTT(30) DEF Lanes
<1>6. /\ a = Elems(actor.unsent) /\ b = Elems(queue.descriptor) /\ c = Elems(queue.fetched)
      /\ d = Elems(queue.commit) /\ Units = ((((a \cup b) \cup c) \cup d) \cup Owned)
  BY SMTT(30), LaneIs DEF Units
<1>7. /\ IsFiniteSet(a) /\ IsFiniteSet(b) /\ IsFiniteSet(c) /\ IsFiniteSet(d)
      /\ Cardinality(a) = Len(actor.unsent) /\ Cardinality(b) = Len(queue.descriptor)
      /\ Cardinality(c) = Len(queue.fetched) /\ Cardinality(d) = Len(queue.commit)
      /\ Len(actor.unsent) \in Nat /\ Len(queue.descriptor) \in Nat
      /\ Len(queue.fetched) \in Nat /\ Len(queue.commit) \in Nat
  BY <1>1, <1>5, LaneIs
<1>8. /\ a \cap b = {} /\ (a \cup b) \cap c = {} /\ ((a \cup b) \cup c) \cap d = {}
      /\ (((a \cup b) \cup c) \cup d) \cap Owned = {}
  BY <1>2, <1>3, <1>5
<1> HIDE DEF a, b, c, d, busy
<1>9. IsFiniteSet(a \cup b) /\ Cardinality(a \cup b) = Cardinality(a) + Cardinality(b)
  BY Zenon, <1>7, <1>8, DisjointSizes, FS_Union
<1>10. /\ IsFiniteSet((a \cup b) \cup c)
       /\ Cardinality((a \cup b) \cup c) = Cardinality(a \cup b) + Cardinality(c)
  BY Zenon, <1>7, <1>8, <1>9, DisjointSizes, FS_Union
<1>11. /\ IsFiniteSet(((a \cup b) \cup c) \cup d)
       /\ Cardinality(((a \cup b) \cup c) \cup d) = Cardinality((a \cup b) \cup c) + Cardinality(d)
  BY Zenon, <1>7, <1>8, <1>10, DisjointSizes, FS_Union
<1>12. Cardinality(Units) = Cardinality(((a \cup b) \cup c) \cup d) + Cardinality(Owned)
  BY <1>4, <1>6, <1>8, <1>11, DisjointSizes
<1> QED
  BY Zenon, <1>4, <1>7, <1>9, <1>10, <1>11, <1>12 DEF busy

(* No path leaks or releases twice a permit or a reserved byte, the error, *)
(* panic, abort and crash paths included.                                  *)
THEOREM PermitsAndBytesConserved == Spec => []UnitsConserved
<1>1. IInv /\ UnitsInv => UnitsConserved
  BY Zenon, UnitsAre, UnitsCounted DEF UnitsInv, Accounts, UnitsConserved
<1> QED
  BY <1>1, RuntimeInvariant, UnitsInvariant, PTL

(* In-flight bytes never pass the capacity by more than what the permitted *)
(* units may grow at the oversize gate.                                    *)
THEOREM MemoryIsBounded == Spec => []MemoryBounded
<1>1. ASSUME IInv, UnitsInv PROVE MemoryBounded
  <2> DEFINE units == In(lane, owner)
             g == Growth(held)
  <2>1. /\ units \subseteq SeqNums /\ held \in [SeqNums -> Nat] /\ permits \in Nat
        /\ permits + Cardinality(units) = MaxInflight /\ inFlight \in Nat
        /\ inFlight <= Capacity + Total(g, units)
        /\ \A s \in units : g[s] <= Headroom
    BY Zenon, <1>1, UnitsTyped, BytesNat DEF UnitsInv, Accounts, Headroom
  <2>2. \A s \in units : g[s] \in Int
    BY <2>1, GrowthIs
  <2> HIDE DEF units, g
  <2>3. IsFiniteSet(units) /\ Headroom \in Nat
    BY <2>1, UnitsFinite, HeadroomIs
  <2>4. inFlight <= Capacity + MaxInflight * Headroom
    BY Zenon, <2>1, <2>2, <2>3, RuntimeAssumption, GrowthBounded
  <2> QED
    BY Zenon, <2>4 DEF MemoryBounded, Headroom
<1> QED
  BY <1>1, RuntimeInvariant, UnitsInvariant, PTL

(* The sends between the stages never wait: the actor's send outside its   *)
(* select! and the workers' sends find room, by the permits their units    *)
(* hold.                                                                   *)
THEOREM StageSendsFindRoom == Spec => []StageSendsNeverWait
<1>1. ASSUME IInv, UnitsInv PROVE StageSendsNeverWait
  <2> DEFINE busy == {w \in Workers : worker[w].seq # None}
  <2>1. /\ Cardinality(Units) =
             Len(actor.unsent) + Len(queue.descriptor) + Len(queue.fetched)
               + Len(queue.commit) + Cardinality(busy)
        /\ Len(actor.unsent) \in Nat /\ Len(queue.descriptor) \in Nat
        /\ Len(queue.fetched) \in Nat /\ Len(queue.commit) \in Nat
        /\ IsFiniteSet(busy)
    BY SMTT(30), <1>1, UnitsCounted
  <2>2. permits \in Nat /\ permits + Cardinality(Units) = MaxInflight
    BY <1>1, UnitsAre DEF UnitsInv, Accounts
  <2>3. Cardinality(busy) \in Nat /\ (busy # {} => Cardinality(busy) >= 1)
    <3> HIDE DEF busy
    <3>1. Cardinality(busy) \in Nat /\ (Cardinality(busy) = 0 <=> busy = {})
      BY <2>1, FS_CardinalityType, FS_EmptySet
    <3> QED
      BY <3>1
  <2>4. \A w \in Workers : worker[w].pc = "busy" => busy # {}
    BY <1>1, Before
  <2>5. actor.pc = "send" => Len(actor.unsent) >= 1
    <3>1. actor.unsent \in Seq(SeqNums) /\ (actor.pc = "send" => actor.unsent # <<>>)
      BY <1>1, Before DEF FlowTypeOK
    <3> QED
      BY <3>1
  <2> HIDE DEF busy
  <2> DEFINE m == Cardinality(busy)
             u == Cardinality(Units)
             sent == Len(queue.descriptor)
             fetched == Len(queue.fetched)
             commits == Len(queue.commit)
             unsent == Len(actor.unsent)
  <2>n. /\ permits + u = MaxInflight /\ u = unsent + sent + fetched + commits + m
        /\ permits \in Nat /\ m \in Nat /\ sent \in Nat /\ fetched \in Nat /\ commits \in Nat
        /\ unsent \in Nat /\ (busy # {} => m >= 1) /\ (actor.pc = "send" => unsent >= 1)
    BY Zenon, <2>1, <2>2, <2>3, <2>5
  <2> HIDE DEF m, u, sent, fetched, commits, unsent
  <2>6. actor.pc = "send" => sent < MaxInflight
    BY <2>n
  <2>7. busy # {} => fetched < MaxInflight /\ commits < MaxInflight
    BY <2>n
  <2> QED
    BY <2>4, <2>6, <2>7 DEF StageSendsNeverWait, HasRoom, Workers, sent, fetched, commits
<1> QED
  BY <1>1, RuntimeInvariant, UnitsInvariant, PTL

(* Every variable keeps its type, and no counter of permits or bytes       *)
(* leaves its range.                                                       *)
THEOREM RuntimeTypes == Spec => []TypeOK
<1>1. ASSUME IInv, UnitsInv PROVE TypeOK
  <2>1. /\ FlowTypeOK /\ written \subseteq 0 .. manifest.produced
        /\ manifest.produced \in OptSeqNum
        /\ Tracks(coord, source.cursor + 1, (0 .. source.cursor) \ Uncommitted)
    BY <1>1, Before DEF Delivering, Tracking
  <2>2. written \subseteq SeqNums
    BY SMTT(30), <2>1, MaxSeqAssumption DEF OptSeqNum, SeqNums, None
  <2>3. coord \in Coordinator
    BY <2>1 DEF Tracks
  <2>4. permits \in 0 .. MaxInflight
    <3> DEFINE units == In(lane, owner)
    <3>1. permits \in Nat /\ permits + Cardinality(units) = MaxInflight /\ units \subseteq SeqNums
      BY <1>1, UnitsTyped DEF UnitsInv, Accounts
    <3> HIDE DEF units
    <3>2. Cardinality(units) \in Nat
      BY <3>1, UnitsFinite
    <3> QED
      BY SMTT(30), <3>1, <3>2
  <2> QED
    BY <1>1, <2>1, <2>2, <2>3, <2>4, BytesNat DEF TypeOK
<1> QED
  BY <1>1, RuntimeInvariant, UnitsInvariant, PTL
=============================================================================

