-------------------------- MODULE RuntimeFlowProofs --------------------------
(***************************************************************************)
(* Proofs about the steps of Runtime that move the units along the         *)
(* pipeline, and about those that leave the units where they are: the      *)
(* workers' steps, the actor's sends, and the quiet steps of the producer, *)
(* the operator and the actor.  Each keeps the inductive invariant IInv.   *)
(***************************************************************************)
EXTENDS Runtime, TLAPS

-----------------------------------------------------------------------------
(* Sequences. *)
LEMMA TailElems ==
  ASSUME NEW S, NEW q \in Seq(S), q # <<>>
  PROVE  /\ Tail(q) \in Seq(S) /\ Head(q) \in S /\ Head(q) \in Elems(q)
         /\ Len(Tail(q)) = Len(q) - 1 /\ Len(q) \in Nat \ {0} /\ 1 \in DOMAIN q
         /\ DOMAIN q = 1 .. Len(q)
         /\ \A k \in DOMAIN Tail(q) : k + 1 \in DOMAIN q /\ k + 1 # 1 /\ Tail(q)[k] = q[k + 1]
         /\ Elems(q) = {Head(q)} \cup Elems(Tail(q))
         /\ Head(q) = q[1]
<1>1. /\ Tail(q) \in Seq(S) /\ Head(q) \in S /\ Head(q) = q[1]
      /\ Len(Tail(q)) = Len(q) - 1 /\ Len(q) \in Nat \ {0} /\ 1 \in DOMAIN q
      /\ DOMAIN q = 1 .. Len(q)
  OBVIOUS
<1>2. \A k \in DOMAIN Tail(q) : k + 1 \in DOMAIN q /\ k + 1 # 1 /\ Tail(q)[k] = q[k + 1]
  BY <1>1
<1>3. \A k \in DOMAIN q : k = 1 \/ (k - 1 \in DOMAIN Tail(q) /\ Tail(q)[k - 1] = q[k])
  BY <1>1
<1>4. Elems(q) = {Head(q)} \cup Elems(Tail(q))
  <2> DEFINE t == Tail(q)
  <2>1. \A e \in Elems(q) : e = Head(q) \/ e \in Elems(t)
    <3> SUFFICES ASSUME NEW k \in DOMAIN q
                 PROVE  q[k] = Head(q) \/ q[k] \in Elems(t)
      BY DEF Elems
    <3> HIDE DEF t
    <3>1. k = 1 \/ (k - 1 \in DOMAIN t /\ t[k - 1] = q[k])
      BY <1>3 DEF t
    <3> QED
      BY <1>1, <3>1 DEF Elems
  <2>2. \A e \in Elems(t) : e \in Elems(q)
    <3> SUFFICES ASSUME NEW k \in DOMAIN t
                 PROVE  t[k] \in Elems(q)
      BY DEF Elems
    <3> HIDE DEF t
    <3>1. k + 1 \in DOMAIN q /\ t[k] = q[k + 1]
      BY <1>2 DEF t
    <3> QED
      BY <3>1 DEF Elems
  <2>3. Head(q) \in Elems(q)
    BY <1>1 DEF Elems
  <2> QED
    BY <2>1, <2>2, <2>3
<1> QED
  BY <1>1, <1>2, <1>4

(* A send on a channel. *)
LEMMA AppendElems ==
  ASSUME NEW S, NEW q \in Seq(S), NEW e \in S
  PROVE  /\ Append(q, e) \in Seq(S) /\ Elems(Append(q, e)) = Elems(q) \cup {e}
         /\ Len(Append(q, e)) = Len(q) + 1 /\ Len(q) \in Nat
         /\ DOMAIN q = 1 .. Len(q) /\ DOMAIN Append(q, e) = 1 .. Len(q) + 1
         /\ \A k \in DOMAIN q : Append(q, e)[k] = q[k]
         /\ Append(q, e)[Len(q) + 1] = e
         /\ \A k \in DOMAIN Append(q, e) : k \in DOMAIN q \/ k = Len(q) + 1
<1>1. /\ Append(q, e) \in Seq(S)
      /\ Len(Append(q, e)) = Len(q) + 1 /\ Len(q) \in Nat
      /\ DOMAIN q = 1 .. Len(q) /\ DOMAIN Append(q, e) = 1 .. Len(q) + 1
      /\ \A k \in DOMAIN q : Append(q, e)[k] = q[k]
      /\ Append(q, e)[Len(q) + 1] = e
  OBVIOUS
<1>2. \A k \in DOMAIN Append(q, e) : k \in DOMAIN q \/ k = Len(q) + 1
  BY <1>1
<1>3. \A k \in DOMAIN q : k \in DOMAIN Append(q, e)
  BY <1>1
<1>4. Len(q) + 1 \in DOMAIN Append(q, e)
  BY <1>1
<1>5. Elems(Append(q, e)) = Elems(q) \cup {e}
  BY <1>1, <1>2, <1>3, <1>4 DEF Elems
<1> QED
  BY <1>1, <1>2, <1>5

(* A lane that a unit is put into holds that unit too. *)
LEMMA AppendAdds ==
  \A q \in Seq(SeqNums), e \in SeqNums : Elems(Append(q, e)) = Elems(q) \cup {e}
BY AppendElems

-----------------------------------------------------------------------------
(* The ways of a unit from place to place. *)
Distinct(q) == \A j, k \in DOMAIN q : q[j] = q[k] => j = k
Unplaced(q, lanes, owners) == Elems(q) \cap In(lanes, owners) = {}
Sets(f, x, v, g) == g = [f EXCEPT ![x] = v]
SendsOn(lanes, l, m, lanes2) ==
  lanes2 = [lanes EXCEPT ![l] = Tail(@), ![m] = Append(@, Head(lanes[l]))]
Flow(lanes, owners) ==
  /\ lanes \in [Lanes -> Seq(SeqNums)] /\ owners \in [Workers -> OptSeqNum]
  /\ Apart(lanes, owners)

(* Nothing negative is in a lane. *)
LEMMA NoneInNoLane ==
  ASSUME NEW lanes \in [Lanes -> Seq(SeqNums)], NEW l \in Lanes
  PROVE  None \notin Elems(lanes[l]) /\ Elems(lanes[l]) \subseteq SeqNums
<1>1. lanes[l] \in Seq(SeqNums)
  OBVIOUS
<1>2. \A k \in DOMAIN lanes[l] : lanes[l][k] \in SeqNums
  BY <1>1
<1>3. None \notin SeqNums
  BY MaxSeqAssumption DEF SeqNums, None
<1> QED
  BY <1>2, <1>3 DEF Elems

(* An idle worker takes the first unit of a lane. *)
LEMMA TakeFlow ==
  ASSUME NEW lanes, NEW owners, Flow(lanes, owners), NEW l \in Lanes, lanes[l] # <<>>,
         NEW w \in Workers, owners[w] = None,
         NEW lanes2, Sets(lanes, l, Tail(lanes[l]), lanes2),
         NEW owners2, Sets(owners, w, Head(lanes[l]), owners2)
  PROVE  Flow(lanes2, owners2) /\ In(lanes2, owners2) = In(lanes, owners)
<1> DEFINE q == lanes[l]
           s == Head(q)
           t == Tail(q)
<1>0. lanes \in [Lanes -> Seq(SeqNums)] /\ owners \in [Workers -> OptSeqNum] /\ Apart(lanes, owners)
  BY DEF Flow
<1>1. q \in Seq(SeqNums)
  BY <1>0
<1>2. /\ t \in Seq(SeqNums) /\ s \in SeqNums /\ s \in Elems(q) /\ 1 \in DOMAIN q
      /\ \A k \in DOMAIN t : k + 1 \in DOMAIN q /\ k + 1 # 1 /\ t[k] = q[k + 1]
      /\ Elems(q) = {s} \cup Elems(t) /\ s = q[1]
      /\ DOMAIN t \subseteq Int
  BY <1>1, TailElems
<1>3. s \notin Elems(t)
  BY <1>0, <1>2 DEF Apart, Elems
<1>4. \A j, k \in DOMAIN t : t[j] = t[k] => j = k
  <2> SUFFICES ASSUME NEW j \in DOMAIN t, NEW k \in DOMAIN t, t[j] = t[k]
               PROVE  j = k
    OBVIOUS
  <2>1. j + 1 = k + 1
    BY <1>0, <1>2 DEF Apart
  <2> QED
    BY <2>1, <1>2
<1>a. lanes2 = [lanes EXCEPT ![l] = t] /\ owners2 = [owners EXCEPT ![w] = s]
  BY DEF Sets
<1> HIDE DEF s, t, q
<1>5. lanes2 \in [Lanes -> Seq(SeqNums)] /\ owners2 \in [Workers -> OptSeqNum]
  BY <1>0, <1>2, <1>a DEF OptSeqNum
<1>6. /\ lanes2[l] = t /\ \A m \in Lanes \ {l} : lanes2[m] = lanes[m]
      /\ owners2[w] = s /\ \A v \in Workers \ {w} : owners2[v] = owners[v]
  BY <1>0, <1>a
<1>7. \A m \in Lanes : Elems(lanes2[m]) = IF m = l THEN Elems(q) \ {s} ELSE Elems(lanes[m])
  <2>1. Elems(t) = Elems(q) \ {s}
    BY <1>2, <1>3
  <2> QED
    BY Zenon, <1>6, <2>1
<1>8. \A m \in Lanes \ {l} : s \notin Elems(lanes[m])
  BY <1>0, <1>2 DEF Apart, Elems, q
<1>9. \A v \in Workers : owners[v] # s
  BY <1>0, <1>2 DEF Apart, q
<1>10. Apart(lanes2, owners2)
  <2>1. \A i, m \in Lanes : \A j \in DOMAIN lanes2[i], k \in DOMAIN lanes2[m] :
          lanes2[i][j] = lanes2[m][k] => i = m /\ j = k
    <3> SUFFICES ASSUME NEW i \in Lanes, NEW m \in Lanes,
                        NEW j \in DOMAIN lanes2[i], NEW k \in DOMAIN lanes2[m],
                        lanes2[i][j] = lanes2[m][k]
                 PROVE  i = m /\ j = k
      OBVIOUS
    <3>1. CASE i = l /\ m = l
      BY <1>4, <1>6, <3>1
    <3>2. CASE i # l /\ m # l
      BY <1>0, <1>6, <3>2 DEF Apart
    <3>3. CASE i = l /\ m # l
      BY <1>0, <1>2, <1>6, <3>3 DEF Apart, q
    <3>4. CASE i # l /\ m = l
      BY <1>0, <1>2, <1>6, <3>4 DEF Apart, q
    <3> QED
      BY <3>1, <3>2, <3>3, <3>4
  <2>2. \A m \in Lanes, v \in Workers : owners2[v] \notin Elems(lanes2[m])
    BY <1>0, <1>6, <1>7, <1>8 DEF Apart, q
  <2>3. \A u, v \in Workers : owners2[u] = owners2[v] /\ u # v => owners2[u] = None
    BY <1>0, <1>6, <1>9 DEF Apart
  <2> QED
    BY <2>1, <2>2, <2>3 DEF Apart
<1>11. In(lanes2, owners2) = In(lanes, owners)
  <2>1. \A e \in SeqNums : (\E m \in Lanes : e \in Elems(lanes[m]))
                             <=> (e = s \/ \E m \in Lanes : e \in Elems(lanes2[m]))
    BY <1>2, <1>7 DEF q
  <2>2. None \notin SeqNums
    BY MaxSeqAssumption DEF SeqNums, None
  <2>3. \A e \in SeqNums : (e = s \/ \E v \in Workers : e = owners[v])
                             <=> (\E v \in Workers : e = owners2[v])
    BY <1>6, <2>2
  <2> QED
    BY <2>1, <2>3 DEF In
<1> QED
  BY <1>5, <1>10, <1>11 DEF Flow

(* A worker passes its unit on. *)
LEMMA PutFlow ==
  ASSUME NEW lanes, NEW owners, Flow(lanes, owners), NEW l \in Lanes,
         NEW w \in Workers, owners[w] # None,
         NEW lanes2, Sets(lanes, l, Append(lanes[l], owners[w]), lanes2),
         NEW owners2, Sets(owners, w, None, owners2)
  PROVE  Flow(lanes2, owners2) /\ In(lanes2, owners2) = In(lanes, owners)
<1> DEFINE q == lanes[l]
           s == owners[w]
           t == Append(q, s)
<1>0. lanes \in [Lanes -> Seq(SeqNums)] /\ owners \in [Workers -> OptSeqNum] /\ Apart(lanes, owners)
  BY DEF Flow
<1>1. q \in Seq(SeqNums) /\ s \in SeqNums
  BY <1>0 DEF OptSeqNum
<1>2. /\ t \in Seq(SeqNums) /\ Elems(t) = Elems(q) \cup {s}
      /\ \A k \in DOMAIN q : t[k] = q[k]
      /\ \A k \in DOMAIN t : k \in DOMAIN q \/ (k = Len(q) + 1 /\ t[k] = s)
  BY <1>1, AppendElems
<1>3. \A m \in Lanes : s \notin Elems(lanes[m])
  BY <1>0 DEF Apart
<1>4. \A v \in Workers \ {w} : owners[v] # s
  BY <1>0 DEF Apart
<1>5. \A m \in Lanes : \A k \in DOMAIN lanes[m] : lanes[m][k] # s
  BY <1>3 DEF Elems
<1>a. lanes2 = [lanes EXCEPT ![l] = t] /\ owners2 = [owners EXCEPT ![w] = None]
  BY DEF Sets
<1> HIDE DEF s, t, q
<1>6. /\ lanes2[l] = t /\ \A m \in Lanes \ {l} : lanes2[m] = lanes[m]
      /\ owners2[w] = None /\ \A v \in Workers \ {w} : owners2[v] = owners[v]
  BY <1>0, <1>a
<1>7. lanes2 \in [Lanes -> Seq(SeqNums)] /\ owners2 \in [Workers -> OptSeqNum]
  BY <1>0, <1>2, <1>a DEF OptSeqNum
<1>8. Apart(lanes2, owners2)
  <2>1. \A i, m \in Lanes : \A j \in DOMAIN lanes2[i], k \in DOMAIN lanes2[m] :
          lanes2[i][j] = lanes2[m][k] => i = m /\ j = k
    <3> SUFFICES ASSUME NEW i \in Lanes, NEW m \in Lanes,
                        NEW j \in DOMAIN lanes2[i], NEW k \in DOMAIN lanes2[m],
                        lanes2[i][j] = lanes2[m][k]
                 PROVE  i = m /\ j = k
      OBVIOUS
    <3>1. CASE i = l /\ m = l
      BY <1>0, <1>2, <1>5, <1>6, <3>1 DEF Apart, q
    <3>2. CASE i # l /\ m # l
      BY <1>0, <1>6, <3>2 DEF Apart
    <3>3. CASE i = l /\ m # l
      BY <1>0, <1>2, <1>5, <1>6, <3>3 DEF Apart, q
    <3>4. CASE i # l /\ m = l
      BY <1>0, <1>2, <1>5, <1>6, <3>4 DEF Apart, q
    <3> QED
      BY <3>1, <3>2, <3>3, <3>4
  <2>2. \A m \in Lanes, v \in Workers : owners2[v] \notin Elems(lanes2[m])
    <3> TAKE m \in Lanes, v \in Workers
    <3>1. None \notin Elems(lanes2[m])
      BY <1>7, NoneInNoLane
    <3> QED
      BY <1>0, <1>2, <1>4, <1>6, <3>1 DEF Apart, q
  <2>3. \A u, v \in Workers : owners2[u] = owners2[v] /\ u # v => owners2[u] = None
    BY <1>0, <1>6 DEF Apart
  <2> QED
    BY <2>1, <2>2, <2>3 DEF Apart
<1>9. In(lanes2, owners2) = In(lanes, owners)
  <2>1. \A e \in SeqNums : (\E m \in Lanes : e \in Elems(lanes2[m]))
                             <=> (e = s \/ \E m \in Lanes : e \in Elems(lanes[m]))
    BY <1>2, <1>6 DEF q
  <2>2. None \notin SeqNums
    BY MaxSeqAssumption DEF SeqNums, None
  <2>3. \A e \in SeqNums : (\E v \in Workers : e = owners[v])
                             <=> (e = s \/ \E v \in Workers : e = owners2[v])
    BY <1>6, <2>2 DEF s
  <2> QED
    BY <2>1, <2>3 DEF In
<1> QED
  BY <1>7, <1>8, <1>9 DEF Flow

(* A worker lets go of its unit. *)
LEMMA DropFlow ==
  ASSUME NEW lanes, NEW owners, Flow(lanes, owners), NEW w \in Workers,
         NEW owners2, Sets(owners, w, None, owners2)
  PROVE  Flow(lanes, owners2) /\ In(lanes, owners2) = In(lanes, owners) \ {owners[w]}
<1> DEFINE s == owners[w]
<1>0. lanes \in [Lanes -> Seq(SeqNums)] /\ owners \in [Workers -> OptSeqNum] /\ Apart(lanes, owners)
  BY DEF Flow
<1>1. /\ owners2[w] = None /\ \A v \in Workers \ {w} : owners2[v] = owners[v]
      /\ owners2 \in [Workers -> OptSeqNum]
  BY <1>0 DEF OptSeqNum, Sets
<1>2. Apart(lanes, owners2)
  <2>1. \A m \in Lanes, v \in Workers : owners2[v] \notin Elems(lanes[m])
    BY <1>0, <1>1, NoneInNoLane DEF Apart
  <2>2. \A u, v \in Workers : owners2[u] = owners2[v] /\ u # v => owners2[u] = None
    BY <1>0, <1>1 DEF Apart
  <2> QED
    BY <1>0, <2>1, <2>2 DEF Apart
<1>3. None \notin SeqNums
  BY MaxSeqAssumption DEF SeqNums, None
<1>4. ASSUME NEW e \in SeqNums
      PROVE  e \in In(lanes, owners2) <=> e \in In(lanes, owners) /\ e # s
  <2>1. \A m \in Lanes : s \notin Elems(lanes[m])
    BY <1>0 DEF Apart
  <2>2. (\E v \in Workers : e = owners2[v]) <=> (e # s /\ \E v \in Workers : e = owners[v])
    <3>1. \A v \in Workers \ {w} : owners[v] = s => s = None
      BY <1>0 DEF Apart
    <3> QED
      BY <1>1, <1>3, <3>1
  <2> QED
    BY <2>1, <2>2 DEF In
<1>5. In(lanes, owners2) \subseteq SeqNums /\ In(lanes, owners) \subseteq SeqNums
  BY DEF In
<1>6. In(lanes, owners2) = In(lanes, owners) \ {s}
  BY <1>4, <1>5
<1> QED
  BY <1>0, <1>1, <1>2, <1>6 DEF Flow

(* The first unit of a lane goes to the end of another. *)
LEMMA SendFlow ==
  ASSUME NEW lanes, NEW owners, Flow(lanes, owners), NEW l \in Lanes, NEW m \in Lanes, l # m,
         lanes[l] # <<>>, NEW lanes2,
         SendsOn(lanes, l, m, lanes2)
  PROVE  Flow(lanes2, owners) /\ In(lanes2, owners) = In(lanes, owners)
<1> DEFINE q == lanes[l]
           s == Head(q)
           t == Tail(q)
           r == lanes[m]
           u == Append(r, s)
<1>0. lanes \in [Lanes -> Seq(SeqNums)] /\ owners \in [Workers -> OptSeqNum] /\ Apart(lanes, owners)
  BY DEF Flow
<1>1. q \in Seq(SeqNums) /\ r \in Seq(SeqNums)
  BY <1>0
<1>a. lanes2 = [lanes EXCEPT ![l] = t, ![m] = u]
  BY DEF SendsOn
<1>2. /\ t \in Seq(SeqNums) /\ s \in SeqNums /\ s \in Elems(q) /\ 1 \in DOMAIN q
      /\ \A k \in DOMAIN t : k + 1 \in DOMAIN q /\ k + 1 # 1 /\ t[k] = q[k + 1]
      /\ Elems(q) = {s} \cup Elems(t) /\ s = q[1]
      /\ DOMAIN t \subseteq Int
  BY <1>1, TailElems
<1>3. \A k \in DOMAIN t : t[k] # s
  BY <1>0, <1>2 DEF Apart
<1>4. \A j, k \in DOMAIN t : t[j] = t[k] => j = k
  <2> SUFFICES ASSUME NEW j \in DOMAIN t, NEW k \in DOMAIN t, t[j] = t[k]
               PROVE  j = k
    OBVIOUS
  <2>1. j + 1 = k + 1
    BY <1>0, <1>2 DEF Apart
  <2> QED
    BY <2>1, <1>2
<1>5. \A i \in Lanes \ {l} : \A k \in DOMAIN lanes[i] : lanes[i][k] # s
  BY <1>0, <1>2 DEF Apart
<1> HIDE DEF s
<1>6. /\ u \in Seq(SeqNums) /\ Elems(u) = Elems(r) \cup {s}
      /\ \A k \in DOMAIN r : u[k] = r[k]
      /\ \A k \in DOMAIN u : k \in DOMAIN r \/ (k = Len(r) + 1 /\ u[k] = s)
  BY <1>1, <1>2, AppendElems
<1> HIDE DEF t, q, r, u
<1>7. /\ lanes2[l] = t /\ lanes2[m] = u /\ \A i \in Lanes \ {l, m} : lanes2[i] = lanes[i]
      /\ lanes2 \in [Lanes -> Seq(SeqNums)]
  BY Zenon, <1>0, <1>2, <1>6, <1>a
<1>8. \A i \in Lanes : \A k \in DOMAIN lanes2[i] :
        \/ i = m /\ k = Len(r) + 1 /\ lanes2[i][k] = s
        \/ i = l /\ k + 1 \in DOMAIN lanes[l] /\ lanes2[i][k] = lanes[l][k + 1] /\ lanes2[i][k] # s
        \/ i # l /\ k \in DOMAIN lanes[i] /\ lanes2[i][k] = lanes[i][k] /\ lanes2[i][k] # s
  BY <1>2, <1>3, <1>5, <1>6, <1>7 DEF q, r
<1>9. \A i, n \in Lanes : \A j \in DOMAIN lanes2[i], k \in DOMAIN lanes2[n] :
        lanes2[i][j] = lanes2[n][k] => i = n /\ j = k
  <2> SUFFICES ASSUME NEW i \in Lanes, NEW n \in Lanes,
                      NEW j \in DOMAIN lanes2[i], NEW k \in DOMAIN lanes2[n],
                      lanes2[i][j] = lanes2[n][k]
               PROVE  i = n /\ j = k
    OBVIOUS
  <2>1. CASE i = l /\ n = l
    BY <1>4, <1>7, <2>1
  <2>2. CASE i # l /\ n # l
    <3>1. \/ i = m /\ j = Len(r) + 1 /\ lanes2[i][j] = s
          \/ j \in DOMAIN lanes[i] /\ lanes2[i][j] = lanes[i][j] /\ lanes2[i][j] # s
      BY <1>8, <2>2
    <3>2. \/ n = m /\ k = Len(r) + 1 /\ lanes2[n][k] = s
          \/ k \in DOMAIN lanes[n] /\ lanes2[n][k] = lanes[n][k] /\ lanes2[n][k] # s
      BY <1>8, <2>2
    <3>3. CASE lanes2[i][j] = s
      BY <3>1, <3>2, <3>3
    <3>4. CASE lanes2[i][j] # s
      BY <1>0, <3>1, <3>2, <3>4 DEF Apart
    <3> QED
      BY <3>3, <3>4
  <2>3. CASE i = l /\ n # l
    <3>1. /\ j + 1 \in DOMAIN lanes[l] /\ lanes2[i][j] = lanes[l][j + 1] /\ lanes2[i][j] # s
      BY <1>8, <2>3
    <3>2. k \in DOMAIN lanes[n] /\ lanes2[n][k] = lanes[n][k]
      BY <1>8, <2>3, <3>1
    <3> QED
      BY <1>0, <2>3, <3>1, <3>2 DEF Apart
  <2>4. CASE i # l /\ n = l
    <3>1. /\ k + 1 \in DOMAIN lanes[l] /\ lanes2[n][k] = lanes[l][k + 1] /\ lanes2[n][k] # s
      BY <1>8, <2>4
    <3>2. j \in DOMAIN lanes[i] /\ lanes2[i][j] = lanes[i][j]
      BY <1>8, <2>4, <3>1
    <3> QED
      BY <1>0, <2>4, <3>1, <3>2 DEF Apart
  <2> QED
    BY <2>1, <2>2, <2>3, <2>4
<1>10. Elems(t) = Elems(q) \ {s}
  BY <1>2, <1>3 DEF Elems
<1>11. \A e : (\E i \in Lanes : e \in Elems(lanes2[i])) <=> (\E i \in Lanes : e \in Elems(lanes[i]))
  <2> SUFFICES ASSUME NEW e
               PROVE  (\E i \in Lanes : e \in Elems(lanes2[i]))
                        <=> (\E i \in Lanes : e \in Elems(lanes[i]))
    OBVIOUS
  <2>1. CASE e = s
    BY <1>2, <1>6, <1>7, <2>1 DEF q
  <2>2. CASE e # s
    <3>1. \A i \in Lanes : e \in Elems(lanes2[i]) <=> e \in Elems(lanes[i])
      BY <1>6, <1>7, <1>10, <2>2 DEF q, r
    <3> QED
      BY <3>1
  <2> QED
    BY <2>1, <2>2
<1>12. \A i \in Lanes, w \in Workers : owners[w] \notin Elems(lanes2[i])
  BY Zenon, <1>0, <1>11 DEF Apart
<1>13. Apart(lanes2, owners)
  BY <1>0, <1>9, <1>12 DEF Apart
<1>14. In(lanes2, owners) = In(lanes, owners)
  BY <1>11 DEF In
<1> QED
  BY <1>0, <1>7, <1>13, <1>14 DEF Flow

(* A lane is dropped. *)
LEMMA ClearFlow ==
  ASSUME NEW lanes, NEW owners, Flow(lanes, owners), NEW l \in Lanes,
         NEW lanes2, Sets(lanes, l, <<>>, lanes2)
  PROVE  Flow(lanes2, owners) /\ In(lanes2, owners) = In(lanes, owners) \ Elems(lanes[l])
<1>0. lanes \in [Lanes -> Seq(SeqNums)] /\ owners \in [Workers -> OptSeqNum] /\ Apart(lanes, owners)
  BY DEF Flow
<1>1. /\ lanes2[l] = <<>> /\ \A i \in Lanes \ {l} : lanes2[i] = lanes[i]
      /\ lanes2 \in [Lanes -> Seq(SeqNums)]
  BY <1>0 DEF Sets
<1>2. Elems(lanes2[l]) = {} /\ DOMAIN lanes2[l] = {}
  BY <1>1 DEF Elems
<1>3. Apart(lanes2, owners)
  <2>1. \A i \in Lanes : \A k \in DOMAIN lanes2[i] :
          k \in DOMAIN lanes[i] /\ lanes2[i][k] = lanes[i][k]
    BY <1>1, <1>2
  <2>2. \A i \in Lanes : \A e \in Elems(lanes2[i]) : e \in Elems(lanes[i])
    BY <1>1, <1>2
  <2> QED
    BY <1>0, <2>1, <2>2 DEF Apart
<1>4. \A i \in Lanes \ {l} : Elems(lanes[i]) \cap Elems(lanes[l]) = {}
  BY <1>0 DEF Apart, Elems
<1>5. \A w \in Workers : owners[w] \notin Elems(lanes[l])
  BY <1>0 DEF Apart
<1>6. \A i \in Lanes : Elems(lanes2[i]) = IF i = l THEN {} ELSE Elems(lanes[i])
  BY <1>1, <1>2
<1>7. In(lanes2, owners) = In(lanes, owners) \ Elems(lanes[l])
  BY <1>4, <1>5, <1>6 DEF In
<1> QED
  BY <1>0, <1>1, <1>3, <1>7 DEF Flow

(* New units fill an empty lane. *)
LEMMA AdmitFlow ==
  ASSUME NEW lanes, NEW owners, Flow(lanes, owners), NEW l \in Lanes, lanes[l] = <<>>,
         NEW q \in Seq(SeqNums), Distinct(q), Unplaced(q, lanes, owners),
         NEW lanes2, Sets(lanes, l, q, lanes2)
  PROVE  Flow(lanes2, owners) /\ In(lanes2, owners) = In(lanes, owners) \cup Elems(q)
<1>0. lanes \in [Lanes -> Seq(SeqNums)] /\ owners \in [Workers -> OptSeqNum] /\ Apart(lanes, owners)
  BY DEF Flow
<1>1. /\ lanes2[l] = q /\ \A i \in Lanes \ {l} : lanes2[i] = lanes[i]
      /\ lanes2 \in [Lanes -> Seq(SeqNums)]
  BY <1>0 DEF Sets
<1>2. Elems(q) \subseteq SeqNums /\ Elems(lanes[l]) = {} /\ None \notin SeqNums
  BY MaxSeqAssumption DEF Elems, SeqNums, None
<1>3. \A e \in Elems(q) : /\ \A i \in Lanes : e \notin Elems(lanes[i])
                          /\ \A w \in Workers : e # owners[w]
  BY <1>2 DEF In, Unplaced
<1>4. \A i \in Lanes : Elems(lanes2[i]) = IF i = l THEN Elems(q) ELSE Elems(lanes[i])
  BY <1>1
<1>5. Apart(lanes2, owners)
  <2>1. \A i, n \in Lanes : \A j \in DOMAIN lanes2[i], k \in DOMAIN lanes2[n] :
          lanes2[i][j] = lanes2[n][k] => i = n /\ j = k
    <3> SUFFICES ASSUME NEW i \in Lanes, NEW n \in Lanes,
                        NEW j \in DOMAIN lanes2[i], NEW k \in DOMAIN lanes2[n],
                        lanes2[i][j] = lanes2[n][k]
                 PROVE  i = n /\ j = k
      OBVIOUS
    <3>1. \A a \in DOMAIN q : \A c \in Lanes : \A d \in DOMAIN lanes[c] : q[a] # lanes[c][d]
      BY <1>3 DEF Elems
    <3>2. CASE i = l /\ n = l
      BY <1>1, <3>2 DEF Distinct
    <3>3. CASE i # l /\ n # l
      BY <1>0, <1>1, <3>3 DEF Apart
    <3>4. CASE i = l /\ n # l
      BY <1>1, <3>1, <3>4
    <3>5. CASE i # l /\ n = l
      BY <1>1, <3>1, <3>5
    <3> QED
      BY <3>2, <3>3, <3>4, <3>5
  <2>2. \A i \in Lanes, w \in Workers : owners[w] \notin Elems(lanes2[i])
    BY <1>0, <1>3, <1>4 DEF Apart
  <2> QED
    BY <1>0, <2>1, <2>2 DEF Apart
<1>6. In(lanes2, owners) = In(lanes, owners) \cup Elems(q)
  BY <1>2, <1>4 DEF In
<1> QED
  BY <1>0, <1>1, <1>5, <1>6 DEF Flow

-----------------------------------------------------------------------------
QueueState ==
  [descriptor : Seq(SeqNums), fetched : Seq(SeqNums), commit : Seq(SeqNums),
   completion : Seq(SeqNums \cup {Fatal})]
ActorState ==
  [pc : {"select", "send", "ok", "failed", "rejected"}, dryRun : DryRuns,
   open : BOOLEAN, inFlight : Nat, lastAck : OptSeqNum,
   groups : Nat, unsent : Seq(SeqNums)]

(* What the proofs about the steps share. *)
LEMMA Before ==
  ASSUME IInv
  PROVE  /\ FlowTypeOK /\ Tracking /\ Reporting /\ Delivering /\ CleanExit
         /\ actor.pc # "rejected"
         /\ manifest \in [produced : OptSeqNum, dequeued : OptSeqNum]
         /\ manifest.produced \in OptSeqNum /\ manifest.dequeued \in OptSeqNum
         /\ source \in [cursor : OptSeqNum, pendingAck : OptSeqNum]
         /\ source.cursor \in OptSeqNum /\ source.pendingAck \in OptSeqNum
         /\ actor \in ActorState /\ queue \in QueueState
         /\ worker \in [Workers -> WorkerState]
         /\ \A w \in Workers : worker[w] \in WorkerState
         /\ \A w \in Workers : worker[w].seq = None <=> worker[w].pc \in {"idle", "exited"}
BY DEF IInv, FlowTypeOK, QueueState, ActorState, CoordinatorNeverRejects

(* The lanes, one by one. *)
LEMMA LaneIs ==
  /\ DOMAIN lane = Lanes
  /\ lane["unsent"] = actor.unsent /\ lane["descriptor"] = queue.descriptor
  /\ lane["fetched"] = queue.fetched /\ lane["commit"] = queue.commit
BY DEF lane, Lanes

(* Under the invariant the units are spread over the lanes and the workers *)
(* with no unit in two places.                                             *)
LEMMA FlowNow ==
  ASSUME IInv
  PROVE  Flow(lane, unreported)
<1>1. lane \in [Lanes -> Seq(SeqNums)]
  <2>1. /\ actor.unsent \in Seq(SeqNums) /\ queue.descriptor \in Seq(SeqNums)
        /\ queue.fetched \in Seq(SeqNums) /\ queue.commit \in Seq(SeqNums)
    BY Before DEF ActorState, QueueState
  <2> QED
    BY <2>1 DEF lane, Lanes
<1>2. unreported \in [Workers -> OptSeqNum]
  <2>1. \A w \in Workers : worker[w].seq \in OptSeqNum
    BY Before DEF WorkerState
  <2> QED
    BY <2>1 DEF unreported, OptSeqNum
<1> QED
  BY <1>1, <1>2 DEF IInv, Reporting, Flow

(* How a step changes the lanes. *)
LEMMA DescriptorLane ==
  ASSUME queue \in QueueState, UNCHANGED actor, NEW q, queue' = [queue EXCEPT !.descriptor = q]
  PROVE  lane' = [lane EXCEPT !["descriptor"] = q] /\ queue'.completion = queue.completion
BY Zenon DEF lane, Lanes, QueueState

(* A change of the fetched channel, as a change of the lanes. *)
LEMMA FetchedLane ==
  ASSUME queue \in QueueState, UNCHANGED actor, NEW q, queue' = [queue EXCEPT !.fetched = q]
  PROVE  lane' = [lane EXCEPT !["fetched"] = q] /\ queue'.completion = queue.completion
BY Zenon DEF lane, Lanes, QueueState

(* A change of the commit channel, as a change of the lanes. *)
LEMMA CommitLane ==
  ASSUME queue \in QueueState, UNCHANGED actor, NEW q, queue' = [queue EXCEPT !.commit = q]
  PROVE  lane' = [lane EXCEPT !["commit"] = q] /\ queue'.completion = queue.completion
BY Zenon DEF lane, Lanes, QueueState

(* A change of the completion channel leaves the lanes alone. *)
LEMMA CompletionLane ==
  ASSUME queue \in QueueState, UNCHANGED actor, NEW q, queue' = [queue EXCEPT !.completion = q]
  PROVE  lane' = lane /\ queue'.completion = q
BY DEF lane, Lanes, QueueState

(* What a worker has not reported yet, after a change of its state. *)
LEMMA UnreportedIs ==
  ASSUME NEW w \in Workers, NEW st, worker \in [Workers -> WorkerState],
         worker' = [worker EXCEPT ![w] = st]
  PROVE  unreported' = [unreported EXCEPT ![w] = IF st.pc = "release" THEN None ELSE st.seq]
BY Zenon DEF unreported

-----------------------------------------------------------------------------
(* A step of a worker task: units move on or are let go, and a unit that   *)
(* is let go may be reported.                                              *)
WorkersOK ==
  /\ worker \in [Workers -> WorkerState]
  /\ \A w \in Workers : worker[w].seq = None <=> worker[w].pc \in {"idle", "exited"}
  /\ ~actor.dryRun => \A w \in Workers : worker[w].pc = "report" => worker[w].seq \in written

Works ==
  /\ UNCHANGED <<manifest, source, coord, actor, token, crashes>>
  /\ written \subseteq written' /\ written' \subseteq 0 .. manifest.produced
  /\ queue' \in QueueState /\ WorkersOK'
  /\ Flow(lane', unreported') /\ Pipeline' \subseteq Pipeline
  /\ \/ queue'.completion = queue.completion
     \/ /\ ActorRunning
        /\ \E s \in Pipeline \ Pipeline' :
             \/ queue'.completion = Append(queue.completion, Fatal)
             \/ /\ queue'.completion = Append(queue.completion, s)
                /\ ~actor.dryRun => s \in written'

(* A worker's step of the form Works keeps the invariant, and is a step of *)
(* the delivery promise or none.                                           *)
LEMMA WorksKeeps ==
  ASSUME IInv, Works
  PROVE  IInv' /\ [Delivery!Next]_(Delivery!vars)
<1> USE MaxSeqAssumption
<1>0. /\ FlowTypeOK /\ Tracking /\ Reporting /\ Delivering /\ CleanExit
      /\ actor.pc # "rejected" /\ queue \in QueueState /\ manifest.dequeued \in OptSeqNum
      /\ manifest.produced \in OptSeqNum
  BY Before
<1>1. /\ manifest' = manifest /\ source' = source /\ coord' = coord /\ actor' = actor
      /\ token' = token /\ crashes' = crashes /\ Uncommitted' = Uncommitted
      /\ ActorRunning' = ActorRunning
  BY SMTT(30) DEF Works, Uncommitted, ActorRunning
<1>2. FlowTypeOK'
  BY <1>0, <1>1 DEF Works, FlowTypeOK, WorkersOK, QueueState
<1>3. Tracking'
  BY <1>0, <1>1 DEF Tracking
<1> DEFINE done == queue.completion
           done2 == queue'.completion
<1>4. done \in Seq(SeqNums \cup {Fatal})
  BY <1>0 DEF QueueState
<1>5. Reported' = Elems(done2) \ {Fatal} /\ Reported = Elems(done) \ {Fatal}
  BY DEF Reported
<1>6. Fatal \notin SeqNums /\ Pipeline \subseteq SeqNums
  BY DEF Fatal, SeqNums, Pipeline, In
<1>7. Pipeline \subseteq Uncommitted \ Reported /\ Reported \subseteq Uncommitted
      /\ \A j, k \in DOMAIN done : done[j] = done[k] /\ j # k => done[j] = Fatal
  BY <1>0 DEF Reporting
<1>8. ActorRunning =>
        /\ actor.inFlight = Cardinality(Uncommitted)
        /\ Fatal \in Elems(done) => ~(Uncommitted \subseteq Pipeline \cup Reported)
  BY <1>0 DEF Reporting
<1>9. Pipeline' \subseteq Pipeline /\ Apart(lane', unreported')
  BY DEF Works, Flow
<1>10. Reporting' /\ (Reported' \subseteq Reported \/ \E s \in Pipeline :
                        Reported' \subseteq Reported \cup {s} /\ (~actor.dryRun => s \in written'))
       /\ (done2 = done \/ ActorRunning)
  <2>1. CASE done2 = done
    <3>1. Reported' = Reported
      BY <2>1 DEF Reported
    <3>2. Pipeline' \subseteq Uncommitted' \ Reported' /\ Reported' \subseteq Uncommitted'
      BY <1>1, <1>7, <1>9, <3>1
    <3>3. ActorRunning' =>
            /\ actor'.inFlight = Cardinality(Uncommitted')
            /\ Fatal \in Elems(done2) => ~(Uncommitted' \subseteq Pipeline' \cup Reported')
      BY <1>1, <1>8, <1>9, <2>1, <3>1
    <3> QED
      BY <1>7, <1>9, <2>1, <3>1, <3>2, <3>3 DEF Reporting
  <2>2. ASSUME NEW s \in Pipeline \ Pipeline', done2 = Append(done, Fatal), ActorRunning
        PROVE  <1>10!:
    <3>1. /\ Elems(done2) = Elems(done) \cup {Fatal}
          /\ \A k \in DOMAIN done : done2[k] = done[k]
          /\ \A k \in DOMAIN done2 : k \in DOMAIN done \/ (k = Len(done) + 1 /\ done2[k] = Fatal)
      BY <1>4, <2>2, AppendElems
    <3>2. Reported' = Reported
      BY <1>5, <3>1
    <3>3. Pipeline' \subseteq Uncommitted' \ Reported' /\ Reported' \subseteq Uncommitted'
      BY <1>1, <1>7, <1>9, <3>2
    <3>4. s \in Uncommitted' /\ s \notin Pipeline' \cup Reported'
      BY <1>1, <1>7, <3>2, <2>2
    <3>5. \A j, k \in DOMAIN done2 : done2[j] = done2[k] /\ j # k => done2[j] = Fatal
      BY <1>7, <3>1
    <3>6. ActorRunning' =>
            /\ actor'.inFlight = Cardinality(Uncommitted')
            /\ Fatal \in Elems(done2) => ~(Uncommitted' \subseteq Pipeline' \cup Reported')
      BY <1>1, <1>8, <3>4
    <3> QED
      BY <1>9, <2>2, <3>2, <3>3, <3>5, <3>6 DEF Reporting
  <2>3. ASSUME NEW s \in Pipeline \ Pipeline', done2 = Append(done, s), ActorRunning,
               ~actor.dryRun => s \in written'
        PROVE  <1>10!:
    <3>0. s \in SeqNums /\ s # Fatal
      BY <1>6
    <3>1. /\ Elems(done2) = Elems(done) \cup {s}
          /\ \A k \in DOMAIN done : done2[k] = done[k]
          /\ \A k \in DOMAIN done2 : k \in DOMAIN done \/ (k = Len(done) + 1 /\ done2[k] = s)
      BY <1>4, <2>3, <3>0, AppendElems
    <3>2. Reported' = Reported \cup {s}
      BY <1>5, <3>0, <3>1
    <3>3. Pipeline' \subseteq Uncommitted' \ Reported' /\ Reported' \subseteq Uncommitted'
      BY <1>1, <1>7, <1>9, <3>2
    <3>4. s \notin Elems(done)
      BY <1>5, <1>7, <3>0
    <3>5. \A j, k \in DOMAIN done2 : done2[j] = done2[k] /\ j # k => done2[j] = Fatal
      <4>1. \A k \in DOMAIN done : done[k] # s
        BY <3>4 DEF Elems
      <4> QED
        BY <1>7, <3>1, <4>1
    <3>6. ActorRunning' =>
            /\ actor'.inFlight = Cardinality(Uncommitted')
            /\ Fatal \in Elems(done2) => ~(Uncommitted' \subseteq Pipeline' \cup Reported')
      <4>1. Fatal \in Elems(done2) => Fatal \in Elems(done)
        BY <3>0, <3>1
      <4>2. Pipeline' \cup Reported' \subseteq Pipeline \cup Reported
        BY <1>9, <3>2
      <4> QED
        BY <1>1, <1>8, <4>1, <4>2
    <3>7. Reporting'
      BY <1>9, <3>3, <3>5, <3>6 DEF Reporting
    <3> QED
      BY <2>3, <3>2, <3>7
  <2> QED
    BY <2>1, <2>2, <2>3 DEF Works
<1>11. Delivering'
  <2>1. written \subseteq written' /\ written' \subseteq 0 .. manifest.produced
    BY DEF Works
  <2>2. ~actor.dryRun => Reported' \subseteq written'
    BY Zenon, <1>0, <1>10, <2>1 DEF Delivering
  <2>3. ~actor.dryRun => \A w \in Workers : worker'[w].pc = "report" => worker'[w].seq \in written'
    BY <1>1 DEF Works, WorkersOK
  <2> QED
    BY <1>0, <1>1, <2>1, <2>2, <2>3 DEF Delivering
<1>12. CleanExit'
  <2> SUFFICES ASSUME actor.pc = "ok"
               PROVE  Units' \subseteq Owned' /\ done2 = <<>>
    BY <1>0, <1>1 DEF CleanExit
  <2>1. coord.pending = {} /\ done = <<>>
    BY <1>0 DEF CleanExit
  <2>2. done2 = <<>>
    BY <1>10, <2>1 DEF ActorRunning
  <2>3. Pipeline' = {}
    BY <1>7, <1>9, <2>1 DEF Uncommitted
  <2>4. \A l \in Lanes : Elems(lane'[l]) = {}
    <3> TAKE l \in Lanes
    <3>1. Elems(lane'[l]) \subseteq SeqNums
      BY Zenon, NoneInNoLane DEF Works, Flow
    <3> QED
      BY <2>3, <3>1 DEF Pipeline, In
  <2>5. /\ lane'["unsent"] = actor'.unsent /\ lane'["descriptor"] = queue'.descriptor
        /\ lane'["fetched"] = queue'.fetched /\ lane'["commit"] = queue'.commit
    BY DEF lane, Lanes
  <2>6. Units' \subseteq Owned'
    BY <2>4, <2>5 DEF Units, Lanes
  <2> QED
    BY <2>2, <2>6
<1>13. IInv'
  BY <1>0, <1>1, <1>2, <1>3, <1>10, <1>11, <1>12 DEF IInv, CoordinatorNeverRejects
<1>14. [Delivery!Next]_(Delivery!vars)
  <2>1. \A s \in written' \ written : s \in manifest.dequeued + 1 .. manifest.produced
    BY <1>0 DEF Works, Delivering, OptSeqNum, SeqNums, None
  <2> QED
    BY Zenon, <1>1, <2>1 DEF Works, Delivery!Next, Delivery!Deliver, Delivery!vars
<1> QED
  BY <1>13, <1>14

-----------------------------------------------------------------------------
(* A unit that a worker has and has not reported. *)
LEMMA UncommittedIsRead ==
  ASSUME IInv
  PROVE  /\ Uncommitted \subseteq 0 .. source.cursor
         /\ Uncommitted \subseteq 0 .. manifest.produced
<1>1. /\ Tracks(coord, source.cursor + 1, (0 .. source.cursor) \ Uncommitted)
      /\ source.cursor <= manifest.produced
      /\ source.cursor \in OptSeqNum /\ manifest.produced \in OptSeqNum
  BY Before DEF Tracking
<1>2. \A r \in coord.pending : r.low < source.cursor + 1 /\ r.low \in SeqNums
  BY SMTT(30), <1>1 DEF Tracks, Coordinator, PendingRange
<1>3. Uncommitted \subseteq 0 .. source.cursor
  BY <1>1, <1>2, MaxSeqAssumption DEF Uncommitted, OptSeqNum, SeqNums, None
<1> QED
  BY <1>1, <1>3, MaxSeqAssumption DEF OptSeqNum, SeqNums, None

(* The unit of a worker that is at work is in the pipeline. *)
LEMMA AtWorker ==
  ASSUME IInv, NEW w \in Workers, worker[w].pc \notin {"idle", "exited", "release"}
  PROVE  /\ worker[w].seq \in Pipeline /\ worker[w].seq \in SeqNums
         /\ worker[w].seq # None /\ unreported[w] = worker[w].seq
         /\ worker[w].seq \in 0 .. manifest.produced
<1>1. worker[w].seq # None /\ worker[w].seq \in OptSeqNum
  BY Before DEF WorkerState
<1>2. unreported[w] = worker[w].seq
  BY DEF unreported
<1>3. worker[w].seq \in Pipeline
  BY <1>1, <1>2 DEF Pipeline, In, OptSeqNum
<1>4. worker[w].seq \in 0 .. manifest.produced
  BY <1>3, Before, UncommittedIsRead DEF Reporting
<1> QED
  BY <1>1, <1>2, <1>3, <1>4 DEF OptSeqNum

(* The workers stay typed when one of them changes its state. *)
LEMMA WorkersSet ==
  ASSUME IInv, NEW w \in Workers, NEW st \in WorkerState, worker' = [worker EXCEPT ![w] = st],
         st.seq = None <=> st.pc \in {"idle", "exited"}, UNCHANGED actor,
         written \subseteq written',
         ~actor.dryRun /\ st.pc = "report" => st.seq \in written'
  PROVE  /\ WorkersOK' /\ worker'[w] = st
         /\ \A v \in Workers \ {w} : worker'[v] = worker[v]
<1>1. /\ worker \in [Workers -> WorkerState] /\ Delivering
      /\ \A v \in Workers : worker[v].seq = None <=> worker[v].pc \in {"idle", "exited"}
  BY Before
<1>2. /\ worker' \in [Workers -> WorkerState] /\ worker'[w] = st
      /\ \A v \in Workers \ {w} : worker'[v] = worker[v]
  BY <1>1
<1>3. \A v \in Workers : worker'[v].seq = None <=> worker'[v].pc \in {"idle", "exited"}
  BY <1>1, <1>2
<1>4. ~actor'.dryRun => \A v \in Workers : worker'[v].pc = "report" => worker'[v].seq \in written'
  BY Zenon, <1>1, <1>2 DEF Delivering
<1> QED
  BY <1>2, <1>3, <1>4 DEF WorkersOK

WorkerKeepsAll == UNCHANGED <<manifest, source, coord, actor, token, crashes>>

(* A step of a worker within its unit, or without one. *)
LEMMA StayWorks ==
  ASSUME IInv, WorkerKeepsAll, UNCHANGED queue,
         NEW w \in Workers, NEW st \in WorkerState, worker' = [worker EXCEPT ![w] = st],
         st.seq = None <=> st.pc \in {"idle", "exited"},
         unreported[w] = IF st.pc = "release" THEN None ELSE st.seq,
         ~actor.dryRun /\ st.pc = "report" => st.seq \in written',
         written \subseteq written', written' \subseteq 0 .. manifest.produced
  PROVE  Works
<1>1. WorkersOK'
  BY Zenon, WorkersSet DEF WorkerKeepsAll
<1>2. worker \in [Workers -> WorkerState] /\ queue \in QueueState
  BY Before
<1>3. unreported' = [unreported EXCEPT ![w] = unreported[w]]
  BY Zenon, <1>2, UnreportedIs
<1>4. unreported' = unreported
  BY <1>3 DEF unreported
<1>5. lane' = lane
  BY DEF WorkerKeepsAll, lane
<1>6. Pipeline' = Pipeline
  BY <1>4, <1>5 DEF Pipeline, In
<1>7. Flow(lane', unreported')
  BY <1>4, <1>5, FlowNow
<1> QED
  BY <1>1, <1>2, <1>6, <1>7 DEF Works, WorkerKeepsAll

(* An idle worker holds no unit. *)
LEMMA IdleState ==
  IdleWorker \in WorkerState /\ IdleWorker.pc = "idle" /\ IdleWorker.seq = None
BY RuntimeAssumption DEF WorkerState, IdleWorker, OptSeqNum

(* An exited worker holds no unit. *)
LEMMA ExitedState ==
  Exited \in WorkerState /\ Exited.pc = "exited" /\ Exited.seq = None
BY SMTT(30), IdleState DEF Exited, WorkerState

(* A worker that receives a unit works. *)
LEMMA TakeWorks ==
  ASSUME IInv, WorkerKeepsAll, UNCHANGED written, NEW w \in Workers, worker[w].pc = "idle",
         NEW l \in Lanes, lane[l] # <<>>, lane' = [lane EXCEPT ![l] = Tail(@)],
         Take(w, lane[l]), queue' \in QueueState, queue'.completion = queue.completion
  PROVE  Works
<1> DEFINE s == Head(lane[l])
           st == [IdleWorker EXCEPT !.pc = "busy", !.seq = s]
<1>0. /\ worker \in [Workers -> WorkerState] /\ worker[w].seq = None
      /\ written \subseteq 0 .. manifest.produced
  BY Before DEF Delivering
<1>1. Flow(lane, unreported) /\ lane \in [Lanes -> Seq(SeqNums)]
  BY FlowNow DEF Flow
<1>2. s \in SeqNums
  BY <1>1, TailElems
<1> HIDE DEF s
<1>3. st \in WorkerState /\ st.pc = "busy" /\ st.seq = s /\ s # None
  <2>1. s \in OptSeqNum /\ s # None
    BY <1>2, MaxSeqAssumption DEF OptSeqNum, SeqNums, None
  <2> QED
    BY Zenon, <2>1, IdleState DEF WorkerState
<1> HIDE DEF st
<1>4. worker' = [worker EXCEPT ![w] = st]
  BY DEF Take, SetWorker, st, s
<1>5. WorkersOK'
  BY Zenon, <1>3, <1>4, WorkersSet DEF WorkerKeepsAll
<1>6. unreported[w] = None
  BY <1>0 DEF unreported
<1>7. unreported' = [unreported EXCEPT ![w] = s]
  BY Zenon, <1>0, <1>3, <1>4, UnreportedIs
<1>8. Flow(lane', unreported') /\ In(lane', unreported') = In(lane, unreported)
  <2>1. Sets(lane, l, Tail(lane[l]), lane') /\ Sets(unreported, w, Head(lane[l]), unreported')
    BY <1>7 DEF Sets, s
  <2> QED
    BY <1>1, <1>6, <2>1, TakeFlow
<1>9. Pipeline' = Pipeline
  BY <1>8 DEF Pipeline, In
<1> QED
  BY <1>0, <1>5, <1>8, <1>9 DEF Works, WorkerKeepsAll

(* A worker that passes its unit on works. *)
LEMMA PutWorks ==
  ASSUME IInv, WorkerKeepsAll, UNCHANGED written, NEW w \in Workers, worker[w].pc = "busy",
         NEW l \in Lanes, lane' = [lane EXCEPT ![l] = Append(@, worker[w].seq)],
         SetWorker(w, IdleWorker), queue' \in QueueState, queue'.completion = queue.completion
  PROVE  Works
<1>0. /\ worker \in [Workers -> WorkerState] /\ written \subseteq 0 .. manifest.produced
  BY Before DEF Delivering
<1>1. Flow(lane, unreported)
  BY FlowNow
<1>2. IdleWorker \in WorkerState /\ IdleWorker.pc = "idle" /\ IdleWorker.seq = None
  BY IdleState
<1>3. worker' = [worker EXCEPT ![w] = IdleWorker]
  BY DEF SetWorker
<1>4. WorkersOK'
  BY Zenon, <1>2, <1>3, WorkersSet DEF WorkerKeepsAll
<1>5. unreported[w] = worker[w].seq /\ unreported[w] # None
  BY AtWorker
<1>6. unreported' = [unreported EXCEPT ![w] = None]
  BY Zenon, <1>0, <1>2, <1>3, UnreportedIs
<1>7. Flow(lane', unreported') /\ In(lane', unreported') = In(lane, unreported)
  <2>1. Sets(lane, l, Append(lane[l], unreported[w]), lane') /\ Sets(unreported, w, None, unreported')
    BY <1>5, <1>6 DEF Sets
  <2> QED
    BY <1>1, <1>5, <2>1, PutFlow
<1>8. Pipeline' = Pipeline
  BY SMTT(30), <1>7 DEF Pipeline, In
<1> QED
  BY <1>0, <1>4, <1>7, <1>8 DEF Works, WorkerKeepsAll

(* A worker lets go of a unit it has not reported, or of nothing. *)
LEMMA LetGoWorks ==
  ASSUME IInv, WorkerKeepsAll, NEW w \in Workers, worker[w].pc # "release",
         NEW st \in WorkerState, worker' = [worker EXCEPT ![w] = st],
         (st.pc = "exited" /\ st.seq = None) \/ (st.pc = "release" /\ st.seq # None),
         lane' = lane, queue' \in QueueState,
         written \subseteq written', written' \subseteq 0 .. manifest.produced,
         \/ queue'.completion = queue.completion
         \/ /\ ActorRunning /\ worker[w].pc \notin {"idle", "exited"}
            /\ \/ queue'.completion = Append(queue.completion, Fatal)
               \/ /\ queue'.completion = Append(queue.completion, worker[w].seq)
                  /\ ~actor.dryRun => worker[w].seq \in written'
  PROVE  Works
<1>0. worker \in [Workers -> WorkerState]
  BY Before
<1>1. Flow(lane, unreported)
  BY FlowNow
<1>2. WorkersOK'
  BY Zenon, WorkersSet DEF WorkerKeepsAll
<1>3. unreported[w] = worker[w].seq
  BY DEF unreported
<1>4. unreported' = [unreported EXCEPT ![w] = None]
  <2>1. unreported' = [unreported EXCEPT ![w] = IF st.pc = "release" THEN None ELSE st.seq]
    BY <1>0, UnreportedIs, Zenon
  <2>2. (IF st.pc = "release" THEN None ELSE st.seq) = None
    OBVIOUS
  <2> QED
    BY Zenon, <2>1, <2>2
<1>5. Flow(lane', unreported') /\ In(lane', unreported') = In(lane, unreported) \ {worker[w].seq}
  <2>1. /\ Flow(lane, unreported')
        /\ In(lane, unreported') = In(lane, unreported) \ {unreported[w]}
    <3>1. Sets(unreported, w, None, unreported')
      BY SMTT(30), <1>4 DEF Sets
    <3> QED
      BY <1>1, <3>1, DropFlow
  <2> QED
    BY <1>3, <2>1
<1>6. Pipeline' = Pipeline \ {worker[w].seq}
  BY <1>5 DEF Pipeline, In
<1>7. worker[w].pc \notin {"idle", "exited"} => worker[w].seq \in Pipeline \ Pipeline'
  BY <1>6, AtWorker
<1> QED
  BY Zenon, <1>2, <1>5, <1>6, <1>7 DEF Works, WorkerKeepsAll

(* What is sent to the actor. *)
LEMMA Sends ==
  ASSUME IInv, NEW msg \in SeqNums \cup {Fatal}, SendCompletion(msg), UNCHANGED actor
  PROVE  /\ queue' \in QueueState /\ lane' = lane
         /\ \/ ~ActorRunning /\ queue'.completion = queue.completion
            \/ ActorRunning /\ queue'.completion = Append(queue.completion, msg)
<1>1. queue \in QueueState
  BY Before
<1>2. CASE ~ActorRunning
  BY <1>1, <1>2 DEF SendCompletion, lane
<1>3. CASE ActorRunning
  <2> DEFINE q == Append(queue.completion, msg)
  <2>1. q \in Seq(SeqNums \cup {Fatal})
    BY <1>1 DEF QueueState
  <2> HIDE DEF q
  <2>2. queue' = [queue EXCEPT !.completion = q]
    BY <1>3 DEF SendCompletion, q
  <2>3. queue' \in QueueState
    BY SMTT(30), <1>1, <2>1, <2>2 DEF QueueState
  <2>4. lane' = lane /\ queue'.completion = q
    BY <1>1, <2>2, CompletionLane
  <2> QED
    BY <1>3, <2>3, <2>4 DEF q
<1> QED
  BY <1>2, <1>3

(* A worker that reports Fatal and exits works. *)
LEMMA ExitFatallyWorks ==
  ASSUME IInv, WorkerKeepsAll, NEW w \in Workers,
         worker[w].pc \notin {"idle", "exited", "release"}, ExitFatally(w),
         written \subseteq written', written' \subseteq 0 .. manifest.produced
  PROVE  Works
<1>1. worker' = [worker EXCEPT ![w] = Exited]
  BY DEF ExitFatally, Exit, SetWorker
<1>2. /\ queue' \in QueueState /\ lane' = lane
      /\ \/ ~ActorRunning /\ queue'.completion = queue.completion
         \/ ActorRunning /\ queue'.completion = Append(queue.completion, Fatal)
  BY Sends DEF ExitFatally, WorkerKeepsAll
<1> QED
  BY Zenon, <1>1, <1>2, ExitedState, LetGoWorks

(* A worker that exits without a word works. *)
LEMMA ExitWorks ==
  ASSUME IInv, WorkerKeepsAll, UNCHANGED queue, NEW w \in Workers,
         worker[w].pc # "release", Exit(w),
         written \subseteq written', written' \subseteq 0 .. manifest.produced
  PROVE  Works
<1>1. worker' = [worker EXCEPT ![w] = Exited]
  BY DEF Exit, SetWorker
<1>2. lane' = lane /\ queue' \in QueueState
  BY Before DEF lane, WorkerKeepsAll
<1> QED
  BY Zenon, <1>1, <1>2, ExitedState, LetGoWorks

(* What a step of a worker may add to the sink: the unit it has. *)
LEMMA WrittenMore ==
  ASSUME IInv, NEW w \in Workers, worker[w].pc \notin {"idle", "exited", "release"},
         written' = written \/ written' = written \cup {worker[w].seq}
  PROVE  written \subseteq written' /\ written' \subseteq 0 .. manifest.produced
<1>1. written \subseteq 0 .. manifest.produced
  BY Before DEF Delivering
<1>2. worker[w].seq \in 0 .. manifest.produced
  BY AtWorker
<1> QED
  BY Zenon, <1>1, <1>2

(* A step that leaves the sink alone keeps what is written. *)
LEMMA WrittenKept ==
  ASSUME IInv, WorkerKeeps
  PROVE  /\ WorkerKeepsAll /\ written' = written
         /\ written \subseteq written' /\ written' \subseteq 0 .. manifest.produced
BY Before DEF WorkerKeeps, WorkerKeepsAll, KeepWorld, Delivering

(* A worker goes on with its unit. *)
LEMMA WithinWorks ==
  ASSUME IInv, WorkerKeepsAll, UNCHANGED queue, NEW w \in Workers,
         worker[w].pc \notin {"idle", "exited", "release"},
         NEW st \in WorkerState, worker' = [worker EXCEPT ![w] = st], st.seq = worker[w].seq,
         st.pc \in {"busy", "check", "hung", "report"},
         ~actor.dryRun /\ st.pc = "report" => worker[w].seq \in written',
         written \subseteq written', written' \subseteq 0 .. manifest.produced
  PROVE  Works
<1>1. unreported[w] = worker[w].seq /\ worker[w].seq # None
  BY AtWorker
<1>2. unreported[w] = IF st.pc = "release" THEN None ELSE st.seq
  BY <1>1
<1>3. st.seq = None <=> st.pc \in {"idle", "exited"}
  BY <1>1
<1> QED
  BY Zenon, <1>2, <1>3, StayWorks

(* A worker's state after a change of its program counter only. *)
LEMMA StateAt ==
  ASSUME IInv, NEW w \in Workers, NEW np \in {"busy", "check", "hung", "report", "release"}
  PROVE  /\ [worker[w] EXCEPT !.pc = np] \in WorkerState
         /\ [worker[w] EXCEPT !.pc = np].pc = np
         /\ [worker[w] EXCEPT !.pc = np].seq = worker[w].seq
BY Before DEF WorkerState

(* Every step of a worker. *)
LEMMA WorkerSteps ==
  ASSUME IInv
  PROVE  /\ \A w \in Fetchers : FetchStep(w) => Works
         /\ \A w \in Decoders : DecodeStep(w) => Works
         /\ \A w \in Writers : WriterStep(w) => Works
         /\ \A w \in Workers : WorkerFault(w) \/ AbortWorker(w) => Works

(* An idle worker finds its channel closed. *)
<1>IdleExits. ASSUME WorkerKeepsAll, UNCHANGED written, UNCHANGED queue, NEW w \in Workers,
                     worker[w].pc = "idle", SetWorker(w, Exited)
              PROVE  Works
  <2> USE <1>IdleExits
  <2>1. written \subseteq 0 .. manifest.produced /\ worker[w].seq = None /\ unreported[w] = None
    BY Before DEF Delivering, unreported
  <2>2. worker' = [worker EXCEPT ![w] = Exited]
    BY DEF SetWorker
  <2>3. unreported[w] = IF Exited.pc = "release" THEN None ELSE Exited.seq
    BY <2>1, ExitedState
  <2> QED
    BY Zenon, <2>1, <2>2, <2>3, ExitedState, StayWorks

(* A fetcher's receive. *)
<1>FetchRecv. ASSUME NEW w \in Fetchers, FetchRecv(w) PROVE Works
  <2> USE <1>FetchRecv
  <2>0. w \in Workers /\ WorkerKeepsAll /\ UNCHANGED written /\ queue \in QueueState
        /\ worker[w].pc = "idle" /\ actor' = actor
    BY WrittenKept, Before DEF FetchRecv, Workers, WorkerKeepsAll
  <2>1. CASE queue.descriptor # <<>>
    <3>0. "descriptor" \in Lanes /\ lane["descriptor"] = queue.descriptor
      BY LaneIs DEF Lanes
    <3> DEFINE q == Tail(queue.descriptor)
    <3>1. q \in Seq(SeqNums)
      BY <2>0, <2>1 DEF QueueState
    <3>2. queue' = [queue EXCEPT !.descriptor = q] /\ Take(w, queue.descriptor)
      BY <2>1 DEF FetchRecv
    <3>q. q = Tail(lane["descriptor"])
      BY <3>0
    <3> HIDE DEF q
    <3>3. lane' = [lane EXCEPT !["descriptor"] = q] /\ queue'.completion = queue.completion
      BY <2>0, <3>2, DescriptorLane
    <3>4. queue' \in QueueState
      BY <2>0, <3>1, <3>2 DEF QueueState
    <3>5. lane' = [lane EXCEPT !["descriptor"] = Tail(@)] /\ Take(w, lane["descriptor"])
          /\ lane["descriptor"] # <<>>
      BY <2>1, <3>0, <3>2, <3>3, <3>q
    <3> QED
      BY Zenon, <2>0, <3>0, <3>3, <3>4, <3>5, TakeWorks
  <2>2. CASE queue.descriptor = <<>>
    BY <2>0, <2>2, <1>IdleExits DEF FetchRecv
  <2> QED
    BY <2>1, <2>2

(* A decoder's receive. *)
<1>DecodeRecv. ASSUME NEW w \in Decoders, DecodeRecv(w) PROVE Works
  <2> USE <1>DecodeRecv
  <2>0. w \in Workers /\ WorkerKeepsAll /\ UNCHANGED written /\ queue \in QueueState
        /\ worker[w].pc = "idle" /\ actor' = actor
    BY SMTT(30), WrittenKept, Before DEF DecodeRecv, Workers, WorkerKeepsAll
  <2>1. CASE queue.fetched # <<>>
    <3>0. "fetched" \in Lanes /\ lane["fetched"] = queue.fetched
      BY LaneIs DEF Lanes
    <3> DEFINE q == Tail(queue.fetched)
    <3>1. q \in Seq(SeqNums)
      BY <2>0, <2>1 DEF QueueState
    <3>2. queue' = [queue EXCEPT !.fetched = q] /\ Take(w, queue.fetched)
      BY <2>1 DEF DecodeRecv
    <3>q. q = Tail(lane["fetched"])
      BY <3>0
    <3> HIDE DEF q
    <3>3. lane' = [lane EXCEPT !["fetched"] = q] /\ queue'.completion = queue.completion
      BY <2>0, <3>2, FetchedLane
    <3>4. queue' \in QueueState
      BY Zenon, <2>0, <3>1, <3>2 DEF QueueState
    <3>5. lane' = [lane EXCEPT !["fetched"] = Tail(@)] /\ Take(w, lane["fetched"])
          /\ lane["fetched"] # <<>>
      BY <2>1, <3>0, <3>2, <3>3, <3>q
    <3> QED
      BY Zenon, <2>0, <3>0, <3>3, <3>4, <3>5, TakeWorks
  <2>2. CASE queue.fetched = <<>>
    BY <2>0, <2>2, <1>IdleExits DEF DecodeRecv
  <2> QED
    BY <2>1, <2>2

(* A writer's receive. *)
<1>WriterRecv. ASSUME NEW w \in Writers, WriterRecv(w) PROVE Works
  <2> USE <1>WriterRecv
  <2>0. w \in Workers /\ WorkerKeepsAll /\ UNCHANGED written /\ queue \in QueueState
        /\ worker[w].pc = "idle" /\ actor' = actor
    BY SMTT(30), WrittenKept, Before DEF WriterRecv, Workers, WorkerKeepsAll
  <2>1. CASE queue.commit # <<>>
    <3>0. "commit" \in Lanes /\ lane["commit"] = queue.commit
      BY LaneIs DEF Lanes
    <3> DEFINE q == Tail(queue.commit)
    <3>1. q \in Seq(SeqNums)
      BY <2>0, <2>1 DEF QueueState
    <3>2. queue' = [queue EXCEPT !.commit = q] /\ Take(w, queue.commit)
      BY <2>1 DEF WriterRecv
    <3>q. q = Tail(lane["commit"])
      BY <3>0
    <3> HIDE DEF q
    <3>3. lane' = [lane EXCEPT !["commit"] = q] /\ queue'.completion = queue.completion
      BY <2>0, <3>2, CommitLane
    <3>4. queue' \in QueueState
      BY SMTT(30), <2>0, <3>1, <3>2 DEF QueueState
    <3>5. lane' = [lane EXCEPT !["commit"] = Tail(@)] /\ Take(w, lane["commit"])
          /\ lane["commit"] # <<>>
      BY <2>1, <3>0, <3>2, <3>3, <3>q
    <3> QED
      BY Zenon, <2>0, <3>0, <3>3, <3>4, <3>5, TakeWorks
  <2>2. CASE queue.commit = <<>>
    BY <2>0, <2>2, <1>IdleExits DEF WriterRecv
  <2> QED
    BY <2>1, <2>2

(* A fatal exit that writes nothing. *)
<1>Fatal. ASSUME WorkerKeeps, NEW w \in Workers,
                 worker[w].pc \notin {"idle", "exited", "release"}, ExitFatally(w)
          PROVE  Works
  BY <1>Fatal, WrittenKept, ExitFatallyWorks

(* A fetch that succeeds: the unit moves to the fetched channel. *)
<1>FetchDone. ASSUME NEW w \in Fetchers, FetchDone(w) PROVE Works
  <2> USE <1>FetchDone
  <2>0. w \in Workers /\ WorkerKeeps /\ worker[w].pc = "busy"
    BY DEF FetchDone, Workers
  <2>a. WorkerKeepsAll /\ written' = written /\ queue \in QueueState /\ actor' = actor
    BY <2>0, WrittenKept, Before DEF WorkerKeepsAll
  <2>1. CASE AllExited(Decoders)
    BY <2>0, <2>1, <1>Fatal DEF FetchDone
  <2>2. CASE ~AllExited(Decoders)
    <3>0. "fetched" \in Lanes /\ lane["fetched"] = queue.fetched
      BY LaneIs DEF Lanes
    <3> DEFINE q == Append(queue.fetched, worker[w].seq)
    <3>1. q \in Seq(SeqNums)
      BY <2>0, <2>a, AtWorker DEF QueueState
    <3>2. queue' = [queue EXCEPT !.fetched = q] /\ SetWorker(w, IdleWorker)
      BY <2>2 DEF FetchDone
    <3>q. q = Append(lane["fetched"], worker[w].seq)
      BY <3>0
    <3> HIDE DEF q
    <3>3. lane' = [lane EXCEPT !["fetched"] = q] /\ queue'.completion = queue.completion
      BY <2>a, <3>2, FetchedLane
    <3>4. queue' \in QueueState
      BY SMTT(30), <2>a, <3>1, <3>2 DEF QueueState
    <3>5. lane' = [lane EXCEPT !["fetched"] = Append(@, worker[w].seq)]
      BY <3>3, <3>q
    <3> QED
      BY Zenon, <2>0, <2>a, <3>0, <3>2, <3>3, <3>4, <3>5, PutWorks
  <2> QED
    BY <2>1, <2>2

(* A decode that succeeds: the unit moves to the commit channel, its       *)
(* reservation reconciled, or the oversize gate fails it.                  *)
<1>DecodeDone. ASSUME NEW w \in Decoders, DecodeDone(w) PROVE Works
  <2> USE <1>DecodeDone
  <2>0. w \in Workers /\ WorkerKeeps /\ worker[w].pc = "busy"
    BY DEF DecodeDone, Workers
  <2>a. /\ WorkerKeepsAll /\ written' = written /\ queue \in QueueState /\ actor' = actor
        /\ written \subseteq written' /\ written' \subseteq 0 .. manifest.produced
    BY <2>0, WrittenKept, Before DEF WorkerKeepsAll
  <2>1. CASE ExitFatally(w)
    BY <2>0, <2>1, <1>Fatal
  <2>2. CASE actor.dryRun /\ SetWorker(w, [worker[w] EXCEPT !.pc = "report"]) /\ UNCHANGED queue
    <3> DEFINE st == [worker[w] EXCEPT !.pc = "report"]
    <3>1. st \in WorkerState /\ st.pc = "report" /\ st.seq = worker[w].seq
      BY Zenon, <2>0, StateAt
    <3>2. worker' = [worker EXCEPT ![w] = st]
      BY <2>2 DEF SetWorker
    <3> HIDE DEF st
    <3> QED
      BY Zenon, <2>0, <2>a, <2>2, <3>1, <3>2, WithinWorks
  <2>3. CASE /\ queue' = [queue EXCEPT !.commit = Append(@, worker[w].seq)]
             /\ SetWorker(w, IdleWorker)
    <3>0. "commit" \in Lanes /\ lane["commit"] = queue.commit
      BY LaneIs DEF Lanes
    <3> DEFINE q == Append(queue.commit, worker[w].seq)
    <3>a. worker[w].seq \in SeqNums
      BY <2>0, AtWorker
    <3>1. q \in Seq(SeqNums)
      BY <2>a, <3>a DEF QueueState
    <3>2. queue' = [queue EXCEPT !.commit = q]
      BY <2>3
    <3>q. q = Append(lane["commit"], worker[w].seq)
      BY <3>0
    <3> HIDE DEF q
    <3>3. lane' = [lane EXCEPT !["commit"] = q] /\ queue'.completion = queue.completion
      BY <2>a, <3>2, CommitLane
    <3>4. queue' \in QueueState
      BY Zenon, <2>a, <3>1, <3>2 DEF QueueState
    <3>5. lane' = [lane EXCEPT !["commit"] = Append(@, worker[w].seq)]
      BY <3>3, <3>q
    <3> QED
      BY Zenon, <2>0, <2>a, <2>3, <3>0, <3>3, <3>4, <3>5, PutWorks
  <2> QED
    BY <2>1, <2>2, <2>3 DEF DecodeDone

(* A write that succeeds. *)
<1>WriteOk. ASSUME NEW w \in Writers, WriteOk(w) PROVE Works
  <2> USE <1>WriteOk
  <2> DEFINE st == [worker[w] EXCEPT !.pc = "report"]
  <2>0. /\ w \in Workers /\ worker[w].pc = "busy" /\ WorkerKeepsAll /\ queue' = queue
        /\ written' = written \cup {worker[w].seq} /\ worker' = [worker EXCEPT ![w] = st]
    BY DEF WriteOk, Workers, WorkerKeepsAll, SetWorker
  <2>1. st \in WorkerState /\ st.pc = "report" /\ st.seq = worker[w].seq
    BY Zenon, <2>0, StateAt
  <2> HIDE DEF st
  <2>2. written \subseteq written' /\ written' \subseteq 0 .. manifest.produced
    BY <2>0, WrittenMore
  <2> QED
    BY Zenon, <2>0, <2>1, <2>2, WithinWorks

(* A retryable failure: another attempt, or a fatal exit when the attempts *)
(* are spent.                                                              *)
<1>RetryOrFail. ASSUME NEW w \in Workers, worker[w].pc \in {"busy", "check"},
                       RetryOrFail(w), WorkerKeeps
                PROVE  Works
  <2> USE <1>RetryOrFail
  <2>1. CASE worker[w].attempt >= MaxAttempts
    BY <2>1, <1>Fatal DEF RetryOrFail
  <2>2. CASE ~(worker[w].attempt >= MaxAttempts)
    <3> DEFINE st == [worker[w] EXCEPT !.pc = "busy", !.attempt = @ + 1]
    <3>1. worker[w] \in WorkerState /\ worker[w].attempt \in 0 .. MaxAttempts
      BY Before DEF WorkerState
    <3>2. worker[w].attempt + 1 \in 0 .. MaxAttempts
      BY <2>2, <3>1, RuntimeAssumption
    <3>3. st \in WorkerState /\ st.pc = "busy" /\ st.seq = worker[w].seq
      BY Zenon, <3>1, <3>2 DEF WorkerState
    <3>4. worker' = [worker EXCEPT ![w] = st] /\ queue' = queue
      BY <2>2 DEF RetryOrFail, SetWorker
    <3> HIDE DEF st
    <3> QED
      BY Zenon, <3>3, <3>4, WrittenKept, WithinWorks
  <2> QED
    BY <2>1, <2>2

(* A write whose outcome is unknown, committed or not. *)
<1>WriteMaybeCommitted. ASSUME NEW w \in Writers, WriteMaybeCommitted(w) PROVE Works
  <2> USE <1>WriteMaybeCommitted
  <2> DEFINE st == [worker[w] EXCEPT !.pc = "check", !.checked = TRUE]
  <2>0. /\ w \in Workers /\ worker[w].pc = "busy" /\ WorkerKeepsAll /\ queue' = queue
        /\ written' = written \/ written' = written \cup {worker[w].seq}
    BY DEF WriteMaybeCommitted, Workers, WorkerKeepsAll
  <2>a. worker' = [worker EXCEPT ![w] = st]
    BY DEF WriteMaybeCommitted, SetWorker
  <2>1. st \in WorkerState /\ st.pc = "check" /\ st.seq = worker[w].seq
    BY Zenon, <2>0, Before DEF WorkerState
  <2> HIDE DEF st
  <2>2. written \subseteq written' /\ written' \subseteq 0 .. manifest.produced
    BY <2>0, WrittenMore
  <2> QED
    BY Zenon, <2>0, <2>a, <2>1, <2>2, WithinWorks

(* A write that fails for good. *)
<1>WriteFatal. ASSUME NEW w \in Writers, WriteFatal(w) PROVE Works
  <2> USE <1>WriteFatal
  <2>0. /\ w \in Workers /\ worker[w].pc = "busy" /\ WorkerKeepsAll /\ ExitFatally(w)
        /\ written' = written \/ written' = written \cup {worker[w].seq}
    BY DEF WriteFatal, Workers, WorkerKeepsAll
  <2>2. written \subseteq written' /\ written' \subseteq 0 .. manifest.produced
    BY <2>0, WrittenMore
  <2> QED
    BY <2>0, <2>2, ExitFatallyWorks

(* A commit check that finds the write. *)
<1>CheckCommitted. ASSUME NEW w \in Writers, CheckCommitted(w) PROVE Works
  <2> USE <1>CheckCommitted
  <2> DEFINE st == [worker[w] EXCEPT !.pc = "report"]
  <2>0. /\ w \in Workers /\ worker[w].pc = "check" /\ WorkerKeeps /\ queue' = queue
        /\ worker' = [worker EXCEPT ![w] = st] /\ worker[w].seq \in written
    BY DEF CheckCommitted, Workers, SetWorker
  <2>1. st \in WorkerState /\ st.pc = "report" /\ st.seq = worker[w].seq
    BY Zenon, <2>0, StateAt
  <2> HIDE DEF st
  <2>2. /\ written \subseteq written' /\ written' \subseteq 0 .. manifest.produced
        /\ WorkerKeepsAll /\ worker[w].seq \in written'
    BY <2>0, WrittenKept
  <2> QED
    BY Zenon, <2>0, <2>1, <2>2, WithinWorks

(* A call that never returns. *)
<1>Hang. ASSUME NEW w \in Workers, Hang(w) PROVE Works
  <2> USE <1>Hang
  <2> DEFINE st == [worker[w] EXCEPT !.pc = "hung"]
  <2>0. /\ worker[w].pc \in {"busy", "check"} /\ WorkerKeeps /\ queue' = queue
        /\ worker' = [worker EXCEPT ![w] = st]
    BY DEF Hang, SetWorker
  <2>1. st \in WorkerState /\ st.pc = "hung" /\ st.seq = worker[w].seq
    BY Zenon, <2>0, StateAt
  <2> HIDE DEF st
  <2>2. written \subseteq written' /\ written' \subseteq 0 .. manifest.produced /\ WorkerKeepsAll
    BY <2>0, WrittenKept
  <2> QED
    BY Zenon, <2>0, <2>1, <2>2, WithinWorks

(* A writer's Committed message. *)
<1>Report. ASSUME NEW w \in Workers, Report(w) PROVE Works
  <2> USE <1>Report
  <2> DEFINE st == [worker[w] EXCEPT !.pc = "release"]
  <2>0. worker[w].pc = "report" /\ WorkerKeeps
    BY SMTT(30) DEF Report
  <2>1. /\ worker[w].seq \in SeqNums /\ worker[w].seq # None
        /\ ~actor.dryRun => worker[w].seq \in written
    BY <2>0, AtWorker, Before DEF Delivering
  <2>2. /\ written \subseteq written' /\ written' \subseteq 0 .. manifest.produced
        /\ WorkerKeepsAll /\ actor' = actor
    BY <2>0, WrittenKept DEF WorkerKeepsAll
  <2>3. /\ queue' \in QueueState /\ lane' = lane
        /\ \/ ~ActorRunning /\ queue'.completion = queue.completion
           \/ ActorRunning /\ queue'.completion = Append(queue.completion, worker[w].seq)
    <3>1. SendCompletion(worker[w].seq) /\ worker[w].seq \in SeqNums \cup {Fatal}
      BY SMTT(30), <2>1 DEF Report
    <3> QED
      BY <2>2, <3>1, Sends
  <2>4. CASE ActorRunning
    <3>1. st \in WorkerState /\ st.pc = "release" /\ st.seq = worker[w].seq
      BY Zenon, <2>0, StateAt
    <3>2. worker' = [worker EXCEPT ![w] = st]
      BY <2>4 DEF Report, SetWorker
    <3> HIDE DEF st
    <3>3. ~actor.dryRun => worker[w].seq \in written'
      BY Zenon, <2>1, <2>2
    <3> QED
      BY Zenon, <2>0, <2>1, <2>2, <2>3, <2>4, <3>1, <3>2, <3>3, LetGoWorks
  <2>5. CASE ~ActorRunning
    <3>1. worker' = [worker EXCEPT ![w] = Exited]
      BY <2>5 DEF Report, Exit, SetWorker
    <3> QED
      BY Zenon, <2>0, <2>2, <2>3, <2>5, <3>1, ExitedState, LetGoWorks
  <2> QED
    BY <2>4, <2>5

(* A writer's drop of the permit and the bytes, after its message. *)
<1>ReleaseUnit. ASSUME NEW w \in Workers, ReleaseUnit(w) PROVE Works
  <2> USE <1>ReleaseUnit
  <2>0. /\ worker[w].pc = "release" /\ WorkerKeeps /\ worker' = [worker EXCEPT ![w] = IdleWorker]
        /\ queue' = queue
    BY DEF ReleaseUnit, SetWorker
  <2>1. unreported[w] = IF IdleWorker.pc = "release" THEN None ELSE IdleWorker.seq
    BY <2>0, IdleState DEF unreported
  <2> QED
    BY Zenon, <2>0, <2>1, IdleState, WrittenKept, StayWorks

(* A worker task that is aborted or panics. *)
<1>Abort. ASSUME NEW w \in Workers, AbortWorker(w) \/ Panic(w) PROVE Works
  <2> USE <1>Abort
  <2>1. /\ worker[w].pc \in {"idle", "busy", "check", "hung"} /\ Exit(w) /\ WorkerKeepsAll
        /\ queue' = queue
        /\ written' = written \/ (worker[w].pc # "idle" /\ written' = written \cup {worker[w].seq})
    BY DEF AbortWorker, Panic, WorkerKeepsAll
  <2>2. written \subseteq 0 .. manifest.produced
    BY Before DEF Delivering
  <2>3. written \subseteq written' /\ written' \subseteq 0 .. manifest.produced
    BY Zenon, <2>1, <2>2, WrittenMore
  <2> QED
    BY <2>1, <2>3, ExitWorks
<1>1. \A w \in Workers : WorkerKeeps /\ worker[w].pc \in {"busy", "check"} /\ ExitFatally(w) => Works
  BY <1>Fatal
<1>2. \A w \in Fetchers : FetchStep(w) => Works
  BY <1>FetchRecv, <1>FetchDone DEF FetchStep
<1>3. \A w \in Decoders : DecodeLost(w) => Works
  BY <1>1 DEF DecodeLost, Workers
<1>4. \A w \in Workers : Report(w) \/ ReleaseUnit(w) => Works
  BY <1>Report, <1>ReleaseUnit
<1>5. \A w \in Decoders : DecodeStep(w) => Works
  BY <1>3, <1>4, <1>DecodeRecv, <1>DecodeDone DEF DecodeStep, Workers
<1>6. \A w \in Workers : worker[w].pc \in {"busy", "check"} /\ RetryOrFail(w) /\ WorkerKeeps => Works
  BY <1>RetryOrFail
<1>7. \A w \in Writers : CheckUnknown(w) \/ WriteNotCommitted(w) => Works
  BY <1>6 DEF CheckUnknown, WriteNotCommitted, Workers
<1>8. \A w \in Writers : WriterStep(w) => Works
  BY <1>4, <1>7, <1>WriterRecv, <1>WriteOk, <1>CheckCommitted DEF WriterStep, Workers
<1>9. \A w \in Workers : FetchError(w) \/ DecodeError(w) \/ CheckError(w) => Works
  BY <1>1 DEF FetchError, DecodeError, CheckError
<1>10. \A w \in Workers : AbortWorker(w) \/ Panic(w) => Works
  BY <1>Abort
<1>11. \A w \in Workers : WorkerFault(w) => Works
  BY <1>7, <1>9, <1>10, <1>WriteMaybeCommitted, <1>WriteFatal, <1>Hang DEF WorkerFault
<1> QED
  BY <1>2, <1>5, <1>8, <1>10, <1>11

-----------------------------------------------------------------------------
(* Steps that leave every unit where it is: of the producer, the operator, *)
(* and the actor while nothing is unsent.                                  *)
LEMMA QuietKeeps ==
  ASSUME IInv, UNCHANGED <<written, source, coord, queue, worker, crashes>>,
         manifest' \in [produced : OptSeqNum, dequeued : OptSeqNum],
         manifest'.dequeued = manifest.dequeued, manifest.produced <= manifest'.produced,
         actor' \in ActorState, actor'.unsent = actor.unsent, actor'.dryRun = actor.dryRun,
         actor'.inFlight = actor.inFlight, actor'.lastAck = actor.lastAck,
         actor'.pc = actor.pc \/ (actor.pc = "select" /\ actor'.pc = "failed"),
         token' \in [shutdown : BOOLEAN, abort : BOOLEAN]
  PROVE  IInv'
<1> USE MaxSeqAssumption
<1>0. /\ FlowTypeOK /\ Tracking /\ Reporting /\ Delivering /\ CleanExit
      /\ actor.pc # "rejected" /\ manifest.produced \in OptSeqNum
      /\ source.cursor \in OptSeqNum
  BY Before
<1>a. manifest'.produced \in OptSeqNum
  OBVIOUS
<1>1. /\ source' = source /\ coord' = coord /\ queue' = queue /\ worker' = worker
      /\ written' = written /\ crashes' = crashes
  OBVIOUS
<1>2. lane' = lane /\ unreported' = unreported
  BY <1>1 DEF lane, unreported
<1>3. Pipeline' = Pipeline /\ Uncommitted' = Uncommitted /\ Reported' = Reported
  BY <1>1, <1>2 DEF Pipeline, In, Uncommitted, Reported
<1>4. ActorRunning' => ActorRunning
  BY SMTT(30) DEF ActorRunning
<1>5. FlowTypeOK'
  <2>1. actor'.unsent # <<>> <=> actor'.pc = "send"
    BY SMTT(30), <1>0 DEF FlowTypeOK
  <2> QED
    BY <1>0, <1>1, <2>1 DEF FlowTypeOK, ActorState
<1>6. Tracking'
  <2>1. source.cursor <= manifest'.produced
    BY SMTT(30), <1>0, <1>a DEF Tracking, OptSeqNum, SeqNums, None
  <2> QED
    BY SMTT(30), <1>0, <1>1, <1>3, <2>1 DEF Tracking
<1>7. Reporting'
  BY SMTT(30), <1>0, <1>1, <1>2, <1>3, <1>4 DEF Reporting
<1>8. Delivering'
  <2>1. written \subseteq 0 .. manifest'.produced
    BY SMTT(30), <1>0, <1>a DEF Delivering, OptSeqNum, SeqNums, None
  <2> QED
    BY SMTT(30), <1>0, <1>1, <1>3, <1>4, <2>1 DEF Delivering
<1>9. CleanExit'
  <2>1. Units' = Units /\ Owned' = Owned
    BY <1>1 DEF Units, Owned
  <2> QED
    BY SMTT(30), <1>0, <1>1, <2>1 DEF CleanExit
<1> QED
  BY <1>0, <1>5, <1>6, <1>7, <1>8, <1>9 DEF IInv, CoordinatorNeverRejects

(* What the abstract specification sees of a step that leaves the manifest *)
(* and the sink alone.                                                     *)
LEMMA DeliveryStutters ==
  ASSUME UNCHANGED <<manifest, written>>
  PROVE  [Delivery!Next]_(Delivery!vars)
BY DEF Delivery!vars

(* A batch appended by the producer. *)
LEMMA ProduceKeeps ==
  ASSUME IInv, Produce
  PROVE  IInv' /\ [Delivery!Next]_(Delivery!vars)
<1>0. /\ manifest \in [produced : OptSeqNum, dequeued : OptSeqNum] /\ manifest.produced \in OptSeqNum
      /\ actor \in ActorState /\ token \in [shutdown : BOOLEAN, abort : BOOLEAN]
  BY Before DEF FlowTypeOK
<1>1. manifest.produced + 1 \in OptSeqNum /\ manifest.produced <= manifest.produced + 1
  BY <1>0, MaxSeqAssumption DEF Produce, OptSeqNum, SeqNums, None
<1>2. /\ manifest' \in [produced : OptSeqNum, dequeued : OptSeqNum]
      /\ manifest'.dequeued = manifest.dequeued /\ manifest'.produced = manifest.produced + 1
  BY <1>0, <1>1 DEF Produce
<1>3. /\ UNCHANGED <<written, source, coord, queue, worker, crashes>>
      /\ actor' = actor /\ token' = token
  BY DEF Produce
<1>4. IInv'
  BY <1>0, <1>1, <1>2, <1>3, QuietKeeps
<1>5. Delivery!Produce
  BY <1>2, <1>3 DEF Delivery!Produce
<1> QED
  BY <1>4, <1>5 DEF Delivery!Next

(* A request to shut down. *)
LEMMA RequestShutdownKeeps ==
  ASSUME IInv, RequestShutdown
  PROVE  IInv' /\ [Delivery!Next]_(Delivery!vars)
<1>0. /\ manifest \in [produced : OptSeqNum, dequeued : OptSeqNum] /\ manifest.produced \in OptSeqNum
      /\ actor \in ActorState /\ token \in [shutdown : BOOLEAN, abort : BOOLEAN]
  BY Before DEF FlowTypeOK
<1>1. token' \in [shutdown : BOOLEAN, abort : BOOLEAN]
  BY Zenon, <1>0 DEF RequestShutdown
<1>2. UNCHANGED <<manifest, written, source, coord, actor, queue, worker, crashes>>
  BY DEF RequestShutdown
<1>3. manifest.produced <= manifest.produced
  BY <1>0, MaxSeqAssumption DEF OptSeqNum, SeqNums, None
<1> QED
  BY <1>0, <1>1, <1>2, <1>3, QuietKeeps, DeliveryStutters

(* The admission gate closing. *)
LEMMA CloseAdmissionKeeps ==
  ASSUME IInv, CloseAdmission
  PROVE  IInv' /\ [Delivery!Next]_(Delivery!vars)
<1>0. /\ manifest \in [produced : OptSeqNum, dequeued : OptSeqNum] /\ manifest.produced \in OptSeqNum
      /\ actor \in ActorState /\ token \in [shutdown : BOOLEAN, abort : BOOLEAN]
  BY Before DEF FlowTypeOK
<1>1. /\ actor' \in ActorState /\ actor'.unsent = actor.unsent /\ actor'.dryRun = actor.dryRun
      /\ actor'.inFlight = actor.inFlight /\ actor'.lastAck = actor.lastAck
      /\ actor'.pc = actor.pc
  BY Zenon, <1>0 DEF CloseAdmission, ActorState
<1>2. UNCHANGED <<manifest, written, source, coord, token, queue, worker, crashes>>
  BY DEF CloseAdmission, KeepWorld
<1>3. manifest.produced <= manifest.produced
  BY <1>0, MaxSeqAssumption DEF OptSeqNum, SeqNums, None
<1> QED
  BY <1>0, <1>1, <1>2, <1>3, QuietKeeps, DeliveryStutters

(* per_source_actor returns an error between two rounds of its loop. *)
LEMMA SelectFails ==
  ASSUME IInv, actor.pc = "select", ActorFails("failed")
  PROVE  /\ actor' \in ActorState /\ actor'.pc = "failed" /\ ~ActorRunning'
         /\ actor'.unsent = <<>> /\ actor.unsent = <<>>
         /\ actor'.dryRun = actor.dryRun /\ actor'.inFlight = actor.inFlight
         /\ actor'.lastAck = actor.lastAck
         /\ token' \in [shutdown : BOOLEAN, abort : BOOLEAN]
<1>0. /\ actor \in ActorState /\ token \in [shutdown : BOOLEAN, abort : BOOLEAN]
      /\ actor.unsent = <<>>
  BY Before DEF FlowTypeOK
<1>1. <<>> \in Seq(SeqNums)
  OBVIOUS
<1>2. /\ actor' \in ActorState /\ actor'.pc = "failed" /\ actor'.unsent = <<>>
      /\ actor'.dryRun = actor.dryRun /\ actor'.inFlight = actor.inFlight
      /\ actor'.lastAck = actor.lastAck
  BY Zenon, <1>0, <1>1 DEF ActorFails, ActorState
<1>3. token' \in [shutdown : BOOLEAN, abort : BOOLEAN]
  BY Zenon, <1>0 DEF ActorFails
<1> QED
  BY <1>0, <1>2, <1>3 DEF ActorRunning

(* A source error, and the completion channel closing under the actor: run *)
(* returns an error.                                                       *)
LEMMA StopKeeps ==
  ASSUME IInv, SourceError \/ Orphaned
  PROVE  IInv' /\ [Delivery!Next]_(Delivery!vars)
<1>0. /\ manifest \in [produced : OptSeqNum, dequeued : OptSeqNum] /\ manifest.produced \in OptSeqNum
  BY Before
<1>1. actor.pc = "select" /\ ActorFails("failed")
  BY SMTT(30) DEF SourceError, Orphaned
<1>2. UNCHANGED <<manifest, written, source, coord, queue, worker, crashes>>
  BY DEF SourceError, Orphaned, KeepWorld
<1>3. manifest.produced <= manifest.produced
  BY <1>0, MaxSeqAssumption DEF OptSeqNum, SeqNums, None
<1>4. IInv'
  BY <1>0, <1>1, <1>2, <1>3, SelectFails, QuietKeeps
<1> QED
  BY <1>2, <1>4, DeliveryStutters

-----------------------------------------------------------------------------
(* The sends of the actor. *)
LEMMA UnsentLane ==
  ASSUME queue' = queue, NEW q, actor'.unsent = q
  PROVE  Sets(lane, "unsent", q, lane')
BY Zenon DEF lane, Lanes, Sets

(* The actor's send of a descriptor, as a change of the lanes. *)
LEMMA SendLanes ==
  ASSUME queue \in QueueState, queue' = [queue EXCEPT !.descriptor = Append(@, Head(actor.unsent))],
         actor'.unsent = Tail(actor.unsent)
  PROVE  SendsOn(lane, "unsent", "descriptor", lane') /\ queue'.completion = queue.completion
<1>1. /\ queue'.descriptor = Append(queue.descriptor, Head(actor.unsent))
      /\ queue'.fetched = queue.fetched /\ queue'.commit = queue.commit
      /\ queue'.completion = queue.completion
  BY DEF QueueState
<1> QED
  BY Zenon, <1>1 DEF lane, Lanes, SendsOn

(* Only the last element leaves nothing behind. *)
LEMMA TailEmpty ==
  ASSUME NEW S, NEW q \in Seq(S), q # <<>>
  PROVE  Tail(q) = <<>> <=> Len(q) = 1
<1> DEFINE t == Tail(q)
<1>1. Len(q) \in Nat /\ t \in Seq(S) /\ Len(t) = Len(q) - 1
  OBVIOUS
<1>2. \A e \in Seq(S) : e = <<>> <=> Len(e) = 0
  OBVIOUS
<1> HIDE DEF t
<1>3. t = <<>> <=> Len(t) = 0
  BY Zenon, <1>1, <1>2
<1>4. t = <<>> <=> Len(q) = 1
  BY <1>1, <1>3
<1> QED
  BY <1>4 DEF t

(* The actor's send of a descriptor, outside its select!. *)
LEMMA AdmitSendKeeps ==
  ASSUME IInv, AdmitSend
  PROVE  IInv' /\ [Delivery!Next]_(Delivery!vars)
<1>0. /\ FlowTypeOK /\ Tracking /\ Reporting /\ Delivering /\ actor \in ActorState
      /\ queue \in QueueState /\ actor.pc = "send" /\ actor.unsent # <<>>
      /\ actor.unsent \in Seq(SeqNums)
  BY Before DEF AdmitSend, FlowTypeOK, ActorState
<1>1. /\ manifest' = manifest /\ written' = written /\ source' = source /\ coord' = coord
      /\ worker' = worker /\ crashes' = crashes
  BY DEF AdmitSend, KeepWorld
<1>2. /\ Uncommitted' = Uncommitted /\ unreported' = unreported /\ ActorRunning
  BY <1>0, <1>1 DEF Uncommitted, unreported, ActorRunning
<1>3. Flow(lane, unreported) /\ "unsent" \in Lanes /\ "descriptor" \in Lanes
      /\ lane["unsent"] = actor.unsent
  BY SMTT(30), FlowNow, LaneIs DEF Lanes
<1>4. /\ actor' \in ActorState /\ queue' \in QueueState
      /\ token' \in [shutdown : BOOLEAN, abort : BOOLEAN]
      /\ actor'.pc \in {"select", "send", "failed"} /\ (actor'.unsent # <<>> <=> actor'.pc = "send")
      /\ actor'.dryRun = actor.dryRun /\ actor'.lastAck = actor.lastAck
      /\ actor'.inFlight = actor.inFlight
      /\ queue'.completion = queue.completion
      /\ Flow(lane', unreported') /\ Pipeline' \subseteq Pipeline
      /\ ActorRunning' => Pipeline' = Pipeline
  <2>1. CASE AllExited(Fetchers)
    <3>1. ActorFails("failed") /\ queue' = queue
      BY <2>1 DEF AdmitSend
    <3>2. <<>> \in Seq(SeqNums)
      OBVIOUS
    <3>3. /\ actor' \in ActorState /\ actor'.pc = "failed" /\ actor'.unsent = <<>>
          /\ actor'.dryRun = actor.dryRun /\ actor'.lastAck = actor.lastAck
          /\ actor'.inFlight = actor.inFlight
      BY Zenon, <1>0, <3>1, <3>2 DEF ActorFails, ActorState
    <3>4. token' \in [shutdown : BOOLEAN, abort : BOOLEAN]
      BY Zenon, <1>0, <3>1 DEF ActorFails, FlowTypeOK
    <3>5. Sets(lane, "unsent", <<>>, lane')
      BY <3>1, <3>3, UnsentLane
    <3>6. /\ Flow(lane', unreported)
          /\ In(lane', unreported) = In(lane, unreported) \ Elems(lane["unsent"])
      BY SMTT(30), <1>3, <3>5, ClearFlow
    <3>7. Pipeline' \subseteq Pipeline
      BY <1>2, <3>6 DEF Pipeline, In
    <3>8. ~ActorRunning'
      BY <3>3 DEF ActorRunning
    <3> QED
      BY Zenon, <1>0, <1>2, <3>1, <3>3, <3>4, <3>6, <3>7, <3>8
  <2>2. CASE ~AllExited(Fetchers)
    <3> DEFINE t == Tail(actor.unsent)
               np == IF Len(actor.unsent) = 1 THEN "select" ELSE "send"
    <3>1. /\ queue' = [queue EXCEPT !.descriptor = Append(@, Head(actor.unsent))]
          /\ actor' = [actor EXCEPT !.unsent = t, !.pc = np] /\ token' = token
      BY <2>2 DEF AdmitSend
    <3>2. /\ t \in Seq(SeqNums) /\ np \in {"select", "send"} /\ (t # <<>> <=> np = "send")
          /\ Head(actor.unsent) \in SeqNums
      <4>1. t \in Seq(SeqNums) /\ Head(actor.unsent) \in SeqNums
        BY <1>0
      <4>2. t = <<>> <=> Len(actor.unsent) = 1
        BY <1>0, TailEmpty
      <4> QED
        BY <4>1, <4>2
    <3> HIDE DEF t, np
    <3>3. /\ actor' \in ActorState /\ actor'.pc = np /\ actor'.unsent = t
          /\ actor'.dryRun = actor.dryRun /\ actor'.lastAck = actor.lastAck
          /\ actor'.inFlight = actor.inFlight
      BY Zenon, <1>0, <3>1, <3>2 DEF ActorState
    <3>4. SendsOn(lane, "unsent", "descriptor", lane') /\ queue'.completion = queue.completion
      BY <1>0, <3>1, <3>3, SendLanes DEF t
    <3>5. Flow(lane', unreported) /\ In(lane', unreported) = In(lane, unreported)
      BY <1>0, <1>3, <3>4, SendFlow
    <3>6. queue' \in QueueState
      <4> DEFINE q == Append(queue.descriptor, Head(actor.unsent))
      <4>1. q \in Seq(SeqNums)
        BY <1>0, <3>2 DEF QueueState
      <4>2. queue' = [queue EXCEPT !.descriptor = q]
        BY <3>1
      <4> HIDE DEF q
      <4> QED
        BY Zenon, <1>0, <4>1, <4>2 DEF QueueState
    <3>7. Pipeline' = Pipeline
      BY <1>2, <3>5 DEF Pipeline, In
    <3> QED
      BY <1>0, <1>2, <3>1, <3>2, <3>3, <3>4, <3>5, <3>6, <3>7 DEF FlowTypeOK
  <2> QED
    BY Zenon, <2>1, <2>2
<1>5. FlowTypeOK'
  BY Zenon, <1>0, <1>1, <1>4 DEF FlowTypeOK, ActorState, QueueState
<1>6. Tracking'
  BY Zenon, <1>0, <1>1, <1>2 DEF Tracking
<1>7. Reported' = Reported
  BY Zenon, <1>4 DEF Reported
<1>8. Reporting'
  <2>1. Apart(lane', unreported')
    BY SMTT(30), <1>4 DEF Flow
  <2> QED
    BY Zenon, <1>0, <1>2, <1>4, <1>7, <2>1 DEF Reporting
<1>9. Delivering'
  BY SMTT(30), <1>0, <1>1, <1>2, <1>4, <1>7 DEF Delivering
<1>10. CleanExit' /\ CoordinatorNeverRejects'
  BY Zenon, <1>4 DEF CleanExit, CoordinatorNeverRejects
<1> QED
  BY <1>1, <1>5, <1>6, <1>8, <1>9, <1>10, DeliveryStutters DEF IInv

-----------------------------------------------------------------------------
(* The smaller of two numbers. *)
LEMMA MinOfTwo ==
  ASSUME NEW a \in Int, NEW b \in Int
  PROVE  Min({a, b}) \in {a, b} /\ Min({a, b}) <= a /\ Min({a, b}) <= b
<1>1. \E x \in {a, b} : \A y \in {a, b} : x <= y
  OBVIOUS
<1> QED
  BY <1>1 DEF Min

(* The sequences of one poll. *)
IsRun(q, first, n) == q = [k \in 1 .. n |-> first + k - 1]

(* A run of consecutive units has no duplicates. *)
LEMMA RunOfUnits ==
  ASSUME NEW first \in Nat, NEW n \in Nat \ {0}, first + n - 1 <= MaxSeq,
         NEW q, IsRun(q, first, n)
  PROVE  /\ q \in Seq(SeqNums) /\ q # <<>> /\ Distinct(q)
         /\ Elems(q) = first .. first + n - 1
<1>0. q = [k \in 1 .. n |-> first + k - 1]
  BY DEF IsRun
<1>1. \A k \in 1 .. n : first + k - 1 \in SeqNums
  BY MaxSeqAssumption DEF SeqNums
<1>2. q \in Seq(SeqNums) /\ q # <<>>
  BY <1>0, <1>1
<1>3. Distinct(q)
  BY <1>0 DEF Distinct
<1>4. \A s \in first .. first + n - 1 : s - first + 1 \in 1 .. n /\ s = first + (s - first + 1) - 1
  OBVIOUS
<1>5. DOMAIN q = 1 .. n /\ \A k \in 1 .. n : q[k] = first + k - 1
  BY <1>0
<1>6. Elems(q) = first .. first + n - 1
  <2>1. \A k \in 1 .. n : q[k] \in first .. first + n - 1
    BY <1>5
  <2>2. ASSUME NEW s \in first .. first + n - 1
        PROVE  \E k \in DOMAIN q : s = q[k]
    <3>1. s - first + 1 \in 1 .. n /\ s = first + (s - first + 1) - 1
      BY <1>4
    <3>2. q[s - first + 1] = s /\ s - first + 1 \in DOMAIN q
      BY <1>5, <3>1
    <3> QED
      BY <3>2
  <2>3. \A s : s \in Elems(q) <=> s \in first .. first + n - 1
    BY <1>5, <2>1, <2>2 DEF Elems
  <2> QED
    BY Zenon, <2>3
<1> QED
  BY <1>2, <1>3, <1>6

-----------------------------------------------------------------------------
(* Where the units are. *)
LEMMA UnitsTyped ==
  ASSUME IInv
  PROVE  /\ lane \in [Lanes -> Seq(SeqNums)] /\ owner \in [Workers -> OptSeqNum]
         /\ In(lane, owner) \subseteq SeqNums
         /\ \A w \in Workers : owner[w] = worker[w].seq
<1>1. lane \in [Lanes -> Seq(SeqNums)]
  BY FlowNow DEF Flow
<1>2. \A w \in Workers : worker[w].seq \in OptSeqNum
  BY Before DEF WorkerState
<1> QED
  BY <1>1, <1>2 DEF owner, In

(* A unit not yet decoded is in the pipeline. *)
LEMMA UndecodedIsIn ==
  Undecoded \subseteq In(lane, owner)
<1>1. Fetchers \subseteq Workers /\ Decoders \subseteq Workers
  BY DEF Workers
<1>2. \A w \in Workers : owner[w] = worker[w].seq
  BY DEF owner
<1> QED
  BY <1>1, <1>2 DEF Undecoded, In

(* The units, those already reported and not yet released included, are    *)
(* spread over the lanes and the workers with no unit in two places.       *)
LEMMA UnitsFlow ==
  ASSUME IInv, UnitsInv
  PROVE  Flow(lane, owner)
BY UnitsTyped DEF UnitsInv, Flow

(* What a worker owns after a change of its state. *)
LEMMA OwnerIs ==
  ASSUME NEW w \in Workers, NEW st, worker \in [Workers -> WorkerState],
         worker' = [worker EXCEPT ![w] = st]
  PROVE  Sets(owner, w, st.seq, owner')
BY Zenon DEF owner, Sets

(* No step makes an undecoded unit of another one. *)
LEMMA UndecodedKept ==
  ASSUME \A l \in Lanes \ {"commit"} : Elems(lane'[l]) \subseteq Undecoded,
         NEW w \in Workers, NEW st, worker \in [Workers -> WorkerState],
         worker' = [worker EXCEPT ![w] = st],
         \/ st.seq \notin SeqNums \/ st.seq \in Undecoded
         \/ w \in Writers \/ (w \in Decoders /\ st.pc # "busy")
  PROVE  Undecoded' \subseteq Undecoded
<1> SUFFICES ASSUME NEW s \in SeqNums, s \in Undecoded'
             PROVE  s \in Undecoded
  BY DEF Undecoded
<1>1. CASE \E l \in Lanes \ {"commit"} : s \in Elems(lane'[l])
  BY <1>1
<1>2. worker'[w] = st /\ \A v \in Workers \ {w} : worker'[v] = worker[v]
  OBVIOUS
<1>3. CASE \E v \in Fetchers : s = worker'[v].seq
  <2>1. PICK v \in Fetchers : s = worker'[v].seq
    BY <1>3
  <2>2. CASE v = w
    <3>1. w \notin Decoders /\ w \notin Writers
      BY Zenon, <2>2, RuntimeAssumption
    <3>2. st.seq = s
      BY Zenon, <1>2, <2>1, <2>2
    <3> QED
      BY Zenon, <3>1, <3>2
  <2>3. CASE v # w
    BY <1>2, <2>1, <2>3 DEF Undecoded, Workers
  <2> QED
    BY <2>2, <2>3
<1>4. CASE \E v \in Decoders : worker'[v].pc = "busy" /\ s = worker'[v].seq
  <2>1. PICK v \in Decoders : worker'[v].pc = "busy" /\ s = worker'[v].seq
    BY <1>4
  <2>2. CASE v = w
    <3>1. w \in Decoders /\ w \notin Writers
      BY Zenon, <2>2, RuntimeAssumption
    <3>2. st.pc = "busy" /\ st.seq = s
      BY Zenon, <1>2, <2>1, <2>2
    <3> QED
      BY Zenon, <3>1, <3>2
  <2>3. CASE v # w
    BY <1>2, <2>1, <2>3 DEF Undecoded, Workers
  <2> QED
    BY <2>2, <2>3
<1> QED
  BY Zenon, <1>1, <1>3, <1>4 DEF Undecoded

(* The units in the lanes before the decoders are not decoded. *)
LEMMA UndecodedLanes ==
  ASSUME IInv
  PROVE  \A l \in Lanes \ {"commit"} : Elems(lane[l]) \subseteq Undecoded
BY UnitsTyped, NoneInNoLane DEF Undecoded

(* The lanes stay as they are. *)
LEMMA SameLane ==
  ASSUME actor'.unsent = actor.unsent, queue'.descriptor = queue.descriptor,
         queue'.fetched = queue.fetched, queue'.commit = queue.commit
  PROVE  lane' = lane
BY DEF lane

(* A worker that puts its unit into a lane makes no unit undecoded. *)
LEMMA PutFlowUnits ==
  ASSUME IInv, UnitsInv, NEW w \in Workers, worker[w].seq # None,
         NEW l \in Lanes, lane' = [lane EXCEPT ![l] = Append(@, worker[w].seq)],
         SetWorker(w, IdleWorker), worker[w].seq \in Undecoded
  PROVE  /\ Flow(lane', owner') /\ In(lane', owner') = In(lane, owner)
         /\ Undecoded' \subseteq Undecoded
<1> DEFINE s == worker[w].seq
<1>0. /\ worker \in [Workers -> WorkerState] /\ owner[w] = s /\ Flow(lane, owner)
      /\ lane \in [Lanes -> Seq(SeqNums)] /\ s \in SeqNums
  BY Before, UnitsTyped, UnitsFlow DEF Undecoded
<1>1. worker' = [worker EXCEPT ![w] = IdleWorker] /\ IdleWorker.seq = None
  BY IdleState DEF SetWorker
<1> HIDE DEF s
<1>2. Sets(owner, w, None, owner') /\ Sets(lane, l, Append(lane[l], owner[w]), lane')
  BY Zenon, <1>0, <1>1, OwnerIs DEF Sets, s
<1>3. Flow(lane', owner') /\ In(lane', owner') = In(lane, owner)
  BY <1>0, <1>2, PutFlow DEF s
<1>4. \A m \in Lanes \ {"commit"} : Elems(lane'[m]) \subseteq Undecoded
  <2>1. lane[l] \in Seq(SeqNums) /\ s \in SeqNums
    BY <1>0
  <2>2. Elems(Append(lane[l], s)) = Elems(lane[l]) \cup {s}
    BY Zenon, <2>1, AppendAdds
  <2>3. \A m \in Lanes : lane'[m] = IF m = l THEN Append(lane[l], s) ELSE lane[m]
    BY <1>0 DEF s
  <2>4. s \in Undecoded
    BY DEF s
  <2> QED
    BY <2>2, <2>3, <2>4, UndecodedLanes
<1>5. None \notin SeqNums
  BY MaxSeqAssumption DEF SeqNums, None
<1>6. Undecoded' \subseteq Undecoded
  BY Zenon, <1>0, <1>1, <1>4, <1>5, UndecodedKept
<1> QED
  BY Zenon, <1>3, <1>6

(* A worker that goes on with its unit leaves the units where they are. *)
LEMMA WithinFlowUnits ==
  ASSUME IInv, UnitsInv, lane' = lane, NEW w \in Workers, NEW st,
         worker' = [worker EXCEPT ![w] = st], st.seq = worker[w].seq,
         w \in Decoders => st.pc # "busy"
  PROVE  /\ Flow(lane', owner') /\ In(lane', owner') = In(lane, owner)
         /\ Undecoded' \subseteq Undecoded
<1>0. /\ worker \in [Workers -> WorkerState] /\ owner[w] = worker[w].seq /\ Flow(lane, owner)
      /\ worker[w].seq \in OptSeqNum /\ owner \in [Workers -> OptSeqNum]
  BY Before, UnitsTyped, UnitsFlow
<1>1. owner' = owner
  <2>1. Sets(owner, w, owner[w], owner')
    <3>1. Sets(owner, w, st.seq, owner')
      BY Zenon, <1>0, OwnerIs
    <3> QED
      BY <1>0, <3>1
  <2> QED
    BY <1>0, <2>1 DEF Sets
<1>2. st.seq \notin SeqNums \/ st.seq \in Undecoded \/ w \in Writers \/ (w \in Decoders /\ st.pc # "busy")
  BY DEF Undecoded, Workers
<1>3. Undecoded' \subseteq Undecoded
  BY Zenon, <1>0, <1>2, UndecodedLanes, UndecodedKept
<1> QED
  BY <1>0, <1>1, <1>3

(* A unit that waits for a writer, or has been reported, is decoded. *)
CommitDecoded == \A s \in Elems(lane["commit"]) : s \notin Undecoded
ReportedDecoded ==
  \A w \in Decoders : worker[w].pc # "busy" /\ worker[w].seq # None
                        => worker[w].seq \notin Undecoded

(* The units in the commit channel are decoded. *)
LEMMA CommitIsDecoded == Apart(lane, owner) => CommitDecoded
<1> SUFFICES ASSUME Apart(lane, owner), NEW s \in Elems(lane["commit"]), s \in Undecoded
             PROVE  FALSE
  BY DEF CommitDecoded
<1>0. "commit" \in Lanes /\ \A w \in Workers : owner[w] = worker[w].seq
  BY DEF Lanes, owner
<1>1. \A w \in Workers : s # worker[w].seq
  BY <1>0 DEF Apart
<1>2. PICK l \in Lanes \ {"commit"} : s \in Elems(lane[l])
  BY <1>1 DEF Undecoded, Workers
<1>3. PICK j \in DOMAIN lane[l] : s = lane[l][j]
  BY <1>2 DEF Elems
<1>4. PICK k \in DOMAIN lane["commit"] : s = lane["commit"][k]
  BY DEF Elems
<1>5. \A a, b \in Lanes : \A i \in DOMAIN lane[a], n \in DOMAIN lane[b] :
        lane[a][i] = lane[b][n] => a = b
  BY DEF Apart
<1>6. l = "commit"
  BY <1>0, <1>3, <1>4, <1>5, Zenon
<1> QED
  BY <1>6

(* The units at the writers are decoded. *)
LEMMA ReportedIsDecoded == Apart(lane, owner) => ReportedDecoded
<1> SUFFICES ASSUME Apart(lane, owner), NEW w \in Decoders, worker[w].pc # "busy",
                    worker[w].seq # None, worker[w].seq \in Undecoded
             PROVE  FALSE
  BY DEF ReportedDecoded
<1>0. w \in Workers /\ w \notin Fetchers /\ \A v \in Workers : owner[v] = worker[v].seq
  BY RuntimeAssumption DEF Workers, owner
<1>1. \A l \in Lanes : worker[w].seq \notin Elems(lane[l])
  BY <1>0 DEF Apart
<1>2. \A v \in Workers : worker[v].seq = worker[w].seq => v = w
  BY <1>0 DEF Apart
<1> QED
  BY <1>0, <1>1, <1>2 DEF Undecoded, Workers

(* The unit of a busy fetcher or decoder is not decoded. *)
LEMMA BusyIsUndecoded ==
  ASSUME IInv, NEW w \in Fetchers \cup Decoders, worker[w].pc = "busy"
  PROVE  worker[w].seq \in Undecoded /\ worker[w].seq # None /\ worker[w].seq \in SeqNums
<1>1. w \in Workers
  BY DEF Workers
<1>2. worker[w].seq \in SeqNums /\ worker[w].seq # None
  BY <1>1, AtWorker
<1> QED
  BY <1>2 DEF Undecoded

(* A worker's step changes neither the source nor the actor. *)
LEMMA WorkerKeepsSource ==
  ASSUME WorkerKeeps
  PROVE  source' = source /\ actor' = actor
BY DEF WorkerKeeps

(* The actor's steps in its select! leave the lanes alone. *)
LEMMA SelectLane ==
  ASSUME IInv, actor.pc = "select", actor'.unsent = actor.unsent \/ actor'.unsent = <<>>,
         queue' = queue \/ queue' = [queue EXCEPT !.completion = Tail(@)]
  PROVE  lane' = lane
<1>1. actor.unsent = <<>> /\ queue \in QueueState
  BY Before DEF FlowTypeOK
<1>2. /\ queue'.descriptor = queue.descriptor /\ queue'.fetched = queue.fetched
      /\ queue'.commit = queue.commit
  BY <1>1 DEF QueueState
<1>3. actor'.unsent = actor.unsent
  BY <1>1
<1> QED
  BY <1>2, <1>3, SameLane

(* No unit becomes undecoded but by being put into a lane before the       *)
(* decoders.                                                               *)
LEMMA UndecodedInLanes ==
  ASSUME worker' = worker, NEW more,
         \A l \in Lanes \ {"commit"} : Elems(lane'[l]) \subseteq Undecoded \cup more
  PROVE  Undecoded' \subseteq Undecoded \cup more
BY DEF Undecoded

(* The units that UnitsConserved counts are those of the inductive         *)
(* invariant.                                                              *)
LEMMA UnitsAre ==
  ASSUME IInv
  PROVE  Units = In(lane, owner) /\ Owned = {owner[w] : w \in Workers} \ {None}
<1>1. /\ lane \in [Lanes -> Seq(SeqNums)] /\ owner \in [Workers -> OptSeqNum]
      /\ \A w \in Workers : owner[w] = worker[w].seq
  BY UnitsTyped
<1>2. \A l \in Lanes : Elems(lane[l]) \subseteq SeqNums
  BY SMTT(30), <1>1, NoneInNoLane
<1>3. Owned = {owner[w] : w \in Workers} \ {None}
  BY <1>1 DEF Owned
<1>4. \A s : s \in Owned <=> s \in SeqNums /\ \E w \in Workers : s = owner[w]
  <2>1. None \notin SeqNums
    BY MaxSeqAssumption DEF SeqNums, None
  <2> QED
    BY <1>1, <1>3, <2>1 DEF OptSeqNum
<1>5. /\ "unsent" \in Lanes /\ "descriptor" \in Lanes /\ "fetched" \in Lanes /\ "commit" \in Lanes
      /\ \A l \in Lanes : l \in {"unsent", "descriptor", "fetched", "commit"}
  BY SMTT(30) DEF Lanes
<1>6. \A s : s \in Units <=> s \in In(lane, owner)
  BY <1>2, <1>4, <1>5, LaneIs DEF Units, In
<1> QED
  BY Zenon, <1>3, <1>6
=============================================================================
