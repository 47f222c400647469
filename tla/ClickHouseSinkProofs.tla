------------------------ MODULE ClickHouseSinkProofs ------------------------
(***************************************************************************)
(* What plan makes of the records of a commit, for any number of records   *)
(* and any thresholds, and from it that a commit the sink has acknowledged *)
(* is in the table.                                                        *)
(***************************************************************************)
EXTENDS ClickHouseSink, OperatorProofs

-----------------------------------------------------------------------------
Key == Nat \X Nat \X Nat

(* The lexicographic order written out. *)
LEMMA KeyLessIs ==
  ASSUME NEW a \in Key, NEW b \in Key
  PROVE  KeyLess(a, b) <=>
           \/ a[1] < b[1]
           \/ a[1] = b[1] /\ a[2] < b[2]
           \/ a[1] = b[1] /\ a[2] = b[2] /\ a[3] < b[3]
<1>1. DOMAIN a = {1, 2, 3}
  BY DEF Key
<1>2. \A i \in {1, 2, 3} : a[i] \in Nat /\ b[i] \in Nat
  BY DEF Key
<1>3. /\ 1 .. 1 - 1 = {} /\ 1 .. 2 - 1 = {1} /\ 1 .. 3 - 1 = {1, 2}
  OBVIOUS
<1>4. KeyLess(a, b) <=>
        \/ a[1] < b[1] /\ \A j \in 1 .. 1 - 1 : a[j] = b[j]
        \/ a[2] < b[2] /\ \A j \in 1 .. 2 - 1 : a[j] = b[j]
        \/ a[3] < b[3] /\ \A j \in 1 .. 3 - 1 : a[j] = b[j]
  BY Zenon, <1>1 DEF KeyLess
<1> QED
  BY <1>3, <1>4

(* Keys are totally ordered. *)
LEMMA KeyOrder ==
  /\ \A a \in Key : ~KeyLess(a, a)
  /\ \A a, b \in Key : KeyLess(a, b) \/ a = b \/ KeyLess(b, a)
  /\ \A a, b, c \in Key : KeyLess(a, b) /\ KeyLess(b, c) => KeyLess(a, c)
<1>1. \A a \in Key : a[1] \in Nat /\ a[2] \in Nat /\ a[3] \in Nat /\ a = <<a[1], a[2], a[3]>>
  BY DEF Key
<1>2. \A a \in Key : ~KeyLess(a, a)
  BY <1>1, KeyLessIs
<1>3. ASSUME NEW a \in Key, NEW b \in Key, ~KeyLess(a, b), ~KeyLess(b, a)
      PROVE  a = b
  <2>1. a[1] = b[1] /\ a[2] = b[2] /\ a[3] = b[3]
    BY <1>1, <1>3, KeyLessIs
  <2> QED
    BY <1>1, <2>1
<1>4. ASSUME NEW a \in Key, NEW b \in Key, NEW c \in Key, KeyLess(a, b), KeyLess(b, c)
      PROVE  KeyLess(a, c)
  BY <1>1, <1>4, KeyLessIs
<1> QED
  BY <1>2, <1>3, <1>4

-----------------------------------------------------------------------------
Keyed(records) == \A k \in DOMAIN records : records[k].key \in Key

(* The order of the stable sort is total on the positions of arrival. *)
LEMMA SortsBeforeOrder ==
  ASSUME NEW R, NEW rs \in Seq(R), Keyed(rs)
  PROVE  /\ \A j \in DOMAIN rs : ~SortsBefore(rs, j, j)
         /\ \A j, k \in DOMAIN rs : SortsBefore(rs, j, k) \/ j = k \/ SortsBefore(rs, k, j)
         /\ \A i, j, k \in DOMAIN rs :
              SortsBefore(rs, i, j) /\ SortsBefore(rs, j, k) => SortsBefore(rs, i, k)
<1>1. DOMAIN rs \subseteq Nat
  OBVIOUS
<1> USE <1>1 DEF Keyed, SortsBefore
<1>2. \A j \in DOMAIN rs : ~SortsBefore(rs, j, j)
  BY KeyOrder
<1>3. \A j, k \in DOMAIN rs : SortsBefore(rs, j, k) \/ j = k \/ SortsBefore(rs, k, j)
  BY KeyOrder
<1>4. ASSUME NEW i \in DOMAIN rs, NEW j \in DOMAIN rs, NEW k \in DOMAIN rs,
             SortsBefore(rs, i, j), SortsBefore(rs, j, k)
      PROVE  SortsBefore(rs, i, k)
  BY <1>4, KeyOrder
<1> QED
  BY <1>2, <1>3, <1>4

(* Places are different, one for each record, and follow the order. *)
LEMMA PlacesFollow ==
  ASSUME NEW R, NEW rs \in Seq(R), Keyed(rs)
  PROVE  /\ \A k \in DOMAIN rs : Place(rs, k) \in DOMAIN rs
         /\ \A j, k \in DOMAIN rs : SortsBefore(rs, j, k) => Place(rs, j) < Place(rs, k)
<1> DEFINE B(k) == {j \in DOMAIN rs : SortsBefore(rs, j, k)}
<1>1. /\ DOMAIN rs = 1 .. Len(rs) /\ Len(rs) \in Nat
      /\ IsFiniteSet(DOMAIN rs) /\ Cardinality(DOMAIN rs) = Len(rs)
  <2>1. DOMAIN rs = 1 .. Len(rs) /\ Len(rs) \in Nat
    OBVIOUS
  <2> QED
    BY <2>1, FS_Interval
<1>2. \A k : IsFiniteSet(B(k)) /\ Cardinality(B(k)) \in Nat
  BY <1>1, FS_Subset, FS_CardinalityType
<1>3. \A k : Place(rs, k) = 1 + Cardinality(B(k))
  BY DEF Place
<1>4. ASSUME NEW k \in DOMAIN rs PROVE Place(rs, k) \in DOMAIN rs
  <2>1. k \notin B(k) /\ B(k) \in SUBSET (DOMAIN rs)
    BY Zenon, SortsBeforeOrder
  <2>2. B(k) # DOMAIN rs
    BY Zenon, <2>1
  <2> HIDE DEF B
  <2>3. Cardinality(B(k)) <= Len(rs) /\ Cardinality(B(k)) # Len(rs)
    BY <1>1, <2>1, <2>2, FS_Subset
  <2> QED
    BY <1>1, <1>2, <1>3, <2>3
<1>5. ASSUME NEW j \in DOMAIN rs, NEW k \in DOMAIN rs, SortsBefore(rs, j, k)
      PROVE  Place(rs, j) < Place(rs, k)
  <2>1. B(j) \in SUBSET B(k)
    BY <1>5, SortsBeforeOrder
  <2>2. j \in B(k) /\ j \notin B(j)
    BY Zenon, <1>5, SortsBeforeOrder
  <2> HIDE DEF B
  <2>3. Cardinality(B(j)) <= Cardinality(B(k)) /\ Cardinality(B(j)) # Cardinality(B(k))
    BY <1>2, <2>1, <2>2, FS_Subset
  <2> QED
    BY <1>2, <1>3, <2>3
<1> QED
  BY <1>4, <1>5

(* Every place is taken by one record. *)
LEMMA PlacesTaken ==
  ASSUME NEW R, NEW rs \in Seq(R), Keyed(rs)
  PROVE  /\ \A j, k \in DOMAIN rs : Place(rs, j) = Place(rs, k) => j = k
         /\ \A i \in DOMAIN rs : \E k \in DOMAIN rs : Place(rs, k) = i
<1> DEFINE D == DOMAIN rs
           f == [k \in D |-> Place(rs, k)]
<1>1. D = 1 .. Len(rs) /\ Len(rs) \in Nat /\ IsFiniteSet(D)
  <2>1. D = 1 .. Len(rs) /\ Len(rs) \in Nat
    OBVIOUS
  <2> QED
    BY <2>1, FS_Interval
<1>2. \A j, k \in D : Place(rs, j) = Place(rs, k) => j = k
  <2> SUFFICES ASSUME NEW j \in D, NEW k \in D, j # k, Place(rs, j) = Place(rs, k)
               PROVE  FALSE
    BY Zenon
  <2>1. Place(rs, j) \in Nat
    BY <1>1, PlacesFollow
  <2>2. SortsBefore(rs, j, k) \/ SortsBefore(rs, k, j)
    BY Zenon, SortsBeforeOrder
  <2>3. Place(rs, j) < Place(rs, k) \/ Place(rs, k) < Place(rs, j)
    BY Zenon, <2>2, PlacesFollow
  <2> QED
    BY <2>1, <2>3
<1>3. f \in Injection(D, D)
  BY Zenon, <1>2, PlacesFollow DEF Injection, IsInjective
<1>4. f \in Surjection(D, D)
  BY <1>1, <1>3, FS_Injection
<1>5. \A i \in D : \E k \in D : Place(rs, k) = i
  BY Zenon, <1>4 DEF Surjection
<1> QED
  BY <1>2, <1>5

(* sort_by_key rearranges the records: each is at its place. *)
LEMMA SortedRearranges ==
  ASSUME NEW R, NEW rs \in Seq(R), Keyed(rs)
  PROVE  /\ Sorted(rs) \in Seq(R) /\ Len(Sorted(rs)) = Len(rs)
         /\ \A k \in DOMAIN rs : Sorted(rs)[Place(rs, k)] = rs[k]
         /\ Range(Sorted(rs)) = Range(rs)
<1> DEFINE D == DOMAIN rs
           At(i) == CHOOSE k \in D : Place(rs, k) = i
<1>1. D = 1 .. Len(rs) /\ Len(rs) \in Nat /\ \A k \in D : rs[k] \in R
  OBVIOUS
<1>2. \A j, k \in D : Place(rs, j) = Place(rs, k) => j = k
  BY Zenon, PlacesTaken
<1>3. ASSUME NEW i \in D PROVE At(i) \in D /\ Place(rs, At(i)) = i
  <2>1. \E k \in D : Place(rs, k) = i
    BY Zenon, PlacesTaken
  <2> QED
    BY Zenon, <2>1
<1>4. Sorted(rs) = [i \in D |-> rs[At(i)]]
  BY DEF Sorted
<1>5. \A i \in D : Sorted(rs)[i] = rs[At(i)] /\ At(i) \in D
  BY Zenon, <1>3, <1>4
<1>6. \A k \in D : Place(rs, k) \in D /\ At(Place(rs, k)) = k
  BY Zenon, <1>2, <1>3, PlacesFollow
<1> HIDE DEF D, At
<1>7. Sorted(rs) \in Seq(R) /\ Len(Sorted(rs)) = Len(rs) /\ DOMAIN Sorted(rs) = D
  <2>1. Sorted(rs) \in [1 .. Len(rs) -> R]
    BY Zenon, <1>1, <1>4, <1>5
  <2> QED
    BY <1>1, <2>1
<1>8. \A k \in D : Sorted(rs)[Place(rs, k)] = rs[k]
  BY Zenon, <1>5, <1>6
<1>9. Range(Sorted(rs)) = Range(rs)
  <2>1. Range(Sorted(rs)) \subseteq Range(rs)
    BY <1>5, <1>7 DEF Range, D
  <2>2. Range(rs) \subseteq Range(Sorted(rs))
    BY <1>6, <1>7, <1>8 DEF Range, D
  <2> QED
    BY Zenon, <2>1, <2>2
<1> QED
  BY <1>7, <1>8, <1>9 DEF D

(* No record comes before one with a smaller key, nor before one with an   *)
(* equal key that arrived earlier.                                         *)
LEMMA SortedAscends ==
  ASSUME NEW R, NEW rs \in Seq(R), Keyed(rs), NEW i \in DOMAIN rs, NEW j \in DOMAIN rs, i < j
  PROVE  \E k, l \in DOMAIN rs :
           Sorted(rs)[i] = rs[k] /\ Sorted(rs)[j] = rs[l] /\ SortsBefore(rs, k, l)
<1>1. PICK k \in DOMAIN rs : Place(rs, k) = i
  BY Zenon, PlacesTaken
<1>2. PICK l \in DOMAIN rs : Place(rs, l) = j
  BY Zenon, PlacesTaken
<1>3. i \in Nat /\ j \in Nat
  OBVIOUS
<1>4. Sorted(rs)[i] = rs[k] /\ Sorted(rs)[j] = rs[l]
  BY Zenon, <1>1, <1>2, SortedRearranges
<1>5. ~SortsBefore(rs, l, k)
  <2>1. SortsBefore(rs, l, k) => j < i
    BY Zenon, <1>1, <1>2, PlacesFollow
  <2> QED
    BY <1>3, <2>1
<1>6. k # l
  BY <1>1, <1>2, <1>3
<1>7. SortsBefore(rs, k, l)
  BY Zenon, <1>5, <1>6, SortsBeforeOrder
<1> QED
  BY Zenon, <1>4, <1>7
-----------------------------------------------------------------------------
(* The last flush of the loop. *)
Flushed(st) == IF st.open = <<>> THEN st.done ELSE Append(st.done, st.open)

(* The loop starts with nothing and pushes one record after the other. *)
LEMMA LoopPushes ==
  ASSUME NEW limit, NEW R, NEW rs \in Seq(R)
  PROVE  /\ PushRecords(limit, rs)[0] = Filling
         /\ \A k \in 1 .. Len(rs) :
              PushRecords(limit, rs)[k] = PushRecord(limit, PushRecords(limit, rs)[k - 1], rs[k])
<1> DEFINE Step(g, k) == IF k = 0 THEN Filling ELSE PushRecord(limit, g[k - 1], rs[k])
           Solves(g, n) == g = [k \in 0 .. n |-> Step(g, k)]
           Bad == {n \in Nat : ~ \E g : Solves(g, n)}
<1>1. PushRecords(limit, rs) = CHOOSE g : Solves(g, Len(rs))
  BY DEF PushRecords
<1>2. ASSUME NEW n \in Nat, NEW h, n > 0 => Solves(h, n - 1)
      PROVE  \E g : Solves(g, n)
  <2> DEFINE g == [k \in 0 .. n |-> Step(h, k)]
  <2>1. ASSUME NEW k \in 0 .. n, k > 0 PROVE g[k - 1] = h[k - 1]
    <3>1. n > 0 /\ k - 1 \in 0 .. n - 1 /\ k - 1 \in 0 .. n
      BY <2>1
    <3>2. h[k - 1] = Step(h, k - 1)
      BY <1>2, <3>1
    <3> QED
      BY <3>1, <3>2
  <2>2. \A k \in 0 .. n : Step(g, k) = Step(h, k)
    <3> HIDE DEF g
    <3> QED
      BY <2>1
  <2>3. Solves(g, n)
    BY <2>2
  <2> QED
    BY Zenon, <2>3
<1>3. Bad = {}
  <2> SUFFICES ASSUME Bad # {} PROVE FALSE
    OBVIOUS
  <2> HIDE DEF Solves
  <2>1. Bad \subseteq Nat
    OBVIOUS
  <2>2. PICK n \in Bad : \A m \in Bad : n <= m
    <3> HIDE DEF Bad
    <3> QED
      BY Zenon, <2>1, LeastExists
  <2>3. n > 0 => n - 1 \in Nat \ Bad
    BY <2>2
  <2>4. PICK h : n > 0 => Solves(h, n - 1)
    BY Zenon, <2>3
  <2>5. n \in Nat /\ ~ \E g : Solves(g, n)
    BY <2>2
  <2> QED
    BY Zenon, <1>2, <2>4, <2>5
<1> DEFINE g == PushRecords(limit, rs)
<1>4. Solves(g, Len(rs))
  <2> HIDE DEF Solves
  <2>1. Len(rs) \in Nat
    OBVIOUS
  <2>2. \E h : Solves(h, Len(rs))
    BY Zenon, <1>3, <2>1
  <2> QED
    BY Zenon, <1>1, <2>2
<1> HIDE DEF g
<1>5. \A k \in 0 .. Len(rs) : g[k] = Step(g, k)
  BY <1>4
<1>6. \A k \in 1 .. Len(rs) : k \in 0 .. Len(rs) /\ k # 0
  OBVIOUS
<1>7. 0 \in 0 .. Len(rs)
  OBVIOUS
<1> QED
  BY Zenon, <1>5, <1>6, <1>7 DEF g
-----------------------------------------------------------------------------
(* The rows of the chunks before the j-th, and the bytes of a chunk. *)
Ahead(chunks, j) == Total([k \in DOMAIN chunks |-> Len(chunks[k])], 1 .. j - 1)
BytesIn(chunk) == Total([k \in DOMAIN chunk |-> chunk[k].bytes], DOMAIN chunk)

(* A chunk within the thresholds, a record alone excepted; and a chunk     *)
(* with no room for another record.                                        *)
WithinLimit(limit, chunk) ==
  /\ chunk # <<>> /\ Len(chunk) <= limit.rows
  /\ Len(chunk) > 1 => BytesIn(chunk) <= limit.bytes

NoRoom(limit, chunk, r) ==
  Len(chunk) + 1 > limit.rows \/ BytesIn(chunk) + r.bytes > limit.bytes

(* The chunks are the first d records cut into pieces, in order: the x-th  *)
(* row of a chunk is the record x after the rows of the chunks ahead, and  *)
(* every record is such a row.  A piece is within the thresholds and could *)
(* not have taken the first record of the next.                            *)
GreedyCut(limit, rs, d, chunks) ==
  /\ RowsPlanned(chunks) = d
  /\ \A j \in DOMAIN chunks : \A x \in DOMAIN chunks[j] :
       /\ Ahead(chunks, j) + x \in 1 .. d
       /\ chunks[j][x] = rs[Ahead(chunks, j) + x]
  /\ \A i \in 1 .. d : \E j \in DOMAIN chunks : \E x \in DOMAIN chunks[j] :
       i = Ahead(chunks, j) + x
  /\ \A j \in DOMAIN chunks : WithinLimit(limit, chunks[j])
  /\ \A j \in DOMAIN chunks : j + 1 \in DOMAIN chunks => NoRoom(limit, chunks[j], chunks[j + 1][1])

(* The sum over a sequence with one more element. *)
LEMMA SumAppend ==
  ASSUME NEW q \in Seq(Nat), NEW e \in Nat
  PROVE  /\ Total(q, DOMAIN q) \in Nat
         /\ \A n \in 0 .. Len(q) : Total(Append(q, e), 1 .. n) = Total(q, 1 .. n)
         /\ Total(Append(q, e), 1 .. Len(q) + 1) = Total(q, DOMAIN q) + e
<1> DEFINE n == Len(q)
           p == Append(q, e)
<1>1. n \in Nat /\ DOMAIN q = 1 .. n /\ p[n + 1] = e /\ \A k \in 1 .. n : p[k] = q[k] /\ q[k] \in Nat
  OBVIOUS
<1> HIDE DEF n, p
<1>2. \A m \in 0 .. n : IsFiniteSet(1 .. m)
  BY <1>1, FS_Interval
<1>3. ASSUME NEW m \in 0 .. n PROVE Total(p, 1 .. m) = Total(q, 1 .. m)
  <2>1. \A k \in 1 .. m : q[k] \in Int /\ p[k] = q[k]
    BY <1>1
  <2> QED
    BY <1>2, <2>1, TotalSame
<1>4. n \in 0 .. n
  BY <1>1
<1>5. Total(q, 1 .. n) \in Nat
  BY <1>1, <1>2, <1>4, TotalNat
<1>6. Total(p, 1 .. n + 1) = e + Total(p, 1 .. n)
  <2>1. 1 .. n + 1 = (1 .. n) \cup {n + 1} /\ n + 1 \notin 1 .. n
    BY <1>1
  <2>2. \A y \in (1 .. n) \cup {n + 1} : p[y] \in Int
    BY <1>1
  <2>3. Total(p, (1 .. n) \cup {n + 1}) = p[n + 1] + Total(p, 1 .. n)
    BY Zenon, <1>2, <1>4, <2>1, <2>2, TotalAdd
  <2> QED
    BY Zenon, <1>1, <2>1, <2>3
<1>7. Total(p, 1 .. n + 1) = Total(q, 1 .. n) + e
  BY <1>3, <1>4, <1>5, <1>6
<1> QED
  BY <1>1, <1>3, <1>5, <1>7 DEF n, p

(* The bytes of a chunk with one more record. *)
LEMMA BytesAppend ==
  ASSUME NEW R, \A r \in R : r.bytes \in Nat, NEW chunk \in Seq(R), NEW r \in R
  PROVE  /\ BytesIn(chunk) \in Nat
         /\ BytesIn(Append(chunk, r)) = BytesIn(chunk) + r.bytes
<1> DEFINE q == [k \in DOMAIN chunk |-> chunk[k].bytes]
           p == [k \in DOMAIN Append(chunk, r) |-> Append(chunk, r)[k].bytes]
<1>1. q \in Seq(Nat) /\ Len(q) = Len(chunk) /\ DOMAIN q = DOMAIN chunk
  <2>1. q \in [1 .. Len(chunk) -> Nat] /\ Len(chunk) \in Nat
    OBVIOUS
  <2> QED
    BY <2>1
<1>2. p = Append(q, r.bytes)
  OBVIOUS
<1>3. DOMAIN Append(chunk, r) = 1 .. Len(q) + 1
  BY <1>1
<1>4. BytesIn(chunk) = Total(q, DOMAIN q) /\ BytesIn(Append(chunk, r)) = Total(p, 1 .. Len(q) + 1)
  BY Zenon, <1>1, <1>3 DEF BytesIn
<1>5. r.bytes \in Nat
  OBVIOUS
<1> HIDE DEF q, p
<1> QED
  BY Zenon, <1>1, <1>2, <1>4, <1>5, SumAppend

(* The rows ahead of each chunk, with one more chunk. *)
LEMMA AheadAppend ==
  ASSUME NEW R, NEW chunks \in Seq(Seq(R)), NEW new \in Seq(R)
  PROVE  /\ RowsPlanned(chunks) \in Nat
         /\ \A j \in DOMAIN chunks : Ahead(Append(chunks, new), j) = Ahead(chunks, j)
         /\ Ahead(Append(chunks, new), Len(chunks) + 1) = RowsPlanned(chunks)
         /\ RowsPlanned(Append(chunks, new)) = RowsPlanned(chunks) + Len(new)
<1> DEFINE q == [k \in DOMAIN chunks |-> Len(chunks[k])]
           all == Append(chunks, new)
           p == [k \in DOMAIN all |-> Len(all[k])]
           n == Len(chunks)
<1>1. /\ q \in Seq(Nat) /\ Len(q) = n /\ DOMAIN q = 1 .. n /\ n \in Nat
      /\ DOMAIN chunks = 1 .. n /\ DOMAIN all = 1 .. n + 1 /\ Len(new) \in Nat
  <2>1. q \in [1 .. n -> Nat] /\ n \in Nat /\ DOMAIN chunks = 1 .. n
    OBVIOUS
  <2> QED
    BY <2>1
<1>2. p = Append(q, Len(new))
  OBVIOUS
<1>3. /\ \A j : Ahead(all, j) = Total(p, 1 .. j - 1) /\ Ahead(chunks, j) = Total(q, 1 .. j - 1)
      /\ RowsPlanned(all) = Total(p, 1 .. n + 1) /\ RowsPlanned(chunks) = Total(q, 1 .. n)
  BY Zenon, <1>1 DEF Ahead, RowsPlanned
<1> HIDE DEF q, p, all, n
<1>4. /\ Total(q, 1 .. n) \in Nat
      /\ \A m \in 0 .. n : Total(p, 1 .. m) = Total(q, 1 .. m)
      /\ Total(p, 1 .. n + 1) = Total(q, 1 .. n) + Len(new)
  BY Zenon, <1>1, <1>2, SumAppend
<1>5. \A j \in 1 .. n : j - 1 \in 0 .. n
  BY <1>1
<1>6. (n + 1) - 1 \in 0 .. n /\ (n + 1) - 1 = n
  BY <1>1
<1> QED
  BY Zenon, <1>1, <1>3, <1>4, <1>5, <1>6 DEF n, all

-----------------------------------------------------------------------------
(* The chunk being filled, after the first d records: it goes on from      *)
(* there, and its first record did not fit the chunk before it.            *)
OpensAt(limit, rs, d, chunks, open) ==
  /\ WithinLimit(limit, open)
  /\ \A x \in DOMAIN open : open[x] = rs[d + x]
  /\ chunks # <<>> => NoRoom(limit, chunks[Len(chunks)], open[1])

(* Flushing the chunk in hand cuts that much more. *)
LEMMA CutGrows ==
  ASSUME NEW R, NEW limit, NEW rs, NEW chunks \in Seq(Seq(R)), NEW open \in Seq(R),
         NEW d \in Nat, GreedyCut(limit, rs, d, chunks), OpensAt(limit, rs, d, chunks, open)
  PROVE  GreedyCut(limit, rs, d + Len(open), Append(chunks, open))
<1> DEFINE all == Append(chunks, open)
           n == Len(chunks)
           e == d + Len(open)
<1>1. /\ n \in Nat /\ Len(open) \in Nat /\ e = d + Len(open)
      /\ DOMAIN chunks = 1 .. n /\ DOMAIN all = 1 .. n + 1 /\ DOMAIN open = 1 .. Len(open)
      /\ all[n + 1] = open /\ \A j \in 1 .. n : all[j] = chunks[j]
      /\ chunks # <<>> <=> n > 0
  OBVIOUS
<1>2. /\ RowsPlanned(chunks) = d /\ RowsPlanned(all) = e
      /\ Ahead(all, n + 1) = d /\ \A j \in 1 .. n : Ahead(all, j) = Ahead(chunks, j)
  <2>1. RowsPlanned(chunks) = d
    BY DEF GreedyCut
  <2>2. /\ \A j \in DOMAIN chunks : Ahead(all, j) = Ahead(chunks, j)
        /\ Ahead(all, n + 1) = RowsPlanned(chunks)
        /\ RowsPlanned(all) = RowsPlanned(chunks) + Len(open)
    BY AheadAppend
  <2> HIDE DEF all, n, e
  <2> QED
    BY Zenon, <1>1, <2>1, <2>2
<1> HIDE DEF all, n, e
<1>3. ASSUME NEW j \in 1 .. n + 1, NEW x \in DOMAIN all[j]
      PROVE  Ahead(all, j) + x \in 1 .. e /\ all[j][x] = rs[Ahead(all, j) + x]
  <2>1. CASE j \in 1 .. n
    <3>1. Ahead(all, j) + x \in 1 .. d /\ all[j][x] = rs[Ahead(all, j) + x]
      <4>1. all[j] = chunks[j] /\ Ahead(all, j) = Ahead(chunks, j) /\ j \in DOMAIN chunks
        BY Zenon, <1>1, <1>2, <2>1
      <4> QED
        BY <1>3, <4>1 DEF GreedyCut
    <3> QED
      BY <1>1, <3>1
  <2>2. CASE j = n + 1
    <3>1. Ahead(all, j) = d /\ all[j] = open /\ x \in 1 .. Len(open) /\ open[x] = rs[d + x]
      BY Zenon, <1>1, <1>2, <1>3, <2>2 DEF OpensAt
    <3> QED
      BY <1>1, <3>1
  <2> QED
    BY <1>1, <2>1, <2>2
<1>4. ASSUME NEW i \in 1 .. e
      PROVE  \E j \in 1 .. n + 1 : \E x \in DOMAIN all[j] : i = Ahead(all, j) + x
  <2>1. CASE i \in 1 .. d
    <3>1. PICK j \in 1 .. n : \E x \in DOMAIN chunks[j] : i = Ahead(chunks, j) + x
      BY Zenon, <1>1, <2>1 DEF GreedyCut
    <3>2. j \in 1 .. n + 1
      BY <1>1
    <3> QED
      BY Zenon, <1>1, <1>2, <3>1, <3>2
  <2>2. CASE i \notin 1 .. d
    <3>1. i - d \in 1 .. Len(open) /\ i = d + (i - d)
      BY <1>1, <2>2
    <3>2. n + 1 \in 1 .. n + 1
      BY <1>1
    <3> QED
      BY Zenon, <1>1, <1>2, <3>1, <3>2
  <2> QED
    BY <2>1, <2>2
<1>5. ASSUME NEW j \in 1 .. n + 1 PROVE WithinLimit(limit, all[j])
  <2>1. CASE j \in 1 .. n
    BY Zenon, <1>1, <2>1 DEF GreedyCut
  <2>2. CASE j = n + 1
    BY Zenon, <1>1, <2>2 DEF OpensAt
  <2> QED
    BY <1>1, <2>1, <2>2
<1>6. ASSUME NEW j \in 1 .. n + 1, j + 1 \in 1 .. n + 1
      PROVE  NoRoom(limit, all[j], all[j + 1][1])
  <2>1. CASE j + 1 \in 1 .. n
    <3>1. j \in 1 .. n
      BY <1>1, <2>1
    <3> QED
      BY Zenon, <1>1, <2>1, <3>1 DEF GreedyCut
  <2>2. CASE j = n
    <3>1. n > 0 /\ n \in 1 .. n
      BY <1>1, <2>2
    <3> QED
      BY Zenon, <1>1, <2>2, <3>1 DEF OpensAt, n
  <2> QED
    BY <1>1, <1>6, <2>1, <2>2
<1>7. GreedyCut(limit, rs, e, all)
  <2>1. DOMAIN all = 1 .. n + 1 /\ RowsPlanned(all) = e
    BY <1>1, <1>2
  <2>2. \A j \in DOMAIN all : \A x \in DOMAIN all[j] :
          Ahead(all, j) + x \in 1 .. e /\ all[j][x] = rs[Ahead(all, j) + x]
    BY Zenon, <1>3, <2>1
  <2>3. \A i \in 1 .. e : \E j \in DOMAIN all : \E x \in DOMAIN all[j] : i = Ahead(all, j) + x
    BY Zenon, <1>4, <2>1
  <2>4. \A j \in DOMAIN all : j + 1 \in DOMAIN all => NoRoom(limit, all[j], all[j + 1][1])
    BY Zenon, <1>6, <2>1
  <2> QED
    BY Zenon, <1>5, <2>1, <2>2, <2>3, <2>4 DEF GreedyCut
<1> QED
  BY <1>7 DEF all, e
(* The state of the loop after k records. *)
LoopInv(R, limit, rs, k, st) ==
  /\ st.done \in Seq(Seq(R)) /\ st.open \in Seq(R) /\ st.bytes = BytesIn(st.open)
  /\ RowsPlanned(st.done) + Len(st.open) = k
  /\ GreedyCut(limit, rs, RowsPlanned(st.done), st.done)
  /\ st.open = <<>> => st.done = <<>>
  /\ st.open # <<>> => OpensAt(limit, rs, RowsPlanned(st.done), st.done, st.open)

(* The empty chunk and the empty plan. *)
LEMMA NothingPlanned ==
  /\ RowsPlanned(<<>>) = 0 /\ BytesIn(<<>>) = 0
  /\ \A limit, rs : GreedyCut(limit, rs, 0, <<>>)
<1>1. DOMAIN <<>> = {}
  OBVIOUS
<1>2. RowsPlanned(<<>>) = 0 /\ BytesIn(<<>>) = 0
  BY Zenon, <1>1, TotalEmpty DEF RowsPlanned, BytesIn
<1>3. 1 .. 0 = {}
  OBVIOUS
<1> QED
  BY Zenon, <1>1, <1>2, <1>3 DEF GreedyCut

(* The loop starts with nothing cut. *)
LEMMA LoopInvStarts ==
  ASSUME NEW R, NEW limit, NEW rs
  PROVE  LoopInv(R, limit, rs, 0, Filling)
<1>1. Filling.done = <<>> /\ Filling.open = <<>> /\ Filling.bytes = 0
  BY DEF Filling
<1>2. <<>> \in Seq(Seq(R)) /\ <<>> \in Seq(R) /\ Len(<<>>) = 0 /\ 0 + 0 = 0
  OBVIOUS
<1> QED
  BY Zenon, <1>1, <1>2, NothingPlanned DEF LoopInv

(* A record alone is within the thresholds. *)
LEMMA AloneFits ==
  ASSUME NEW R, \A q \in R : q.bytes \in Nat, NEW r \in R, NEW limit, limit.rows \in Nat \ {0}
  PROVE  <<r>> \in Seq(R) /\ Len(<<r>>) = 1 /\ BytesIn(<<r>>) = r.bytes /\ WithinLimit(limit, <<r>>)
<1>1. <<r>> = Append(<<>>, r) /\ <<>> \in Seq(R) /\ r.bytes \in Nat
  OBVIOUS
<1>2. BytesIn(Append(<<>>, r)) = BytesIn(<<>>) + r.bytes
  BY Zenon, <1>1, BytesAppend
<1>3. BytesIn(<<r>>) = 0 + r.bytes
  BY Zenon, <1>1, <1>2, NothingPlanned
<1>4. <<r>> \in Seq(R) /\ <<r>> # <<>> /\ Len(<<r>>) = 1 /\ 1 <= limit.rows /\ ~(1 > 1)
  OBVIOUS
<1> QED
  BY <1>1, <1>3, <1>4 DEF WithinLimit

(* A sequence and one element more. *)
LEMMA Appending ==
  ASSUME NEW R, NEW o \in Seq(R), NEW r \in R
  PROVE  /\ Append(o, r) \in Seq(R) /\ Len(Append(o, r)) = Len(o) + 1 /\ Append(o, r) # <<>>
         /\ DOMAIN Append(o, r) = 1 .. Len(o) + 1 /\ Append(o, r)[Len(o) + 1] = r
         /\ \A x \in 1 .. Len(o) : Append(o, r)[x] = o[x]
         /\ DOMAIN o = 1 .. Len(o)
         /\ o = <<>> => Append(o, r) = <<r>>
         /\ o # <<>> => Len(o) > 0
<1>1. /\ Append(o, r) \in Seq(R) /\ Len(Append(o, r)) = Len(o) + 1 /\ Append(o, r) # <<>>
      /\ DOMAIN o = 1 .. Len(o)
  OBVIOUS
<1>2. DOMAIN Append(o, r) = 1 .. Len(o) + 1 /\ Append(o, r)[Len(o) + 1] = r
  OBVIOUS
<1>3. \A x \in 1 .. Len(o) : Append(o, r)[x] = o[x]
  OBVIOUS
<1>4. o = <<>> => Append(o, r) = <<r>>
  OBVIOUS
<1>5. o # <<>> => Len(o) > 0
  OBVIOUS
<1> QED
  BY Zenon, <1>1, <1>2, <1>3, <1>4, <1>5

(* One record more. *)
LEMMA PushKeeps ==
  ASSUME NEW R, \A r \in R : r.bytes \in Nat, NEW rs \in Seq(R),
         NEW limit, limit.rows \in Nat \ {0}, limit.bytes \in Nat,
         NEW k \in 1 .. Len(rs), NEW st, LoopInv(R, limit, rs, k - 1, st)
  PROVE  LoopInv(R, limit, rs, k, PushRecord(limit, st, rs[k]))
<1> DEFINE r == rs[k]
           d == RowsPlanned(st.done)
           new == PushRecord(limit, st, r)
<1>1. /\ r \in R /\ r.bytes \in Nat /\ r = rs[k] /\ k \in Nat \ {0}
  OBVIOUS
<1>2. /\ st.done \in Seq(Seq(R)) /\ st.open \in Seq(R) /\ st.bytes = BytesIn(st.open)
      /\ d + Len(st.open) = k - 1
      /\ GreedyCut(limit, rs, d, st.done)
      /\ st.open = <<>> => st.done = <<>>
      /\ st.open # <<>> => OpensAt(limit, rs, d, st.done, st.open)
  BY DEF LoopInv
<1>3. /\ d \in Nat /\ Len(st.open) \in Nat
      /\ RowsPlanned(Append(st.done, st.open)) = d + Len(st.open)
  BY <1>2, AheadAppend
<1>4. BytesIn(st.open) \in Nat /\ BytesIn(Append(st.open, r)) = BytesIn(st.open) + r.bytes
  BY <1>1, <1>2, BytesAppend
<1>5. /\ <<r>> \in Seq(R) /\ Len(<<r>>) = 1 /\ BytesIn(<<r>>) = r.bytes
      /\ WithinLimit(limit, <<r>>)
  BY Zenon, <1>1, AloneFits
<1>6. CASE WouldExceed(limit, st, r)
  <2> DEFINE all == Append(st.done, st.open)
  <2>1. new.done = all /\ new.open = <<r>> /\ new.bytes = r.bytes
    BY <1>6 DEF PushRecord
  <2>2. st.open # <<>> /\ NoRoom(limit, st.open, r)
    BY <1>2, <1>6 DEF WouldExceed, NoRoom
  <2>3. GreedyCut(limit, rs, k - 1, all)
    <3>1. GreedyCut(limit, rs, d + Len(st.open), all)
      BY <1>2, <1>3, <2>2, CutGrows
    <3> QED
      BY Zenon, <1>2, <3>1
  <2>4. all \in Seq(Seq(R)) /\ all[Len(all)] = st.open
    BY <1>2
  <2>5. RowsPlanned(all) = k - 1
    BY Zenon, <1>2, <1>3
  <2> HIDE DEF all, new, r, d
  <2>6. OpensAt(limit, rs, k - 1, all, <<r>>)
    <3>1. \A x \in DOMAIN <<r>> : <<r>>[x] = rs[k - 1 + x]
      BY <1>1
    <3>2. <<r>>[1] = r
      OBVIOUS
    <3> QED
      BY Zenon, <1>5, <2>2, <2>4, <3>1, <3>2 DEF OpensAt
  <2>7. k - 1 + 1 = k /\ <<r>> # <<>>
    BY <1>1
  <2> QED
    BY Zenon, <1>5, <2>1, <2>3, <2>4, <2>5, <2>6, <2>7 DEF LoopInv, new, r
<1>7. CASE ~WouldExceed(limit, st, r)
  <2> DEFINE open == Append(st.open, r)
  <2>1. new.done = st.done /\ new.open = open /\ new.bytes = st.bytes + r.bytes
    BY <1>7 DEF PushRecord
  <2>2. /\ open \in Seq(R) /\ Len(open) = Len(st.open) + 1 /\ open # <<>>
        /\ DOMAIN open = 1 .. Len(st.open) + 1 /\ open[Len(st.open) + 1] = r
        /\ \A x \in 1 .. Len(st.open) : open[x] = st.open[x]
        /\ DOMAIN st.open = 1 .. Len(st.open)
        /\ st.open = <<>> => open = <<r>>
        /\ st.open # <<>> => Len(st.open) > 0
    BY Zenon, <1>1, <1>2, Appending
  <2>3. BytesIn(open) = st.bytes + r.bytes /\ d + Len(open) = k
    BY <1>1, <1>2, <1>3, <1>4, <2>2
  <2> HIDE DEF open, new, r
  <2>4. OpensAt(limit, rs, d, st.done, open)
    <3>1. WithinLimit(limit, open)
      <4>1. CASE st.open = <<>>
        BY Zenon, <1>5, <2>2, <4>1
      <4>2. CASE st.open # <<>>
        <5>1. ~(Len(st.open) + 1 > limit.rows) /\ ~(st.bytes + r.bytes > limit.bytes)
          BY Zenon, <1>7, <4>2 DEF WouldExceed
        <5>2. st.bytes + r.bytes \in Nat /\ Len(st.open) + 1 \in Nat /\ Len(open) = Len(st.open) + 1
          BY <1>1, <1>2, <1>3, <1>4, <2>2
        <5>3. Len(open) <= limit.rows /\ BytesIn(open) <= limit.bytes
          BY <2>3, <5>1, <5>2
        <5> QED
          BY Zenon, <2>2, <5>3 DEF WithinLimit
      <4> QED
        BY <4>1, <4>2
    <3>2. ASSUME NEW x \in DOMAIN open PROVE open[x] = rs[d + x]
      <4>1. CASE x \in 1 .. Len(st.open)
        <5>1. st.open # <<>>
          BY <1>2, <2>2, <4>1
        <5> QED
          BY Zenon, <1>2, <2>2, <4>1, <5>1 DEF OpensAt
      <4>2. CASE x = Len(st.open) + 1
        <5>1. d + x = k
          BY <1>1, <1>2, <1>3, <4>2
        <5> QED
          BY Zenon, <1>1, <2>2, <4>2, <5>1
      <4> QED
        BY <1>3, <2>2, <3>2, <4>1, <4>2
    <3>3. ASSUME st.done # <<>> PROVE NoRoom(limit, st.done[Len(st.done)], open[1])
      <4>1. st.open # <<>>
        BY Zenon, <1>2, <3>3
      <4>2. open[1] = st.open[1]
        BY <1>3, <2>2, <4>1
      <4> QED
        BY Zenon, <1>2, <3>3, <4>1, <4>2 DEF OpensAt
    <3> QED
      BY Zenon, <3>1, <3>2, <3>3 DEF OpensAt
  <2> QED
    BY Zenon, <1>2, <2>1, <2>2, <2>3, <2>4 DEF LoopInv, new, r, d
<1> QED
  BY <1>6, <1>7

(* The loop cuts as many records as it has seen. *)
LEMMA LoopKeeps ==
  ASSUME NEW R, \A r \in R : r.bytes \in Nat, NEW rs \in Seq(R),
         NEW limit, limit.rows \in Nat \ {0}, limit.bytes \in Nat
  PROVE  \A k \in 0 .. Len(rs) : LoopInv(R, limit, rs, k, PushRecords(limit, rs)[k])
<1> DEFINE Bad == {k \in 0 .. Len(rs) : ~LoopInv(R, limit, rs, k, PushRecords(limit, rs)[k])}
<1> SUFFICES ASSUME Bad # {} PROVE FALSE
  BY Zenon
<1>1. PICK k \in Bad : \A j \in Bad : k <= j
  <2>1. Bad \subseteq Nat
    OBVIOUS
  <2> HIDE DEF Bad
  <2> QED
    BY Zenon, <2>1, LeastExists
<1>2. CASE k = 0
  BY Zenon, <1>2, LoopPushes, LoopInvStarts
<1>3. CASE k # 0
  <2>1. k \in Nat \ {0} /\ k \in 1 .. Len(rs) /\ k - 1 \in (0 .. Len(rs)) \ Bad
    BY <1>1, <1>3
  <2>2. LoopInv(R, limit, rs, k - 1, PushRecords(limit, rs)[k - 1])
    BY Zenon, <2>1
  <2>3. LoopInv(R, limit, rs, k, PushRecord(limit, PushRecords(limit, rs)[k - 1], rs[k]))
    BY <2>1, <2>2, PushKeeps
  <2> QED
    BY Zenon, <2>1, <2>3, LoopPushes
<1> QED
  BY <1>2, <1>3

(* The chunks of a plan are the sorted records, cut greedily. *)
LEMMA PlanCuts ==
  ASSUME NEW R, \A r \in R : r.bytes \in Nat /\ r.key \in Nat \X Nat \X Nat,
         NEW rs \in Seq(R), NEW g, g.maxRows \in Nat, g.maxBytes \in Nat
  PROVE  /\ Plan(g, rs) \in Seq(Seq(R))
         /\ GreedyCut(Limit(g), Sorted(rs), Len(rs), Plan(g, rs))
<1> DEFINE limit == Limit(g)
           s == Sorted(rs)
           st == PushRecords(limit, s)[Len(s)]
<1>1. limit.rows \in Nat \ {0} /\ limit.bytes \in Nat
  BY DEF Limit, AtLeast1
<1>2. Keyed(rs)
  BY DEF Keyed, Key
<1>3. s \in Seq(R) /\ Len(s) = Len(rs) /\ Len(s) \in Nat
  BY <1>2, SortedRearranges
<1> HIDE DEF limit, s
<1>4. LoopInv(R, limit, s, Len(s), st)
  <2>1. Len(s) \in 0 .. Len(s)
    BY <1>3
  <2> QED
    BY Zenon, <1>1, <1>3, <2>1, LoopKeeps
<1>5. Plan(g, rs) = Flushed(st)
  BY Zenon DEF Plan, Chunked, Flushed, limit, s, st
<1> HIDE DEF st
<1> DEFINE d == RowsPlanned(st.done)
<1>6. /\ st.done \in Seq(Seq(R)) /\ st.open \in Seq(R) /\ d + Len(st.open) = Len(s)
      /\ GreedyCut(limit, s, d, st.done)
      /\ st.open = <<>> => st.done = <<>>
      /\ st.open # <<>> => OpensAt(limit, s, d, st.done, st.open)
  BY <1>4 DEF LoopInv
<1>7. d \in Nat
  BY <1>6, AheadAppend
<1>8. CASE st.open = <<>>
  <2>1. Len(st.open) = 0 /\ d = Len(s)
    BY <1>6, <1>7, <1>8
  <2>2. Plan(g, rs) = st.done
    BY Zenon, <1>5, <1>8 DEF Flushed
  <2> QED
    BY Zenon, <1>3, <1>6, <2>1, <2>2 DEF limit, s
<1>9. CASE st.open # <<>>
  <2>1. GreedyCut(limit, s, d + Len(st.open), Append(st.done, st.open))
    BY Zenon, <1>6, <1>7, <1>9, CutGrows
  <2>2. Plan(g, rs) = Append(st.done, st.open)
    BY Zenon, <1>5, <1>9 DEF Flushed
  <2>3. Append(st.done, st.open) \in Seq(Seq(R))
    BY <1>6
  <2> QED
    BY Zenon, <1>3, <1>6, <2>1, <2>2, <2>3 DEF limit, s
<1> QED
  BY <1>8, <1>9

(* plan, for any records and any thresholds: the chunks are the records in *)
(* the order of their positions, those with the same position in the order *)
(* of arrival, cut greedily at max_chunk_rows and max_chunk_bytes, with    *)
(* none left out, repeated or out of order at a boundary or at the last    *)
(* flush (logs.rs:153-271).                                                *)
THEOREM PlanCutsGreedily ==
  ASSUME NEW R, \A r \in R : r.bytes \in Nat /\ r.key \in Nat \X Nat \X Nat,
         NEW rs \in Seq(R), NEW g, g.maxRows \in Nat, g.maxBytes \in Nat
  PROVE  /\ Plan(g, rs) \in Seq(Seq(R))
         /\ GreedyCut(Limit(g), Sorted(rs), Len(rs), Plan(g, rs))
         /\ Range(Sorted(rs)) = Range(rs)
         /\ \A i, j \in DOMAIN rs : i < j =>
              \E k, l \in DOMAIN rs :
                Sorted(rs)[i] = rs[k] /\ Sorted(rs)[j] = rs[l] /\ SortsBefore(rs, k, l)
<1>1. Keyed(rs)
  BY DEF Keyed, Key
<1>2. Range(Sorted(rs)) = Range(rs)
  BY Zenon, <1>1, SortedRearranges
<1> QED
  BY Zenon, <1>1, <1>2, PlanCuts, SortedAscends
-----------------------------------------------------------------------------
(* The sink's plans. *)
LEMMA PlannedIs ==
  ASSUME NEW c \in Commits, NEW g \in Configs
  PROVE  Planned(c, g) = Plan(g, RecordsOf[c])
<1> DEFINE P == Plan(g, RecordsOf[c])
           Is(p) == p.commit = c /\ p.config = g
           chosen == CHOOSE p \in Plans : Is(p)
<1>1. [commit |-> c, config |-> g, chunks |-> P] \in Plans
  BY DEF Plans
<1>2. \A p \in Plans : Is(p) => p.chunks = P
  BY DEF Plans
<1>3. \E p \in Plans : Is(p)
  BY <1>1
<1>4. chosen \in Plans /\ Is(chosen)
  BY Zenon, <1>3
<1>5. chosen.chunks = P
  BY Zenon, <1>2, <1>4
<1> QED
  BY Zenon, <1>5 DEF Planned

(* A sequence is one over its own elements. *)
LEMMA ElementsOf ==
  ASSUME NEW R, NEW rs \in Seq(R)
  PROVE  /\ rs \in Seq({rs[k] : k \in DOMAIN rs})
         /\ \A k \in DOMAIN rs : rs[k] \in R /\ 1 \in DOMAIN rs
<1>1. /\ Len(rs) \in Nat /\ DOMAIN rs = 1 .. Len(rs) /\ rs = [k \in 1 .. Len(rs) |-> rs[k]]
      /\ \A k \in DOMAIN rs : rs[k] \in R
  OBVIOUS
<1>2. rs \in [1 .. Len(rs) -> {rs[k] : k \in DOMAIN rs}]
  BY <1>1
<1>3. \A S : \A n \in Nat : \A f \in [1 .. n -> S] : f \in Seq(S)
  OBVIOUS
<1>4. rs \in Seq({rs[k] : k \in DOMAIN rs})
  BY Zenon, <1>1, <1>2, <1>3
<1>5. \A k \in DOMAIN rs : 1 \in DOMAIN rs
  BY <1>1
<1> QED
  BY Zenon, <1>1, <1>4, <1>5

(* A plan holds the commit's records and only those, each in some chunk. *)
LEMMA PlannedHolds ==
  ASSUME NEW c \in Commits, NEW g \in Configs
  PROVE  /\ Planned(c, g) \in Seq(Seq(RecordsIn(c)))
         /\ RowsPlanned(Planned(c, g)) = Len(RecordsOf[c])
         /\ \A r \in RecordsIn(c) : \E k \in DOMAIN Planned(c, g) : r \in Range(Planned(c, g)[k])
<1> DEFINE rs == RecordsOf[c]
           R == RecordsIn(c)
           plan == Planned(c, g)
<1>1. /\ rs \in Seq([manifest : {c.manifest}, key : Nat \X Nat \X Nat, bytes : Nat])
      /\ g.maxRows \in Nat /\ g.maxBytes \in Nat
  BY SinkAssumption
<1>2. rs \in Seq(R) /\ \A r \in R : r.bytes \in Nat /\ r.key \in Nat \X Nat \X Nat
  <2> DEFINE T == [manifest : {c.manifest}, key : Nat \X Nat \X Nat, bytes : Nat]
  <2>2. rs \in Seq(T) /\ \A r \in T : r.bytes \in Nat /\ r.key \in Nat \X Nat \X Nat
    BY <1>1
  <2>4. R = {rs[k] : k \in DOMAIN rs}
    BY DEF RecordsIn
  <2> HIDE DEF T, rs, R
  <2>5. rs \in Seq({rs[k] : k \in DOMAIN rs}) /\ \A k \in DOMAIN rs : rs[k] \in T
    BY <2>2, ElementsOf
  <2>1. rs \in Seq(R) /\ \A k \in DOMAIN rs : rs[k] \in T
    BY <2>5, <2>4
  <2>3. \A r \in R : r \in T
    BY <2>1, <2>4
  <2> QED
    BY Zenon, <2>1, <2>2, <2>3
<1>3. plan \in Seq(Seq(R)) /\ GreedyCut(Limit(g), Sorted(rs), Len(rs), plan)
  BY Zenon, <1>1, <1>2, PlanCuts, PlannedIs
<1>4. RowsPlanned(plan) = Len(rs)
  BY Zenon, <1>3 DEF GreedyCut
<1>5. ASSUME NEW r \in R
      PROVE  \E k \in DOMAIN plan : r \in Range(plan[k])
  <2>1. Keyed(rs)
    BY <1>2 DEF Keyed, Key
  <2>2. /\ Sorted(rs) \in Seq(R) /\ Len(Sorted(rs)) = Len(rs)
        /\ Range(Sorted(rs)) = Range(rs)
    BY <1>2, <2>1, SortedRearranges
  <2>3. r \in Range(Sorted(rs))
    BY Zenon, <2>2 DEF RecordsIn, Range
  <2>4. PICK i \in 1 .. Len(rs) : r = Sorted(rs)[i]
    BY <2>2, <2>3 DEF Range
  <2>5. PICK k \in DOMAIN plan : \E x \in DOMAIN plan[k] : i = Ahead(plan, k) + x
    BY Zenon, <1>3, <2>4 DEF GreedyCut
  <2>6. PICK x \in DOMAIN plan[k] : i = Ahead(plan, k) + x
    BY <2>5
  <2>7. plan[k][x] = r
    BY Zenon, <1>3, <2>4, <2>6 DEF GreedyCut
  <2> QED
    BY Zenon, <2>7 DEF Range
<1> QED
  BY Zenon, <1>3, <1>4, <1>5

(* write never stops the process for what the adapter plans: it covers the *)
(* rows of the commit for any records and any thresholds (sink.rs:193-205) *)
(* and, as a source serves one manifest, mixes none (logs.rs:176-194).     *)
THEOREM PlansAreAccepted ==
  ASSUME NEW c \in Commits, NEW g \in Configs
  PROVE  ~MixesManifests(RecordsOf[c]) /\ RowsPlanned(Planned(c, g)) = Len(RecordsOf[c])
<1>1. RecordsOf[c] \in Seq([manifest : {c.manifest}, key : Nat \X Nat \X Nat, bytes : Nat])
  BY SinkAssumption
<1> DEFINE T == [manifest : {c.manifest}, key : Nat \X Nat \X Nat, bytes : Nat]
<1>2. \A k \in DOMAIN RecordsOf[c] : RecordsOf[c][k] \in T /\ 1 \in DOMAIN RecordsOf[c]
  BY Zenon, <1>1, ElementsOf
<1>3. \A r \in T : r.manifest = c.manifest
  OBVIOUS
<1>4. ~MixesManifests(RecordsOf[c])
  BY Zenon, <1>2, <1>3 DEF MixesManifests
<1> QED
  BY Zenon, <1>4, PlannedHolds

-----------------------------------------------------------------------------
(* The inserts.  Their rows are those of a chunk. *)
RowsFor(c, g, k) == {LogRow(g, r) : r \in Range(Planned(c, g)[k])}

(* The parts of an insert. *)
LEMMA InsertIs ==
  ASSUME NEW c, NEW g, NEW k
  PROVE  /\ Insert(c, g, k).commit = c /\ Insert(c, g, k).config = g /\ Insert(c, g, k).chunk = k
         /\ Insert(c, g, k).rows = RowsFor(c, g, k)
         /\ Insert(c, g, k).token = BuildToken(g, c.manifest, c.seq, k)
BY DEF Insert, RowsFor

(* What a worker may send. *)
LEMMA InsertIn ==
  ASSUME NEW c \in Commits, NEW g \in Configs, NEW k \in DOMAIN Planned(c, g)
  PROVE  Insert(c, g, k) \in Inserts
BY DEF Inserts

(* Every insert is of some commit, configuration and chunk. *)
LEMMA InsertOf ==
  ASSUME NEW p \in Inserts
  PROVE  /\ p.commit \in Commits /\ p.config \in Configs
         /\ p.chunk \in DOMAIN Planned(p.commit, p.config)
         /\ p.rows = RowsFor(p.commit, p.config, p.chunk)
         /\ p.token = BuildToken(p.config, p.commit.manifest, p.commit.seq, p.chunk)
<1>1. PICK c \in Commits, g \in Configs : \E k \in DOMAIN Planned(c, g) : p = Insert(c, g, k)
  BY DEF Inserts
<1>2. PICK k \in DOMAIN Planned(c, g) : p = Insert(c, g, k)
  BY <1>1
<1>3. /\ p.commit = c /\ p.config = g /\ p.chunk = k /\ p.rows = RowsFor(c, g, k)
      /\ p.token = BuildToken(g, c.manifest, c.seq, k)
  BY <1>2 DEF Insert, RowsFor
<1> QED
  BY Zenon, <1>2, <1>3

(* Inserts with one token carry the same rows, whatever the processes that *)
(* sent them were configured with.                                         *)
LEMMA TokenIsRows ==
  ASSUME NEW p \in Inserts, NEW q \in Inserts, p.token = q.token
  PROVE  p.rows = q.rows
<1> DEFINE c == p.commit
           d == q.commit
           g == p.config
           h == q.config
<1>1. /\ c \in Commits /\ d \in Commits /\ g \in Configs /\ h \in Configs
      /\ p.rows = RowsFor(c, g, p.chunk) /\ q.rows = RowsFor(d, h, q.chunk)
      /\ p.token = BuildToken(g, c.manifest, c.seq, p.chunk)
      /\ q.token = BuildToken(h, d.manifest, d.seq, q.chunk)
  BY Zenon, InsertOf
<1> HIDE DEF c, d, g, h
<1>2. PICK t : /\ t = BuildToken(g, c.manifest, c.seq, p.chunk)
               /\ t = BuildToken(h, d.manifest, d.seq, q.chunk)
  BY Zenon, <1>1
<1>3. /\ c.manifest = d.manifest /\ c.seq = d.seq /\ p.chunk = q.chunk /\ g.version = h.version
      /\ g.maxRows = h.maxRows /\ g.maxBytes = h.maxBytes
  <2>1. /\ t[1] = c.manifest /\ t[3] = c.seq /\ t[4] = g.version /\ t[6] = p.chunk
        /\ t[5][3] = g.maxRows /\ t[5][4] = g.maxBytes
    BY <1>2 DEF BuildToken, ChunkingFingerprint
  <2>2. /\ t[1] = d.manifest /\ t[3] = d.seq /\ t[4] = h.version /\ t[6] = q.chunk
        /\ t[5][3] = h.maxRows /\ t[5][4] = h.maxBytes
    BY <1>2 DEF BuildToken, ChunkingFingerprint
  <2> QED
    BY Zenon, <2>1, <2>2
<1>4. c = d
  BY Zenon, <1>1, <1>3, SinkAssumption
<1>5. Planned(c, g) = Planned(d, h)
  <2>1. Limit(g) = Limit(h)
    BY Zenon, <1>3 DEF Limit
  <2> QED
    BY Zenon, <1>1, <1>4, <2>1, PlannedIs DEF Plan
<1>6. \A r : LogRow(g, r) = LogRow(h, r)
  BY Zenon, <1>3 DEF LogRow
<1> QED
  BY Zenon, <1>1, <1>3, <1>5, <1>6 DEF RowsFor

(* The rows of an insert are finitely many, and records'. *)
LEMMA RowsOfInsert ==
  ASSUME NEW p \in Inserts
  PROVE  p.rows \subseteq LogRows /\ IsFiniteSet(p.rows)
<1> DEFINE c == p.commit
           g == p.config
           chunk == Planned(c, g)[p.chunk]
<1>1. /\ c \in Commits /\ g \in Configs /\ p.chunk \in DOMAIN Planned(c, g)
  BY InsertOf
<1>2. p.rows = {LogRow(g, r) : r \in Range(chunk)}
  BY Zenon, InsertOf DEF RowsFor
<1>3. chunk \in Seq(RecordsIn(c))
  <2>1. Planned(c, g) \in Seq(Seq(RecordsIn(c)))
    BY Zenon, <1>1, PlannedHolds
  <2> QED
    BY <1>1, <2>1
<1> HIDE DEF c, g, chunk
<1>4. Range(chunk) \subseteq RecordsIn(c)
  BY <1>3 DEF Range
<1>5. p.rows \subseteq LogRows
  BY <1>1, <1>2, <1>4 DEF LogRows
<1>6. IsFiniteSet(p.rows)
  <2> DEFINE D == DOMAIN chunk
             f == [k \in D |-> LogRow(g, chunk[k])]
  <2>1. Len(chunk) \in Nat /\ D = 1 .. Len(chunk)
    BY <1>3
  <2>2. IsFiniteSet(D)
    BY <2>1, FS_Interval
  <2>3. p.rows = {LogRow(g, chunk[k]) : k \in D}
    BY <1>2 DEF Range
  <2>4. f \in [D -> p.rows]
    BY <2>3
  <2>5. \A row \in p.rows : \E k \in D : f[k] = row
    BY <2>3
  <2> HIDE DEF D, f
  <2>6. f \in Surjection(D, p.rows)
    BY <2>4, <2>5 DEF Surjection
  <2> QED
    BY <2>2, <2>6, FS_Surjection
<1> QED
  BY <1>5, <1>6
-----------------------------------------------------------------------------
(* The steps of the sink and of the server. *)
LEMMA InitIInv == Init => IInv
<1> SUFFICES ASSUME Init PROVE IInv
  OBVIOUS
<1> USE DEF Init
<1>1. writer = [w \in Writers |-> Idle] /\ Idle.pc = "idle" /\ \A w \in Writers : ~Busy(w)
  BY DEF Idle, Busy
<1>2. TypeOK
  BY <1>1, SinkAssumption DEF TypeOK
<1>3. WritersApart /\ ChunksInOrder
  BY <1>1 DEF WritersApart, ChunksInOrder, Job
<1>4. WindowIsInTable /\ AckedIsInTable /\ table \subseteq LogRows
  BY DEF WindowIsInTable, AckedIsInTable
<1>5. IsFiniteSet(table)
  BY FS_EmptySet
<1> QED
  BY Zenon, <1>2, <1>3, <1>4, <1>5 DEF IInv

(* A worker with a commit in hand. *)
LEMMA InHand ==
  ASSUME IInv, NEW w \in Writers, Busy(w)
  PROVE  /\ up /\ config \in Configs /\ writer \in [Writers -> Job]
         /\ writer[w] \in Job \ {Idle} /\ writer[w].commit \in Commits \ done
         /\ writer[w].chunk \in DOMAIN Chunks(writer[w].commit)
         /\ writer[w].chunk \in 1 .. Len(Chunks(writer[w].commit))
         /\ Len(Chunks(writer[w].commit)) \in Nat
         /\ DOMAIN Chunks(writer[w].commit) = 1 .. Len(Chunks(writer[w].commit))
         /\ Request(w) \in sent
         /\ \A x \in Writers \ {w} : Busy(x) => writer[x].commit # writer[w].commit
         /\ \A k \in 1 .. writer[w].chunk - 1 : Insert(writer[w].commit, config, k).rows \subseteq table
<1>1. config \in Configs
  BY DEF IInv, TypeOK
<1>2. /\ up /\ writer \in [Writers -> Job]
      /\ \A x \in Writers \ {w} : Busy(x) => writer[x].commit # writer[w].commit
  BY DEF IInv, WritersApart
<1>3. writer[w] # Idle /\ writer[w] \in Job \ {Idle}
  BY <1>2 DEF Busy, Idle
<1>4. /\ writer[w].commit \in Commits \ done
      /\ writer[w].chunk \in 1 .. Len(Chunks(writer[w].commit))
  BY <1>3 DEF IInv, TypeOK
<1>5. Chunks(writer[w].commit) \in Seq(Seq(RecordsIn(writer[w].commit)))
  BY <1>1, <1>4, PlannedHolds DEF Chunks
<1>6. /\ Len(Chunks(writer[w].commit)) \in Nat
      /\ DOMAIN Chunks(writer[w].commit) = 1 .. Len(Chunks(writer[w].commit))
  BY <1>5
<1>7. /\ Request(w) \in sent
      /\ \A k \in 1 .. writer[w].chunk - 1 : Insert(writer[w].commit, config, k).rows \subseteq table
  BY Zenon DEF IInv, ChunksInOrder
<1> QED
  BY Zenon, <1>1, <1>2, <1>3, <1>4, <1>6, <1>7

(* What the server may do in a step of any kind: it loses no row, and      *)
(* remembers no token whose rows it does not have.                         *)
Keeps ==
  /\ table \subseteq table' /\ table' \subseteq LogRows /\ IsFiniteSet(table')
  /\ \A t \in dedup' : \E p \in sent : p.token = t /\ p.rows \subseteq table'

(* Nothing reaches the table, tokens may expire. *)
LEMMA NotLandedKeeps ==
  ASSUME IInv, table' = table, dedup' \subseteq dedup
  PROVE  Keeps
BY Zenon DEF IInv, WindowIsInTable, Keeps

(* A request that lands has its rows in the table, dropped as a duplicate  *)
(* or not.                                                                 *)
LEMMA LandsKeeps ==
  ASSUME IInv, NEW req \in sent, Lands(req)
  PROVE  Keeps /\ req.rows \subseteq table'
<1>1. /\ sent \subseteq Inserts /\ table \subseteq LogRows /\ IsFiniteSet(table)
      /\ \A t \in dedup : \E p \in sent : p.token = t /\ p.rows \subseteq table
  BY Zenon DEF IInv, TypeOK, WindowIsInTable
<1>2. req \in Inserts /\ req.rows \subseteq LogRows /\ IsFiniteSet(req.rows)
  BY Zenon, <1>1, RowsOfInsert
<1>3. table \subseteq table' /\ table' \subseteq table \cup req.rows
  BY DEF Lands
<1>4. table' \subseteq LogRows /\ IsFiniteSet(table')
  <2>1. IsFiniteSet(table \cup req.rows)
    BY Zenon, <1>1, <1>2, FS_Union
  <2>2. IsFiniteSet(table')
    BY <1>3, <2>1, FS_Subset
  <2> QED
    BY <1>1, <1>2, <1>3, <2>2
<1>5. req.rows \subseteq table'
  <2>1. CASE req.config.useToken /\ req.token \in dedup
    <3>1. PICK p \in sent : p.token = req.token /\ p.rows \subseteq table
      BY Zenon, <1>1, <2>1
    <3>2. p.rows = req.rows
      BY Zenon, <1>1, <1>2, <3>1, TokenIsRows
    <3> QED
      BY <1>3, <3>1, <3>2
  <2>2. CASE ~(req.config.useToken /\ req.token \in dedup)
    BY <2>2 DEF Lands
  <2> QED
    BY <2>1, <2>2
<1>6. \A t \in dedup' : t \in dedup \/ t = req.token
  BY DEF Lands
<1>7. \A t \in dedup' : \E p \in sent : p.token = t /\ p.rows \subseteq table'
  BY <1>1, <1>3, <1>5, <1>6
<1> QED
  BY Zenon, <1>3, <1>4, <1>5, <1>7 DEF Keeps

(* What was acknowledged stays. *)
LEMMA AckedKeeps ==
  ASSUME IInv, Keeps, acked' = acked
  PROVE  AckedIsInTable'
<1>1. AckedIsInTable /\ table \subseteq table'
  BY Zenon DEF IInv, Keeps
<1> QED
  BY <1>1 DEF AckedIsInTable, RecordsIn

(* A worker goes on with a commit: its first chunk, the next one, another  *)
(* attempt, or another write of the commit.                                *)
LEMMA GoesOn ==
  ASSUME IInv, Keeps, up, NEW w \in Writers, NEW job \in Job \ {Idle},
         writer' = [writer EXCEPT ![w] = job], UNCHANGED <<config, up, stops, done, acked>>,
         sent' = sent \cup {Insert(job.commit, config, job.chunk)}, inTransit' \subseteq sent',
         job.commit \in Commits \ done, job.chunk \in DOMAIN Chunks(job.commit),
         \A x \in Writers \ {w} : Busy(x) => writer[x].commit # job.commit,
         \A k \in 1 .. job.chunk - 1 : Insert(job.commit, config, k).rows \subseteq table'
  PROVE  IInv'
<1>1. /\ TypeOK /\ WritersApart /\ ChunksInOrder /\ config \in Configs
      /\ writer \in [Writers -> Job] /\ sent \subseteq Inserts
  BY Zenon DEF IInv, TypeOK, WritersApart
<1>2. /\ job.pc \in {"insert", "maybe"} /\ job.pc # "idle"
      /\ job.attempt \in 1 .. AtLeast1(MaxAttempts)
  BY DEF Job
<1>3. /\ writer' \in [Writers -> Job] /\ writer'[w] = job
      /\ \A x \in Writers \ {w} : writer'[x] = writer[x]
  BY <1>1
<1>4. \A c : Chunks(c)' = Chunks(c)
  BY DEF Chunks
<1>5. Insert(job.commit, config, job.chunk) \in Inserts
  BY Zenon, <1>1, InsertIn DEF Chunks
<1>6. job.chunk \in 1 .. Len(Chunks(job.commit))
  <2>1. Chunks(job.commit) \in Seq(Seq(RecordsIn(job.commit)))
    BY <1>1, PlannedHolds DEF Chunks
  <2> QED
    BY <2>1
<1>7. TypeOK'
  <2>1. ASSUME NEW x \in Writers
        PROVE  \/ writer'[x] = Idle
               \/ /\ writer'[x].pc \in {"insert", "maybe"}
                  /\ writer'[x].commit \in Commits \ done'
                  /\ writer'[x].chunk \in 1 .. Len(Chunks(writer'[x].commit))
                  /\ writer'[x].attempt \in 1 .. AtLeast1(MaxAttempts)
    <3>1. CASE x = w
      BY Zenon, <1>2, <1>3, <1>6, <3>1
    <3>2. CASE x # w
      BY Zenon, <1>1, <1>3, <3>2 DEF TypeOK
    <3> QED
      BY <3>1, <3>2
  <2>2. sent' \subseteq Inserts
    BY <1>1, <1>5
  <2> QED
    BY Zenon, <1>1, <1>4, <2>1, <2>2 DEF TypeOK
<1>8. WritersApart'
  <2>1. ASSUME NEW x \in Writers, NEW y \in Writers, writer'[x].pc # "idle", writer'[y].pc # "idle",
               writer'[x].commit = writer'[y].commit
        PROVE  x = y
    BY <1>1, <1>3, <2>1 DEF WritersApart, Busy
  <2> QED
    BY Zenon, <1>3, <2>1 DEF WritersApart, Busy
<1>9. ChunksInOrder'
  <2>1. table \subseteq table' /\ sent \subseteq sent'
    BY DEF Keeps
  <2>2. ASSUME NEW x \in Writers, writer'[x].pc # "idle"
        PROVE  /\ Insert(writer'[x].commit, config, writer'[x].chunk) \in sent'
               /\ \A k \in 1 .. writer'[x].chunk - 1 :
                    Insert(writer'[x].commit, config, k).rows \subseteq table'
    <3>1. CASE x = w
      BY <1>3, <3>1
    <3>2. CASE x # w
      BY <1>1, <1>3, <2>1, <2>2, <3>2 DEF ChunksInOrder, Busy, Request
    <3> QED
      BY <3>1, <3>2
  <2> QED
    BY Zenon, <2>2 DEF ChunksInOrder, Busy, Request
<1>10. WindowIsInTable'
  BY Zenon DEF Keeps, WindowIsInTable
<1> QED
  BY Zenon, <1>7, <1>8, <1>9, <1>10, AckedKeeps DEF IInv, Keeps
(* A worker has every chunk of its commit in the table and acknowledges    *)
(* it.                                                                     *)
LEMMA Finishes ==
  ASSUME IInv, Keeps, up, NEW w \in Writers, NEW c \in Commits, Acknowledge(w, c),
         UNCHANGED <<config, up, stops, sent, inTransit>>,
         \A x \in Writers \ {w} : Busy(x) => writer[x].commit # c,
         \A k \in DOMAIN Chunks(c) : Insert(c, config, k).rows \subseteq table'
  PROVE  IInv'
<1>1. /\ TypeOK /\ WritersApart /\ ChunksInOrder /\ config \in Configs
      /\ writer \in [Writers -> Job] /\ acked \subseteq [commit : Commits, version : Nat]
  BY Zenon DEF IInv, TypeOK, WritersApart
<1>2. /\ writer' \in [Writers -> Job] /\ writer'[w] = Idle /\ Idle.pc = "idle"
      /\ \A x \in Writers \ {w} : writer'[x] = writer[x]
  BY <1>1 DEF Acknowledge, Job, Idle
<1>3. /\ done' = done \cup {c}
      /\ acked' = acked \cup {[commit |-> c, version |-> config.version]}
  BY DEF Acknowledge
<1>4. \A d : Chunks(d)' = Chunks(d)
  BY DEF Chunks
<1>5. TypeOK'
  <2>1. ASSUME NEW x \in Writers
        PROVE  \/ writer'[x] = Idle
               \/ /\ writer'[x].pc \in {"insert", "maybe"}
                  /\ writer'[x].commit \in Commits \ done'
                  /\ writer'[x].chunk \in 1 .. Len(Chunks(writer'[x].commit))
                  /\ writer'[x].attempt \in 1 .. AtLeast1(MaxAttempts)
    <3>1. CASE x = w \/ writer[x] = Idle
      BY Zenon, <1>2, <3>1
    <3>2. CASE x # w /\ writer[x] # Idle
      <4>1. /\ writer[x].pc \in {"insert", "maybe"}
            /\ writer[x].commit \in Commits \ done
            /\ writer[x].chunk \in 1 .. Len(Chunks(writer[x].commit))
            /\ writer[x].attempt \in 1 .. AtLeast1(MaxAttempts)
        BY Zenon, <1>1, <3>2 DEF TypeOK
      <4>2. writer[x].commit # c
        BY <3>2, <4>1 DEF Busy
      <4>3. writer[x].commit \in Commits \ done'
        BY <1>3, <4>1, <4>2
      <4> QED
        BY Zenon, <1>2, <3>2, <4>1, <4>3
    <3> QED
      BY Zenon, <3>1, <3>2
  <2>2. done' \subseteq Commits
    BY Zenon, <1>1, <1>3 DEF TypeOK
  <2>3. acked' \subseteq [commit : Commits, version : Nat]
    BY <1>1, <1>3, SinkAssumption
  <2> QED
    BY Zenon, <1>1, <1>4, <2>1, <2>2, <2>3 DEF TypeOK
<1>6. WritersApart'
  <2>1. ASSUME NEW x \in Writers, NEW y \in Writers, writer'[x].pc # "idle", writer'[y].pc # "idle",
               writer'[x].commit = writer'[y].commit
        PROVE  x = y
    BY <1>1, <1>2, <2>1 DEF WritersApart, Busy
  <2> QED
    BY Zenon, <1>2, <2>1 DEF WritersApart, Busy
<1>7. ChunksInOrder'
  <2>1. table \subseteq table'
    BY DEF Keeps
  <2>2. ASSUME NEW x \in Writers, writer'[x].pc # "idle"
        PROVE  /\ Insert(writer'[x].commit, config, writer'[x].chunk) \in sent'
               /\ \A k \in 1 .. writer'[x].chunk - 1 :
                    Insert(writer'[x].commit, config, k).rows \subseteq table'
    BY <1>1, <1>2, <2>1, <2>2 DEF ChunksInOrder, Busy, Request
  <2> QED
    BY Zenon, <2>2 DEF ChunksInOrder, Busy, Request
<1>8. WindowIsInTable'
  BY Zenon DEF Keeps, WindowIsInTable
<1>9. AckedIsInTable'
  <2>1. AckedIsInTable /\ table \subseteq table'
    BY Zenon DEF IInv, Keeps
  <2>2. ASSUME NEW r \in RecordsIn(c)
        PROVE  \E row \in table' : /\ row.manifest = r.manifest /\ row.key = r.key
                                   /\ row.version = config.version
    <3>1. PICK k \in DOMAIN Planned(c, config) : r \in Range(Planned(c, config)[k])
      BY Zenon, <1>1, PlannedHolds
    <3>2. Insert(c, config, k).rows \subseteq table'
      BY <3>1 DEF Chunks
    <3>3. LogRow(config, r) \in Insert(c, config, k).rows
      BY <3>1, InsertIs DEF RowsFor
    <3>4. /\ LogRow(config, r).manifest = r.manifest /\ LogRow(config, r).key = r.key
          /\ LogRow(config, r).version = config.version
      BY DEF LogRow
    <3> QED
      BY Zenon, <3>2, <3>3, <3>4
  <2>3. ASSUME NEW a \in acked', NEW r \in RecordsIn(a.commit)
        PROVE  \E row \in table' : /\ row.manifest = r.manifest /\ row.key = r.key
                                   /\ row.version = a.version
    <3>1. CASE a \in acked
      BY <2>1, <3>1 DEF AckedIsInTable
    <3>2. CASE a = [commit |-> c, version |-> config.version]
      <4>1. a.commit = c /\ a.version = config.version
        BY <3>2
      <4> QED
        BY Zenon, <2>2, <2>3, <4>1
    <3> QED
      BY Zenon, <1>3, <3>1, <3>2
  <2> QED
    BY Zenon, <2>3 DEF AckedIsInTable, RecordsIn
<1> QED
  BY Zenon, <1>5, <1>6, <1>7, <1>8, <1>9 DEF IInv, Keeps

(* The process stops with its requests on the wire. *)
LEMMA StopsKeep ==
  ASSUME IInv, StopProcess, UNCHANGED <<config, acked, sent, dedup, table>>
  PROVE  IInv'
<1>1. /\ TypeOK /\ writer' = [w \in Writers |-> Idle] /\ Idle.pc = "idle" /\ Idle \in Job
      /\ done' = {} /\ up' = FALSE
  BY DEF IInv, StopProcess, Idle, Job
<1>2. \A w \in Writers : ~(writer'[w].pc # "idle") /\ writer'[w] = Idle
  BY <1>1
<1>3. inTransit' \subseteq sent
  <2>1. ASSUME NEW x \in Writers, writer[x].pc = "insert"
        PROVE  Request(x) \in sent
    BY <2>1, InHand DEF Busy
  <2> QED
    BY <1>1, <2>1 DEF StopProcess, TypeOK
<1>4. stops' \in 0 .. MaxStops
  BY <1>1, SinkAssumption DEF StopProcess, TypeOK
<1>5. TypeOK'
  BY Zenon, <1>1, <1>2, <1>3, <1>4 DEF TypeOK
<1>6. WritersApart' /\ ChunksInOrder'
  <2>1. writer' \in [Writers -> Job]
    BY <1>1
  <2> QED
    BY Zenon, <1>2, <2>1 DEF WritersApart, ChunksInOrder, Busy
<1>7. Keeps
  BY NotLandedKeeps
<1>8. WindowIsInTable' /\ AckedIsInTable'
  BY Zenon, <1>7, AckedKeeps DEF Keeps, WindowIsInTable
<1> QED
  BY Zenon, <1>5, <1>6, <1>7, <1>8 DEF IInv, Keeps

(* The process starts, under any configuration: no worker has a commit in  *)
(* hand that another configuration has planned.                            *)
LEMMA StartKeeps ==
  ASSUME IInv, Start
  PROVE  IInv'
<1>1. /\ ~up /\ up' = TRUE /\ config' \in Configs
      /\ UNCHANGED <<stops, writer, done, acked, sent, inTransit, dedup, table>>
  BY DEF Start
<1>2. TypeOK /\ WritersApart /\ \A w \in Writers : writer[w] = Idle /\ ~(writer[w].pc # "idle")
  <2>1. TypeOK /\ WritersApart /\ \A w \in Writers : writer[w].pc = "idle"
    BY Zenon, <1>1 DEF IInv, WritersApart, Busy
  <2> QED
    BY <2>1 DEF TypeOK
<1>3. TypeOK'
  BY Zenon, <1>1, <1>2 DEF TypeOK
<1>4. WritersApart' /\ ChunksInOrder'
  BY Zenon, <1>1, <1>2 DEF WritersApart, ChunksInOrder, Busy
<1>5. Keeps
  BY <1>1, NotLandedKeeps
<1>6. WindowIsInTable' /\ AckedIsInTable'
  BY Zenon, <1>1, <1>5, AckedKeeps DEF Keeps, WindowIsInTable
<1> QED
  BY Zenon, <1>3, <1>4, <1>5, <1>6 DEF IInv, Keeps

(* The server's own steps. *)
LEMMA ServerKeeps ==
  ASSUME IInv, LandLate \/ Expire
  PROVE  IInv'
<1>1. Keeps
  <2>1. CASE LandLate
    <3>1. PICK req \in inTransit : Lands(req)
      BY <2>1 DEF LandLate
    <3>2. req \in sent
      BY DEF IInv, TypeOK
    <3> QED
      BY <3>1, <3>2, LandsKeeps
  <2>2. CASE Expire
    BY <2>2, NotLandedKeeps DEF Expire
  <2> QED
    BY <2>1, <2>2
<1>2. UNCHANGED <<config, up, stops, writer, done, acked, sent>> /\ inTransit' \subseteq inTransit
  BY DEF LandLate, Expire
<1>3. TypeOK'
  <2>1. TypeOK
    BY DEF IInv
  <2> QED
    BY Zenon, <1>2, <2>1 DEF TypeOK, Chunks
<1>4. WritersApart'
  <2>1. WritersApart
    BY DEF IInv
  <2> QED
    BY Zenon, <1>2, <2>1 DEF WritersApart, Busy
<1>5. ChunksInOrder'
  <2>1. ChunksInOrder /\ table \subseteq table'
    BY Zenon, <1>1 DEF IInv, Keeps
  <2> QED
    BY Zenon, <1>2, <2>1 DEF ChunksInOrder, Busy, Request
<1>6. WindowIsInTable'
  BY Zenon, <1>1, <1>2 DEF Keeps, WindowIsInTable
<1>7. AckedIsInTable'
  BY Zenon, <1>1, <1>2, AckedKeeps
<1> QED
  BY Zenon, <1>1, <1>3, <1>4, <1>5, <1>6, <1>7 DEF IInv, Keeps
-----------------------------------------------------------------------------
(* The workers' steps.  The states a worker may go on in. *)
LEMMA InsertingIs ==
  ASSUME NEW c \in Commits, NEW k \in Nat \ {0}
  PROVE  /\ Inserting(c, k, 1) \in Job \ {Idle}
         /\ Inserting(c, k, 1).commit = c /\ Inserting(c, k, 1).chunk = k
<1>1. 1 \in 1 .. AtLeast1(MaxAttempts)
  BY SinkAssumption DEF AtLeast1
<1> QED
  BY <1>1 DEF Inserting, Job, Idle

(* A write begins. *)
LEMMA WriteKeeps ==
  ASSUME IInv, NEW w \in Writers, NEW c \in Commits, Write(w, c)
  PROVE  IInv'
<1>1. /\ up /\ ~Busy(w) /\ c \notin done /\ NotLanded /\ config' = config
      /\ \A x \in Writers \ {w} : Busy(x) => writer[x].commit # c
      /\ config \in Configs /\ inTransit \subseteq sent
  BY DEF Write, IInv, TypeOK
<1>2. Keeps
  BY <1>1, NotLandedKeeps DEF NotLanded
<1>3. CASE StopProcess /\ UNCHANGED <<acked, sent>>
  BY <1>1, <1>3, StopsKeep DEF NotLanded
<1>4. CASE Chunks(c) = <<>> /\ Acknowledge(w, c) /\ UNCHANGED sent /\ UNCHANGED <<up, stops, inTransit>>
  <2>1. \A k \in DOMAIN Chunks(c) : Insert(c, config, k).rows \subseteq table'
    BY <1>4
  <2> QED
    BY <1>1, <1>2, <1>4, <2>1, Finishes
<1>5. CASE /\ Chunks(c) # <<>> /\ Send(w, Inserting(c, 1, 1)) /\ UNCHANGED <<done, acked>>
           /\ UNCHANGED <<up, stops, inTransit>>
  <2> DEFINE job == Inserting(c, 1, 1)
  <2>1. job \in Job \ {Idle} /\ job.commit = c /\ job.chunk = 1
    BY InsertingIs
  <2>2. Chunks(c) \in Seq(Seq(RecordsIn(c)))
    BY <1>1, PlannedHolds DEF Chunks
  <2>3. 1 \in DOMAIN Chunks(c)
    BY <1>5, <2>2
  <2>4. /\ writer' = [writer EXCEPT ![w] = job]
        /\ sent' = sent \cup {Insert(job.commit, config, job.chunk)}
    BY <1>5 DEF Send
  <2> HIDE DEF job
  <2>5. \A k \in 1 .. job.chunk - 1 : Insert(job.commit, config, k).rows \subseteq table'
    BY <2>1
  <2>6. /\ inTransit' \subseteq sent' /\ UNCHANGED <<config, up, stops, done, acked>>
        /\ job.commit \in Commits \ done /\ job.chunk \in DOMAIN Chunks(job.commit)
        /\ \A x \in Writers \ {w} : Busy(x) => writer[x].commit # job.commit
    BY <1>1, <1>5, <2>1, <2>3, <2>4
  <2> QED
    BY Zenon, <1>1, <1>2, <2>1, <2>4, <2>5, <2>6, GoesOn
<1> QED
  BY Zenon, <1>3, <1>4, <1>5 DEF Write

(* The server answers 200. *)
LEMMA InsertOkKeeps ==
  ASSUME IInv, NEW w \in Writers, InsertOk(w)
  PROVE  IInv'
<1> DEFINE c == writer[w].commit
           k == writer[w].chunk
<1>1. Busy(w) /\ Lands(Request(w)) /\ UNCHANGED <<config, up, stops, inTransit>>
  BY DEF InsertOk, Busy
<1>2. /\ up /\ config \in Configs /\ c \in Commits \ done
      /\ k \in 1 .. Len(Chunks(c)) /\ Len(Chunks(c)) \in Nat
      /\ DOMAIN Chunks(c) = 1 .. Len(Chunks(c)) /\ Request(w) \in sent
      /\ \A x \in Writers \ {w} : Busy(x) => writer[x].commit # c
      /\ \A j \in 1 .. k - 1 : Insert(c, config, j).rows \subseteq table
  BY Zenon, <1>1, InHand
<1>3. Keeps /\ Request(w).rows \subseteq table' /\ table \subseteq table'
  BY Zenon, <1>1, <1>2, LandsKeeps DEF Keeps
<1>4. \A j \in 1 .. k : Insert(c, config, j).rows \subseteq table'
  <2>1. ASSUME NEW j \in 1 .. k PROVE Insert(c, config, j).rows \subseteq table'
    <3>1. CASE j = k
      BY <1>3, <3>1 DEF Request
    <3>2. CASE j # k
      <4>1. j \in 1 .. k - 1
        BY <1>2, <2>1, <3>2
      <4> QED
        BY Zenon, <1>2, <1>3, <4>1
    <3> QED
      BY <3>1, <3>2
  <2> QED
    BY Zenon, <2>1
<1>5. CASE k = Len(Chunks(c)) /\ Acknowledge(w, c) /\ UNCHANGED sent
  BY Zenon, <1>1, <1>2, <1>3, <1>4, <1>5, Finishes
<1>6. CASE /\ k < Len(Chunks(c)) /\ Send(w, Inserting(c, k + 1, 1)) /\ UNCHANGED <<done, acked>>
  <2> DEFINE job == Inserting(c, k + 1, 1)
  <2>0. k \in Nat /\ k + 1 \in Nat \ {0} /\ k + 1 \in DOMAIN Chunks(c) /\ k + 1 - 1 = k /\ c \in Commits
    BY <1>2, <1>6
  <2>1. job \in Job \ {Idle} /\ job.commit = c /\ job.chunk = k + 1
    BY Zenon, <2>0, InsertingIs
  <2>2. /\ writer' = [writer EXCEPT ![w] = job]
        /\ sent' = sent \cup {Insert(job.commit, config, job.chunk)}
        /\ inTransit \subseteq sent
    BY <1>6 DEF Send, IInv, TypeOK
  <2> HIDE DEF job, c, k
  <2>3. \A j \in 1 .. job.chunk - 1 : Insert(job.commit, config, j).rows \subseteq table'
    <3>1. job.chunk - 1 = k
      BY <2>0, <2>1
    <3> QED
      BY Zenon, <1>4, <2>1, <3>1
  <2>4. /\ inTransit' \subseteq sent' /\ UNCHANGED <<config, up, stops, done, acked>>
        /\ job.commit \in Commits \ done /\ job.chunk \in DOMAIN Chunks(job.commit)
        /\ \A x \in Writers \ {w} : Busy(x) => writer[x].commit # job.commit
    BY <1>1, <1>2, <1>6, <2>0, <2>1, <2>2
  <2> QED
    BY Zenon, <1>2, <1>3, <2>1, <2>2, <2>3, <2>4, GoesOn
<1> QED
  BY Zenon, <1>5, <1>6 DEF InsertOk

(* A retryable failure: whatever became of the request, its rows are       *)
(* asked for again, or the outcome is unknown.                             *)
LEMMA InsertRetryableKeeps ==
  ASSUME IInv, NEW w \in Writers, InsertRetryable(w)
  PROVE  IInv'
<1> DEFINE old == writer[w]
           job == NextAttempt(old)
<1>1. /\ Busy(w) /\ UNCHANGED <<config, up, stops, done, acked, sent>>
      /\ \/ Lands(Request(w)) /\ UNCHANGED inTransit
         \/ NotLanded /\ UNCHANGED inTransit
         \/ NotLanded /\ inTransit' = inTransit \cup {Request(w)}
  BY DEF InsertRetryable, Busy
<1>2. /\ up /\ config \in Configs /\ old.commit \in Commits \ done /\ old \in Job \ {Idle}
      /\ old.chunk \in DOMAIN Chunks(old.commit) /\ Request(w) \in sent
      /\ writer \in [Writers -> Job]
      /\ \A x \in Writers \ {w} : Busy(x) => writer[x].commit # old.commit
      /\ \A j \in 1 .. old.chunk - 1 : Insert(old.commit, config, j).rows \subseteq table
  BY Zenon, <1>1, InHand
<1>3. Keeps
  <2>1. CASE Lands(Request(w))
    BY Zenon, <1>2, <2>1, LandsKeeps
  <2>2. CASE NotLanded
    BY <2>2, NotLandedKeeps DEF NotLanded
  <2> QED
    BY Zenon, <1>1, <2>1, <2>2
<1>4. writer' = [writer EXCEPT ![w] = job]
  BY <1>2 DEF InsertRetryable
<1>5. job \in Job \ {Idle} /\ job.commit = old.commit /\ job.chunk = old.chunk
  <2> DEFINE Working == [pc : {"insert", "maybe"}, commit : Commits, chunk : Nat \ {0},
                         attempt : 1 .. AtLeast1(MaxAttempts)]
  <2>1. old \in Working
    BY <1>2 DEF Job
  <2>2. /\ [old EXCEPT !.pc = "maybe"] \in Working
        /\ [old EXCEPT !.pc = "maybe"].commit = old.commit
        /\ [old EXCEPT !.pc = "maybe"].chunk = old.chunk
    BY <2>1
  <2>3. ASSUME old.attempt < MaxAttempts
        PROVE  /\ [old EXCEPT !.attempt = old.attempt + 1] \in Working
               /\ [old EXCEPT !.attempt = old.attempt + 1].commit = old.commit
               /\ [old EXCEPT !.attempt = old.attempt + 1].chunk = old.chunk
    <3>1. old.attempt + 1 \in 1 .. AtLeast1(MaxAttempts)
      BY <2>1, <2>3, SinkAssumption DEF AtLeast1
    <3> QED
      BY <2>1, <3>1
  <2>4. Working \subseteq Job \ {Idle}
    BY DEF Job, Idle
  <2> QED
    BY Zenon, <2>2, <2>3, <2>4 DEF NextAttempt
<1> HIDE DEF job, old
<1>6. Insert(job.commit, config, job.chunk) = Request(w)
  BY Zenon, <1>5 DEF Request, old
<1>7. inTransit' \subseteq sent' /\ sent' = sent \cup {Insert(job.commit, config, job.chunk)}
  BY <1>1, <1>2, <1>6 DEF IInv, TypeOK
<1>8. \A j \in 1 .. job.chunk - 1 : Insert(job.commit, config, j).rows \subseteq table'
  BY Zenon, <1>2, <1>3, <1>5 DEF Keeps
<1>9. /\ job.commit \in Commits \ done /\ job.chunk \in DOMAIN Chunks(job.commit)
      /\ \A x \in Writers \ {w} : Busy(x) => writer[x].commit # job.commit
      /\ UNCHANGED <<config, up, stops, done, acked>>
  BY Zenon, <1>1, <1>2, <1>5
<1> QED
  BY Zenon, <1>2, <1>3, <1>4, <1>5, <1>7, <1>8, <1>9, GoesOn

(* After an unknown outcome the commit is written from its first chunk. *)
LEMMA CheckCommittedKeeps ==
  ASSUME IInv, NEW w \in Writers, CheckCommitted(w)
  PROVE  IInv'
<1> DEFINE c == writer[w].commit
           job == Inserting(c, 1, 1)
<1>1. Busy(w) /\ UNCHANGED <<config, acked, dedup, table>>
  BY DEF CheckCommitted, Busy
<1>2. CASE StopProcess /\ UNCHANGED sent
  BY <1>1, <1>2, StopsKeep
<1>3. CASE Send(w, Inserting(c, 1, 1)) /\ UNCHANGED <<up, stops, done, inTransit>>
  <2>1. /\ up /\ config \in Configs /\ c \in Commits \ done
        /\ writer[w].chunk \in 1 .. Len(Chunks(c)) /\ Len(Chunks(c)) \in Nat
        /\ DOMAIN Chunks(c) = 1 .. Len(Chunks(c))
        /\ \A x \in Writers \ {w} : Busy(x) => writer[x].commit # c
    BY Zenon, <1>1, InHand
  <2>2. job \in Job \ {Idle} /\ job.commit = c /\ job.chunk = 1
    BY <2>1, InsertingIs
  <2>3. Keeps
    BY <1>1, NotLandedKeeps
  <2>4. /\ writer' = [writer EXCEPT ![w] = job]
        /\ sent' = sent \cup {Insert(job.commit, config, job.chunk)}
        /\ inTransit \subseteq sent
    BY <1>3 DEF Send, IInv, TypeOK
  <2> HIDE DEF job, c
  <2>5. \A k \in 1 .. job.chunk - 1 : Insert(job.commit, config, k).rows \subseteq table'
    BY <2>2
  <2>6. /\ inTransit' \subseteq sent' /\ UNCHANGED <<config, up, stops, done, acked>>
        /\ job.commit \in Commits \ done /\ job.chunk \in DOMAIN Chunks(job.commit)
        /\ \A x \in Writers \ {w} : Busy(x) => writer[x].commit # job.commit
    BY <1>1, <1>3, <2>1, <2>2, <2>4
  <2> QED
    BY Zenon, <2>1, <2>2, <2>3, <2>4, <2>5, <2>6, GoesOn
<1> QED
  BY Zenon, <1>2, <1>3 DEF CheckCommitted
(* Every step keeps the invariant. *)
LEMMA NextKeepsIInv == IInv /\ [Next]_vars => IInv'
<1> SUFFICES ASSUME IInv, [Next]_vars PROVE IInv'
  OBVIOUS
<1>1. CASE Stop
  BY <1>1, StopsKeep DEF Stop
<1>2. CASE Start
  BY <1>2, StartKeeps
<1>3. CASE LandLate \/ Expire
  BY <1>3, ServerKeeps
<1>4. ASSUME NEW w \in Writers, NEW c \in Commits, Write(w, c) PROVE IInv'
  BY <1>4, WriteKeeps
<1>5. ASSUME NEW w \in Writers,
             InsertOk(w) \/ InsertRetryable(w) \/ InsertRejected(w) \/ CheckCommitted(w)
      PROVE  IInv'
  <2>1. CASE InsertRejected(w)
    BY <2>1, StopsKeep DEF InsertRejected
  <2> QED
    BY Zenon, <1>5, <2>1, InsertOkKeeps, InsertRetryableKeeps, CheckCommittedKeeps
<1>6. CASE UNCHANGED vars
  <2>1. Keeps /\ UNCHANGED <<config, up, stops, writer, done, acked, sent, inTransit, dedup, table>>
    BY <1>6, NotLandedKeeps DEF vars
  <2>2. TypeOK /\ WritersApart /\ ChunksInOrder
    BY Zenon DEF IInv
  <2>3. TypeOK'
    BY Zenon, <2>1, <2>2 DEF TypeOK, Chunks
  <2>4. WritersApart' /\ ChunksInOrder'
    BY Zenon, <2>1, <2>2 DEF WritersApart, ChunksInOrder, Busy, Request
  <2>5. WindowIsInTable' /\ AckedIsInTable'
    BY Zenon, <2>1, AckedKeeps DEF Keeps, WindowIsInTable
  <2> QED
    BY Zenon, <2>1, <2>3, <2>4, <2>5 DEF IInv, Keeps
<1> QED
  BY Zenon, <1>1, <1>2, <1>3, <1>4, <1>5, <1>6 DEF Next

-----------------------------------------------------------------------------
(* The sink's inductive invariant, for any writers, commits, records,      *)
(* configurations and retry limit, with requests that land late, twice or  *)
(* never, expiring tokens and restarts: what is acknowledged is in the     *)
(* table, and no token in the window stands for rows that are not          *)
(* (sink.rs, writer.rs).                                                   *)
THEOREM SinkInvariant == Spec => []IInv
<1> QED
  BY InitIInv, NextKeepsIInv, PTL DEF Spec

(* Requests with the same token carry the same rows, however the processes *)
(* that sent them were configured (logs.rs:87), so that a request the      *)
(* server drops as a duplicate loses nothing.                              *)
THEOREM TokensIdentifyRows == Spec => []TokenIdentifiesRows
<1>1. IInv => TokenIdentifiesRows
  <2>1. ASSUME IInv, NEW p \in sent, NEW q \in sent, p.token = q.token PROVE p.rows = q.rows
    <3>1. p \in Inserts /\ q \in Inserts
      BY <2>1 DEF IInv, TypeOK
    <3> QED
      BY <2>1, <3>1, TokenIsRows
  <2> QED
    BY Zenon, <2>1 DEF TokenIdentifiesRows
<1> QED
  BY <1>1, SinkInvariant, PTL

(* A finite set of naturals has a greatest element. *)
LEMMA FiniteGreatest ==
  ASSUME NEW S, IsFiniteSet(S), \A x \in S : x \in Nat
  PROVE  S = {} \/ \E m \in S : \A y \in S : y <= m
<1> DEFINE Greatest(T) == \E m \in T : \A y \in T : y <= m
           Bad == {T \in SUBSET S : T # {} /\ ~Greatest(T)}
<1> SUFFICES ASSUME Bad # {} PROVE FALSE
  OBVIOUS
<1>2. PICK T \in Bad : \A V \in Bad : V \subseteq T => V = T
  <2>1. Bad \subseteq SUBSET S
    OBVIOUS
  <2> HIDE DEF Bad
  <2> QED
    BY <2>1, MinimalSubset
<1>3. PICK x \in T : x \in Nat
  BY <1>2
<1> DEFINE V == T \ {x}
<1>4. V \in SUBSET S /\ V \subseteq T /\ V # T /\ T = V \cup {x} /\ T \subseteq Nat
  BY <1>2, <1>3
<1>5. CASE V = {}
  <2>1. T = {x} /\ x <= x
    BY <1>3, <1>4, <1>5
  <2> QED
    BY <1>2, <2>1
<1>6. CASE V # {}
  <2>1. Greatest(V)
    BY Zenon, <1>2, <1>4, <1>6
  <2>2. PICK m \in V : \A y \in V : y <= m
    BY <2>1
  <2>3. m \in T /\ m \in Nat
    BY <1>4, <2>2
  <2> HIDE DEF V
  <2>4. CASE x <= m
    <3>1. \A y \in T : y <= m
      BY <1>4, <2>2, <2>4
    <3> QED
      BY Zenon, <1>2, <2>3, <3>1
  <2>5. CASE m <= x
    <3>1. \A y \in T : y <= x
      BY <1>3, <1>4, <2>2, <2>3, <2>5
    <3> QED
      BY Zenon, <1>2, <1>3, <3>1
  <2> QED
    BY <1>3, <2>3, <2>4, <2>5
<1> QED
  BY <1>5, <1>6

(* A row that a merge cannot replace, at least as new as one in the table. *)
LEMMA NewestSurvives ==
  ASSUME IInv, OneManifestPerKey, NEW c \in Commits, NEW r \in RecordsIn(c), NEW version \in Nat,
         \E row \in table : row.manifest = r.manifest /\ row.key = r.key /\ row.version = version
  PROVE  Stands(r, version)
<1> DEFINE Alike == {row \in table : row.key = r.key}
           S == {row.version : row \in Alike}
<1>1. table \subseteq LogRows /\ IsFiniteSet(table)
  BY Zenon DEF IInv
<1>2. ASSUME NEW row \in Alike
      PROVE  /\ row.manifest = r.manifest /\ row.key = r.key /\ row.version \in Nat
             /\ row = [manifest |-> row.manifest, key |-> row.key, version |-> row.version]
  <2>0. PICK g \in Configs, d \in Commits : \E q \in RecordsIn(d) : row = LogRow(g, q)
    BY <1>1, <1>2 DEF LogRows
  <2>1. PICK q \in RecordsIn(d) : row = LogRow(g, q)
    BY <2>0
  <2>2. /\ row.manifest = q.manifest /\ row.key = q.key /\ row.version = g.version
        /\ row = [manifest |-> row.manifest, key |-> row.key, version |-> row.version]
    BY <2>1 DEF LogRow
  <2>3. q.manifest = r.manifest
    BY Zenon, <1>2, <2>2 DEF OneManifestPerKey
  <2> QED
    BY <1>2, <2>2, <2>3, SinkAssumption
<1>3. IsFiniteSet(S)
  <2>1. IsFiniteSet(Alike)
    BY <1>1, FS_Subset
  <2> DEFINE f == [row \in Alike |-> row.version]
  <2>2. f \in [Alike -> S] /\ \A v \in S : \E row \in Alike : f[row] = v
    OBVIOUS
  <2> HIDE DEF f, S, Alike
  <2>3. f \in Surjection(Alike, S)
    BY <2>2 DEF Surjection
  <2> QED
    BY <2>1, <2>3, FS_Surjection
<1>4. S \subseteq Nat /\ version \in S
  BY <1>2
<1>5. PICK m \in Alike : \A row \in Alike : row.version <= m.version
  <2>1. PICK v \in S : \A y \in S : y <= v
    <3> HIDE DEF S
    <3> QED
      BY Zenon, <1>3, <1>4, FiniteGreatest
  <2> QED
    BY <2>1
<1>6. m.version >= version
  BY <1>2, <1>4, <1>5
<1>7. Survives(m)
  <2>1. ASSUME NEW q \in table \ {m}, q.key = m.key PROVE q.version < m.version
    <3>1. q \in Alike
      BY Zenon, <1>2, <1>5, <2>1
    <3>2. q.manifest = m.manifest
      BY Zenon, <1>2, <1>5, <3>1
    <3>3. q.version # m.version
      BY Zenon, <1>2, <1>5, <2>1, <3>1, <3>2
    <3> QED
      BY <1>2, <1>5, <3>1, <3>3
  <2> QED
    BY Zenon, <2>1 DEF Survives
<1> QED
  BY <1>2, <1>5, <1>6, <1>7 DEF Stands

(* "a replay after a row-mapping change resolves to the new mapping"       *)
(* (logs.rs:347), for any sequence of configurations, replays and late     *)
(* requests, as long as the table is fed from one manifest.                *)
THEOREM ReplayResolvesToNewest ==
  ASSUME OneManifestPerKey
  PROVE  Spec => []NewestMappingStands
<1>1. IInv => NewestMappingStands
  <2>1. ASSUME IInv, NEW a \in acked, NEW r \in RecordsIn(a.commit)
        PROVE  Stands(r, a.version)
    <3>1. a.commit \in Commits /\ a.version \in Nat
      BY <2>1 DEF IInv, TypeOK
    <3>2. \E row \in table : row.manifest = r.manifest /\ row.key = r.key /\ row.version = a.version
      BY Zenon, <2>1 DEF IInv, AckedIsInTable
    <3> QED
      BY <2>1, <3>1, <3>2, NewestSurvives
  <2> QED
    BY Zenon, <2>1 DEF NewestMappingStands
<1> QED
  BY <1>1, SinkInvariant, PTL

(* Ok from write means that the whole commit is visible in the table       *)
(* (sink.rs of the runtime, line 134), then and ever after, as long as the *)
(* table is fed from one manifest.                                         *)
THEOREM OkMeansVisible ==
  ASSUME OneManifestPerKey
  PROVE  Spec => []CommittedIsVisible
<1>1. IInv /\ NewestMappingStands => CommittedIsVisible
  <2>1. ASSUME IInv, NewestMappingStands, NEW a \in acked, NEW r \in RecordsIn(a.commit)
        PROVE  Stands(r, 0)
    <3>1. a.version \in Nat /\ table \subseteq LogRows
      BY <2>1 DEF IInv, TypeOK
    <3>2. PICK row \in table : /\ row.manifest = r.manifest /\ row.key = r.key
                               /\ row.version >= a.version /\ Survives(row)
      BY Zenon, <2>1 DEF NewestMappingStands, Stands
    <3>3. row.version \in Nat
      <4>1. PICK g \in Configs : row.version = g.version
        BY <3>1, <3>2 DEF LogRows, LogRow
      <4> QED
        BY <4>1, SinkAssumption
    <3>4. row.version >= 0
      BY <3>3
    <3> QED
      BY Zenon, <3>2, <3>4 DEF Stands
  <2> QED
    BY Zenon, <2>1 DEF CommittedIsVisible
<1> QED
  BY <1>1, SinkInvariant, ReplayResolvesToNewest, PTL
=============================================================================
