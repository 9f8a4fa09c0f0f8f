-------------------------- MODULE LiveStreamProofs --------------------------
(***************************************************************************)
(* The invariants of the metric store and of a dashboard's chart, for any  *)
(* number of workers, width of a bucket, grace, capacity of the ring and   *)
(* bounds on time.                                                         *)
(***************************************************************************)
EXTENDS LiveStream, FiniteSetTheorems, SequenceTheorems, WellFoundedInduction, TLAPS

(***************************************************************************)
(* The index of the bucket of a time.                                      *)
(***************************************************************************)
LEMMA Widths ==
    /\ Resolution \in Nat \ {0} /\ Capacity \in Nat \ {0} /\ LateGrace \in Nat /\ MaxLag \in Nat
    /\ Settle \in Nat /\ Start \in Nat /\ MaxTime \in Nat /\ LateGrace + Resolution <= Start /\ Start <= MaxTime
BY StoreAssumption DEF StoreAssumption

LEMMA Apart ==
    ASSUME NEW a \in Int, NEW b \in Int, a < b
    PROVE  a * Resolution + Resolution <= b * Resolution
<1>. DEFINE R == Resolution
<1>1. R \in Nat \ {0}
  BY Widths
<1>. HIDE DEF R
<1>2. b - a - 1 \in Nat
  OBVIOUS
<1>3. (b - a - 1) * R >= 0
  BY <1>1, <1>2
<1>4. (b - a - 1) * R = b * R - a * R - R
  BY <1>1
<1>5. b * R \in Int /\ a * R \in Int
  BY <1>1
<1>6. a * R + R <= b * R
  BY <1>1, <1>3, <1>4, <1>5
<1>. QED BY <1>6 DEF R

LEMMA Index ==
    ASSUME NEW t \in Int
    PROVE  /\ indexOf(t) \in Int
           /\ indexOf(t) * Resolution \in Int
           /\ indexOf(t) * Resolution <= t
           /\ t < indexOf(t) * Resolution + Resolution
<1>1. \A x \in Int, y \in Nat \ {0} :
         /\ x \div y \in Int /\ (x \div y) * y \in Int
         /\ (x \div y) * y <= x /\ x < (x \div y) * y + y
  OBVIOUS
<1>2. Resolution \in Nat \ {0}
  BY Widths
<1>. QED BY <1>1, <1>2 DEF indexOf

LEMMA IndexIs ==
    ASSUME NEW t \in Int, NEW k \in Int, k * Resolution <= t, t < k * Resolution + Resolution
    PROVE  indexOf(t) = k
<1>. DEFINE i == indexOf(t)
<1>1. i \in Int /\ i * Resolution \in Int /\ i * Resolution <= t /\ t < i * Resolution + Resolution
  BY Index
<1>2. k * Resolution \in Int /\ Resolution \in Nat
  BY Widths
<1>. HIDE DEF i
<1>3. ~(i < k)
  <2>. SUFFICES ASSUME i < k PROVE FALSE
    OBVIOUS
  <2>1. i * Resolution + Resolution <= k * Resolution
    BY <1>1, Apart
  <2>. QED BY <1>1, <1>2, <2>1
<1>4. ~(k < i)
  <2>. SUFFICES ASSUME k < i PROVE FALSE
    OBVIOUS
  <2>1. k * Resolution + Resolution <= i * Resolution
    BY <1>1, Apart
  <2>. QED BY <1>1, <1>2, <2>1
<1>. QED BY <1>1, <1>3, <1>4 DEF i

LEMMA IndexOfStart ==
    ASSUME NEW k \in Int
    PROVE  indexOf(k * Resolution) = k
<1>1. k * Resolution \in Int /\ Resolution \in Nat \ {0}
  BY Widths
<1>2. k * Resolution <= k * Resolution /\ k * Resolution < k * Resolution + Resolution
  BY <1>1
<1>. QED BY <1>1, <1>2, IndexIs

LEMMA IndexMonotone ==
    ASSUME NEW t \in Int, NEW u \in Int, t <= u
    PROVE  indexOf(t) <= indexOf(u)
<1>. DEFINE i == indexOf(t)
            j == indexOf(u)
<1>1. i \in Int /\ i * Resolution \in Int /\ i * Resolution <= t
  BY Index
<1>2. j \in Int /\ j * Resolution \in Int /\ u < j * Resolution + Resolution
  BY Index
<1>3. Resolution \in Nat
  BY Widths
<1>. HIDE DEF i, j
<1>4. ~(j < i)
  <2>. SUFFICES ASSUME j < i PROVE FALSE
    OBVIOUS
  <2>1. j * Resolution + Resolution <= i * Resolution
    BY <1>1, <1>2, Apart
  <2>. QED BY <1>1, <1>2, <1>3, <2>1
<1>5. i <= j
  BY <1>1, <1>2, <1>4
<1>. QED BY <1>5 DEF i, j

(***************************************************************************)
(* Going round the ring.                                                   *)
(***************************************************************************)
LEMMA Wrap ==
    ASSUME NEW x \in Nat, x < Capacity + Capacity
    PROVE  x % Capacity = IF x < Capacity THEN x ELSE x - Capacity
<1>. DEFINE C == Capacity
            q == x \div C
            r == x % C
<1>1. C \in Nat \ {0}
  BY Widths
<1>2. q \in Nat /\ r \in 0 .. C - 1 /\ x = C * q + r
  <2>. HIDE DEF C
  <2>. QED BY <1>1
<1>3. x < C + C
  OBVIOUS
<1>. HIDE DEF C, q, r
<1>4. q < 2
  <2>. SUFFICES ASSUME q >= 2 PROVE FALSE
    BY <1>2
  <2>1. C * q >= C * 2
    BY <1>1, <1>2
  <2>. QED BY <1>1, <1>2, <1>3, <2>1
<1>5. q = 0 \/ q = 1
  BY <1>2, <1>4
<1>6. (q = 0 => x = r) /\ (q = 1 => x = C + r)
  BY <1>1, <1>2
<1>7. r = IF x < C THEN x ELSE x - C
  BY <1>1, <1>2, <1>5, <1>6
<1>. QED BY <1>7 DEF C, r

-----------------------------------------------------------------------------
(***************************************************************************)
(* Induction over the numbers, with a set of good numbers in place of a    *)
(* predicate.                                                              *)
(***************************************************************************)
LEMMA NumberInduction ==
    ASSUME NEW G, 0 \in G, \A k \in Nat : k \in G => k + 1 \in G
    PROVE  Nat \subseteq G
<1>. DEFINE Wrong == Nat \ G
<1>. SUFFICES ASSUME Wrong # {} PROVE FALSE
  OBVIOUS
<1>1. PICK m \in Wrong : \A k \in Wrong : <<k, m>> \notin OpToRel(<, Nat)
  <2>1. Wrong \subseteq Nat /\ Wrong # {}
    OBVIOUS
  <2>. HIDE DEF Wrong
  <2>. QED BY <2>1, NatLessThanWellFounded, WFMin, Zenon
<1>2. m # 0 /\ m \in Nat
  OBVIOUS
<1>3. m - 1 \in Nat /\ <<m - 1, m>> \in OpToRel(<, Nat)
  BY <1>2 DEF OpToRel
<1>4. (m - 1) + 1 \in G
  BY <1>1, <1>3
<1>. QED BY <1>2, <1>4

(***************************************************************************)
(* Buckets with different indexes, all below some number, can be listed in *)
(* their order.                                                            *)
(***************************************************************************)
Rising(q) == \A i, j \in DOMAIN q : i < j => q[i].idx < q[j].idx

Listed(T) == IsFiniteSet(T) /\ \E q \in [1 .. Cardinality(T) -> T] : Rising(q)

LEMMA ListedGrows ==
    ASSUME NEW U, Listed(U), NEW b, b \notin U, b.idx \in Nat,
           \A c \in U : c.idx \in Nat /\ c.idx < b.idx
    PROVE  Listed(U \cup {b})
<1>. DEFINE n == Cardinality(U)
            T == U \cup {b}
<1>1. IsFiniteSet(T) /\ Cardinality(T) = n + 1 /\ n \in Nat
  BY FS_AddElement, FS_CardinalityType DEF Listed
<1>2. PICK q \in [1 .. n -> U] : Rising(q)
  BY DEF Listed
<1>. DEFINE p == [i \in 1 .. n + 1 |-> IF i = n + 1 THEN b ELSE q[i]]
<1>. HIDE DEF n
<1>3. p \in [1 .. n + 1 -> T]
  BY <1>1
<1>4. ASSUME NEW i \in 1 .. n + 1, NEW j \in 1 .. n + 1, i < j PROVE p[i].idx < p[j].idx
  <2>1. i \in 1 .. n /\ p[i] = q[i] /\ q[i] \in U
    BY <1>1, <1>4
  <2>2. CASE j = n + 1
    BY <2>1, <2>2
  <2>3. CASE j # n + 1
    <3>1. j \in 1 .. n /\ p[j] = q[j]
      BY <1>1, <2>3
    <3>. QED BY <1>2, <1>4, <2>1, <3>1 DEF Rising
  <2>. QED BY <2>2, <2>3
<1>5. Rising(p)
  BY <1>4 DEF Rising
<1>. HIDE DEF p
<1>. QED BY <1>1, <1>3, <1>5 DEF Listed

LEMMA InOrderIs ==
    ASSUME NEW S, S \subseteq Bucket, \A b, c \in S : b.idx = c.idx => b = c,
           NEW m \in Nat, \A b \in S : b.idx < m
    PROVE  /\ InOrder(S) \in Seq(S)
           /\ Rising(InOrder(S))
<1>0. \A b \in S : b.idx \in Nat
  BY DEF Bucket
<1>. DEFINE G == {k \in Nat : \A T \in SUBSET S : (\A b \in T : b.idx < k) => Listed(T)}
<1>1. 0 \in G
  <2>. SUFFICES ASSUME NEW T \in SUBSET S, \A b \in T : b.idx < 0 PROVE Listed(T)
    OBVIOUS
  <2>1. T = {}
    BY <1>0
  <2>2. IsFiniteSet(T) /\ Cardinality(T) = 0
    BY <2>1, FS_EmptySet
  <2>3. [i \in 1 .. 0 |-> i] \in [1 .. Cardinality(T) -> T] /\ Rising([i \in 1 .. 0 |-> i])
    BY <2>2 DEF Rising
  <2>. QED BY <2>2, <2>3 DEF Listed
<1>2. ASSUME NEW k \in Nat, k \in G PROVE k + 1 \in G
  <2>. SUFFICES ASSUME NEW T \in SUBSET S, \A b \in T : b.idx < k + 1 PROVE Listed(T)
    OBVIOUS
  <2>. DEFINE U == {b \in T : b.idx < k}
  <2>1. Listed(U)
    BY <1>2
  <2>2. CASE T = U
    BY <2>1, <2>2
  <2>3. CASE T # U
    <3>1. PICK b \in T : b \notin U
      BY <2>3
    <3>2. b.idx = k
      BY <1>0, <3>1
    <3>3. T = U \cup {b}
      <4>1. ASSUME NEW c \in T, c \notin U PROVE c = b
        BY <1>0, <3>2, <4>1
      <4>. QED BY <4>1
    <3>4. b.idx \in Nat /\ \A c \in U : c.idx \in Nat /\ c.idx < b.idx
      BY <1>0, <3>2
    <3>. HIDE DEF U
    <3>. QED BY <2>1, <3>1, <3>3, <3>4, ListedGrows
  <2>. QED BY <2>2, <2>3
<1>. HIDE DEF G
<1>3. m \in G
  BY <1>1, <1>2, NumberInduction
<1>4. Listed(S)
  BY <1>3 DEF G
<1>5. PICK q \in [1 .. Cardinality(S) -> S] : Rising(q)
  BY <1>4 DEF Listed
<1>6. q \in SetToSeqs(S)
  <2>1. ASSUME NEW i \in 1 .. Cardinality(S), NEW j \in 1 .. Cardinality(S), i # j, q[i] = q[j] PROVE FALSE
    <3>1. (i < j \/ j < i) /\ q[i].idx \in Nat
      BY <1>0, <2>1
    <3>. QED BY <1>5, <2>1, <3>1 DEF Rising
  <2>. QED BY <2>1 DEF SetToSeqs
<1>7. InOrder(S) \in SetToSeqs(S) /\ Rising(InOrder(S))
  BY <1>5, <1>6 DEF InOrder, Rising
<1>8. Cardinality(S) \in Nat
  BY <1>4, FS_CardinalityType DEF Listed
<1>9. InOrder(S) \in [1 .. Cardinality(S) -> S]
  BY <1>7 DEF SetToSeqs
<1>. QED BY <1>7, <1>8, <1>9

-----------------------------------------------------------------------------
(***************************************************************************)
(* The ring holds the end of what was filed, and finalise keeps it so.     *)
(***************************************************************************)
StoreRecord ==
    [open : SUBSET Bucket, closed : [0 .. Capacity - 1 -> Bucket], head : 0 .. Capacity - 1,
     closedN : 0 .. Capacity, lastSeen : Nat, droppedLate : Nat]

Ring(s, f) ==
    /\ s.closedN = IF Len(f) < Capacity THEN Len(f) ELSE Capacity
    /\ s.closedN < Capacity => s.head = 0
    /\ \A i \in 1 .. s.closedN : s.closed[(s.head + i - 1) % Capacity] = f[Len(f) - s.closedN + i]

LEMMA FinaliseRing ==
    ASSUME NEW s \in StoreRecord, NEW b \in Bucket, NEW f \in Seq(Bucket), Ring(s, f)
    PROVE  /\ Finalise(s, b) \in StoreRecord
           /\ Finalise(s, b).open = s.open
           /\ Ring(Finalise(s, b), Append(f, b))
<1>. DEFINE C == Capacity
            z == Finalise(s, b)
            g == Append(f, b)
            M(x) == x % Capacity
<1>0. /\ C \in Nat \ {0} /\ Len(f) \in Nat /\ s.head \in 0 .. C - 1 /\ s.closedN \in 0 .. C
      /\ s.closed \in [0 .. C - 1 -> Bucket] /\ Len(g) = Len(f) + 1 /\ g[Len(f) + 1] = b
      /\ \A i \in 1 .. Len(f) : g[i] = f[i]
  BY Widths DEF StoreRecord
<1>w. \A x \in Nat : x < C + C => M(x) = IF x < C THEN x ELSE x - C
  BY Wrap
<1>r. /\ s.closedN = IF Len(f) < C THEN Len(f) ELSE C
      /\ s.closedN < C => s.head = 0
      /\ \A i \in 1 .. s.closedN : s.closed[M(s.head + i - 1)] = f[Len(f) - s.closedN + i]
  BY DEF Ring
<1>. HIDE DEF M
<1>s. ASSUME NEW c \in [0 .. C - 1 -> Bucket], NEW h \in 0 .. C - 1, NEW n \in 0 .. C,
             z = [s EXCEPT !.closed = c, !.head = h, !.closedN = n]
      PROVE  z \in StoreRecord /\ z.closed = c /\ z.head = h /\ z.closedN = n /\ z.open = s.open
  <2>. HIDE DEF z
  <2>. QED BY <1>s DEF StoreRecord
<1>1. CASE s.closedN = C
  <2>. DEFINE h == s.head
              h1 == M(h + 1)
              c1 == [s.closed EXCEPT ![h] = b]
  <2>1. z = [s EXCEPT !.closed = c1, !.head = h1, !.closedN = C]
    BY <1>1 DEF Finalise, StoreRecord, M
  <2>2. h1 = (IF h + 1 < C THEN h + 1 ELSE 0) /\ h1 \in 0 .. C - 1
    <3>1. h + 1 \in Nat /\ h + 1 < C + C /\ h \in 0 .. C - 1
      BY <1>0
    <3>2. h1 = IF h + 1 < C THEN h + 1 ELSE (h + 1) - C
      <4>. HIDE DEF C, h
      <4>. QED BY <1>w, <3>1
    <3>3. C \in Nat \ {0}
      BY <1>0
    <3>. HIDE DEF h1, h, C
    <3>. QED BY <3>1, <3>2, <3>3
  <2>3. c1 \in [0 .. C - 1 -> Bucket] /\ c1[h] = b /\ \A i \in 0 .. C - 1 : i # h => c1[i] = s.closed[i]
    BY <1>0
  <2>4. z \in StoreRecord /\ z.closed = c1 /\ z.head = h1 /\ z.closedN = C /\ z.open = s.open
    <3>. HIDE DEF c1, h1, z
    <3>1. C \in 0 .. C
      BY <1>0
    <3>. QED BY <1>s, <2>1, <2>2, <2>3, <3>1, ZenonT(40)
  <2>5. ASSUME NEW i \in 1 .. C PROVE c1[M(h1 + i - 1)] = g[Len(g) - C + i]
    <3>0. h1 + i - 1 \in Nat /\ h1 + i - 1 < C + C /\ h + i \in Nat /\ h \in 0 .. C - 1
      <4>1. C \in Nat \ {0} /\ h \in 0 .. C - 1
        BY <1>0
      <4>. HIDE DEF h1, h, C
      <4>. QED BY <2>2, <4>1
    <3>u. PICK u : u = h1 + i - 1
      OBVIOUS
    <3>v. PICK v : v = h + i
      OBVIOUS
    <3>t. u \in Nat /\ u < C + C /\ v \in Nat /\ v < C + C
      BY <1>0, <3>0, <3>u, <3>v
    <3>w. M(u) = (IF u < C THEN u ELSE u - C) /\ M(v) = (IF v < C THEN v ELSE v - C)
      <4>. HIDE DEF C
      <4>. QED BY <1>w, <3>t
    <3>1. CASE i = C
      <4>1. M(u) = h
        <5>1. CASE h + 1 < C
          <6>1. u = h + C
            BY <1>0, <2>2, <3>u, <3>1, <5>1
          <6>. QED BY <1>0, <3>t, <3>w, <6>1
        <5>2. CASE ~(h + 1 < C)
          <6>1. u = C - 1 /\ h = C - 1
            BY <1>0, <2>2, <3>u, <3>1, <5>2
          <6>. QED BY <1>0, <3>t, <3>w, <6>1
        <5>. QED BY <5>1, <5>2
      <4>. HIDE DEF h1, g, c1
      <4>. QED BY <1>0, <2>3, <3>u, <3>1, <4>1
    <3>2. CASE i # C
      <4>1. M(u) = M(v) /\ M(v) # h /\ M(v) \in 0 .. C - 1
        <5>1. CASE h + 1 < C
          <6>1. u = v
            BY <1>0, <2>2, <3>u, <3>v, <5>1
          <6>. QED BY <1>0, <3>2, <3>v, <3>t, <3>w, <6>1
        <5>2. CASE ~(h + 1 < C)
          <6>1. h1 = 0 /\ h + 1 = C
            BY <1>0, <2>2, <5>2
          <6>. HIDE DEF h1
          <6>3. C \in Nat /\ h \in Nat /\ i \in Nat
            BY <1>0
          <6>4. u = i - 1
            BY <3>u, <6>1, <6>3
          <6>5. v = C + i - 1
            <7>. HIDE DEF C, h
            <7>. QED BY <3>v, <6>1, <6>3
          <6>2. u = i - 1 /\ v = C + i - 1
            BY <6>4, <6>5
          <6>. QED BY <1>0, <3>t, <3>w, <3>2, <6>1, <6>2
        <5>. QED BY <5>1, <5>2
      <4>3. i + 1 \in 1 .. C /\ h + (i + 1) - 1 = v
        BY <1>0, <3>2, <3>v
      <4>4. s.closed[M(v)] = f[Len(f) - C + (i + 1)]
        BY <1>1, <1>r, <4>3
      <4>5. Len(g) - C + i = Len(f) - C + (i + 1) /\ Len(f) - C + (i + 1) \in 1 .. Len(f)
        BY <1>0, <1>1, <1>r, <3>2
      <4>. HIDE DEF c1, h1, g, h
      <4>. QED BY <1>0, <2>3, <3>u, <4>1, <4>4, <4>5
    <3>. QED BY <3>1, <3>2
  <2>6. C = IF Len(g) < C THEN Len(g) ELSE C
    BY <1>0, <1>1, <1>r
  <2>. HIDE DEF z, g, c1, h1
  <2>7. Ring(z, g)
    BY <2>4, <2>5, <2>6, <1>0 DEF Ring, M
  <2>. QED BY <2>4, <2>7 DEF z, g
<1>2. CASE s.closedN # C
  <2>. DEFINE n == s.closedN
              c1 == [s.closed EXCEPT ![n] = b]
  <2>0. n \in 0 .. C - 1 /\ s.head = 0 /\ n = Len(f)
    BY <1>0, <1>2, <1>r
  <2>1. z = [s EXCEPT !.closed = c1, !.head = 0, !.closedN = n + 1]
    <3>1. M(s.head + n) = n
      BY <1>0, <1>w, <2>0
    <3>2. (s.closedN = Capacity) = FALSE
      BY <1>2
    <3>3. z = [s EXCEPT !.closed = c1, !.closedN = n + 1]
      BY <3>1, <3>2 DEF Finalise, M
    <3>. HIDE DEF z, c1
    <3>. QED BY <2>0, <3>3 DEF StoreRecord
  <2>3. c1 \in [0 .. C - 1 -> Bucket] /\ c1[n] = b /\ \A i \in 0 .. C - 1 : i # n => c1[i] = s.closed[i]
    BY <1>0, <2>0
  <2>4. z \in StoreRecord /\ z.closed = c1 /\ z.head = 0 /\ z.closedN = n + 1 /\ z.open = s.open
    <3>1. 0 \in 0 .. C - 1 /\ n + 1 \in 0 .. C
      BY <1>0, <2>0
    <3>. HIDE DEF c1, z, n
    <3>. QED BY <1>s, <2>1, <2>3, <3>1
  <2>5. ASSUME NEW i \in 1 .. n + 1 PROVE c1[M(0 + i - 1)] = g[Len(g) - (n + 1) + i]
    <3>1. M(0 + i - 1) = i - 1 /\ i - 1 \in 0 .. C - 1
      BY <1>0, <1>w, <2>0
    <3>2. CASE i = n + 1
      BY <1>0, <2>0, <2>3, <3>1, <3>2
    <3>3. CASE i # n + 1
      <4>1. i \in 1 .. n /\ s.closed[M(0 + i - 1)] = f[Len(f) - n + i]
        BY <1>r, <2>0, <3>3
      <4>2. Len(g) - (n + 1) + i = i /\ Len(f) - n + i = i /\ i \in 1 .. Len(f)
        BY <1>0, <2>0, <4>1
      <4>. HIDE DEF c1, g, n
      <4>. QED BY <1>0, <2>3, <3>1, <3>3, <4>1, <4>2, SMTT(30)
    <3>. QED BY <3>2, <3>3
  <2>6. n + 1 = IF Len(g) < C THEN Len(g) ELSE C
    BY <1>0, <2>0
  <2>. HIDE DEF z, g, c1, n
  <2>7. Ring(z, g)
    BY <2>4, <2>5, <2>6, <1>0 DEF Ring, M
  <2>. QED BY <2>4, <2>7 DEF z, g
<1>. QED BY <1>1, <1>2

(***************************************************************************)
(* CloseStale files one bucket after another.                              *)
(***************************************************************************)
IsClosing(g, base, q, n) ==
    g = [k \in 0 .. n |-> IF k = 0 THEN base ELSE Finalise(g[k - 1], q[k])]

LEMMA ClosingEquation ==
    ASSUME NEW g, NEW base, NEW q, NEW n \in Nat, IsClosing(g, base, q, n)
    PROVE  g[0] = base /\ \A k \in 1 .. n : g[k] = Finalise(g[k - 1], q[k])
<1>. DEFINE r(k) == IF k = 0 THEN base ELSE Finalise(g[k - 1], q[k])
<1>1. g = [k \in 0 .. n |-> r(k)]
  BY DEF IsClosing
<1>. HIDE DEF r
<1>2. \A k \in 0 .. n : g[k] = r(k)
  BY <1>1
<1>3. 0 \in 0 .. n /\ \A k \in 1 .. n : k \in 0 .. n /\ k # 0
  OBVIOUS
<1>. QED BY <1>2, <1>3 DEF r

LEMMA ClosingExists ==
    ASSUME NEW base, NEW q
    PROVE  \A n \in Nat : \E g : IsClosing(g, base, q, n)
<1>. DEFINE G == {n \in Nat : \E g : IsClosing(g, base, q, n)}
<1>1. 0 \in G
  <2>. DEFINE g == [k \in 0 .. 0 |-> base]
              r(k) == IF k = 0 THEN base ELSE Finalise(g[k - 1], q[k])
  <2>1. \A k \in 0 .. 0 : r(k) = base
    OBVIOUS
  <2>2. g = [k \in 0 .. 0 |-> r(k)]
    <3>. HIDE DEF r
    <3>. QED BY <2>1
  <2>3. IsClosing(g, base, q, 0)
    BY <2>2 DEF IsClosing
  <2>. QED BY <2>3
<1>2. ASSUME NEW n \in Nat, n \in G PROVE n + 1 \in G
  <2>1. PICK f : IsClosing(f, base, q, n)
    BY <1>2
  <2>2. f[0] = base /\ \A k \in 1 .. n : f[k] = Finalise(f[k - 1], q[k])
    BY <2>1, ClosingEquation
  <2>. DEFINE g == [k \in 0 .. n + 1 |-> IF k = n + 1 THEN Finalise(f[n], q[n + 1]) ELSE f[k]]
              r(k) == IF k = 0 THEN base ELSE Finalise(g[k - 1], q[k])
  <2>3. \A k \in 0 .. n : g[k] = f[k]
    OBVIOUS
  <2>4. g[n + 1] = Finalise(f[n], q[n + 1]) /\ g = [k \in 0 .. n + 1 |-> g[k]]
    OBVIOUS
  <2>. HIDE DEF g
  <2>5. ASSUME NEW k \in 0 .. n + 1 PROVE g[k] = r(k)
    <3>1. CASE k = 0
      BY <2>2, <2>3, <3>1
    <3>2. CASE k \in 1 .. n
      <4>1. k # 0 /\ k - 1 \in 0 .. n /\ k \in 0 .. n
        BY <3>2
      <4>. QED BY <2>2, <2>3, <3>2, <4>1
    <3>3. CASE k = n + 1
      <4>1. k # 0 /\ k - 1 = n /\ n \in 0 .. n
        BY <3>3
      <4>2. g[n] = f[n]
        BY <2>3, <4>1
      <4>. QED BY <2>4, <3>3, <4>1, <4>2
    <3>. QED BY <3>1, <3>2, <3>3
  <2>6. g = [k \in 0 .. n + 1 |-> r(k)]
    <3>. HIDE DEF r
    <3>. QED BY <2>4, <2>5
  <2>7. IsClosing(g, base, q, n + 1)
    BY <2>6 DEF IsClosing
  <2>. QED BY <2>7
<1>. HIDE DEF G
<1>3. Nat \subseteq G
  BY <1>1, <1>2, NumberInduction
<1>. QED BY <1>3 DEF G

LEMMA AppendPrefix ==
    ASSUME NEW S, NEW f \in Seq(S), NEW q \in Seq(S), NEW k \in 0 .. Len(q) - 1
    PROVE  /\ f \o SubSeq(q, 1, k) \in Seq(S)
           /\ Append(f \o SubSeq(q, 1, k), q[k + 1]) = f \o SubSeq(q, 1, k + 1)
<1>. DEFINE a == SubSeq(q, 1, k)
            e == q[k + 1]
<1>1. a \in Seq(S) /\ <<e>> \in Seq(S)
  OBVIOUS
<1>2. SubSeq(q, 1, k + 1) = a \o <<e>>
  <2>1. 1 \in 1 .. Len(q) /\ k + 1 \in 1 .. Len(q) /\ (k + 1) - 1 = k
    OBVIOUS
  <2>2. SubSeq(q, 1, k + 1) = SubSeq(q, 1, (k + 1) - 1) \o <<q[k + 1]>>
    BY <2>1, SubSeqRecursiveSecond
  <2>. QED BY <2>1, <2>2
<1>. HIDE DEF a, e
<1>3. f \o a \in Seq(S) /\ (f \o a) \o <<e>> = f \o (a \o <<e>>)
  <2>1. f \o a \in Seq(S)
    BY <1>1, ConcatProperties
  <2>2. ASSUME NEW x \in Seq(S), NEW y \in Seq(S), NEW z \in Seq(S) PROVE (x \o y) \o z = x \o (y \o z)
    <3>. DEFINE l == (x \o y) \o z
                r == x \o (y \o z)
    <3>1. \A u, v \in Seq(S) :
             /\ u \o v \in Seq(S) /\ Len(u \o v) = Len(u) + Len(v)
             /\ \A i \in 1 .. Len(u) + Len(v) : (u \o v)[i] = IF i <= Len(u) THEN u[i] ELSE v[i - Len(u)]
      BY ConcatProperties
    <3>2. x \o y \in Seq(S) /\ y \o z \in Seq(S) /\ l \in Seq(S) /\ r \in Seq(S)
      BY <3>1
    <3>3. Len(l) = Len(r)
      BY <3>1, <3>2
    <3>4. ASSUME NEW i \in 1 .. Len(l) PROVE l[i] = r[i]
      BY <3>1, <3>2
    <3>. HIDE DEF l, r
    <3>5. l = r
      BY <3>2, <3>3, <3>4, SeqEqual
    <3>. QED BY <3>5 DEF l, r
  <2>. QED BY <1>1, <2>1, <2>2, ZenonT(40)
<1>4. \A x \in Seq(S) : Append(x, e) = x \o <<e>>
  <2>. SUFFICES ASSUME NEW x \in Seq(S) PROVE Append(x, e) = x \o <<e>>
    OBVIOUS
  <2>1. e \in S
    BY DEF e
  <2>. QED BY <1>1, <2>1, AppendIsConcat
<1>. QED BY <1>2, <1>3, <1>4 DEF a, e

LEMMA ClosingRing ==
    ASSUME NEW base \in StoreRecord, NEW f \in Seq(Bucket), Ring(base, f), NEW q \in Seq(Bucket),
           NEW g, IsClosing(g, base, q, Len(q))
    PROVE  /\ g[Len(q)] \in StoreRecord /\ g[Len(q)].open = base.open
           /\ Ring(g[Len(q)], f \o q)
<1>. DEFINE Fine(k) == /\ g[k] \in StoreRecord /\ g[k].open = base.open
                       /\ Ring(g[k], f \o SubSeq(q, 1, k))
            G == {k \in Nat : k <= Len(q) => Fine(k)}
<1>0. g[0] = base /\ \A k \in 1 .. Len(q) : g[k] = Finalise(g[k - 1], q[k])
  BY ClosingEquation
<1>1. 0 \in G
  <2>1. SubSeq(q, 1, 0) = <<>> /\ f \o <<>> = f
    OBVIOUS
  <2>. QED BY <1>0, <2>1
<1>2. ASSUME NEW k \in Nat, k \in G PROVE k + 1 \in G
  <2>. SUFFICES ASSUME k + 1 <= Len(q) PROVE Fine(k + 1)
    OBVIOUS
  <2>1. Fine(k) /\ k \in 0 .. Len(q) - 1 /\ k + 1 \in 1 .. Len(q) /\ (k + 1) - 1 = k
    BY <1>2
  <2>2. g[k + 1] = Finalise(g[k], q[k + 1]) /\ q[k + 1] \in Bucket
    BY <1>0, <2>1
  <2>. DEFINE h == f \o SubSeq(q, 1, k)
  <2>3. h \in Seq(Bucket) /\ Append(h, q[k + 1]) = f \o SubSeq(q, 1, k + 1)
    BY <2>1, AppendPrefix
  <2>. HIDE DEF h
  <2>4. /\ Finalise(g[k], q[k + 1]) \in StoreRecord
        /\ Finalise(g[k], q[k + 1]).open = g[k].open
        /\ Ring(Finalise(g[k], q[k + 1]), Append(h, q[k + 1]))
    BY <2>1, <2>2, <2>3, FinaliseRing DEF h
  <2>. QED BY <2>1, <2>2, <2>3, <2>4
<1>. HIDE DEF G
<1>3. Len(q) \in G
  BY <1>1, <1>2, NumberInduction
<1>4. Fine(Len(q))
  BY <1>3 DEF G
<1>5. SubSeq(q, 1, Len(q)) = q
  OBVIOUS
<1>. QED BY <1>4, <1>5

(***************************************************************************)
(* What the tick makes of the store.                                       *)
(***************************************************************************)
LEMMA CloseStaleIs ==
    ASSUME NEW s \in StoreRecord, NEW f \in Seq(Bucket), Ring(s, f), NEW t \in Nat, t >= LateGrace,
           \A b, c \in s.open : b.idx = c.idx => b = c
    PROVE  LET q == InOrder(Ready(s, t))
           IN  /\ q \in Seq(Ready(s, t)) /\ Rising(q)
               /\ CloseStale(s, t) \in StoreRecord
               /\ CloseStale(s, t).open = s.open \ Ready(s, t)
               /\ Ring(CloseStale(s, t), f \o q)
<1>. DEFINE S == Ready(s, t)
            q == InOrder(S)
            base == [s EXCEPT !.open = @ \ S]
            g == CHOOSE h : IsClosing(h, base, q, Len(q))
<1>1. S \subseteq s.open /\ s.open \subseteq Bucket
  BY DEF Ready, StoreRecord
<1>2. q \in Seq(S) /\ Rising(q)
  <2>1. indexOf(t - LateGrace) \in Nat
    <3>1. t - LateGrace \in Nat /\ 0 \in Int /\ 0 <= t - LateGrace
      BY Widths
    <3>2. indexOf(0) = 0
      <4>1. 0 * Resolution = 0
        BY Widths
      <4>. QED BY <4>1, IndexOfStart
    <3>3. indexOf(0) <= indexOf(t - LateGrace) /\ indexOf(t - LateGrace) \in Int
      BY <3>1, IndexMonotone, Index
    <3>. QED BY <3>2, <3>3
  <2>2. \A b \in S : b.idx < indexOf(t - LateGrace)
    BY DEF Ready
  <2>3. S \subseteq Bucket /\ \A b, c \in S : b.idx = c.idx => b = c
    BY <1>1
  <2>. HIDE DEF S
  <2>. QED BY <2>1, <2>2, <2>3, InOrderIs
<1>3. base \in StoreRecord /\ base.open = s.open \ S /\ Ring(base, f)
  <2>. HIDE DEF S
  <2>1. base \in StoreRecord /\ base.open = s.open \ S
    BY <1>1 DEF StoreRecord
  <2>2. base.closed = s.closed /\ base.closedN = s.closedN /\ base.head = s.head
    BY DEF StoreRecord
  <2>. HIDE DEF base
  <2>. QED BY <2>1, <2>2 DEF Ring
<1>4. q \in Seq(Bucket) /\ Len(q) \in Nat
  BY <1>1, <1>2
<1>5. CloseStale(s, t) = g[Len(q)]
  BY DEF CloseStale, IsClosing
<1>. HIDE DEF q, base, S
<1>6. IsClosing(g, base, q, Len(q))
  <2>1. \E h : IsClosing(h, base, q, Len(q))
    BY <1>4, ClosingExists
  <2>. QED BY <2>1
<1>. HIDE DEF g
<1>7. /\ g[Len(q)] \in StoreRecord /\ g[Len(q)].open = base.open
      /\ Ring(g[Len(q)], f \o q)
  BY <1>3, <1>4, <1>6, ClosingRing
<1>8. /\ q \in Seq(S) /\ Rising(q)
      /\ CloseStale(s, t) \in StoreRecord
      /\ CloseStale(s, t).open = s.open \ S
      /\ Ring(CloseStale(s, t), f \o q)
  BY <1>2, <1>3, <1>5, <1>7
<1>. QED BY <1>8 DEF q, S

(***************************************************************************)
(* The timeline is the end of the ring where the starts are beyond the     *)
(* watermark.                                                              *)
(***************************************************************************)
LEMMA RetainedIs ==
    ASSUME NEW s \in StoreRecord, NEW f \in Seq(Bucket), Ring(s, f)
    PROVE  /\ Retained(s) \in Seq(Bucket) /\ Len(Retained(s)) = s.closedN
           /\ \A i \in 1 .. s.closedN : Retained(s)[i] = f[Len(f) - s.closedN + i]
           /\ s.closedN = IF Len(f) < Capacity THEN Len(f) ELSE Capacity
<1>1. s.closedN \in Nat /\ s.closedN = IF Len(f) < Capacity THEN Len(f) ELSE Capacity
  BY Widths DEF Ring, StoreRecord
<1>2. \A i \in 1 .. s.closedN : s.closed[(s.head + i - 1) % Capacity] = f[Len(f) - s.closedN + i]
  BY DEF Ring
<1>3. \A i \in 1 .. s.closedN : f[Len(f) - s.closedN + i] \in Bucket
  <2>. SUFFICES ASSUME NEW i \in 1 .. s.closedN PROVE f[Len(f) - s.closedN + i] \in Bucket
    OBVIOUS
  <2>1. Len(f) \in Nat /\ Capacity \in Nat
    BY Widths
  <2>2. Len(f) - s.closedN + i \in 1 .. Len(f)
    BY <1>1, <2>1
  <2>. QED BY <2>2
<1>. DEFINE e(i) == s.closed[(s.head + i - 1) % Capacity]
<1>4. Retained(s) = [i \in 1 .. s.closedN |-> e(i)] /\ \A i \in 1 .. s.closedN : e(i) = f[Len(f) - s.closedN + i]
  BY <1>2 DEF Retained
<1>. HIDE DEF e
<1>5. \A i \in 1 .. s.closedN : e(i) \in Bucket
  BY <1>3, <1>4
<1>6. Retained(s) \in Seq(Bucket) /\ Len(Retained(s)) = s.closedN
  <2>1. s.closedN \in Nat /\ Retained(s) = [i \in 1 .. s.closedN |-> e(i)]
    BY <1>1, <1>4
  <2>2. Retained(s) \in [1 .. s.closedN -> Bucket]
    BY <1>5, <2>1
  <2>. QED BY ONLY <2>1, <2>2
<1>. QED BY <1>1, <1>4, <1>6

LEMMA KeptIs ==
    ASSUME NEW S, NEW q \in Seq(S), NEW p \in 0 .. Len(q)
    PROVE  /\ Kept(q, p + 1 .. Len(q)) \in Seq(S)
           /\ Len(Kept(q, p + 1 .. Len(q))) = Len(q) - p
           /\ \A k \in 1 .. Len(q) - p : Kept(q, p + 1 .. Len(q))[k] = q[p + k]
<1>. DEFINE D == p + 1 .. Len(q)
            at(k) == CHOOSE i \in D : Cardinality({j \in D : j <= i}) = k
<1>1. Cardinality(D) = Len(q) - p
  <2>1. p + 1 \in Int /\ Len(q) \in Int
    OBVIOUS
  <2>2. Cardinality(D) = IF p + 1 > Len(q) THEN 0 ELSE Len(q) - (p + 1) + 1
    BY <2>1, FS_Interval
  <2>. QED BY <2>2
<1>2. ASSUME NEW i \in D PROVE Cardinality({j \in D : j <= i}) = i - p
  <2>1. {j \in D : j <= i} = p + 1 .. i
    OBVIOUS
  <2>2. Cardinality(p + 1 .. i) = i - p
    BY FS_Interval
  <2>. QED BY <2>1, <2>2
<1>3. ASSUME NEW k \in 1 .. Len(q) - p PROVE at(k) = p + k
  <2>1. p + k \in D /\ (p + k) - p = k
    OBVIOUS
  <2>2. ASSUME NEW i \in D, Cardinality({j \in D : j <= i}) = k PROVE i = p + k
    <3>1. i - p = k
      BY <1>2, <2>2
    <3>. QED BY <3>1
  <2>3. Cardinality({j \in D : j <= p + k}) = k
    BY <1>2, <2>1
  <2>. HIDE DEF D
  <2>4. at(k) \in D /\ Cardinality({j \in D : j <= at(k)}) = k
    BY <2>1, <2>3
  <2>. HIDE DEF at
  <2>. QED BY <2>2, <2>4
<1>4. Kept(q, D) = [k \in 1 .. Cardinality(D) |-> q[at(k)]]
  BY DEF Kept
<1>. HIDE DEF at, D
<1>5. Kept(q, D) = [k \in 1 .. Len(q) - p |-> q[p + k]]
  BY <1>1, <1>3, <1>4
<1>6. Len(q) - p \in Nat /\ \A k \in 1 .. Len(q) - p : q[p + k] \in S
  OBVIOUS
<1>7. /\ Kept(q, D) \in Seq(S) /\ Len(Kept(q, D)) = Len(q) - p
      /\ \A k \in 1 .. Len(q) - p : Kept(q, D)[k] = q[p + k]
  BY <1>5, <1>6
<1>. QED BY <1>7 DEF D

LEMMA TimelineIs ==
    ASSUME NEW s \in StoreRecord, NEW f \in Seq(Bucket), Ring(s, f), NEW since \in Nat,
           NEW old \in 0 .. Len(f),
           \A i \in 1 .. Len(f) : f[i].idx * Resolution > since <=> i > old
    PROVE  LET n == Len(f) - s.closedN
               first == IF old > n THEN old ELSE n
           IN  /\ Timeline(s, since) \in Seq(Bucket)
               /\ Len(Timeline(s, since)) = Len(f) - first
               /\ \A k \in 1 .. Len(f) - first : Timeline(s, since)[k] = f[first + k]
               /\ n \in Nat /\ n = IF Len(f) < Capacity THEN 0 ELSE Len(f) - Capacity
<1>. DEFINE n == Len(f) - s.closedN
            first == IF old > n THEN old ELSE n
            all == Retained(s)
            p == first - n
            D == {i \in DOMAIN all : all[i].idx * Resolution > since}
<1>0. s.closedN \in Nat /\ Len(f) \in Nat
  BY Widths DEF StoreRecord
<1>1. /\ all \in Seq(Bucket) /\ Len(all) = s.closedN
      /\ \A i \in 1 .. s.closedN : all[i] = f[n + i]
      /\ s.closedN = IF Len(f) < Capacity THEN Len(f) ELSE Capacity
  BY RetainedIs
<1>2. n \in Nat /\ n = (IF Len(f) < Capacity THEN 0 ELSE Len(f) - Capacity) /\ Len(f) = n + s.closedN
  BY <1>1, Widths
<1>3. first \in Nat /\ p \in 0 .. s.closedN
  <2>1. n \in Nat /\ s.closedN \in Nat /\ old \in 0 .. n + s.closedN
    BY <1>1, <1>2, Widths
  <2>. HIDE DEF n
  <2>. QED BY <2>1
<1>. HIDE DEF all, first, n
<1>4. D = p + 1 .. Len(all)
  <2>1. DOMAIN all = 1 .. Len(all)
    BY <1>1
  <2>2. ASSUME NEW i \in 1 .. Len(all) PROVE all[i].idx * Resolution > since <=> i > p
    <3>1. all[i] = f[n + i] /\ n + i \in 1 .. Len(f)
      BY <1>1, <1>2, SMTT(30)
    <3>2. all[i].idx * Resolution > since <=> n + i > old
      BY <3>1
    <3>3. n + i > old <=> i > p
      BY <1>2, <1>3 DEF first
    <3>. QED BY <3>2, <3>3
  <2>3. \A i \in 1 .. Len(all) : i \in D <=> i \in p + 1 .. Len(all)
    BY <1>3, <2>1, <2>2
  <2>. QED BY <1>3, <2>1, <2>3
<1>5. Timeline(s, since) = Kept(all, D)
  BY DEF Timeline, all
<1>. HIDE DEF D
<1>. DEFINE tl == Timeline(s, since)
<1>6. /\ tl \in Seq(Bucket) /\ Len(tl) = Len(all) - p
      /\ \A k \in 1 .. Len(all) - p : tl[k] = all[p + k]
  <2>. HIDE DEF p
  <2>1. p \in 0 .. Len(all)
    BY <1>1, <1>3
  <2>2. tl = Kept(all, p + 1 .. Len(all))
    BY <1>4, <1>5
  <2>. HIDE DEF tl
  <2>. QED BY <1>1, <2>1, <2>2, KeptIs
<1>. HIDE DEF tl
<1>7. Len(all) - p = Len(f) - first
  BY <1>1, <1>2, <1>3
<1>8. ASSUME NEW k \in 1 .. Len(f) - first PROVE tl[k] = f[first + k]
  <2>1. k \in 1 .. Len(all) - p /\ p + k \in 1 .. s.closedN /\ n + (p + k) = first + k
    <3>1. Len(f) = n + s.closedN /\ Len(all) = s.closedN
      BY <1>1, <1>2
    <3>2. n \in Nat /\ first \in Nat /\ first - n \in 0 .. s.closedN
      BY <1>2, <1>3
    <3>3. k \in 1 .. s.closedN - (first - n)
      BY <1>7, <3>1
    <3>. QED BY <1>0, <3>1, <3>2, <3>3
  <2>. QED BY <1>1, <1>6, <2>1
<1>. QED BY <1>2, <1>6, <1>7, <1>8 DEF first, n, tl

(***************************************************************************)
(* Whatever positions it keeps, Kept picks elements of its sequence.       *)
(***************************************************************************)
Ranked(D) == \A k \in 1 .. Cardinality(D) : \E i \in D : Cardinality({j \in D : j <= i}) = k

LEMMA PositionsRanked ==
    ASSUME NEW n \in Nat, NEW D \in SUBSET (1 .. n)
    PROVE  IsFiniteSet(D) /\ Cardinality(D) \in Nat /\ Ranked(D)
<1>. DEFINE G == {m \in Nat : \A E \in SUBSET (1 .. m) : Ranked(E)}
<1>f. ASSUME NEW m \in Nat, NEW E \in SUBSET (1 .. m) PROVE IsFiniteSet(E) /\ Cardinality(E) \in Nat
  <2>1. IsFiniteSet(1 .. m)
    BY FS_Interval
  <2>. QED BY <2>1, FS_Subset, FS_CardinalityType
<1>1. 0 \in G
  <2>. SUFFICES ASSUME NEW E \in SUBSET (1 .. 0) PROVE Ranked(E)
    OBVIOUS
  <2>0. E = {}
    OBVIOUS
  <2>1. E = {} /\ Cardinality(E) = 0
    BY <2>0, FS_EmptySet
  <2>. QED BY <2>1 DEF Ranked
<1>2. ASSUME NEW m \in Nat, m \in G PROVE m + 1 \in G
  <2>. SUFFICES ASSUME NEW E \in SUBSET (1 .. m + 1) PROVE Ranked(E)
    OBVIOUS
  <2>. DEFINE F == E \ {m + 1}
  <2>1. F \in SUBSET (1 .. m)
    OBVIOUS
  <2>2. Ranked(F) /\ IsFiniteSet(F) /\ Cardinality(F) \in Nat
    BY <1>2, <1>f, <2>1
  <2>3. CASE m + 1 \notin E
    <3>1. F = E
      BY <2>3
    <3>. QED BY <2>2, <3>1
  <2>4. CASE m + 1 \in E
    <3>1. E = F \cup {m + 1} /\ m + 1 \notin F
      BY <2>4
    <3>2. Cardinality(E) = Cardinality(F) + 1
      <4>. HIDE DEF F
      <4>. QED BY <2>2, <3>1, FS_AddElement
    <3>3. ASSUME NEW k \in 1 .. Cardinality(E) PROVE \E i \in E : Cardinality({j \in E : j <= i}) = k
      <4>1. CASE k = Cardinality(E)
        <5>1. {j \in E : j <= m + 1} = E
          <6>1. \A j \in E : j <= m + 1
            OBVIOUS
          <6>. QED BY <6>1
        <5>. QED BY <2>4, <4>1, <5>1
      <4>2. CASE k # Cardinality(E)
        <5>1. k \in 1 .. Cardinality(F)
          BY <2>2, <3>2, <4>2
        <5>2. PICK i \in F : Cardinality({j \in F : j <= i}) = k
          BY <2>2, <5>1 DEF Ranked
        <5>3. {j \in E : j <= i} = {j \in F : j <= i} /\ i \in E
          BY <2>1, <5>2
        <5>. QED BY <5>2, <5>3
      <4>. QED BY <4>1, <4>2
    <3>. QED BY <3>3 DEF Ranked
  <2>. QED BY <2>3, <2>4
<1>. HIDE DEF G
<1>3. n \in G
  BY <1>1, <1>2, NumberInduction
<1>4. Ranked(D)
  BY <1>3 DEF G
<1>. QED BY <1>f, <1>4

LEMMA KeptTyped ==
    ASSUME NEW S, NEW q \in Seq(S), NEW D \in SUBSET (1 .. Len(q))
    PROVE  Kept(q, D) \in Seq(S)
<1>. DEFINE at(k) == CHOOSE i \in D : Cardinality({j \in D : j <= i}) = k
<1>1. Cardinality(D) \in Nat /\ Ranked(D)
  <2>1. Len(q) \in Nat
    OBVIOUS
  <2>. QED BY <2>1, PositionsRanked
<1>2. \A k \in 1 .. Cardinality(D) : at(k) \in D
  BY <1>1 DEF Ranked
<1>3. Kept(q, D) = [k \in 1 .. Cardinality(D) |-> q[at(k)]]
  BY DEF Kept
<1>. HIDE DEF at
<1>4. \A k \in 1 .. Cardinality(D) : q[at(k)] \in S
  <2>1. \A i \in D : q[i] \in S
    OBVIOUS
  <2>. QED BY <1>2, <2>1
<1>. QED BY <1>1, <1>3, <1>4

LEMMA TimelineTyped ==
    ASSUME NEW s \in StoreRecord, NEW f \in Seq(Bucket), Ring(s, f), NEW since
    PROVE  Timeline(s, since) \in Seq(Bucket)
<1>. DEFINE all == Retained(s)
            D == {i \in DOMAIN all : all[i].idx * Resolution > since}
<1>1. all \in Seq(Bucket)
  BY RetainedIs
<1>2. Timeline(s, since) = Kept(all, D)
  BY DEF Timeline
<1>. HIDE DEF all
<1>3. D \in SUBSET (1 .. Len(all))
  BY <1>1
<1>. HIDE DEF D
<1>. QED BY <1>1, <1>2, <1>3, KeptTyped

(***************************************************************************)
(* The largest of a number and a list of numbers.                          *)
(***************************************************************************)
LEMMA LargestIn ==
    ASSUME NEW p \in Nat, NEW q \in Seq(Nat)
    PROVE  LET S == {p} \cup ToSet(q)
           IN  Max(S) \in S /\ Max(S) \in Nat /\ \A x \in S : x <= Max(S)
<1>. DEFINE Up(n) == {p} \cup {q[i] : i \in 1 .. n}
            Has(n) == \E m \in Up(n) : \A x \in Up(n) : x <= m
            G == {n \in Nat : n <= Len(q) => Has(n)}
<1>0. \A n \in Nat : n <= Len(q) => Up(n) \subseteq Nat
  OBVIOUS
<1>1. 0 \in G
  <2>1. Up(0) = {p}
    OBVIOUS
  <2>. HIDE DEF Up
  <2>2. Has(0)
    BY <2>1
  <2>. HIDE DEF Has
  <2>. QED BY <2>2
<1>2. ASSUME NEW n \in Nat, n \in G PROVE n + 1 \in G
  <2>. SUFFICES ASSUME n + 1 <= Len(q) PROVE Has(n + 1)
    OBVIOUS
  <2>1. Up(n + 1) = Up(n) \cup {q[n + 1]} /\ q[n + 1] \in Nat
    <3>1. \A i \in 1 .. n + 1 : i \in 1 .. n \/ i = n + 1
      OBVIOUS
    <3>2. q[n + 1] \in Nat /\ \A i \in 1 .. n : i \in 1 .. n + 1
      OBVIOUS
    <3>. QED BY <3>1, <3>2
  <2>2. PICK m \in Up(n) : \A x \in Up(n) : x <= m
    BY <1>2
  <2>3. Up(n) \subseteq Nat
    BY <1>0
  <2>. HIDE DEF Up
  <2>4. CASE q[n + 1] <= m
    BY <2>1, <2>2, <2>3, <2>4
  <2>5. CASE ~(q[n + 1] <= m)
    <3>1. m \in Nat /\ m < q[n + 1]
      BY <2>1, <2>2, <2>3, <2>5
    <3>2. \A x \in Up(n + 1) : x <= q[n + 1]
      BY <2>1, <2>2, <2>3, <3>1
    <3>. QED BY <2>1, <3>2
  <2>. QED BY <2>4, <2>5
<1>3. Nat \subseteq G
  <2>. HIDE DEF G
  <2>. QED BY <1>1, <1>2, NumberInduction
<1>4. Len(q) \in Nat /\ Has(Len(q)) /\ Up(Len(q)) \subseteq Nat
  <2>. HIDE DEF Has, Up
  <2>. QED BY <1>0, <1>3
<1>5. Up(Len(q)) = {p} \cup ToSet(q)
  BY DEF ToSet
<1>. DEFINE S == Up(Len(q))
<1>6. \E m \in S : \A x \in S : x <= m
  BY <1>4
<1>7. S \subseteq Nat
  BY <1>4
<1>. HIDE DEF S
<1>8. \E m \in S : \A x \in S : m >= x
  BY <1>6, <1>7
<1>9. Max(S) \in S /\ \A x \in S : Max(S) >= x
  BY <1>8 DEF Max
<1>10. Max(S) \in S /\ Max(S) \in Nat /\ \A x \in S : x <= Max(S)
  BY <1>7, <1>9
<1>. QED BY <1>5, <1>10 DEF S

-----------------------------------------------------------------------------
(***************************************************************************)
(* The starts of buckets: multiples of the resolution.                     *)
(***************************************************************************)
Starts == {k * Resolution : k \in Nat \ {0}}

LEMMA StartIs ==
    ASSUME NEW s \in Starts
    PROVE  /\ s \in Nat /\ s >= Resolution /\ s + Resolution \in Starts /\ s + Resolution \in Nat
           /\ indexOf(s) \in Nat \ {0} /\ indexOf(s) * Resolution = s
<1>1. PICK k \in Nat \ {0} : s = k * Resolution
  BY DEF Starts
<1>2. Resolution \in Nat \ {0}
  BY Widths
<1>3. s \in Nat
  BY <1>1, <1>2
<1>4. s >= Resolution
  <2>1. 0 * Resolution + Resolution <= k * Resolution
    BY Apart
  <2>. QED BY <1>1, <1>2, <2>1
<1>5. s + Resolution \in Starts
  <2>1. s + Resolution = (k + 1) * Resolution /\ k + 1 \in Nat \ {0}
    BY <1>1, <1>2
  <2>. QED BY <2>1 DEF Starts
<1>6. indexOf(s) = k
  BY <1>1, IndexOfStart
<1>. QED BY <1>1, <1>2, <1>3, <1>4, <1>5, <1>6

LEMMA TruncateIs ==
    ASSUME NEW t \in Nat, t >= Resolution
    PROVE  /\ Truncate(t) \in Starts /\ Truncate(t) <= t /\ t < Truncate(t) + Resolution
           /\ indexOf(Truncate(t)) = indexOf(t)
<1>. DEFINE i == indexOf(t)
<1>1. i \in Int /\ i * Resolution \in Int /\ i * Resolution <= t /\ t < i * Resolution + Resolution
  BY Index
<1>2. indexOf(1 * Resolution) = 1 /\ 1 * Resolution = Resolution /\ Resolution \in Nat
  BY Widths, IndexOfStart
<1>3. 1 <= i
  BY <1>2, IndexMonotone
<1>4. indexOf(i * Resolution) = i
  BY <1>1, IndexOfStart
<1>5. Truncate(t) = i * Resolution
  BY DEF Truncate
<1>. HIDE DEF i
<1>6. i \in Nat \ {0}
  BY <1>1, <1>3
<1>7. i * Resolution \in Starts
  BY <1>6 DEF Starts
<1>. QED BY <1>1, <1>4, <1>5, <1>7 DEF i

(***************************************************************************)
(* Ingest adds to a bucket or opens one, and leaves the ring alone.        *)
(***************************************************************************)
Sound(s) ==
    /\ s \in StoreRecord
    /\ \A b \in s.open : b.idx > 0
    /\ \A b, c \in s.open : b.idx = c.idx => b = c

LEMMA IngestIs ==
    ASSUME NEW s, Sound(s), NEW n \in Node, NEW start \in Starts
    PROVE  LET z == Ingest(s, n, start)
           IN  /\ Sound(z)
               /\ z.closed = s.closed /\ z.head = s.head /\ z.closedN = s.closedN
               /\ \A b \in z.open : b \in s.open \/ b.idx = indexOf(start)
<1>. DEFINE i == indexOf(start)
            new == IF start > s.lastSeen THEN start ELSE s.lastSeen
            seen == [s EXCEPT !.lastSeen = new]
            z == Ingest(s, n, start)
<1>1. i \in Nat \ {0} /\ start \in Nat
  BY StartIs
<1>2. seen \in StoreRecord /\ seen.open = s.open /\ seen.closed = s.closed /\ seen.head = s.head
      /\ seen.closedN = s.closedN
  BY <1>1 DEF Sound, StoreRecord
<1>3. z = IF Refused(seen, i) THEN [seen EXCEPT !.droppedLate = @ + 1] ELSE Merged(seen, i, n)
  BY DEF Ingest
<1>. HIDE DEF z, seen, i
<1>4. CASE Refused(seen, i)
  <2>1. z = [seen EXCEPT !.droppedLate = @ + 1]
    BY <1>3, <1>4
  <2>2. z \in StoreRecord /\ z.open = seen.open /\ z.closed = seen.closed /\ z.head = seen.head
        /\ z.closedN = seen.closedN
    BY <1>2, <2>1 DEF StoreRecord
  <2>3. Sound(z)
    BY <1>2, <2>2 DEF Sound
  <2>. QED BY <1>2, <2>2, <2>3 DEF z, i
<1>5. CASE ~Refused(seen, i)
  <2>. DEFINE old == OpenAt(seen, i)
              from == (UNION {b.from : b \in old}) \cup {n}
              new1 == [idx |-> i, from |-> from]
              open1 == (seen.open \ old) \cup {new1}
  <2>1. z = [seen EXCEPT !.open = open1]
    <3>1. z = Merged(seen, i, n)
      BY <1>3, <1>5
    <3>2. Merged(seen, i, n) = [seen EXCEPT !.open = open1]
      BY DEF Merged
    <3>. QED BY <3>1, <3>2
  <2>2. old \subseteq s.open /\ s.open \subseteq Bucket
    BY <1>2 DEF OpenAt, Sound, StoreRecord
  <2>3. from \in SUBSET Node
    <3>1. \A b \in old : b.from \subseteq Node
      BY <2>2 DEF Bucket
    <3>. HIDE DEF old
    <3>. QED BY <3>1
  <2>4. new1 \in Bucket /\ new1.idx = i
    <3>. HIDE DEF from
    <3>. QED BY <1>1, <2>3 DEF Bucket
  <2>5. \A b \in s.open : b.idx = i <=> b \in old
    BY <1>2 DEF OpenAt
  <2>. HIDE DEF new1, old
  <2>6. open1 \subseteq Bucket /\ \A b \in open1 : (b \in s.open /\ b.idx # i) \/ b = new1
    BY <1>2, <2>2, <2>4, <2>5
  <2>. HIDE DEF open1
  <2>7. z \in StoreRecord /\ z.open = open1 /\ z.closed = seen.closed /\ z.head = seen.head
        /\ z.closedN = seen.closedN
    BY <1>2, <2>1, <2>6 DEF StoreRecord
  <2>8. \A b \in z.open : b.idx > 0
    BY <1>1, <2>4, <2>6, <2>7 DEF Sound
  <2>9. \A b, c \in z.open : b.idx = c.idx => b = c
    BY <2>4, <2>6, <2>7 DEF Sound
  <2>10. \A b \in z.open : b \in s.open \/ b.idx = i
    BY <2>4, <2>6, <2>7
  <2>. QED BY <1>2, <2>7, <2>8, <2>9, <2>10 DEF Sound, z, i
<1>. QED BY <1>4, <1>5

-----------------------------------------------------------------------------
(***************************************************************************)
(* The types, as an induction carries them: the ring belongs to what has   *)
(* been filed, no index is open twice, and the next tick is near.          *)
(***************************************************************************)
Types ==
    /\ now \in Start .. MaxTime /\ endedAt \in Nat /\ published \in Nat
    /\ due \in Nat /\ due >= Start + Resolution
    /\ next \in [Node -> {Stopped} \cup {s + Resolution : s \in Starts}]
    /\ inflight \in [Node -> Seq(Starts)]
    /\ Sound(store)
    /\ phase \in {"running", "ended", "replaced"}
    /\ filed \in Seq(Bucket) /\ stream \in Seq(Nat) /\ late \subseteq Nat /\ lag \in Nat
    /\ \A i \in 1 .. Len(filed) : filed[i].idx > 0
    /\ Ring(store, filed)
    /\ due <= now + Resolution

LEMMA InitTypes == Init => Types
<1>. SUFFICES ASSUME Init PROVE Types
  OBVIOUS
<1>1. Start \in Start .. MaxTime /\ Start + Resolution \in Nat /\ Start >= Resolution
      /\ Resolution \in Nat \ {0} /\ Capacity \in Nat \ {0}
  BY Widths
<1>2. Truncate(Start) \in Starts
  BY <1>1, Widths, TruncateIs
<1>3. NewStore \in StoreRecord /\ NewStore.open = {} /\ NewStore.closedN = 0 /\ NewStore.head = 0
  <2>1. NoBucket \in Bucket
    BY DEF NoBucket, Bucket
  <2>2. [i \in 0 .. Capacity - 1 |-> NoBucket] \in [0 .. Capacity - 1 -> Bucket]
    BY <2>1
  <2>. QED BY <1>1, <2>2 DEF NewStore, StoreRecord
<1>4. Sound(NewStore) /\ Ring(NewStore, <<>>)
  <2>. HIDE DEF NewStore
  <2>. QED BY <1>1, <1>3 DEF Sound, Ring
<1>5. next \in [Node -> {Stopped} \cup {s + Resolution : s \in Starts}] /\ inflight \in [Node -> Seq(Starts)]
  BY <1>2 DEF Init
<1>. QED BY <1>1, <1>4, <1>5 DEF Init, Types

LEMMA FollowingIs ==
    ASSUME Types, NEW n \in Node, next[n] # Stopped
    PROVE  /\ next[n] - Resolution \in Starts
           /\ FollowingFlush(n) \in {s + Resolution : s \in Starts}
           /\ FollowingFlush(n) - Resolution \in Starts
           /\ FollowingFlush(n) > next[n] /\ FollowingFlush(n) # Stopped
<1>1. PICK s \in Starts : next[n] = s + Resolution
  BY DEF Types
<1>2. s \in Nat /\ s + Resolution \in Starts /\ Resolution \in Nat \ {0} /\ now \in Nat /\ now >= Resolution
  BY StartIs, Widths DEF Types
<1>. DEFINE after == next[n] + Resolution
<1>3. next[n] \in Nat /\ next[n] - Resolution = s
  BY <1>1, <1>2
<1>4. CASE after < now
  <2>1. FollowingFlush(n) = Truncate(now) + Resolution
    BY <1>4 DEF FollowingFlush
  <2>2. Truncate(now) \in Starts /\ now < Truncate(now) + Resolution
    BY <1>2, TruncateIs
  <2>3. Truncate(now) \in Nat
    BY <2>2, StartIs
  <2>. DEFINE t == Truncate(now)
  <2>4. t \in Nat /\ now < t + Resolution /\ t \in Starts /\ FollowingFlush(n) = t + Resolution
    BY <2>1, <2>2, <2>3
  <2>. HIDE DEF t
  <2>5. (t + Resolution) - Resolution = t /\ t + Resolution > next[n] /\ t + Resolution # 0
    BY <1>2, <1>3, <1>4, <2>4
  <2>. QED BY <1>1, <1>3, <2>4, <2>5 DEF Stopped
<1>5. CASE ~(after < now)
  <2>1. FollowingFlush(n) = next[n] + Resolution
    BY <1>5 DEF FollowingFlush
  <2>2. next[n] \in Starts /\ (next[n] + Resolution) - Resolution = next[n]
    BY <1>1, <1>2, <1>3
  <2>3. next[n] + Resolution > next[n] /\ next[n] + Resolution # 0
    BY <1>2, <1>3
  <2>. QED BY <1>1, <1>3, <2>1, <2>2, <2>3 DEF Stopped
<1>. QED BY <1>4, <1>5

(***************************************************************************)
(* What a tick does: everything ready is filed, in order, and what it      *)
(* streams are the starts of the timeline beyond the watermark.            *)
(***************************************************************************)
Closing == InOrder(Ready(store, due))

StartsOf(ticks) == [i \in 1 .. Len(ticks) |-> ticks[i].idx * Resolution]

LEMMA StartsOfTyped ==
    ASSUME NEW ticks \in Seq(Bucket)
    PROVE  /\ StartsOf(ticks) \in Seq(Nat) /\ Len(StartsOf(ticks)) = Len(ticks)
           /\ \A i \in 1 .. Len(ticks) : StartsOf(ticks)[i] = ticks[i].idx * Resolution
<1>1. \A i \in 1 .. Len(ticks) : ticks[i].idx * Resolution \in Nat
  <2>. SUFFICES ASSUME NEW i \in 1 .. Len(ticks) PROVE ticks[i].idx * Resolution \in Nat
    OBVIOUS
  <2>1. ticks[i] \in Bucket
    OBVIOUS
  <2>2. ticks[i].idx \in Nat
    BY <2>1 DEF Bucket
  <2>. QED BY <2>2, Widths
<1>2. Len(ticks) \in Nat
  OBVIOUS
<1>. QED BY <1>1, <1>2 DEF StartsOf

LEMMA LargerOf ==
    ASSUME NEW x \in Int, NEW y \in Int
    PROVE  Max({x, y}) \in {x, y} /\ Max({x, y}) >= x /\ Max({x, y}) >= y
<1>. DEFINE S == {x, y}
<1>1. \E m \in S : \A z \in S : m >= z
  <2>1. CASE x >= y
    BY <2>1
  <2>2. CASE ~(x >= y)
    BY <2>2
  <2>. QED BY <2>1, <2>2
<1>2. Max(S) \in S /\ \A z \in S : Max(S) >= z
  BY <1>1 DEF Max
<1>. QED BY <1>2

LEMMA FollowingTickIs ==
    ASSUME Types, now >= due
    PROVE  /\ FollowingTick \in Nat /\ FollowingTick >= due + Resolution
           /\ FollowingTick > now /\ FollowingTick <= now + Resolution
<1>. DEFINE R == Resolution
            d == now - due
            q == d \div R
<1>1. R \in Nat \ {0} /\ now \in Nat /\ due \in Nat /\ d \in Nat
  BY Widths DEF Types
<1>2. \A x \in Nat, y \in Nat \ {0} : /\ x \div y \in Nat /\ y * (x \div y) \in Nat
                                      /\ y * (x \div y) <= x /\ x < y * (x \div y) + y
                                      /\ y * (1 + (x \div y)) = y + y * (x \div y)
  OBVIOUS
<1>. HIDE DEF d, R
<1>3. /\ q \in Nat /\ R * q \in Nat /\ R * q <= d /\ d < R * q + R
      /\ R * (1 + q) = R + R * q
  BY <1>1, <1>2
<1>. HIDE DEF q
<1>4. FollowingTick = due + R * (1 + q)
  BY DEF FollowingTick, R, q, d
<1>5. d = now - due
  BY DEF d
<1>6. /\ FollowingTick \in Nat /\ FollowingTick >= due + R
      /\ FollowingTick > now /\ FollowingTick <= now + R
  BY <1>1, <1>3, <1>4, <1>5
<1>. QED BY <1>6 DEF R

LEMMA TickIs ==
    ASSUME Types, Tick
    PROVE  /\ now >= due /\ due' = FollowingTick /\ due \in Nat /\ due >= LateGrace
           /\ Closing \in Seq(Bucket) /\ Rising(Closing)
           /\ \A i \in 1 .. Len(Closing) : Closing[i] \in Ready(store, due)
           /\ filed' = filed \o Closing /\ filed' \in Seq(Bucket)
           /\ Sound(store') /\ store'.open = store.open \ Ready(store, due)
           /\ Ring(store', filed')
           /\ Timeline(store', published) \in Seq(Bucket)
           /\ stream' = stream \o StartsOf(Timeline(store', published))
           /\ published' = Max({published} \cup ToSet(StartsOf(Timeline(store', published))))
<1>1. now >= due /\ due' = FollowingTick /\ due \in Nat /\ due >= LateGrace
  BY Widths DEF Tick, Types
<1>2. Sound(store) /\ store \in StoreRecord /\ Ring(store, filed) /\ filed \in Seq(Bucket)
  BY DEF Types, Sound
<1>3. store' = CloseStale(store, due)
  BY DEF Tick
<1>. DEFINE q == Closing
            S == Ready(store, due)
<1>4. /\ q \in Seq(S) /\ Rising(q)
      /\ store' \in StoreRecord /\ store'.open = store.open \ S
      /\ Ring(store', filed \o q)
  <2>1. \A b, c \in store.open : b.idx = c.idx => b = c
    BY <1>2 DEF Sound
  <2>. QED BY <1>1, <1>2, <1>3, <2>1, CloseStaleIs DEF Closing
<1>5. S \subseteq Bucket
  BY <1>2 DEF StoreRecord, Ready
<1>6. filed' = filed \o q
  BY DEF Tick, Closing
<1>. HIDE DEF q, S
<1>7. q \in Seq(Bucket) /\ \A i \in 1 .. Len(q) : q[i] \in S
  BY <1>4, <1>5
<1>8. filed' \in Seq(Bucket)
  BY <1>2, <1>6, <1>7
<1>9. Sound(store')
  BY <1>2, <1>4 DEF Sound
<1>10. Timeline(store', published) \in Seq(Bucket)
  BY <1>4, <1>6, <1>8, TimelineTyped
<1>11. /\ stream' = stream \o StartsOf(Timeline(store', published))
       /\ published' = Max({published} \cup ToSet(StartsOf(Timeline(store', published))))
  BY DEF Tick, StartsOf
<1>. QED BY <1>1, <1>4, <1>6, <1>7, <1>8, <1>9, <1>10, <1>11 DEF q, S

LEMMA TickKeepsTypes ==
    ASSUME Types, Tick
    PROVE  Types'
<1>1. /\ now >= due /\ due' = FollowingTick
      /\ filed' \in Seq(Bucket) /\ Sound(store') /\ Ring(store', filed')
      /\ Closing \in Seq(Bucket) /\ filed' = filed \o Closing
      /\ \A i \in 1 .. Len(Closing) : Closing[i] \in Ready(store, due)
  BY TickIs
<1>2. /\ now \in Nat /\ now \in Start .. MaxTime /\ due >= Start + Resolution
      /\ Start \in Nat /\ Resolution \in Nat \ {0}
  BY Widths DEF Types
<1>3. due' \in Nat /\ due' >= Start + Resolution /\ due' <= now + Resolution /\ now' = now
  <2>1. /\ FollowingTick \in Nat /\ FollowingTick >= due + Resolution
        /\ FollowingTick <= now + Resolution
    BY <1>1, FollowingTickIs
  <2>2. due \in Nat /\ now' = now
    BY DEF Types, Tick
  <2>. QED BY <1>1, <1>2, <2>1, <2>2
<1>4. ASSUME NEW i \in 1 .. Len(filed') PROVE filed'[i].idx > 0
  <2>0. filed \in Seq(Bucket)
    BY DEF Types
  <2>1. CASE i <= Len(filed)
    <3>1. filed'[i] = filed[i] /\ i \in 1 .. Len(filed)
      BY <1>1, <2>0, <2>1
    <3>. QED BY <3>1 DEF Types
  <2>2. CASE ~(i <= Len(filed))
    <3>1. filed'[i] = Closing[i - Len(filed)] /\ i - Len(filed) \in 1 .. Len(Closing)
      BY <1>1, <2>0, <2>2
    <3>2. filed'[i] \in store.open
      BY <1>1, <3>1 DEF Ready
    <3>. QED BY <3>2 DEF Types, Sound
  <2>. QED BY <2>1, <2>2
<1>5. stream' \in Seq(Nat) /\ published' \in Nat
  <2>. DEFINE st == StartsOf(Timeline(store', published))
  <2>1. st \in Seq(Nat) /\ stream' = stream \o st /\ published' = Max({published} \cup ToSet(st))
    BY TickIs, StartsOfTyped
  <2>. HIDE DEF st
  <2>2. stream \in Seq(Nat) /\ published \in Nat
    BY DEF Types
  <2>3. stream' \in Seq(Nat)
    BY <2>1, <2>2
  <2>4. published' \in Nat
    BY <2>1, <2>2, LargestIn
  <2>. QED BY <2>3, <2>4
<1>6. phase' \in {"running", "ended", "replaced"} /\ endedAt' \in Nat
  BY <1>2 DEF Tick, EndRun, KeepOn, Types
<1>7. UNCHANGED <<next, inflight, late>>
  BY DEF Tick
<1>8. lag' \in Nat
  <2>1. lag' = Max({lag, now - due}) /\ lag \in Nat /\ now - due \in Nat
    BY <1>1, <1>2 DEF Tick, Types
  <2>. DEFINE x == lag
              y == now - due
  <2>2. x \in Int /\ y \in Int /\ x \in Nat /\ y \in Nat /\ lag' = Max({x, y})
    BY <2>1
  <2>. HIDE DEF x, y
  <2>3. Max({x, y}) \in {x, y}
    BY <2>2, LargerOf
  <2>. QED BY <2>2, <2>3
<1>. QED BY <1>1, <1>2, <1>3, <1>4, <1>5, <1>6, <1>7, <1>8 DEF Types

LEMMA SendIs ==
    ASSUME Types, NEW n \in Node, next[n] # Stopped, SendMetrics(n)
    PROVE  /\ inflight' \in [Node -> Seq(Starts)]
           /\ \A m \in Node : m # n => inflight'[m] = inflight[m]
           /\ inflight'[n] = inflight[n] \/ inflight'[n] = Append(inflight[n], next[n] - Resolution)
<1>1. inflight \in [Node -> Seq(Starts)] /\ next[n] - Resolution \in Starts
  BY FollowingIs DEF Types
<1>. DEFINE e == next[n] - Resolution
<1>2. inflight' = inflight \/ inflight' = [inflight EXCEPT ![n] = Append(inflight[n], e)]
  BY <1>1 DEF SendMetrics
<1>. HIDE DEF e
<1>3. Append(inflight[n], e) \in Seq(Starts)
  BY <1>1 DEF e
<1>. QED BY <1>1, <1>2, <1>3 DEF e

LEMMA StepKeepsTypes ==
    ASSUME Types, [Next]_vars
    PROVE  Types'
<1>1. ASSUME NEW n \in Node, Flush(n) PROVE Types'
  <2>1. next[n] # Stopped /\ SendMetrics(n) /\ next' = [next EXCEPT ![n] = FollowingFlush(n)]
    BY <1>1 DEF Flush
  <2>2. UNCHANGED <<now, due, store, published, phase, endedAt, report, stream, filed, late, lag>>
    BY <1>1 DEF Flush, history
  <2>3. inflight' \in [Node -> Seq(Starts)]
    BY <2>1, SendIs
  <2>4. next' \in [Node -> {Stopped} \cup {s + Resolution : s \in Starts}]
    BY <2>1, FollowingIs DEF Types
  <2>. QED BY <2>2, <2>3, <2>4 DEF Types
<1>2. ASSUME NEW n \in Node, LastFlush(n) PROVE Types'
  <2>1. next[n] # Stopped /\ SendMetrics(n) /\ next' = [next EXCEPT ![n] = Stopped]
    BY <1>2 DEF LastFlush
  <2>2. UNCHANGED <<now, due, store, published, phase, endedAt, report, stream, filed, late, lag>>
    BY <1>2 DEF LastFlush, history
  <2>3. inflight' \in [Node -> Seq(Starts)]
    BY <2>1, SendIs
  <2>4. next' \in [Node -> {Stopped} \cup {s + Resolution : s \in Starts}]
    BY <2>1 DEF Types
  <2>. QED BY <2>2, <2>3, <2>4 DEF Types
<1>3. ASSUME NEW n \in Node, Deliver(n) PROVE Types'
  <2>1. inflight[n] # <<>> /\ inflight[n] \in Seq(Starts)
    BY <1>3 DEF Deliver, Types
  <2>2. Head(inflight[n]) \in Starts /\ Tail(inflight[n]) \in Seq(Starts)
    BY <2>1
  <2>3. store' = Ingest(store, n, Head(inflight[n])) /\ inflight' = [inflight EXCEPT ![n] = Tail(inflight[n])]
    BY <1>3 DEF Deliver
  <2>4. UNCHANGED <<now, due, next, published, phase, endedAt, report, stream, filed, lag>>
    BY <1>3 DEF Deliver
  <2>5. Sound(store') /\ store'.closed = store.closed /\ store'.head = store.head
        /\ store'.closedN = store.closedN
    BY <2>2, <2>3, IngestIs DEF Types
  <2>6. inflight' \in [Node -> Seq(Starts)]
    BY <2>2, <2>3 DEF Types
  <2>7. Ring(store', filed')
    BY <2>4, <2>5 DEF Types, Ring
  <2>8. late' \subseteq Nat
    <3>1. \A b \in store'.open : b.idx \in Nat
      BY <2>5 DEF Sound, StoreRecord, Bucket
    <3>2. late' \subseteq late \cup {b.idx : b \in store'.open}
      BY <1>3 DEF Deliver, Opened
    <3>. QED BY <3>1, <3>2 DEF Types
  <2>. QED BY <2>4, <2>5, <2>6, <2>7, <2>8 DEF Types
<1>4. CASE Tick
  BY <1>4, TickKeepsTypes
<1>5. CASE Replace \/ FinalSnapshot
  BY <1>5 DEF Types, Replace, FinalSnapshot, history
<1>6. CASE Advance
  <2>1. now < MaxTime /\ now' = now + 1
    BY <1>6 DEF Advance
  <2>2. UNCHANGED <<due, next, inflight, store, published, phase, endedAt, report, stream, filed, late, lag>>
    BY <1>6 DEF Advance, history
  <2>3. now' \in Start .. MaxTime /\ due <= now' + Resolution
    BY <2>1, Widths DEF Types
  <2>. QED BY <2>2, <2>3 DEF Types
<1>7. CASE UNCHANGED vars
  BY <1>7 DEF Types, vars, history
<1>. QED BY <1>1, <1>2, <1>3, <1>4, <1>5, <1>6, <1>7 DEF Next

LEMMA TypesInvariant == Spec => []Types
BY InitTypes, StepKeepsTypes, PTL DEF Spec

(***************************************************************************)
(* Every variable of the store and of what feeds and reads it keeps its    *)
(* type.                                                                   *)
(***************************************************************************)
THEOREM StoreTypes == Spec => []TypeOK
<1>1. ASSUME Types PROVE TypeOK
  <2>1. next \in [Node -> Nat]
    <3>1. ASSUME NEW n \in Node PROVE next[n] \in Nat
      <4>1. next[n] = Stopped \/ \E s \in Starts : next[n] = s + Resolution
        BY <1>1 DEF Types
      <4>2. \A s \in Starts : s + Resolution \in Nat
        BY StartIs
      <4>. QED BY <4>1, <4>2 DEF Stopped
    <3>. QED BY <1>1, <3>1 DEF Types
  <2>2. inflight \in [Node -> Seq(Nat)]
    <3>1. ASSUME NEW n \in Node PROVE inflight[n] \in Seq(Nat)
      <4>1. inflight[n] \in Seq(Starts)
        BY <1>1 DEF Types
      <4>2. ASSUME NEW i \in 1 .. Len(inflight[n]) PROVE inflight[n][i] \in Nat
        <5>1. inflight[n][i] \in Starts
          BY <4>1
        <5>. QED BY <5>1, StartIs
      <4>. QED BY <4>1, <4>2
    <3>2. inflight \in [Node -> Seq(Starts)]
      BY <1>1 DEF Types
    <3>. QED BY <3>1, <3>2
  <2>3. store \in StoreRecord
    BY <1>1 DEF Types, Sound
  <2>. QED BY <1>1, <2>1, <2>2, <2>3 DEF Types, TypeOK, StoreRecord
<1>. QED BY <1>1, TypesInvariant, PTL

(***************************************************************************)
(* The ring is the most recent Capacity buckets filed, oldest first, for   *)
(* any capacity and however often finalise has wrapped around it.          *)
(***************************************************************************)
THEOREM TheRingIsRecent == Spec => []RingIsRecent
<1>1. ASSUME Types PROVE RingIsRecent
  <2>. DEFINE L == Len(filed)
              first == IF L > Capacity THEN L - Capacity + 1 ELSE 1
              r == Retained(store)
              t == SubSeq(filed, first, L)
  <2>1. store \in StoreRecord /\ filed \in Seq(Bucket) /\ Ring(store, filed)
    BY <1>1 DEF Types, Sound
  <2>2. /\ r \in Seq(Bucket) /\ Len(r) = store.closedN
        /\ \A i \in 1 .. store.closedN : r[i] = filed[L - store.closedN + i]
        /\ store.closedN = IF L < Capacity THEN L ELSE Capacity
    BY <2>1, RetainedIs
  <2>3. first \in Nat /\ L \in Nat /\ first + store.closedN = L + 1 /\ first >= 1
    <3>1. L \in Nat /\ Capacity \in Nat \ {0}
      BY <2>1, Widths
    <3>2. first = (IF L > Capacity THEN L - Capacity + 1 ELSE 1)
          /\ store.closedN = (IF L < Capacity THEN L ELSE Capacity)
      BY <2>2
    <3>. HIDE DEF L, first
    <3>. QED BY <3>1, <3>2
  <2>. HIDE DEF first, r, L
  <2>4. /\ t \in Seq(Bucket) /\ Len(t) = store.closedN
        /\ \A i \in 1 .. store.closedN : t[i] = filed[first + i - 1]
    <3>1. store.closedN \in Nat
      BY <2>1 DEF StoreRecord
    <3>2. \A i \in first .. L : filed[i] \in Bucket
      BY <2>1, <2>3 DEF L
    <3>3. first \in Int /\ L \in Int
      BY <2>3
    <3>4. /\ t \in Seq(Bucket) /\ Len(t) = (IF first <= L THEN L - first + 1 ELSE 0)
          /\ \A i \in 1 .. L - first + 1 : t[i] = filed[first + i - 1]
      BY <3>2, <3>3, SubSeqProperties
    <3>5. L - first + 1 = store.closedN
      BY <2>3, <3>1
    <3>. QED BY <2>3, <3>1, <3>4, <3>5
  <2>5. \A i \in 1 .. store.closedN : r[i] = t[i]
    <3>. SUFFICES ASSUME NEW i \in 1 .. store.closedN PROVE r[i] = t[i]
      OBVIOUS
    <3>1. store.closedN \in Nat
      BY <2>1 DEF StoreRecord
    <3>2. first + i - 1 = L - store.closedN + i
      BY <2>3, <3>1
    <3>. QED BY <2>2, <2>4, <3>2
  <2>. HIDE DEF t
  <2>6. r = t
    BY <2>2, <2>4, <2>5, SeqEqual
  <2>. QED BY <2>6 DEF RingIsRecent, r, t, first, L
<1>. QED BY <1>1, TypesInvariant, PTL

(***************************************************************************)
(* The batches of a worker that are still to come.  A step never makes an  *)
(* older bucket pending than the ones that were.                           *)
(***************************************************************************)
LEMMA PendingTyped ==
    ASSUME Types, NEW n \in Node, NEW s \in Pending(n)
    PROVE  s \in Starts
<1>1. CASE s \in ToSet(inflight[n])
  <2>1. inflight[n] \in Seq(Starts)
    BY DEF Types
  <2>2. PICK i \in DOMAIN inflight[n] : s = inflight[n][i]
    BY <1>1 DEF ToSet
  <2>. QED BY <2>1, <2>2
<1>2. CASE next[n] # Stopped /\ s = next[n] - Resolution
  BY <1>2, FollowingIs
<1>. QED BY <1>1, <1>2 DEF Pending

LEMMA QueueGrows ==
    ASSUME Types, NEW n \in Node, next[n] # Stopped, SendMetrics(n)
    PROVE  /\ ToSet(inflight[n]) \subseteq ToSet(inflight'[n])
           /\ ToSet(inflight'[n]) \subseteq Pending(n)
           /\ \A m \in Node : m # n => inflight'[m] = inflight[m]
<1>1. inflight[n] \in Seq(Starts)
  BY DEF Types
<1>2. \A m \in Node : m # n => inflight'[m] = inflight[m]
  BY SendIs
<1>3. CASE inflight'[n] = inflight[n]
  BY <1>2, <1>3 DEF Pending
<1>4. CASE inflight'[n] = Append(inflight[n], next[n] - Resolution)
  <2>. DEFINE e == next[n] - Resolution
              q == inflight[n]
  <2>1. q \in Seq(Starts) /\ e \in Starts
    BY <1>1, FollowingIs
  <2>. HIDE DEF q, e
  <2>2. ToSet(Append(q, e)) = ToSet(q) \cup {e}
    <3>1. Append(q, e) \in Seq(Starts) /\ Len(Append(q, e)) = Len(q) + 1 /\ Append(q, e)[Len(q) + 1] = e
          /\ \A i \in 1 .. Len(q) : Append(q, e)[i] = q[i]
      BY <2>1
    <3>2. DOMAIN q = 1 .. Len(q) /\ DOMAIN Append(q, e) = 1 .. Len(q) + 1 /\ Len(q) \in Nat
      BY <2>1, <3>1
    <3>. QED BY <3>1, <3>2 DEF ToSet
  <2>. QED BY <1>2, <1>4, <2>2 DEF Pending, q, e
<1>. QED BY <1>3, <1>4, SendIs

LEMMA PendingStep ==
    ASSUME Types, [Next]_vars, NEW n \in Node, NEW s \in Pending(n)'
    PROVE  \E r \in Pending(n) : r <= s
<1>1. ASSUME NEW m \in Node, Flush(m) PROVE \E r \in Pending(n) : r <= s
  <2>1. next[m] # Stopped /\ SendMetrics(m) /\ next' = [next EXCEPT ![m] = FollowingFlush(m)]
    BY <1>1 DEF Flush
  <2>2. /\ ToSet(inflight'[m]) \subseteq Pending(m)
        /\ \A k \in Node : k # m => inflight'[k] = inflight[k]
    BY <2>1, QueueGrows
  <2>3. CASE m # n
    <3>1. inflight'[n] = inflight[n] /\ next'[n] = next[n]
      BY <2>1, <2>2, <2>3 DEF Types
    <3>2. Pending(n)' = Pending(n)
      BY <3>1 DEF Pending
    <3>3. s \in Nat
      BY <3>2, PendingTyped, StartIs
    <3>. QED BY <3>2, <3>3
  <2>4. CASE m = n
    <3>1. next[n] - Resolution \in Pending(n) /\ next'[n] = FollowingFlush(n)
      BY <2>1, <2>4 DEF Pending, Types
    <3>2. FollowingFlush(n) > next[n] /\ next[n] - Resolution \in Starts
          /\ FollowingFlush(n) - Resolution \in Starts
      BY <2>1, <2>4, FollowingIs
    <3>3. s \in Pending(n) \/ s = FollowingFlush(n) - Resolution
      BY <2>2, <2>4, <3>1 DEF Pending
    <3>4. CASE s \in Pending(n)
      <4>1. s \in Nat
        BY <3>4, PendingTyped, StartIs
      <4>. QED BY <3>4, <4>1
    <3>5. CASE s = FollowingFlush(n) - Resolution
      <4>1. next[n] - Resolution \in Nat /\ FollowingFlush(n) - Resolution \in Nat /\ Resolution \in Nat
        BY <3>2, StartIs, Widths
      <4>2. next[n] \in Nat /\ FollowingFlush(n) \in Nat
        <5>1. next[n] = Stopped \/ \E r \in Starts : next[n] = r + Resolution
          BY DEF Types
        <5>2. \E r \in Starts : FollowingFlush(n) = r + Resolution
          BY <2>1, <2>4, FollowingIs
        <5>. QED BY <5>1, <5>2, <2>1, <2>4, StartIs
      <4>3. next[n] - Resolution <= s
        BY <3>2, <3>5, <4>1, <4>2
      <4>. QED BY <3>1, <4>3
    <3>. QED BY <3>3, <3>4, <3>5
  <2>. QED BY <2>3, <2>4
<1>2. ASSUME NEW m \in Node, LastFlush(m) PROVE \E r \in Pending(n) : r <= s
  <2>1. next[m] # Stopped /\ SendMetrics(m) /\ next' = [next EXCEPT ![m] = Stopped]
    BY <1>2 DEF LastFlush
  <2>2. /\ ToSet(inflight'[m]) \subseteq Pending(m)
        /\ \A k \in Node : k # m => inflight'[k] = inflight[k]
    BY <2>1, QueueGrows
  <2>3. CASE m # n
    <3>1. inflight'[n] = inflight[n] /\ next'[n] = next[n]
      BY <2>1, <2>2, <2>3 DEF Types
    <3>2. Pending(n)' = Pending(n)
      BY <3>1 DEF Pending
    <3>3. s \in Nat
      BY <3>2, PendingTyped, StartIs
    <3>. QED BY <3>2, <3>3
  <2>4. CASE m = n
    <3>1. next'[n] = Stopped
      BY <2>1, <2>4 DEF Types
    <3>2. s \in Pending(n)
      BY <2>2, <2>4, <3>1 DEF Pending
    <3>3. s \in Nat
      BY <3>2, PendingTyped, StartIs
    <3>. QED BY <3>2, <3>3
  <2>. QED BY <2>3, <2>4
<1>3. ASSUME NEW m \in Node, Deliver(m) PROVE \E r \in Pending(n) : r <= s
  <2>1. inflight' = [inflight EXCEPT ![m] = Tail(inflight[m])] /\ next' = next /\ inflight[m] # <<>>
    BY <1>3 DEF Deliver
  <2>2. inflight \in [Node -> Seq(Starts)]
    BY DEF Types
  <2>3. ToSet(inflight'[n]) \subseteq ToSet(inflight[n])
    <3>1. CASE m = n
      <4>1. inflight'[n] = Tail(inflight[n]) /\ inflight[n] \in Seq(Starts) /\ inflight[n] # <<>>
        BY <2>1, <2>2, <3>1
      <4>2. Len(Tail(inflight[n])) = Len(inflight[n]) - 1
            /\ \A i \in 1 .. Len(inflight[n]) - 1 : Tail(inflight[n])[i] = inflight[n][i + 1]
            /\ DOMAIN Tail(inflight[n]) = 1 .. Len(inflight[n]) - 1 /\ DOMAIN inflight[n] = 1 .. Len(inflight[n])
            /\ Len(inflight[n]) \in Nat
        BY <4>1
      <4>3. \A i \in 1 .. Len(inflight[n]) - 1 : i + 1 \in 1 .. Len(inflight[n])
        BY <4>2
      <4>. QED BY <4>1, <4>2, <4>3 DEF ToSet
    <3>2. CASE m # n
      BY <2>1, <2>2, <3>2
    <3>. QED BY <3>1, <3>2
  <2>4. s \in Pending(n)
    BY <2>1, <2>3 DEF Pending
  <2>5. s \in Nat
    BY <2>4, PendingTyped, StartIs
  <2>. QED BY <2>4, <2>5
<1>4. CASE UNCHANGED <<next, inflight>>
  <2>1. s \in Pending(n)
    BY <1>4 DEF Pending
  <2>2. s \in Nat
    BY <2>1, PendingTyped, StartIs
  <2>. QED BY <2>1, <2>2
<1>5. Tick \/ Replace \/ FinalSnapshot \/ Advance \/ UNCHANGED vars => UNCHANGED <<next, inflight>>
  BY DEF Tick, Replace, FinalSnapshot, Advance, vars, history
<1>. QED BY <1>1, <1>2, <1>3, <1>4, <1>5 DEF Next

LEMMA IndexIn ==
    ASSUME NEW q \in Seq(Bucket), NEW i \in 1 .. Len(q)
    PROVE  q[i] \in Bucket /\ q[i].idx \in Nat
<1>1. q[i] \in Bucket
  OBVIOUS
<1>. QED BY <1>1 DEF Bucket

(***************************************************************************)
(* What a tick closes and what it leaves open lie on either side of the    *)
(* cutoff of its fire time, which is no later than that of the clock; and  *)
(* what a batch opens is past the clock's cutoff, or late.                 *)
(***************************************************************************)
Cutoff(t) == indexOf(t - LateGrace)

LEMMA CutoffIs ==
    ASSUME NEW t \in Int, NEW u \in Int, t <= u
    PROVE  Cutoff(t) \in Int /\ Cutoff(u) \in Int /\ Cutoff(t) <= Cutoff(u)
<1>1. t - LateGrace \in Int /\ u - LateGrace \in Int /\ t - LateGrace <= u - LateGrace
  BY Widths
<1>. QED BY <1>1, Index, IndexMonotone DEF Cutoff

LEMMA TickCloses ==
    ASSUME Types, Tick
    PROVE  /\ Cutoff(due) \in Int /\ Cutoff(now) \in Int /\ Cutoff(due) <= Cutoff(now)
           /\ \A b \in store'.open : b \in store.open /\ Cutoff(due) <= b.idx
           /\ \A i \in 1 .. Len(Closing) : Closing[i] \in store.open /\ Closing[i].idx < Cutoff(due)
<1>1. now >= due /\ due \in Nat /\ now \in Nat
  BY TickIs, Widths DEF Types
<1>2. Cutoff(due) \in Int /\ Cutoff(now) \in Int /\ Cutoff(due) <= Cutoff(now)
  BY <1>1, CutoffIs
<1>3. /\ store'.open = store.open \ Ready(store, due)
      /\ \A i \in 1 .. Len(Closing) : Closing[i] \in Ready(store, due)
  BY TickIs
<1>4. store.open \subseteq Bucket
  BY DEF Types, Sound, StoreRecord
<1>5. \A b \in store.open : b.idx \in Nat
  BY <1>4 DEF Bucket
<1>6. Ready(store, due) = {b \in store.open : b.idx < Cutoff(due)}
  BY DEF Ready, Cutoff
<1>. QED BY <1>2, <1>3, <1>5, <1>6

LEMMA DeliverOpens ==
    ASSUME Types, NEW n \in Node, Deliver(n)
    PROVE  /\ filed' = filed /\ now' = now /\ due' = due /\ lag' = lag /\ late \subseteq late'
           /\ UNCHANGED <<published, stream>>
           /\ \A b \in store'.open : b.idx \in Nat
           /\ \A b \in store'.open : \/ \E c \in store.open : c.idx = b.idx
                                     \/ b.idx \in late' \/ Cutoff(now) <= b.idx
<1>1. /\ UNCHANGED <<filed, now, due, lag, published, stream>>
      /\ late' = late \cup {idx \in Opened : idx < Cutoff(now)}
  BY DEF Deliver, Cutoff
<1>2. Types'
  BY StepKeepsTypes DEF Next
<1>3. \A b \in store'.open : b.idx \in Nat
  BY <1>2 DEF Types, Sound, StoreRecord, Bucket
<1>4. Cutoff(now) \in Int
  BY CutoffIs, Widths DEF Types
<1>5. ASSUME NEW b \in store'.open, ~\E c \in store.open : c.idx = b.idx PROVE b.idx \in Opened
  BY <1>5 DEF Opened
<1>. QED BY <1>1, <1>3, <1>4, <1>5

(***************************************************************************)
(* What has been filed lies before the clock's cutoff.                     *)
(***************************************************************************)
Closed ==
    /\ now = Start => Len(filed) = 0
    /\ \A i \in 1 .. Len(filed) : filed[i].idx < Cutoff(now)

LEMMA StepKeepsClosed ==
    ASSUME Types, Closed, [Next]_vars
    PROVE  Closed'
<1>0. filed \in Seq(Bucket) /\ now \in Nat /\ due \in Nat /\ Start \in Nat /\ now >= Start
  BY Widths DEF Types
<1>1. CASE Tick
  <2>1. /\ filed' = filed \o Closing /\ Closing \in Seq(Bucket) /\ now >= due
        /\ Cutoff(due) \in Int /\ Cutoff(now) \in Int /\ Cutoff(due) <= Cutoff(now)
        /\ \A i \in 1 .. Len(Closing) : Closing[i].idx < Cutoff(due)
    BY <1>1, TickIs, TickCloses
  <2>2. now' = now /\ now # Start
    BY <1>0, <1>1, <2>1, Widths DEF Tick, Types
  <2>3. ASSUME NEW i \in 1 .. Len(filed') PROVE filed'[i].idx < Cutoff(now)
    <3>1. CASE i <= Len(filed)
      <4>1. filed'[i] = filed[i] /\ i \in 1 .. Len(filed)
        BY <1>0, <2>1, <3>1
      <4>. QED BY <4>1 DEF Closed
    <3>2. CASE ~(i <= Len(filed))
      <4>1. filed'[i] = Closing[i - Len(filed)] /\ i - Len(filed) \in 1 .. Len(Closing)
        BY <1>0, <2>1, <3>2
      <4>2. Closing[i - Len(filed)].idx \in Nat
        BY <2>1, <4>1, IndexIn
      <4>. QED BY <2>1, <4>1, <4>2
    <3>. QED BY <3>1, <3>2
  <2>. QED BY <2>2, <2>3 DEF Closed, Cutoff
<1>2. CASE Advance
  <2>1. now' = now + 1 /\ filed' = filed
    BY <1>2 DEF Advance, history
  <2>2. now' \in Nat /\ now' # Start /\ now <= now'
    BY <1>0, <2>1
  <2>3. Cutoff(now) \in Int /\ Cutoff(now') \in Int /\ Cutoff(now) <= Cutoff(now')
    BY <1>0, <2>2, CutoffIs
  <2>4. \A i \in 1 .. Len(filed) : filed[i].idx \in Nat
    BY <1>0, IndexIn
  <2>5. \A i \in 1 .. Len(filed) : filed[i].idx < Cutoff(now')
    BY <2>3, <2>4 DEF Closed
  <2>. QED BY <2>1, <2>2, <2>5 DEF Closed, Cutoff
<1>3. CASE UNCHANGED <<now, filed>>
  BY <1>3 DEF Closed, Cutoff
<1>4. [Next]_vars => Tick \/ Advance \/ UNCHANGED <<now, filed>>
  BY DEF Next, Flush, LastFlush, Deliver, Replace, FinalSnapshot, vars, history
<1>. QED BY <1>1, <1>2, <1>3, <1>4

(***************************************************************************)
(* The chart is in order, but for the buckets of X.  A tick keeps it so.   *)
(***************************************************************************)
Ordered(X) ==
    /\ \A i, j \in 1 .. Len(filed) : i < j => filed[i].idx < filed[j].idx \/ filed[j].idx \in X
    /\ \A b \in store.open, i \in 1 .. Len(filed) : filed[i].idx < b.idx \/ b.idx \in X

LEMMA TickKeepsOrder ==
    ASSUME Types, NEW X, Ordered(X), Tick
    PROVE  Ordered(X)'
<1>1. /\ filed' = filed \o Closing /\ Closing \in Seq(Bucket) /\ Rising(Closing)
      /\ filed \in Seq(Bucket) /\ store.open \subseteq Bucket
  BY TickIs DEF Types, Sound, StoreRecord
<1>. DEFINE L == Len(filed)
            C == Len(Closing)
            K == Cutoff(due)
<1>2. /\ \A b \in store'.open : b \in store.open /\ K <= b.idx
      /\ \A i \in 1 .. C : Closing[i] \in store.open /\ Closing[i].idx < K
      /\ K \in Int
  BY TickCloses
<1>3. /\ L \in Nat /\ C \in Nat /\ Len(filed') = L + C
      /\ \A i \in 1 .. L : filed'[i] = filed[i] /\ filed[i].idx \in Nat
      /\ \A i \in 1 .. C : filed'[L + i] = Closing[i] /\ Closing[i].idx \in Nat
      /\ DOMAIN Closing = 1 .. C
  <2>1. /\ L \in Nat /\ C \in Nat /\ Len(filed') = L + C /\ DOMAIN Closing = 1 .. C
        /\ \A i \in 1 .. L : filed'[i] = filed[i]
        /\ \A i \in 1 .. C : filed'[L + i] = Closing[i]
    BY <1>1
  <2>2. (\A i \in 1 .. L : filed[i].idx \in Nat) /\ \A i \in 1 .. C : Closing[i].idx \in Nat
    BY <1>1, IndexIn
  <2>. QED BY <2>1, <2>2
<1>4. \A b \in store.open : b.idx \in Nat
  BY <1>1 DEF Bucket
<1>5. /\ \A i, j \in 1 .. L : i < j => filed[i].idx < filed[j].idx \/ filed[j].idx \in X
      /\ \A b \in store.open, i \in 1 .. L : filed[i].idx < b.idx \/ b.idx \in X
      /\ \A i, j \in 1 .. C : i < j => Closing[i].idx < Closing[j].idx
  BY <1>1, <1>3 DEF Ordered, Rising
<1>. HIDE DEF L, C, K
<1>6. \A i \in 1 .. L + C : i \in 1 .. L \/ (i - L \in 1 .. C /\ i = L + (i - L))
  BY <1>3
<1>7. ASSUME NEW i \in 1 .. Len(filed'), NEW j \in 1 .. Len(filed'), i < j
      PROVE  filed'[i].idx < filed'[j].idx \/ filed'[j].idx \in X
  <2>0. i \in 1 .. L + C /\ j \in 1 .. L + C
    BY <1>3
  <2>1. CASE i \in 1 .. L /\ j \in 1 .. L
    BY <1>3, <1>5, <1>7, <2>1
  <2>2. CASE i \in 1 .. L /\ ~(j \in 1 .. L)
    <3>1. j - L \in 1 .. C /\ filed'[j] = Closing[j - L] /\ filed'[i] = filed[i]
      BY <1>3, <1>6, <2>0, <2>2
    <3>2. Closing[j - L] \in store.open
      BY <1>2, <3>1
    <3>. QED BY <1>5, <2>2, <3>1, <3>2
  <2>3. CASE ~(i \in 1 .. L)
    <3>1. i - L \in 1 .. C /\ j - L \in 1 .. C /\ i - L < j - L
      BY <1>3, <1>7, <2>0, <2>3
    <3>2. filed'[i] = Closing[i - L] /\ filed'[j] = Closing[j - L]
      <4>1. i = L + (i - L) /\ j = L + (j - L)
        BY <1>3, <2>0
      <4>. QED BY <1>3, <3>1, <4>1
    <3>. QED BY <1>5, <3>1, <3>2
  <2>. QED BY <2>1, <2>2, <2>3
<1>8. ASSUME NEW b \in store'.open, NEW i \in 1 .. Len(filed') PROVE filed'[i].idx < b.idx \/ b.idx \in X
  <2>0. i \in 1 .. L + C /\ b \in store.open /\ K <= b.idx
    BY <1>2, <1>3
  <2>1. CASE i \in 1 .. L
    BY <1>3, <1>5, <2>0, <2>1
  <2>2. CASE ~(i \in 1 .. L)
    <3>1. i - L \in 1 .. C /\ filed'[i] = Closing[i - L]
      <4>1. i - L \in 1 .. C /\ i = L + (i - L)
        BY <1>6, <2>0, <2>2
      <4>. QED BY <1>3, <4>1
    <3>2. filed'[i].idx < K /\ filed'[i].idx \in Nat
      BY <1>2, <1>3, <3>1
    <3>. QED BY <1>2, <1>4, <2>0, <3>2
  <2>. QED BY <2>1, <2>2
<1>. QED BY <1>7, <1>8 DEF Ordered

LEMMA StepKeepsChart ==
    ASSUME Types, Closed, Ordered(late), [Next]_vars
    PROVE  Ordered(late)'
<1>1. CASE Tick
  <2>1. PICK X : X = late
    OBVIOUS
  <2>2. Ordered(X)
    BY <2>1 DEF Ordered
  <2>3. Ordered(X)' /\ late' = X
    BY <1>1, <2>1, <2>2, TickKeepsOrder DEF Tick
  <2>. QED BY <2>3 DEF Ordered
<1>2. ASSUME NEW n \in Node, Deliver(n) PROVE Ordered(late)'
  <2>1. /\ filed' = filed /\ late \subseteq late'
        /\ \A b \in store'.open : b.idx \in Nat
        /\ \A b \in store'.open : \/ \E c \in store.open : c.idx = b.idx
                                  \/ b.idx \in late' \/ Cutoff(now) <= b.idx
    BY <1>2, DeliverOpens
  <2>2. /\ \A i \in 1 .. Len(filed) : filed[i].idx < Cutoff(now) /\ filed[i].idx \in Nat
        /\ Cutoff(now) \in Int
    <3>1. now \in Nat /\ now <= now /\ filed \in Seq(Bucket)
      BY Widths DEF Types
    <3>2. Cutoff(now) \in Int
      BY <3>1, CutoffIs
    <3>. QED BY <3>1, <3>2, IndexIn DEF Closed
  <2>3. ASSUME NEW b \in store'.open, NEW i \in 1 .. Len(filed) PROVE filed[i].idx < b.idx \/ b.idx \in late'
    BY <2>1, <2>2 DEF Ordered
  <2>. QED BY <2>1, <2>3 DEF Ordered
<1>3. CASE UNCHANGED <<store, filed, late>>
  BY <1>3 DEF Ordered
<1>4. [Next]_vars => Tick \/ (\E n \in Node : Deliver(n)) \/ UNCHANGED <<store, filed, late>>
  BY DEF Next, Flush, LastFlush, Replace, FinalSnapshot, Advance, vars, history
<1>. QED BY <1>1, <1>2, <1>3, <1>4

Charted == Types /\ Closed /\ Ordered(late)

LEMMA ChartedInvariant == Spec => []Charted
<1>1. Init => Charted
  <2>1. Init => Closed /\ Ordered(late)
    BY DEF Init, Closed, Ordered
  <2>. QED BY <2>1, InitTypes DEF Charted
<1>2. Charted /\ [Next]_vars => Charted'
  BY StepKeepsTypes, StepKeepsClosed, StepKeepsChart DEF Charted
<1>. QED BY <1>1, <1>2, PTL DEF Spec

(***************************************************************************)
(* A batch that comes within the grace of its bucket is charted in order:  *)
(* what CloseStale files, and what is open, follows everything filed       *)
(* before it, but for a bucket that bucketFor opened after its grace.  It  *)
(* holds however late batches and ticks are and for any number of workers. *)
(***************************************************************************)
THEOREM TheChartIsInOrder == Spec => []ChartInOrder
<1>1. Charted => ChartInOrder
  BY DEF Charted, Ordered, ChartInOrder
<1>. QED BY <1>1, ChartedInvariant, PTL

(***************************************************************************)
(* What is open has a tick to come: its grace ended no earlier than an     *)
(* interval before the next tick, and than the ticks have been late.       *)
(***************************************************************************)
Open == \A b \in store.open : b.idx \in late \/ Cutoff(due - Resolution - lag) <= b.idx

LEMMA StepKeepsOpen ==
    ASSUME Types, Open, [Next]_vars
    PROVE  Open'
<1>0. /\ now \in Nat /\ due \in Nat /\ lag \in Nat /\ Resolution \in Nat /\ due <= now + Resolution
      /\ due - Resolution - lag \in Int
  BY Widths DEF Types
<1>1. CASE Tick
  <2>1. /\ now >= due /\ due' = FollowingTick
        /\ \A b \in store'.open : b \in store.open /\ Cutoff(due) <= b.idx
    BY <1>1, TickIs, TickCloses
  <2>2. FollowingTick \in Nat /\ FollowingTick <= now + Resolution
    BY <2>1, FollowingTickIs
  <2>3. lag' = Max({lag, now - due}) /\ late' = late
    BY <1>1 DEF Tick
  <2>4. lag' \in Int /\ lag' >= now - due
    <3>. DEFINE x == lag
                y == now - due
    <3>1. x \in Int /\ y \in Int /\ lag' = Max({x, y})
      BY <1>0, <2>3
    <3>. HIDE DEF x, y
    <3>2. lag' \in {x, y} /\ lag' >= y
      BY <3>1, LargerOf
    <3>. QED BY <3>1, <3>2 DEF y
  <2>5. due' - Resolution - lag' \in Int /\ due' - Resolution - lag' <= due /\ due \in Int
    <3>1. PICK g : g = lag'
      OBVIOUS
    <3>2. PICK d : d = due'
      OBVIOUS
    <3>3. g \in Int /\ g >= now - due /\ d \in Nat /\ d <= now + Resolution
      BY <2>1, <2>2, <2>4, <3>1, <3>2
    <3>4. d - Resolution - g \in Int /\ d - Resolution - g <= due /\ due \in Int
      BY <1>0, <3>3
    <3>. QED BY <3>1, <3>2, <3>4
  <2>6. /\ Cutoff(due' - Resolution - lag') \in Int /\ Cutoff(due) \in Int
        /\ Cutoff(due' - Resolution - lag') <= Cutoff(due)
    BY <2>5, CutoffIs
  <2>7. \A b \in store'.open : b.idx \in Nat
    <3>1. store.open \subseteq Bucket
      BY DEF Types, Sound, StoreRecord
    <3>. QED BY <2>1, <3>1 DEF Bucket
  <2>8. \A b \in store'.open : Cutoff(due' - Resolution - lag') <= b.idx
    BY <2>1, <2>6, <2>7
  <2>. QED BY <2>8 DEF Open, Cutoff
<1>2. ASSUME NEW n \in Node, Deliver(n) PROVE Open'
  <2>1. /\ due' = due /\ lag' = lag /\ late \subseteq late'
        /\ \A b \in store'.open : b.idx \in Nat
        /\ \A b \in store'.open : \/ \E c \in store.open : c.idx = b.idx
                                  \/ b.idx \in late' \/ Cutoff(now) <= b.idx
    BY <1>2, DeliverOpens
  <2>2. due - Resolution - lag <= now
    BY <1>0
  <2>3. /\ Cutoff(due - Resolution - lag) \in Int /\ Cutoff(now) \in Int
        /\ Cutoff(due - Resolution - lag) <= Cutoff(now)
    BY <1>0, <2>2, CutoffIs
  <2>4. \A b \in store'.open : b.idx \in late' \/ Cutoff(due - Resolution - lag) <= b.idx
    BY <2>1, <2>3 DEF Open
  <2>. QED BY <2>1, <2>4 DEF Open, Cutoff
<1>3. CASE UNCHANGED <<store, due, late, lag>>
  BY <1>3 DEF Open, Cutoff
<1>4. [Next]_vars => Tick \/ (\E n \in Node : Deliver(n)) \/ UNCHANGED <<store, due, late, lag>>
  BY DEF Next, Flush, LastFlush, Replace, FinalSnapshot, Advance, vars, history
<1>. QED BY <1>1, <1>2, <1>3, <1>4

LEMMA TimelineOfAll ==
    ASSUME Types
    PROVE  LET n == Len(filed) - store.closedN
           IN  /\ Timeline(store, 0) \in Seq(Bucket)
               /\ Len(Timeline(store, 0)) = Len(filed) - n
               /\ \A k \in 1 .. Len(filed) - n : Timeline(store, 0)[k] = filed[n + k]
               /\ n \in Nat /\ n = IF Len(filed) < Capacity THEN 0 ELSE Len(filed) - Capacity
<1>1. store \in StoreRecord /\ filed \in Seq(Bucket) /\ Ring(store, filed) /\ Len(filed) \in Nat
  BY DEF Types, Sound
<1>2. \A i \in 1 .. Len(filed) : filed[i].idx * Resolution > 0
  <2>. SUFFICES ASSUME NEW i \in 1 .. Len(filed) PROVE filed[i].idx * Resolution > 0
    OBVIOUS
  <2>1. filed[i].idx \in Nat /\ filed[i].idx > 0 /\ Resolution \in Nat \ {0}
    BY <1>1, IndexIn, Widths DEF Types
  <2>2. 0 * Resolution + Resolution <= filed[i].idx * Resolution
    BY <2>1, Apart
  <2>. QED BY <2>1, <2>2
<1>3. 0 \in 0 .. Len(filed) /\ 0 \in Nat
  BY <1>1
<1>4. \A i \in 1 .. Len(filed) : filed[i].idx * Resolution > 0 <=> i > 0
  BY <1>2
<1>5. LET k == Len(filed) - store.closedN
          first == IF 0 > k THEN 0 ELSE k
      IN  /\ Timeline(store, 0) \in Seq(Bucket)
          /\ Len(Timeline(store, 0)) = Len(filed) - first
          /\ \A j \in 1 .. Len(filed) - first : Timeline(store, 0)[j] = filed[first + j]
          /\ k \in Nat /\ k = IF Len(filed) < Capacity THEN 0 ELSE Len(filed) - Capacity
  BY <1>1, <1>3, <1>4, TimelineIs
<1>. QED BY <1>5

(***************************************************************************)
(* What the report read settleDelay after the end can lack: nothing of     *)
(* what the ring retains, and of what is open only buckets that started    *)
(* less than the grace and two intervals before settleDelay was over, or   *)
(* earlier by twice what the ticks have been late.  It holds for any       *)
(* grace, interval and delay, with batches arriving after the end and with *)
(* any lateness of the ticks.                                              *)
(***************************************************************************)
THEOREM TheReportLacksOnlyTheTail == Spec => ReportLacksOnlyTheTail
<1>. DEFINE Held == \A k \in 1 .. Len(filed) : k > Len(filed) - Capacity => filed[k] \in ToSet(report'.ticks)
            Young == \A b \in store.open : b.idx * Resolution > Unclosed(endedAt + Settle) \/ b.idx \in late
            Sees == report' # report /\ phase = "ended" => Held /\ Young
<1>1. Init => Open
  BY DEF Init, NewStore, Open
<1>2. ASSUME Types, Open, [Next]_vars PROVE [Sees]_vars
  <2>. SUFFICES ASSUME report' # report, phase = "ended" PROVE Held /\ Young
    OBVIOUS
  <2>1. FinalSnapshot
    BY <1>2 DEF Next, Flush, LastFlush, Deliver, Tick, Replace, Advance, vars
  <2>2. now >= endedAt + Settle /\ report'.ticks = Timeline(store, 0)
    BY <2>1 DEF FinalSnapshot
  <2>3. Held
    <3>. SUFFICES ASSUME NEW k \in 1 .. Len(filed), k > Len(filed) - Capacity
                  PROVE  filed[k] \in ToSet(Timeline(store, 0))
      BY <2>2
    <3>. DEFINE tl == Timeline(store, 0)
                L == Len(filed)
                n == L - store.closedN
    <3>1. /\ tl \in Seq(Bucket) /\ Len(tl) = L - n /\ \A j \in 1 .. L - n : tl[j] = filed[n + j]
          /\ n \in Nat /\ n = IF L < Capacity THEN 0 ELSE L - Capacity
      BY <1>2, TimelineOfAll
    <3>2. L \in Nat /\ Capacity \in Nat \ {0} /\ k \in 1 .. L
      BY <1>2, Widths DEF Types
    <3>. HIDE DEF tl, n, L
    <3>3. k - n \in 1 .. L - n /\ n + (k - n) = k
      <4>1. k > L - Capacity
        BY DEF L
      <4>. QED BY <3>1, <3>2, <4>1
    <3>4. tl[k - n] = filed[k] /\ k - n \in DOMAIN tl
      BY <3>1, <3>3
    <3>5. filed[k] \in ToSet(tl)
      BY <3>4 DEF ToSet
    <3>. QED BY <3>5 DEF tl
  <2>4. Young
    <3>. SUFFICES ASSUME NEW b \in store.open, b.idx \notin late
                  PROVE  b.idx * Resolution > Unclosed(endedAt + Settle)
      OBVIOUS
    <3>. DEFINE R == Resolution
                G == LateGrace
                m == Max({lag, now - due})
                x == (due - R - lag) - G
                c == indexOf(x)
                e == endedAt + Settle
    <3>1. /\ now \in Nat /\ due \in Nat /\ lag \in Nat /\ R \in Nat \ {0} /\ G \in Nat
          /\ now - due \in Int /\ x \in Int /\ e \in Nat
      BY <1>2, Widths DEF Types
    <3>2. m \in Int /\ m >= lag /\ m >= now - due
      <4>. DEFINE u == lag
                  v == now - due
      <4>1. u \in Int /\ v \in Int /\ m = Max({u, v})
        BY <3>1
      <4>. HIDE DEF u, v, m
      <4>2. m \in {u, v} /\ m >= u /\ m >= v
        BY <4>1, LargerOf
      <4>. QED BY <4>1, <4>2 DEF u, v
    <3>3. c <= b.idx
      BY <1>2 DEF Open, Cutoff
    <3>4. c \in Int /\ x < c * R + R /\ c * R \in Int
      BY <3>1, Index
    <3>5. b.idx \in Nat
      <4>1. b \in Bucket
        BY <1>2 DEF Types, Sound, StoreRecord
      <4>. QED BY <4>1 DEF Bucket
    <3>6. Unclosed(e) = e - G - 2 * R - 2 * m
      BY DEF Unclosed
    <3>7. now >= e
      BY <2>2
    <3>x. x = (due - R - lag) - G
      OBVIOUS
    <3>. HIDE DEF x, c, m, e
    <3>8. b.idx * R \in Int /\ c * R <= b.idx * R
      <4>1. b.idx * R \in Int
        BY <3>1, <3>5
      <4>2. CASE c = b.idx
        BY <3>4, <4>2
      <4>3. CASE c < b.idx
        <5>1. c * R + R <= b.idx * R
          BY <3>4, <3>5, <4>3, Apart
        <5>. QED BY <3>1, <3>4, <4>1, <5>1
      <4>. QED BY <3>3, <3>4, <3>5, <4>1, <4>2, <4>3
    <3>. HIDE DEF R, G
    <3>9. b.idx * R > e - G - 2 * R - 2 * m
      BY <3>1, <3>2, <3>4, <3>7, <3>8, <3>x
    <3>. QED BY <3>6, <3>9 DEF R, e
  <2>. QED BY <2>3, <2>4
<1>3. [Sees]_vars => [report' # report /\ phase = "ended" =>
           /\ \A k \in 1 .. Len(filed) : k > Len(filed) - Capacity => filed[k] \in ToSet(report'.ticks)
           /\ \A b \in store.open : b.idx * Resolution > Unclosed(endedAt + Settle) \/ b.idx \in late]_vars
  OBVIOUS
<1>. HIDE DEF Sees
<1>. QED BY <1>1, <1>2, <1>3, TypesInvariant, StepKeepsOpen, PTL DEF Spec, ReportLacksOnlyTheTail

(***************************************************************************)
(* When batches come in order: none is delivered later than a tick after   *)
(* the grace of its bucket, or the run has a single worker.                *)
(***************************************************************************)
Prompt == MaxLag < LateGrace + Resolution

Alone == \A m, n \in Node : m = n

Orderly == Prompt \/ Alone

PendingInTime == \A n \in Node : \A s \in Pending(n) : now = Start \/ now <= s + MaxLag

LEMMA PendingTypedNext ==
    ASSUME Types', NEW n \in Node, NEW s \in Pending(n)'
    PROVE  s \in Starts
<1>1. CASE s \in ToSet(inflight'[n])
  <2>1. inflight'[n] \in Seq(Starts)
    BY DEF Types
  <2>2. PICK i \in DOMAIN inflight'[n] : s = inflight'[n][i]
    BY <1>1 DEF ToSet
  <2>. QED BY <2>1, <2>2
<1>2. CASE next'[n] # Stopped /\ s = next'[n] - Resolution
  <2>1. PICK r \in Starts : next'[n] = r + Resolution
    BY <1>2 DEF Types
  <2>2. r \in Nat /\ Resolution \in Nat
    BY StartIs, Widths
  <2>. QED BY <1>2, <2>1, <2>2
<1>. QED BY <1>1, <1>2 DEF Pending

LEMMA StepKeepsTime ==
    ASSUME Types, PendingInTime, [Next]_vars
    PROVE  PendingInTime'
<1>. SUFFICES ASSUME NEW n \in Node, NEW s \in Pending(n)'
              PROVE  now' = Start \/ now' <= s + MaxLag
  BY DEF PendingInTime
<1>1. PICK r \in Pending(n) : r <= s
  BY PendingStep
<1>2. r \in Nat /\ s \in Nat /\ MaxLag \in Nat /\ now \in Nat
  <2>1. r \in Starts
    BY PendingTyped
  <2>2. Types'
    BY StepKeepsTypes
  <2>3. s \in Starts
    BY <2>2, PendingTypedNext
  <2>4. r \in Nat /\ s \in Nat
    BY <2>1, <2>3, StartIs
  <2>5. MaxLag \in Nat /\ now \in Nat
    BY Widths DEF Types
  <2>. QED BY <2>4, <2>5
<1>3. now = Start \/ now <= r + MaxLag
  BY DEF PendingInTime
<1>4. CASE Advance
  <2>1. now < r + MaxLag /\ now' = now + 1
    BY <1>4 DEF Advance
  <2>. QED BY <1>1, <1>2, <2>1
<1>5. CASE now' = now
  BY <1>1, <1>2, <1>3, <1>5
<1>6. [Next]_vars => Advance \/ now' = now
  BY DEF Next, Flush, LastFlush, Deliver, Tick, Replace, FinalSnapshot, vars
<1>. QED BY <1>4, <1>5, <1>6

(***************************************************************************)
(* The batches of a worker are sent, and so delivered, in order; with a    *)
(* single worker all that is open or filed is older than what comes.       *)
(***************************************************************************)
Queued ==
    \A n \in Node :
        /\ \A i, j \in 1 .. Len(inflight[n]) : i < j => inflight[n][i] < inflight[n][j]
        /\ next[n] # Stopped => \A i \in 1 .. Len(inflight[n]) : inflight[n][i] < next[n] - Resolution

Ahead == \A n \in Node : \A s \in Pending(n) : \A i \in 1 .. Len(filed) : filed[i].idx < indexOf(s)

Serial ==
    /\ Ahead
    /\ \A n \in Node : \A s \in Pending(n) : \A b \in store.open : b.idx < indexOf(s)

LEMMA QueueAppends ==
    ASSUME NEW q \in Seq(Starts), NEW e \in Starts,
           \A i, j \in 1 .. Len(q) : i < j => q[i] < q[j], \A i \in 1 .. Len(q) : q[i] < e,
           NEW z, z = q \/ z = Append(q, e)
    PROVE  /\ \A i, j \in 1 .. Len(z) : i < j => z[i] < z[j]
           /\ \A i \in 1 .. Len(z) : z[i] <= e
<1>0. \A i \in 1 .. Len(q) : q[i] \in Nat
  <2>1. \A i \in 1 .. Len(q) : q[i] \in Starts
    OBVIOUS
  <2>. QED BY <2>1, StartIs
<1>1. e \in Nat /\ Len(q) \in Nat
  BY StartIs
<1>2. CASE z = q
  BY <1>0, <1>1, <1>2
<1>3. CASE z = Append(q, e)
  <2>1. Len(z) = Len(q) + 1 /\ z[Len(q) + 1] = e /\ \A i \in 1 .. Len(q) : z[i] = q[i]
    BY <1>3
  <2>2. \A i \in 1 .. Len(z) : i \in 1 .. Len(q) \/ i = Len(q) + 1
    BY <1>1, <2>1
  <2>3. ASSUME NEW i \in 1 .. Len(z), NEW j \in 1 .. Len(z), i < j PROVE z[i] < z[j]
    <3>1. i \in 1 .. Len(q)
      BY <1>1, <2>1, <2>3
    <3>. QED BY <2>1, <2>2, <2>3, <3>1
  <2>. QED BY <1>0, <1>1, <2>1, <2>2, <2>3
<1>. QED BY <1>2, <1>3

LEMMA SendKeepsQueued ==
    ASSUME Types, Queued, NEW n \in Node, next[n] # Stopped, SendMetrics(n),
           NEW v, v = Stopped \/ (v \in Nat /\ v > next[n]), next' = [next EXCEPT ![n] = v]
    PROVE  Queued'
<1>. DEFINE e == next[n] - Resolution
            q == inflight[n]
            z == inflight'[n]
<1>1. q \in Seq(Starts) /\ e \in Starts /\ (z = q \/ z = Append(q, e)) /\ inflight' \in [Node -> Seq(Starts)]
      /\ \A m \in Node : m # n => inflight'[m] = inflight[m]
  BY SendIs, FollowingIs DEF Types
<1>2. \A i, j \in 1 .. Len(q) : i < j => q[i] < q[j]
  BY DEF Queued
<1>3. \A i \in 1 .. Len(q) : q[i] < e
  BY DEF Queued
<1>4. next \in [Node -> {Stopped} \cup {s + Resolution : s \in Starts}]
  BY DEF Types
<1>5. next'[n] = v /\ \A m \in Node : m # n => next'[m] = next[m]
  BY <1>4
<1>6. e < v - Resolution \/ v = Stopped
  <2>1. PICK s \in Starts : next[n] = s + Resolution
    BY <1>4
  <2>2. s \in Nat /\ Resolution \in Nat
    BY StartIs, Widths
  <2>. QED BY <2>1, <2>2
<1>. HIDE DEF e, q, z
<1>7. /\ \A i, j \in 1 .. Len(z) : i < j => z[i] < z[j]
      /\ \A i \in 1 .. Len(z) : z[i] <= e
  BY <1>1, <1>2, <1>3, QueueAppends
<1>8. ASSUME v # Stopped, NEW i \in 1 .. Len(z) PROVE z[i] < v - Resolution
  <2>1. z \in Seq(Starts)
    BY <1>1 DEF z
  <2>2. z[i] \in Starts
    BY <1>8, <2>1
  <2>3. z[i] \in Nat /\ e \in Nat
    BY <1>1, <2>2, StartIs
  <2>4. z[i] <= e
    BY <1>7, <1>8
  <2>5. v \in Nat /\ Resolution \in Nat
    BY <1>8, Widths
  <2>6. v - Resolution \in Int /\ e < v - Resolution
    BY <1>6, <1>8, <2>5
  <2>. QED BY <2>3, <2>4, <2>6
<1>9. ASSUME NEW m \in Node
      PROVE  /\ \A i, j \in 1 .. Len(inflight'[m]) : i < j => inflight'[m][i] < inflight'[m][j]
             /\ next'[m] # Stopped => \A i \in 1 .. Len(inflight'[m]) : inflight'[m][i] < next'[m] - Resolution
  <2>1. CASE m = n
    BY <2>1, <1>5, <1>7, <1>8 DEF z
  <2>2. CASE m # n
    BY <2>2, <1>1, <1>5 DEF Queued
  <2>. QED BY <2>1, <2>2
<1>. QED BY <1>9 DEF Queued, Stopped

LEMMA DeliverInOrder ==
    ASSUME Types, Queued, NEW n \in Node, Deliver(n)
    PROVE  /\ Queued'
           /\ Head(inflight[n]) \in Pending(n) /\ Head(inflight[n]) \in Starts
           /\ \A s \in Pending(n)' : Head(inflight[n]) < s
<1>. DEFINE q == inflight[n]
            h == Head(q)
            z == Tail(q)
<1>1. q \in Seq(Starts) /\ q # <<>> /\ inflight' = [inflight EXCEPT ![n] = z] /\ next' = next
  BY DEF Types, Deliver
<1>2. inflight \in [Node -> Seq(Starts)]
  BY DEF Types
<1>3. inflight'[n] = z /\ \A m \in Node : m # n => inflight'[m] = inflight[m]
  BY <1>1, <1>2
<1>4. /\ h = q[1] /\ 1 \in 1 .. Len(q) /\ Len(q) \in Nat /\ z \in Seq(Starts) /\ Len(z) = Len(q) - 1
      /\ \A i \in 1 .. Len(z) : z[i] = q[i + 1]
  BY <1>1
<1>5. \A i, j \in 1 .. Len(q) : i < j => q[i] < q[j]
  BY DEF Queued
<1>6. next[n] # Stopped => \A i \in 1 .. Len(q) : q[i] < next[n] - Resolution
  BY DEF Queued
<1>7. h \in Starts /\ h \in Pending(n)
  <2>1. DOMAIN q = 1 .. Len(q) /\ q[1] \in Starts
    BY <1>1, <1>4
  <2>2. q[1] \in ToSet(q)
    BY <1>4, <2>1 DEF ToSet
  <2>. QED BY <1>4, <2>1, <2>2 DEF Pending
<1>. HIDE DEF q, h, z
<1>8. \A i \in 1 .. Len(z) : i + 1 \in 1 .. Len(q)
  BY <1>4
<1>9. ASSUME NEW m \in Node
      PROVE  /\ \A i, j \in 1 .. Len(inflight'[m]) : i < j => inflight'[m][i] < inflight'[m][j]
             /\ next'[m] # Stopped => \A i \in 1 .. Len(inflight'[m]) : inflight'[m][i] < next'[m] - Resolution
  <2>1. CASE m = n
    <3>1. ASSUME NEW i \in 1 .. Len(z), NEW j \in 1 .. Len(z), i < j PROVE z[i] < z[j]
      BY <1>4, <1>5, <1>8, <3>1
    <3>2. next[n] # Stopped => \A i \in 1 .. Len(z) : z[i] < next[n] - Resolution
      BY <1>4, <1>6, <1>8
    <3>. QED BY <1>1, <1>3, <2>1, <3>1, <3>2
  <2>2. CASE m # n
    BY <2>2, <1>1, <1>3 DEF Queued
  <2>. QED BY <2>1, <2>2
<1>10. Queued'
  BY <1>9 DEF Queued, Stopped
<1>11. ASSUME NEW s \in Pending(n)' PROVE h < s
  <2>1. CASE s \in ToSet(z)
    <3>1. PICK i \in 1 .. Len(z) : s = z[i]
      BY <1>4, <2>1 DEF ToSet
    <3>2. s = q[i + 1] /\ i + 1 \in 1 .. Len(q) /\ 1 < i + 1
      BY <1>4, <1>8, <3>1
    <3>. QED BY <1>4, <1>5, <3>2
  <2>2. CASE next[n] # Stopped /\ s = next[n] - Resolution
    BY <1>4, <1>6, <2>2
  <2>. QED BY <1>1, <1>3, <1>11, <2>1, <2>2 DEF Pending
<1>. QED BY <1>7, <1>10, <1>11 DEF h, q

LEMMA StepKeepsQueued ==
    ASSUME Types, Queued, [Next]_vars
    PROVE  Queued'
<1>1. ASSUME NEW n \in Node, Flush(n) PROVE Queued'
  <2>1. next[n] # Stopped /\ SendMetrics(n) /\ next' = [next EXCEPT ![n] = FollowingFlush(n)]
    BY <1>1 DEF Flush
  <2>2. FollowingFlush(n) > next[n] /\ \E s \in Starts : FollowingFlush(n) = s + Resolution
    BY <2>1, FollowingIs
  <2>3. FollowingFlush(n) \in Nat
    BY <2>2, StartIs
  <2>. QED BY <2>1, <2>2, <2>3, SendKeepsQueued
<1>2. ASSUME NEW n \in Node, LastFlush(n) PROVE Queued'
  BY <1>2, SendKeepsQueued DEF LastFlush
<1>3. ASSUME NEW n \in Node, Deliver(n) PROVE Queued'
  BY <1>3, DeliverInOrder
<1>4. CASE UNCHANGED <<next, inflight>>
  BY <1>4 DEF Queued
<1>5. Tick \/ Replace \/ FinalSnapshot \/ Advance \/ UNCHANGED vars => UNCHANGED <<next, inflight>>
  BY DEF Tick, Replace, FinalSnapshot, Advance, vars, history
<1>. QED BY <1>1, <1>2, <1>3, <1>4, <1>5 DEF Next

LEMMA StepKeepsSerial ==
    ASSUME Alone, Types, Queued, Serial, [Next]_vars
    PROVE  Serial'
<1>0. Types' /\ store.open \subseteq Bucket /\ filed \in Seq(Bucket)
  BY StepKeepsTypes DEF Types, Sound, StoreRecord
<1>1. ASSUME NEW n \in Node, NEW s \in Pending(n)', NEW x \in Nat, \A r \in Pending(n) : x < indexOf(r)
      PROVE  x < indexOf(s)
  <2>1. PICK r \in Pending(n) : r <= s
    BY PendingStep
  <2>2. r \in Int /\ s \in Int
    BY <1>0, PendingTyped, PendingTypedNext, StartIs
  <2>3. indexOf(r) <= indexOf(s) /\ x < indexOf(r) /\ indexOf(r) \in Int /\ indexOf(s) \in Int
    BY <1>1, <2>1, <2>2, IndexMonotone, Index
  <2>. QED BY <2>3
<1>2. \A b \in store.open : b.idx \in Nat
  BY <1>0 DEF Bucket
<1>3. \A i \in 1 .. Len(filed) : filed[i].idx \in Nat
  BY <1>0, IndexIn
<1>4. ASSUME NEW n \in Node, NEW s \in Pending(n)', filed' = filed, NEW i \in 1 .. Len(filed')
      PROVE  filed'[i].idx < indexOf(s)
  BY <1>1, <1>3, <1>4 DEF Serial, Ahead
<1>5. CASE Tick
  <2>1. /\ \A b \in store'.open : b \in store.open
        /\ \A i \in 1 .. Len(Closing) : Closing[i] \in store.open
    BY <1>5, TickCloses
  <2>2. filed' = filed \o Closing /\ Closing \in Seq(Bucket)
    BY <1>5, TickIs
  <2>3. ASSUME NEW n \in Node, NEW s \in Pending(n)', NEW i \in 1 .. Len(filed')
        PROVE  filed'[i].idx < indexOf(s)
    <3>1. CASE i <= Len(filed)
      <4>1. filed'[i] = filed[i] /\ i \in 1 .. Len(filed)
        BY <1>0, <2>2, <3>1
      <4>. QED BY <1>1, <1>3, <4>1 DEF Serial, Ahead
    <3>2. CASE ~(i <= Len(filed))
      <4>1. filed'[i] = Closing[i - Len(filed)] /\ i - Len(filed) \in 1 .. Len(Closing)
        BY <1>0, <2>2, <3>2
      <4>2. filed'[i] \in store.open
        BY <2>1, <4>1
      <4>. QED BY <1>1, <1>2, <4>2 DEF Serial
    <3>. QED BY <3>1, <3>2
  <2>4. ASSUME NEW n \in Node, NEW s \in Pending(n)', NEW b \in store'.open PROVE b.idx < indexOf(s)
    BY <1>1, <1>2, <2>1 DEF Serial
  <2>. QED BY <2>3, <2>4 DEF Serial, Ahead
<1>6. ASSUME NEW m \in Node, Deliver(m) PROVE Serial'
  <2>. DEFINE h == Head(inflight[m])
  <2>1. h \in Pending(m) /\ h \in Starts /\ \A s \in Pending(m)' : h < s
    BY <1>6, DeliverInOrder
  <2>2. filed' = filed /\ store' = Ingest(store, m, h) /\ Sound(store)
    BY <1>6 DEF Deliver, Types
  <2>. HIDE DEF h
  <2>3. \A b \in store'.open : b \in store.open \/ b.idx = indexOf(h)
    BY <2>1, <2>2, IngestIs
  <2>4. ASSUME NEW n \in Node, NEW s \in Pending(n)', NEW b \in store'.open PROVE b.idx < indexOf(s)
    <3>1. CASE b \in store.open
      BY <1>1, <1>2, <3>1 DEF Serial
    <3>2. CASE b.idx = indexOf(h)
      <4>1. n = m
        BY DEF Alone
      <4>2. s \in Starts /\ h < s
        BY <1>0, <2>1, <4>1, PendingTypedNext
      <4>3. /\ s \in Nat /\ indexOf(s) \in Nat /\ indexOf(s) * Resolution = s
            /\ h \in Nat /\ indexOf(h) \in Nat /\ indexOf(h) * Resolution = h
        BY <2>1, <4>2, StartIs
      <4>4. indexOf(h) <= indexOf(s)
        BY <4>2, <4>3, IndexMonotone
      <4>5. indexOf(h) # indexOf(s)
        BY <4>2, <4>3
      <4>. QED BY <3>2, <4>3, <4>4, <4>5
    <3>. QED BY <2>3, <3>1, <3>2
  <2>. QED BY <1>4, <2>2, <2>4 DEF Serial, Ahead
<1>7. CASE UNCHANGED <<store, filed>>
  <2>1. ASSUME NEW n \in Node, NEW s \in Pending(n)', NEW b \in store'.open PROVE b.idx < indexOf(s)
    BY <1>1, <1>2, <1>7 DEF Serial
  <2>. QED BY <1>4, <1>7, <2>1 DEF Serial, Ahead
<1>8. [Next]_vars => \/ Tick \/ \E m \in Node : Deliver(m)
                     \/ UNCHANGED <<store, filed>>
  BY DEF Next, Flush, LastFlush, Replace, FinalSnapshot, Advance, vars, history
<1>. QED BY <1>5, <1>6, <1>7, <1>8

LEMMA InitSerial == Init => PendingInTime /\ Queued /\ Serial /\ Ordered({}) /\ Closed
<1>. SUFFICES ASSUME Init PROVE PendingInTime /\ Queued /\ Serial /\ Ordered({}) /\ Closed
  OBVIOUS
<1>1. store.open = {} /\ Len(filed) = 0 /\ now = Start
  BY DEF Init, NewStore
<1>2. \A n \in Node : Len(inflight[n]) = 0
  BY DEF Init
<1>. QED BY <1>1, <1>2 DEF PendingInTime, Queued, Serial, Ahead, Ordered, Closed

(***************************************************************************)
(* What either way of coming in order gives, and what it keeps in order.   *)
(***************************************************************************)
InStep ==
    /\ Types /\ PendingInTime /\ Queued /\ Ordered({}) /\ Closed
    /\ Alone => Serial

LEMMA InStepAhead ==
    ASSUME InStep, Orderly
    PROVE  Ahead
<1>1. CASE Prompt
  <2>. SUFFICES ASSUME NEW n \in Node, NEW s \in Pending(n), NEW i \in 1 .. Len(filed)
                PROVE  filed[i].idx < indexOf(s)
    BY DEF Ahead
  <2>0. Types /\ Closed /\ PendingInTime
    BY DEF InStep
  <2>1. s \in Starts
    BY <2>0, PendingTyped
  <2>2. s \in Nat /\ indexOf(s) \in Nat /\ indexOf(s) * Resolution = s
    BY <2>1, StartIs
  <2>3. filed \in Seq(Bucket) /\ now \in Nat
    BY <2>0, Widths DEF Types
  <2>4. now # Start
    BY <2>0, <2>3 DEF Closed
  <2>5. Resolution \in Nat \ {0} /\ LateGrace \in Nat /\ MaxLag \in Nat /\ MaxLag < LateGrace + Resolution
    BY <1>1, Widths DEF Prompt
  <2>6. now <= s + MaxLag
    BY <2>0, <2>4 DEF PendingInTime
  <2>. DEFINE x == now - LateGrace
  <2>7. x \in Int /\ s + Resolution - 1 \in Int /\ x <= s + Resolution - 1
    BY <2>2, <2>3, <2>5, <2>6
  <2>8. indexOf(s + Resolution - 1) = indexOf(s)
    BY <2>2, <2>5, <2>7, IndexIs
  <2>9. indexOf(x) <= indexOf(s) /\ indexOf(x) \in Int
    BY <2>7, <2>8, IndexMonotone, Index
  <2>10. filed[i].idx < indexOf(x)
    BY <2>0 DEF Closed, Cutoff
  <2>11. filed[i].idx \in Nat
    BY <2>3, IndexIn
  <2>. QED BY <2>2, <2>9, <2>10, <2>11
<1>2. CASE Alone
  BY <1>2 DEF InStep, Serial
<1>. QED BY <1>1, <1>2 DEF Orderly

LEMMA StepKeepsInStep ==
    ASSUME Orderly, InStep, [Next]_vars
    PROVE  InStep'
<1>1. Types /\ PendingInTime /\ Queued /\ Ordered({}) /\ Closed
  BY DEF InStep
<1>2. Types' /\ PendingInTime' /\ Queued' /\ Closed'
  BY <1>1, StepKeepsTypes, StepKeepsTime, StepKeepsQueued, StepKeepsClosed
<1>3. Alone => Serial'
  BY <1>1, StepKeepsSerial DEF InStep
<1>4. Ordered({})'
  <2>1. CASE Tick
    BY <1>1, <2>1, TickKeepsOrder
  <2>2. ASSUME NEW m \in Node, Deliver(m) PROVE Ordered({})'
    <3>. DEFINE h == Head(inflight[m])
    <3>1. h \in Pending(m) /\ h \in Starts
      BY <1>1, <2>2, DeliverInOrder
    <3>2. filed' = filed /\ store' = Ingest(store, m, h) /\ Sound(store)
      BY <1>1, <2>2 DEF Deliver, Types
    <3>. HIDE DEF h
    <3>3. \A b \in store'.open : b \in store.open \/ b.idx = indexOf(h)
      BY <3>1, <3>2, IngestIs
    <3>4. \A i \in 1 .. Len(filed) : filed[i].idx < indexOf(h)
      BY <3>1, InStepAhead DEF Ahead
    <3>. QED BY <1>1, <3>2, <3>3, <3>4 DEF Ordered
  <2>3. CASE UNCHANGED <<store, filed>>
    BY <1>1, <2>3 DEF Ordered
  <2>4. [Next]_vars => \/ Tick \/ \E m \in Node : Deliver(m)
                       \/ UNCHANGED <<store, filed>>
    BY DEF Next, Flush, LastFlush, Replace, FinalSnapshot, Advance, vars, history
  <2>. QED BY <2>1, <2>2, <2>3, <2>4
<1>5. Alone' = Alone
  BY DEF Alone
<1>. QED BY <1>2, <1>3, <1>4, <1>5 DEF InStep

-----------------------------------------------------------------------------
(***************************************************************************)
(* What has been streamed, next to what has been filed: the watermark is   *)
(* the newest bucket filed, and all that the ring retains was streamed,    *)
(* but for buckets of X.                                                   *)
(***************************************************************************)
StartOf(b) == b.idx * Resolution

Streaming(X) ==
    /\ published = 0 \/ \E k \in 1 .. Len(filed) : published = StartOf(filed[k])
    /\ \A k \in 1 .. Len(filed) : StartOf(filed[k]) <= published
    /\ \A i \in 1 .. Len(stream) : \E k \in 1 .. Len(filed) : stream[i] = StartOf(filed[k])
    /\ \A i, j \in 1 .. Len(stream) : i < j => stream[i] < stream[j]
    /\ \A k \in 1 .. Len(filed) : k > Len(filed) - Capacity =>
           \/ filed[k].idx \in X
           \/ \E i \in 1 .. Len(stream) : stream[i] = StartOf(filed[k])

LEMMA StartOrder ==
    ASSUME NEW b \in Bucket, NEW c \in Bucket
    PROVE  /\ b.idx \in Nat /\ c.idx \in Nat /\ StartOf(b) \in Nat /\ StartOf(c) \in Nat
           /\ b.idx < c.idx <=> StartOf(b) < StartOf(c)
           /\ b.idx > 0 => StartOf(b) > 0
<1>1. b.idx \in Nat /\ c.idx \in Nat /\ Resolution \in Nat \ {0}
  BY Widths DEF Bucket
<1>2. StartOf(b) \in Nat /\ StartOf(c) \in Nat
  BY <1>1 DEF StartOf
<1>3. \A x, y \in Nat : x < y => x * Resolution + Resolution <= y * Resolution
  BY Apart
<1>4. b.idx < c.idx => StartOf(b) < StartOf(c)
  BY <1>1, <1>2, <1>3 DEF StartOf
<1>5. c.idx < b.idx => StartOf(c) < StartOf(b)
  BY <1>1, <1>2, <1>3 DEF StartOf
<1>6. b.idx = c.idx => StartOf(b) = StartOf(c)
  BY DEF StartOf
<1>7. b.idx > 0 => StartOf(b) > 0
  <2>1. 0 * Resolution = 0
    BY <1>1
  <2>. QED BY <1>1, <1>2, <1>3, <2>1 DEF StartOf
<1>. QED BY <1>1, <1>2, <1>4, <1>5, <1>6, <1>7

LEMMA Threshold ==
    ASSUME NEW M \in Nat, NEW P, \A i, j \in 1 .. M : i < j /\ i \in P => j \in P
    PROVE  \E old \in 0 .. M : \A i \in 1 .. M : i \in P <=> i > old
<1>. DEFINE Has(m) == \E old \in 0 .. m : \A i \in 1 .. m : i \in P <=> i > old
            G == {m \in Nat : m <= M => Has(m)}
<1>1. 0 \in G
  <2>1. Has(0)
    OBVIOUS
  <2>. HIDE DEF Has
  <2>. QED BY <2>1
<1>2. ASSUME NEW m \in Nat, m \in G PROVE m + 1 \in G
  <2>. SUFFICES ASSUME m + 1 <= M PROVE Has(m + 1)
    OBVIOUS
  <2>1. PICK old \in 0 .. m : \A i \in 1 .. m : i \in P <=> i > old
    BY <1>2
  <2>2. \A i \in 1 .. m + 1 : i \in 1 .. m \/ i = m + 1
    OBVIOUS
  <2>3. CASE m + 1 \in P
    BY <2>1, <2>2, <2>3
  <2>4. CASE m + 1 \notin P
    <3>1. ASSUME NEW i \in 1 .. m PROVE i \notin P
      <4>1. i \in 1 .. M /\ m + 1 \in 1 .. M /\ i < m + 1
        OBVIOUS
      <4>. QED BY <2>4, <4>1
    <3>2. \A i \in 1 .. m + 1 : i \in P <=> i > m + 1
      BY <2>2, <2>4, <3>1
    <3>. QED BY <3>2
  <2>. QED BY <2>3, <2>4
<1>. HIDE DEF G
<1>3. M \in G
  BY <1>1, <1>2, NumberInduction
<1>. QED BY <1>3 DEF G

(***************************************************************************)
(* What ticksSince returns of a tick: the end of what the tick has filed,  *)
(* from the first bucket that the watermark, or the ring, leaves of it.    *)
(***************************************************************************)
LEMMA TickStreams ==
    ASSUME Types, Tick, \A k \in 1 .. Len(filed) : StartOf(filed[k]) <= published
    PROVE  \E z \in Seq(Nat), p \in Nat :
             /\ stream' = stream \o z /\ published' = Max({published} \cup ToSet(z))
             /\ Len(filed) <= p /\ p + Len(z) = Len(filed')
             /\ \A k \in 1 .. Len(z) : z[k] = StartOf(filed'[p + k]) /\ z[k] > published
             /\ \A i \in 1 .. p : StartOf(filed'[i]) <= published \/ i <= Len(filed') - Capacity
             /\ Len(filed') > 0 /\ p = Len(filed') => StartOf(filed'[Len(filed')]) <= published
<1>. DEFINE f == filed'
            L == Len(filed)
            M == Len(f)
            C == Capacity
            N == store'.closedN
            tl == Timeline(store', published)
            z == StartsOf(tl)
            P == {i \in 1 .. M : StartOf(f[i]) > published}
<1>1. /\ f \in Seq(Bucket) /\ filed \in Seq(Bucket) /\ f = filed \o Closing /\ Closing \in Seq(Bucket)
      /\ store' \in StoreRecord /\ Ring(store', f) /\ published \in Nat /\ Rising(Closing)
      /\ stream' = stream \o z /\ published' = Max({published} \cup ToSet(z)) /\ stream \in Seq(Nat)
  BY TickIs DEF Types, Sound
<1>2. /\ L \in Nat /\ M \in Nat /\ L <= M /\ C \in Nat \ {0} /\ M = L + Len(Closing)
      /\ \A i \in 1 .. L : f[i] = filed[i]
      /\ \A i \in 1 .. M : i > L => i - L \in DOMAIN Closing /\ f[i] = Closing[i - L]
  BY <1>1, Widths
<1>3. \A i \in 1 .. M : f[i] \in Bucket
  BY <1>1
<1>4. \A i \in 1 .. M : StartOf(f[i]) \in Nat
  BY <1>3, StartOrder
<1>5. ASSUME NEW i \in 1 .. M, NEW j \in 1 .. M, i < j, i \in P PROVE j \in P
  <2>1. StartOf(f[i]) > published /\ published \in Nat
    BY <1>1, <1>5
  <2>2. i > L
    <3>. SUFFICES ASSUME i <= L PROVE FALSE
      BY <1>2
    <3>1. f[i] = filed[i] /\ i \in 1 .. L
      BY <1>2
    <3>2. StartOf(f[i]) <= published /\ StartOf(f[i]) \in Nat
      BY <1>4, <3>1
    <3>. QED BY <2>1, <3>2
  <2>3. /\ f[i] = Closing[i - L] /\ f[j] = Closing[j - L] /\ i - L < j - L
        /\ i - L \in DOMAIN Closing /\ j - L \in DOMAIN Closing
    BY <1>2, <1>5, <2>2
  <2>4. f[i].idx < f[j].idx
    BY <1>1, <2>3 DEF Rising
  <2>5. f[i] \in Bucket /\ f[j] \in Bucket
    BY <1>3
  <2>6. StartOf(f[i]) < StartOf(f[j]) /\ StartOf(f[i]) \in Nat /\ StartOf(f[j]) \in Nat
    BY <2>4, <2>5, StartOrder
  <2>. QED BY <2>1, <2>6
<1>6. PICK old \in 0 .. M : \A i \in 1 .. M : i \in P <=> i > old
  <2>1. M \in Nat /\ \A i, j \in 1 .. M : i < j /\ i \in P => j \in P
    BY <1>2, <1>5
  <2>. HIDE DEF P, M
  <2>. QED BY <2>1, Threshold
<1>7. \A i \in 1 .. M : StartOf(f[i]) > published <=> i > old
  BY <1>6
<1>8. old >= L
  <2>. SUFFICES ASSUME old < L PROVE FALSE
    BY <1>2
  <2>1. L \in 1 .. M /\ L \in 1 .. L /\ f[L] = filed[L]
    BY <1>2
  <2>2. StartOf(f[L]) > published /\ StartOf(f[L]) <= published
    BY <1>7, <2>1
  <2>. QED BY <1>1, <1>4, <2>1, <2>2
<1>. DEFINE p == IF old > M - N THEN old ELSE M - N
<1>9. /\ tl \in Seq(Bucket) /\ Len(tl) = M - p /\ \A k \in 1 .. M - p : tl[k] = f[p + k]
      /\ M - N \in Nat /\ M - N = IF M < C THEN 0 ELSE M - C
  <2>1. \A i \in 1 .. M : f[i].idx * Resolution > published <=> i > old
    BY <1>7 DEF StartOf
  <2>2. f \in Seq(Bucket) /\ store' \in StoreRecord /\ Ring(store', f) /\ published \in Nat
    BY <1>1
  <2>. HIDE DEF f
  <2>3. LET n == Len(f) - store'.closedN
            first == IF old > n THEN old ELSE n
        IN  /\ Timeline(store', published) \in Seq(Bucket)
            /\ Len(Timeline(store', published)) = Len(f) - first
            /\ \A k \in 1 .. Len(f) - first : Timeline(store', published)[k] = f[first + k]
            /\ n \in Nat /\ n = IF Len(f) < Capacity THEN 0 ELSE Len(f) - Capacity
    BY <2>1, <2>2, TimelineIs
  <2>. QED BY <2>3
<1>10. /\ z \in Seq(Nat) /\ Len(z) = Len(tl)
       /\ \A i \in 1 .. Len(tl) : z[i] = StartOf(tl[i])
  BY <1>9, StartsOfTyped DEF StartOf
<1>. HIDE DEF tl, z, f, L, M, N, C, P
<1>11. /\ p \in Nat /\ L <= p /\ p <= M /\ old <= p
       /\ p = old \/ (p = M - C /\ p > old)
       /\ M > 0 /\ p = M => old = M
  BY <1>2, <1>8, <1>9
<1>. HIDE DEF p
<1>12. ASSUME NEW k \in 1 .. Len(z) PROVE z[k] = StartOf(f[p + k]) /\ z[k] > published
  <2>1. k \in 1 .. M - p /\ p + k \in 1 .. M /\ p + k > old
    BY <1>2, <1>9, <1>10, <1>11
  <2>2. z[k] = StartOf(f[p + k])
    BY <1>9, <1>10, <2>1
  <2>. QED BY <1>7, <2>1, <2>2
<1>13. p + Len(z) = M
  BY <1>2, <1>9, <1>10, <1>11
<1>14. ASSUME NEW i \in 1 .. M, i <= old PROVE StartOf(f[i]) <= published
  <2>1. ~(StartOf(f[i]) > published)
    BY <1>6, <1>7, <1>14
  <2>2. StartOf(f[i]) \in Nat /\ published \in Nat
    BY <1>1, <1>4
  <2>. QED BY <2>1, <2>2
<1>15. ASSUME NEW i \in 1 .. p PROVE StartOf(f[i]) <= published \/ i <= M - C
  <2>1. i \in 1 .. M
    BY <1>2, <1>11
  <2>2. CASE i <= old
    BY <1>14, <2>1, <2>2
  <2>3. CASE ~(i <= old)
    BY <1>2, <1>11, <2>1, <2>3
  <2>. QED BY <2>2, <2>3
<1>16. M > 0 /\ p = M => StartOf(f[M]) <= published
  BY <1>2, <1>11, <1>14
<1>. QED BY <1>1, <1>10, <1>11, <1>12, <1>13, <1>15, <1>16 DEF f, L, M, C

LEMMA TickKeepsStreaming ==
    ASSUME Types, NEW X, Ordered(X), Streaming(X), Tick
    PROVE  Streaming(X)'
<1>. DEFINE f == filed'
            L == Len(filed)
            M == Len(f)
            C == Capacity
            l == Len(stream)
            s == stream'
<1>0. /\ published = 0 \/ \E k \in 1 .. L : published = StartOf(filed[k])
      /\ \A k \in 1 .. L : StartOf(filed[k]) <= published
      /\ \A i \in 1 .. l : \E k \in 1 .. L : stream[i] = StartOf(filed[k])
      /\ \A i, j \in 1 .. l : i < j => stream[i] < stream[j]
      /\ \A k \in 1 .. L : k > L - C =>
             filed[k].idx \in X \/ \E i \in 1 .. l : stream[i] = StartOf(filed[k])
  BY DEF Streaming
<1>1. PICK z \in Seq(Nat), p \in Nat :
             /\ s = stream \o z /\ published' = Max({published} \cup ToSet(z))
             /\ L <= p /\ p + Len(z) = M
             /\ \A k \in 1 .. Len(z) : z[k] = StartOf(f[p + k]) /\ z[k] > published
             /\ \A i \in 1 .. p : StartOf(f[i]) <= published \/ i <= M - C
             /\ M > 0 /\ p = M => StartOf(f[M]) <= published
  BY <1>0, TickStreams
<1>2. /\ f \in Seq(Bucket) /\ filed \in Seq(Bucket) /\ stream \in Seq(Nat) /\ published \in Nat
      /\ f = filed \o Closing /\ Closing \in Seq(Bucket) /\ Rising(Closing)
  BY TickIs DEF Types
<1>3. /\ L \in Nat /\ M \in Nat /\ L <= M /\ C \in Nat \ {0}
      /\ \A i \in 1 .. L : f[i] = filed[i]
      /\ \A i \in 1 .. M : i > L => i - L \in DOMAIN Closing /\ f[i] = Closing[i - L]
      /\ \A i \in 1 .. M : f[i] \in Bucket
  BY <1>2, Widths
<1>4. \A i \in 1 .. M : f[i].idx \in Nat /\ StartOf(f[i]) \in Nat
  BY <1>3, StartOrder
<1>5. ASSUME NEW i \in 1 .. M, NEW j \in 1 .. M, L < i, i < j PROVE StartOf(f[i]) < StartOf(f[j])
  <2>1. /\ f[i] = Closing[i - L] /\ f[j] = Closing[j - L] /\ i - L < j - L
        /\ i - L \in DOMAIN Closing /\ j - L \in DOMAIN Closing
    BY <1>3, <1>5
  <2>2. f[i].idx < f[j].idx
    BY <1>2, <2>1 DEF Rising
  <2>. QED BY <1>3, <2>2, StartOrder
<1>6. \A i, j \in 1 .. M : i < j => f[i].idx < f[j].idx \/ f[j].idx \in X
  <2>1. Ordered(X)'
    BY TickKeepsOrder
  <2>. QED BY <2>1 DEF Ordered
<1>7. /\ l \in Nat /\ Len(z) \in Nat /\ Len(s) = l + Len(z) /\ s \in Seq(Nat)
      /\ \A i \in 1 .. l : s[i] = stream[i] /\ stream[i] \in Nat
      /\ \A k \in 1 .. Len(z) : s[l + k] = z[k] /\ z[k] \in Nat
  <2>1. s = stream \o z
    BY <1>1
  <2>2. stream \in Seq(Nat) /\ z \in Seq(Nat)
    BY <1>2
  <2>. HIDE DEF s
  <2>. QED BY <2>1, <2>2
<1>p. \A i \in 1 .. M : f[i].idx > 0
  <2>1. Types'
    BY TickKeepsTypes
  <2>. QED BY <2>1 DEF Types
<1>. HIDE DEF f, L, M, C, l, s
<1>8. \A i \in 1 .. l + Len(z) : i \in 1 .. l \/ (i - l \in 1 .. Len(z) /\ i = l + (i - l))
  BY <1>7
<1>9. \A k \in 1 .. Len(z) : p + k \in 1 .. M /\ p + k > L
  BY <1>1, <1>3, <1>7
<1>10. ASSUME NEW i \in 1 .. Len(s) PROVE \E k \in 1 .. M : s[i] = StartOf(f[k])
  <2>1. CASE i \in 1 .. l
    <3>1. PICK k \in 1 .. L : stream[i] = StartOf(filed[k])
      BY <1>0, <2>1
    <3>2. k \in 1 .. M /\ f[k] = filed[k] /\ s[i] = stream[i]
      BY <1>3, <1>7, <2>1, <3>1
    <3>. QED BY <3>1, <3>2
  <2>2. CASE i - l \in 1 .. Len(z) /\ i = l + (i - l)
    <3>1. s[i] = z[i - l] /\ p + (i - l) \in 1 .. M
      BY <1>7, <1>9, <2>2
    <3>. QED BY <1>1, <2>2, <3>1
  <2>. QED BY <1>7, <1>8, <2>1, <2>2
<1>11. ASSUME NEW i \in 1 .. l PROVE stream[i] <= published
  <2>1. PICK k \in 1 .. L : stream[i] = StartOf(filed[k])
    BY <1>0
  <2>. QED BY <1>0, <2>1
<1>12. ASSUME NEW i \in 1 .. Len(s), NEW j \in 1 .. Len(s), i < j PROVE s[i] < s[j]
  <2>1. CASE i \in 1 .. l /\ j \in 1 .. l
    BY <1>0, <1>7, <1>12, <2>1
  <2>2. CASE i \in 1 .. l /\ j - l \in 1 .. Len(z) /\ j = l + (j - l)
    <3>1. s[j] = z[j - l] /\ s[i] = stream[i] /\ z[j - l] \in Nat /\ stream[i] \in Nat
      BY <1>7, <2>2
    <3>2. z[j - l] > published /\ stream[i] <= published
      BY <1>1, <1>11, <2>2
    <3>. QED BY <1>2, <3>1, <3>2, SMTT(30)
  <2>3. CASE i - l \in 1 .. Len(z) /\ i = l + (i - l)
    <3>1. j - l \in 1 .. Len(z) /\ i - l < j - l /\ j = l + (j - l)
      BY <1>7, <1>12, <2>3
    <3>2. /\ p + (i - l) \in 1 .. M /\ p + (j - l) \in 1 .. M /\ p + (i - l) < p + (j - l)
          /\ L < p + (i - l)
      BY <1>9, <2>3, <3>1
    <3>3. s[i] = StartOf(f[p + (i - l)]) /\ s[j] = StartOf(f[p + (j - l)])
      BY <1>1, <1>7, <2>3, <3>1
    <3>. QED BY <1>5, <3>2, <3>3
  <2>. QED BY <1>7, <1>8, <2>1, <2>2, <2>3
<1>13. ASSUME NEW k \in 1 .. M, k > M - C, f[k].idx \notin X
       PROVE  \E i \in 1 .. Len(s) : s[i] = StartOf(f[k])
  <2>1. CASE k <= L
    <3>1. k \in 1 .. L /\ k > L - C
      BY <1>3, <1>13, <2>1
    <3>2. f[k] = filed[k]
      BY <1>3, <3>1
    <3>3. PICK i \in 1 .. l : stream[i] = StartOf(filed[k])
      BY <1>0, <1>13, <3>1, <3>2
    <3>4. i \in 1 .. Len(s) /\ s[i] = stream[i]
      BY <1>7
    <3>. QED BY <3>2, <3>3, <3>4
  <2>2. CASE k > L /\ k <= p
    <3>1. k \in 1 .. p /\ ~(k <= M - C)
      BY <1>3, <1>13, <2>2
    <3>2. StartOf(f[k]) <= published /\ StartOf(f[k]) \in Nat
      BY <1>1, <1>4, <3>1
    <3>3. StartOf(f[k]) > 0
      BY <1>3, <1>p, StartOrder
    <3>4. PICK m \in 1 .. L : published = StartOf(filed[m])
      <4>1. published # 0
        <5>1. PICK x : x = StartOf(f[k])
          OBVIOUS
        <5>2. x \in Nat /\ x > 0 /\ x <= published
          BY <3>2, <3>3, <5>1
        <5>. QED BY <1>2, <5>2
      <4>. QED BY <1>0, <4>1
    <3>5. m \in 1 .. M /\ m < k /\ f[m] = filed[m]
      BY <1>3, <2>2
    <3>6. f[m].idx < f[k].idx
      BY <1>6, <1>13, <3>5
    <3>7. StartOf(f[m]) < StartOf(f[k]) /\ StartOf(f[m]) \in Nat
      BY <1>3, <3>5, <3>6, StartOrder
    <3>. QED BY <3>2, <3>4, <3>5, <3>7
  <2>3. CASE k > p
    <3>1. k - p \in 1 .. Len(z) /\ k = p + (k - p)
      <4>1. p + Len(z) = M
        BY <1>1
      <4>2. M \in Int /\ Len(z) \in Int /\ p \in Int /\ k \in Int /\ k <= M
        BY <1>3, <1>7
      <4>4. PICK n : n = Len(z)
        OBVIOUS
      <4>5. n \in Int /\ p + n = M
        BY <4>1, <4>2, <4>4
      <4>6. k - p \in 1 .. n /\ k = p + (k - p)
        BY <2>3, <4>2, <4>5
      <4>. QED BY <4>4, <4>6
    <3>2. l + (k - p) \in 1 .. Len(s) /\ s[l + (k - p)] = z[k - p] /\ z[k - p] = StartOf(f[k])
      <4>1. l + (k - p) \in 1 .. Len(s)
        BY <1>7, <3>1
      <4>2. z[k - p] = StartOf(f[p + (k - p)])
        BY <1>1, <3>1
      <4>. QED BY <1>7, <3>1, <4>1, <4>2
    <3>. QED BY <3>2
  <2>. QED BY <1>3, <2>1, <2>2, <2>3
<1>. DEFINE T == {published} \cup ToSet(z)
<1>14. Max(T) \in T /\ Max(T) \in Nat /\ \A x \in T : x <= Max(T)
  BY <1>1, <1>2, LargestIn
<1>15. ToSet(z) = {z[k] : k \in 1 .. Len(z)}
  <2>1. DOMAIN z = 1 .. Len(z)
    OBVIOUS
  <2>. QED BY <2>1 DEF ToSet
<1>16. published' = Max(T) /\ published <= Max(T)
  BY <1>1, <1>14
<1>17. published' = 0 \/ \E k \in 1 .. M : published' = StartOf(f[k])
  <2>1. CASE Max(T) = published
    <3>1. CASE published = 0
      BY <1>16, <2>1, <3>1
    <3>2. CASE published # 0
      <4>1. PICK k \in 1 .. L : published = StartOf(filed[k])
        BY <1>0, <3>2
      <4>2. k \in 1 .. M /\ f[k] = filed[k]
        BY <1>3
      <4>. QED BY <1>16, <2>1, <4>1, <4>2
    <3>. QED BY <3>1, <3>2
  <2>2. CASE Max(T) \in ToSet(z)
    <3>1. PICK k \in 1 .. Len(z) : Max(T) = z[k]
      BY <1>15, <2>2
    <3>2. p + k \in 1 .. M /\ z[k] = StartOf(f[p + k])
      BY <1>1, <1>9
    <3>. QED BY <1>16, <3>1, <3>2
  <2>. QED BY <1>14, <2>1, <2>2
<1>18. ASSUME NEW k \in 1 .. M PROVE StartOf(f[k]) <= published'
  <2>0. published' \in Nat /\ published <= published' /\ StartOf(f[k]) \in Nat /\ published \in Nat
    BY <1>2, <1>4, <1>14, <1>16
  <2>1. CASE StartOf(f[k]) <= published
    BY <2>0, <2>1
  <2>2. CASE ~(StartOf(f[k]) <= published)
    <3>1. k > L
      <4>. SUFFICES ASSUME k <= L PROVE FALSE
        BY <1>3
      <4>1. k \in 1 .. L /\ f[k] = filed[k]
        BY <1>3
      <4>. QED BY <1>0, <2>2, <4>1
    <3>2. M \in 1 .. M /\ M > 0 /\ k <= M
      BY <1>3
    <3>3. StartOf(f[k]) <= StartOf(f[M]) /\ StartOf(f[M]) \in Nat
      <4>1. CASE k = M
        BY <1>4, <4>1
      <4>2. CASE k < M
        BY <1>4, <1>5, <3>1, <3>2, <4>2
      <4>. QED BY <1>3, <3>2, <4>1, <4>2
    <3>4. p # M
      BY <1>1, <2>0, <2>2, <3>2, <3>3
    <3>5. Len(z) \in 1 .. Len(z) /\ z[Len(z)] = StartOf(f[M])
      <4>1. Len(z) \in 1 .. Len(z) /\ p + Len(z) = M
        <5>1. p + Len(z) = M
          BY <1>1
        <5>2. PICK n : n = Len(z)
          OBVIOUS
        <5>3. n \in Nat /\ p + n = M /\ p # M
          BY <1>7, <3>4, <5>1, <5>2
        <5>4. n \in 1 .. n
          BY <5>3
        <5>. QED BY <5>1, <5>2, <5>4
      <4>. QED BY <1>1, <4>1
    <3>6. StartOf(f[M]) \in T
      BY <1>15, <3>5
    <3>7. StartOf(f[M]) <= published'
      <4>. HIDE DEF T
      <4>. QED BY <1>14, <1>16, <3>6
    <3>. QED BY <2>0, <3>3, <3>7
  <2>. QED BY <2>1, <2>2
<1>. HIDE DEF T
<1>. QED BY <1>10, <1>12, <1>13, <1>17, <1>18 DEF Streaming, f, M, s, C

LEMMA StepKeepsStreaming ==
    ASSUME Types, NEW X, Ordered(X), Streaming(X), [Next]_vars
    PROVE  Streaming(X)'
<1>1. CASE Tick
  BY <1>1, TickKeepsStreaming
<1>2. CASE UNCHANGED <<published, stream, filed>>
  BY <1>2 DEF Streaming
<1>3. [Next]_vars => Tick \/ UNCHANGED <<published, stream, filed>>
  BY DEF Next, Flush, LastFlush, Deliver, Replace, FinalSnapshot, Advance, vars, history
<1>. QED BY <1>1, <1>2, <1>3

LEMMA InitStreaming ==
    ASSUME NEW X, Init
    PROVE  Streaming(X)
<1>1. Len(filed) = 0 /\ Len(stream) = 0 /\ published = 0
  BY DEF Init
<1>. QED BY <1>1 DEF Streaming

(***************************************************************************)
(* The late buckets only grow in number, so that they can be X.            *)
(***************************************************************************)
LEMMA StreamingButLate == Spec => [](Charted /\ Streaming(late))
<1>1. Init => Charted /\ Streaming(late)
  <2>1. Init => Charted
    <3>1. Init => Closed /\ Ordered(late)
      BY DEF Init, NewStore, Closed, Ordered
    <3>. QED BY <3>1, InitTypes DEF Charted
  <2>. QED BY <2>1, InitStreaming
<1>2. ASSUME Charted, Streaming(late), [Next]_vars PROVE (Charted /\ Streaming(late))'
  <2>1. Charted'
    BY <1>2, StepKeepsTypes, StepKeepsClosed, StepKeepsChart DEF Charted
  <2>2. PICK X : X = late
    OBVIOUS
  <2>3. Types /\ Ordered(X) /\ Streaming(X)
    BY <1>2, <2>2 DEF Charted, Ordered, Streaming
  <2>4. Streaming(X)'
    BY <1>2, <2>3, StepKeepsStreaming
  <2>5. X \subseteq late'
    <3>1. ASSUME NEW n \in Node, Deliver(n) PROVE late \subseteq late'
      BY <3>1 DEF Deliver
    <3>2. Tick \/ UNCHANGED late \/ (\E n \in Node : Deliver(n))
      BY <1>2 DEF Next, Flush, LastFlush, Replace, FinalSnapshot, Advance, vars, history
    <3>3. Tick => late' = late
      BY DEF Tick
    <3>. QED BY <2>2, <3>1, <3>2, <3>3
  <2>6. Streaming(late)'
    BY <2>4, <2>5 DEF Streaming
  <2>. QED BY <2>1, <2>6
<1>. QED BY <1>1, <1>2, PTL DEF Spec

(***************************************************************************)
(* Live subscribers are pushed buckets in order and none twice, and every  *)
(* bucket that the ring retains, but for those opened after their grace:   *)
(* however many buckets close in one tick, however late the tick is and    *)
(* whatever the capacity of the ring, the watermark of ticksSince skips    *)
(* none.                                                                   *)
(***************************************************************************)
THEOREM BucketsAreStreamedOnce == Spec => []StreamedOnce
<1>1. Streaming(late) => StreamedOnce
  BY DEF Streaming, StreamedOnce, RetainedStreamed, StartOf
<1>. QED BY <1>1, StreamingButLate, PTL

LEMMA StreamingInvariant ==
    ASSUME Orderly
    PROVE  Spec => [](InStep /\ Streaming({}))
<1>1. Init => InStep /\ Streaming({})
  BY InitTypes, InitSerial, InitStreaming DEF InStep
<1>2. InStep /\ Streaming({}) /\ [Next]_vars => (InStep /\ Streaming({}))'
  <2>. SUFFICES ASSUME InStep, Streaming({}), [Next]_vars PROVE (InStep /\ Streaming({}))'
    OBVIOUS
  <2>1. Types /\ Ordered({})
    BY DEF InStep
  <2>. QED BY <2>1, StepKeepsInStep, StepKeepsStreaming
<1>. QED BY <1>1, <1>2, PTL DEF Spec

-----------------------------------------------------------------------------
(***************************************************************************)
(* The dashboard.  A chart is made of buckets that have been streamed: D   *)
(* stands for those, q for the inbox and u for the update under way.       *)
(***************************************************************************)
Message == [run : {"this", "next", "none", "idle"}, ticks : Seq(Nat)]

Carried(u) == ToSet(u.ticks)

Within(x, i, q, u) == (\E j \in i .. Len(q) : x \in Carried(q[j])) \/ x \in Carried(u)

Upward(X, D) == \A s \in X, t \in D : s < t => t \in X

Convex(X, D) == \A r, s \in X, t \in D : r < t /\ t < s => t \in X

(***************************************************************************)
(* Nothing is missing after a message of the inbox, and nothing between    *)
(* the chart X and what comes.                                             *)
(***************************************************************************)
Followed(D, q, u) ==
    \A i \in 1 .. Len(q) : \A s \in Carried(q[i]), t \in D : s < t => Within(t, i, q, u)

Linked(X, D, q, u) ==
    /\ X = {} => \A t \in D : Within(t, 1, q, u)
    /\ \A s \in X, t \in D : s < t => t \in X \/ Within(t, 1, q, u)

LEMMA NoneCarried ==
    /\ NoUpdate \in Message /\ EventUpdate \in Message /\ NextRunTick \in Message
    /\ Carried(NoUpdate) = {} /\ Carried(EventUpdate) = {} /\ Carried(NextRunTick) = {}
<1>1. <<>> \in Seq(Nat) /\ ToSet(<<>>) = {}
  BY DEF ToSet
<1>. QED BY <1>1 DEF NoUpdate, EventUpdate, NextRunTick, Message, Carried

LEMMA CarriedTyped ==
    ASSUME NEW u \in Message
    PROVE  Carried(u) \subseteq Nat /\ (u.ticks = <<>> => Carried(u) = {})
<1>1. u.ticks \in Seq(Nat)
  BY DEF Message
<1>2. ToSet(<<>>) = {}
  BY DEF ToSet
<1>3. ToSet(u.ticks) \subseteq Nat
  BY <1>1 DEF ToSet
<1>. QED BY <1>2, <1>3 DEF Carried

LEMMA AppendWithin ==
    ASSUME NEW q \in Seq(Message), NEW e \in Message, NEW v, NEW i \in 1 .. Len(q) + 1, NEW x
    PROVE  Within(x, i, Append(q, e), v) <=>
             (\E j \in i .. Len(q) : x \in Carried(q[j])) \/ x \in Carried(e) \/ x \in Carried(v)
<1>. DEFINE z == Append(q, e)
<1>1. /\ Len(q) \in Nat /\ Len(z) = Len(q) + 1 /\ z[Len(q) + 1] = e
      /\ \A j \in 1 .. Len(q) : z[j] = q[j]
  OBVIOUS
<1>. HIDE DEF z
<1>2. \A j \in i .. Len(q) : j \in 1 .. Len(q) /\ j \in i .. Len(z)
  BY <1>1
<1>3. \A j \in i .. Len(z) : j \in i .. Len(q) \/ j = Len(q) + 1
  BY <1>1
<1>4. Len(q) + 1 \in i .. Len(z)
  BY <1>1
<1>5. (\E j \in i .. Len(z) : x \in Carried(z[j])) <=>
          (\E j \in i .. Len(q) : x \in Carried(q[j])) \/ x \in Carried(e)
  BY <1>1, <1>2, <1>3, <1>4
<1>. QED BY <1>5 DEF Within, z

LEMMA SendLinks ==
    ASSUME NEW D, NEW q \in Seq(Message), NEW e \in Message, NEW u, NEW v,
           Carried(e) \cup Carried(v) = Carried(u), Upward(Carried(u), D), Followed(D, q, u)
    PROVE  /\ Followed(D, Append(q, e), v)
           /\ \A X : Linked(X, D, q, u) => Linked(X, D, Append(q, e), v)
<1>. DEFINE z == Append(q, e)
<1>1. Len(q) \in Nat /\ Len(z) = Len(q) + 1 /\ z[Len(q) + 1] = e /\ \A j \in 1 .. Len(q) : z[j] = q[j]
  OBVIOUS
<1>2. ASSUME NEW i \in 1 .. Len(q) + 1, NEW x PROVE Within(x, i, z, v) <=> Within(x, i, q, u)
  <2>1. Within(x, i, z, v) <=>
             (\E j \in i .. Len(q) : x \in Carried(q[j])) \/ x \in Carried(e) \/ x \in Carried(v)
    BY AppendWithin
  <2>2. x \in Carried(u) <=> x \in Carried(e) \/ x \in Carried(v)
    OBVIOUS
  <2>. HIDE DEF z
  <2>. QED BY <2>1, <2>2 DEF Within
<1>. HIDE DEF z
<1>3. ASSUME NEW i \in 1 .. Len(z), NEW s \in Carried(z[i]), NEW t \in D, s < t PROVE Within(t, i, z, v)
  <2>1. CASE i \in 1 .. Len(q)
    <3>1. Within(t, i, q, u)
      BY <1>1, <1>3, <2>1 DEF Followed
    <3>2. i \in 1 .. Len(q) + 1
      BY <1>1, <2>1
    <3>. QED BY <1>2, <3>1, <3>2
  <2>2. CASE i = Len(q) + 1
    <3>1. s \in Carried(u)
      BY <1>1, <1>3, <2>2
    <3>2. t \in Carried(u)
      BY <1>3, <3>1 DEF Upward
    <3>3. Within(t, i, q, u) /\ i \in 1 .. Len(q) + 1
      BY <1>1, <2>2, <3>2 DEF Within
    <3>. QED BY <1>2, <3>3
  <2>. QED BY <1>1, <2>1, <2>2
<1>4. \A x : Within(x, 1, z, v) <=> Within(x, 1, q, u)
  <2>1. 1 \in 1 .. Len(q) + 1
    BY <1>1
  <2>. QED BY <1>2, <2>1
<1>. QED BY <1>3, <1>4 DEF Followed, Linked, z

LEMMA SkipLinks ==
    ASSUME NEW D, NEW q, NEW u, NEW v, Carried(v) = Carried(u)
    PROVE  /\ Followed(D, q, u) => Followed(D, q, v)
           /\ \A X : Linked(X, D, q, u) => Linked(X, D, q, v)
<1>1. \A x, i : Within(x, i, q, v) <=> Within(x, i, q, u)
  BY DEF Within
<1>. QED BY <1>1 DEF Followed, Linked

LEMMA TailLinks ==
    ASSUME NEW D, NEW q \in Seq(Message), q # <<>>, NEW u, Followed(D, q, u)
    PROVE  /\ Followed(D, Tail(q), u)
           /\ \A s \in Carried(Head(q)), t \in D :
                s < t => t \in Carried(Head(q)) \/ Within(t, 1, Tail(q), u)
           /\ \A x : Within(x, 1, q, u) <=> x \in Carried(Head(q)) \/ Within(x, 1, Tail(q), u)
<1>. DEFINE z == Tail(q)
            h == Head(q)
<1>1. /\ Len(q) \in Nat \ {0} /\ h = q[1] /\ Len(z) = Len(q) - 1
      /\ \A i \in 1 .. Len(z) : z[i] = q[i + 1]
  OBVIOUS
<1>. HIDE DEF z, h
<1>2. ASSUME NEW i \in Nat \ {0}, NEW x PROVE Within(x, i, z, u) <=> Within(x, i + 1, q, u)
  <2>1. ASSUME NEW j \in i .. Len(z), x \in Carried(z[j]) PROVE \E k \in i + 1 .. Len(q) : x \in Carried(q[k])
    <3>1. j \in 1 .. Len(z) /\ j + 1 \in i + 1 .. Len(q)
      BY <1>1
    <3>. QED BY <1>1, <2>1, <3>1
  <2>2. ASSUME NEW k \in i + 1 .. Len(q), x \in Carried(q[k]) PROVE \E j \in i .. Len(z) : x \in Carried(z[j])
    <3>1. k - 1 \in 1 .. Len(z) /\ k - 1 \in i .. Len(z) /\ (k - 1) + 1 = k
      BY <1>1
    <3>2. z[k - 1] = q[k]
      BY <1>1, <3>1
    <3>. QED BY <2>2, <3>1, <3>2
  <2>. QED BY <2>1, <2>2 DEF Within
<1>3. ASSUME NEW x PROVE Within(x, 1, q, u) <=> x \in Carried(h) \/ Within(x, 1, z, u)
  <2>1. Within(x, 1, z, u) <=> Within(x, 2, q, u)
    <3>1. Within(x, 1, z, u) <=> Within(x, 1 + 1, q, u)
      BY <1>2
    <3>. QED BY <3>1
  <2>2. \A j \in 1 .. Len(q) : j = 1 \/ j \in 2 .. Len(q)
    BY <1>1
  <2>3. 1 \in 1 .. Len(q) /\ \A j \in 2 .. Len(q) : j \in 1 .. Len(q)
    BY <1>1
  <2>. QED BY <1>1, <2>1, <2>2, <2>3 DEF Within
<1>4. ASSUME NEW i \in 1 .. Len(z), NEW s \in Carried(z[i]), NEW t \in D, s < t PROVE Within(t, i, z, u)
  <2>1. i + 1 \in 1 .. Len(q) /\ z[i] = q[i + 1] /\ i \in Nat \ {0}
    BY <1>1
  <2>2. Within(t, i + 1, q, u)
    BY <1>4, <2>1 DEF Followed
  <2>. QED BY <1>2, <2>1, <2>2
<1>5. ASSUME NEW s \in Carried(h), NEW t \in D, s < t PROVE t \in Carried(h) \/ Within(t, 1, z, u)
  <2>1. 1 \in 1 .. Len(q) /\ s \in Carried(q[1])
    BY <1>1
  <2>2. Within(t, 1, q, u)
    BY <1>5, <2>1 DEF Followed
  <2>. QED BY <1>3, <2>2
<1>. QED BY <1>3, <1>4, <1>5 DEF Followed, z, h

LEMMA CollectLinks ==
    ASSUME NEW D, NEW N, NEW q, NEW u, NEW v, Carried(u) = {}, Carried(v) = N
    PROVE  /\ Followed(D, q, u) => Followed(D \cup N, q, v)
           /\ \A X : Linked(X, D, q, u) => Linked(X, D \cup N, q, v)
<1>1. \A x, i : Within(x, i, q, u) => Within(x, i, q, v)
  BY DEF Within
<1>2. \A x \in N : \A i : Within(x, i, q, v)
  BY DEF Within
<1>. QED BY <1>1, <1>2 DEF Followed, Linked

(***************************************************************************)
(* What Newest leaves of a set of starts: its end.                         *)
(***************************************************************************)
LEMMA BoundedBelow ==
    ASSUME NEW X, X \subseteq Nat, X # {}, NEW m \in Nat, \A x \in X : x <= m
    PROVE  IsFiniteSet(X) /\ \E y \in X : \A x \in X : x <= y
<1>1. IsFiniteSet(X)
  BY FS_BoundedSetOfNaturals
<1>. DEFINE Gap == {m - x : x \in X}
<1>2. Gap \subseteq Nat /\ Gap # {}
  <2>1. \A x \in X : x \in Nat /\ x <= m
    OBVIOUS
  <2>2. \A x \in X : m - x \in Nat
    BY <2>1
  <2>. QED BY <2>2
<1>3. PICK g \in Gap : \A k \in Gap : <<k, g>> \notin OpToRel(<, Nat)
  <2>. HIDE DEF Gap
  <2>. QED BY <1>2, NatLessThanWellFounded, WFMin, Zenon
<1>4. PICK y \in X : g = m - y
  OBVIOUS
<1>5. ASSUME NEW x \in X PROVE x <= y
  <2>1. m - x \in Gap /\ m - x \in Nat /\ g \in Nat
    BY <1>2
  <2>. HIDE DEF Gap
  <2>2. ~(m - x < g)
    BY <1>3, <2>1 DEF OpToRel
  <2>. QED BY <1>4, <2>1, <2>2
<1>. QED BY <1>1, <1>5

LEMMA NewestIs ==
    ASSUME NEW X, X \subseteq Nat, NEW m \in Nat, \A x \in X : x <= m
    PROVE  /\ Newest(X) \subseteq X
           /\ Upward(Newest(X), X)
           /\ Newest(X) = {} => X = {}
<1>. DEFINE Above(s) == {t \in X : t > s}
<1>0. MaxTicks \in Nat \ {0}
  BY StreamAssumption DEF StreamAssumption
<1>1. IsFiniteSet(X)
  BY FS_BoundedSetOfNaturals
<1>2. \A s : Newest(X) \subseteq X /\ (s \in Newest(X) <=> s \in X /\ Cardinality(Above(s)) < MaxTicks)
  BY DEF Newest
<1>3. ASSUME NEW s \in Newest(X), NEW t \in X, s < t PROVE t \in Newest(X)
  <2>1. s \in Nat /\ t \in Nat
    BY <1>2
  <2>2. Above(t) \subseteq Above(s) /\ Above(s) \subseteq X
    <3>1. ASSUME NEW x \in X, x > t PROVE x > s
      <4>1. x \in Nat
        OBVIOUS
      <4>. QED BY <1>3, <2>1, <3>1, <4>1
    <3>. QED BY <3>1
  <2>. HIDE DEF Above
  <2>3. IsFiniteSet(Above(s))
    BY <1>1, <2>2, FS_Subset
  <2>4. IsFiniteSet(Above(t)) /\ Cardinality(Above(t)) <= Cardinality(Above(s))
    BY <2>2, <2>3, FS_Subset
  <2>5. Cardinality(Above(t)) \in Nat /\ Cardinality(Above(s)) \in Nat
    BY <2>3, <2>4, FS_CardinalityType
  <2>6. Cardinality(Above(s)) < MaxTicks
    BY <1>2, <1>3
  <2>7. Cardinality(Above(t)) < MaxTicks
    BY <1>0, <2>4, <2>5, <2>6
  <2>. QED BY <1>2, <2>7
<1>4. ASSUME X # {} PROVE Newest(X) # {}
  <2>1. PICK y \in X : \A x \in X : x <= y
    BY <1>4, BoundedBelow
  <2>2. Above(y) = {}
    <3>1. \A x \in X : ~(x > y)
      <4>1. \A x \in X : x \in Nat /\ y \in Nat /\ x <= y
        BY <2>1
      <4>. QED BY <4>1
    <3>. QED BY <3>1
  <2>3. Cardinality(Above(y)) = 0
    BY <2>2, FS_EmptySet
  <2>. QED BY <1>0, <1>2, <2>3
<1>. QED BY <1>2, <1>3, <1>4 DEF Upward

LEMMA NewestLinks ==
    ASSUME NEW D, NEW q, NEW u, NEW X, X \subseteq Nat, NEW m \in Nat, \A x \in X : x <= m,
           Linked(X, D, q, u)
    PROVE  Linked(Newest(X), D, q, u)
<1>1. /\ Newest(X) \subseteq X /\ Upward(Newest(X), X)
      /\ Newest(X) = {} => X = {}
  BY NewestIs
<1>. QED BY <1>1 DEF Linked, Upward

LEMMA MergeLinks ==
    ASSUME NEW D, NEW q \in Seq(Message), q # <<>>, NEW u, NEW X,
           Followed(D, q, u), Linked(X, D, q, u)
    PROVE  Linked(X \cup Carried(Head(q)), D, Tail(q), u)
<1>. DEFINE H == Carried(Head(q))
            W(t) == Within(t, 1, Tail(q), u)
<1>1. /\ \A s \in H, t \in D : s < t => t \in H \/ W(t)
      /\ \A x : Within(x, 1, q, u) <=> x \in H \/ W(x)
  BY TailLinks
<1>2. /\ X = {} => \A t \in D : Within(t, 1, q, u)
      /\ \A s \in X, t \in D : s < t => t \in X \/ Within(t, 1, q, u)
  BY DEF Linked
<1>. HIDE DEF H, W
<1>3. /\ X \cup H = {} => \A t \in D : W(t)
      /\ \A s \in X \cup H, t \in D : s < t => t \in X \cup H \/ W(t)
  BY <1>1, <1>2
<1>. QED BY <1>3 DEF Linked, H, W

LEMMA FetchLinks ==
    ASSUME NEW D, D \subseteq Nat, NEW q, NEW u, NEW X, X \subseteq D, NEW Y, Y \subseteq D,
           Linked(X, D, q, u), Convex(Y, D), \A s \in X : \E y \in Y : ~(y < s)
    PROVE  Linked(Y, D, q, u)
<1>1. ASSUME Y = {} PROVE \A t \in D : Within(t, 1, q, u)
  <2>1. X = {}
    BY <1>1
  <2>. QED BY <2>1 DEF Linked
<1>2. ASSUME NEW s \in Y, NEW t \in D, s < t PROVE t \in Y \/ Within(t, 1, q, u)
  <2>1. CASE \E y \in Y : t <= y
    <3>1. PICK y \in Y : t <= y
      BY <2>1
    <3>2. t = y \/ t < y
      BY <3>1
    <3>. QED BY <1>2, <3>1, <3>2 DEF Convex
  <2>2. CASE \A y \in Y : ~(t <= y)
    <3>0. \A y \in Y : y < t /\ y \in Nat /\ t \in Nat
      BY <2>2
    <3>1. CASE X = {}
      BY <3>1 DEF Linked
    <3>2. CASE X # {}
      <4>1. PICK c \in X : TRUE
        BY <3>2
      <4>2. PICK y \in Y : ~(y < c)
        BY <4>1
      <4>3. c < t
        BY <3>0, <4>1, <4>2
      <4>4. t \notin X
        BY <3>0
      <4>. QED BY <4>1, <4>3, <4>4 DEF Linked
    <3>. QED BY <3>1, <3>2
  <2>. QED BY <2>1, <2>2
<1>. QED BY <1>1, <1>2 DEF Linked

LEMMA StreamedIs ==
    ASSUME Types
    PROVE  ToSet(stream) \subseteq Nat /\ \E m \in Nat : \A x \in ToSet(stream) : x <= m
<1>1. stream \in Seq(Nat)
  BY DEF Types
<1>2. ToSet(stream) \subseteq Nat
  BY <1>1 DEF ToSet
<1>3. \A x \in {0} \cup ToSet(stream) : x <= Max({0} \cup ToSet(stream))
  BY <1>1, LargestIn
<1>4. Max({0} \cup ToSet(stream)) \in Nat
  BY <1>1, LargestIn
<1>. QED BY <1>2, <1>3, <1>4

LEMMA StartsRise ==
    ASSUME NEW f \in Seq(Bucket), \A i, j \in 1 .. Len(f) : i < j => f[i].idx < f[j].idx
    PROVE  /\ \A i \in 1 .. Len(f) : StartOf(f[i]) \in Nat
           /\ \A i, j \in 1 .. Len(f) : i < j => StartOf(f[i]) < StartOf(f[j])
           /\ \A i, j \in 1 .. Len(f) : i <= j => StartOf(f[i]) <= StartOf(f[j])
<1>1. ASSUME NEW i \in 1 .. Len(f) PROVE StartOf(f[i]) \in Nat
  <2>1. f[i].idx \in Nat
    BY IndexIn
  <2>. QED BY <2>1, Widths DEF StartOf
<1>2. ASSUME NEW i \in 1 .. Len(f), NEW j \in 1 .. Len(f), i < j PROVE StartOf(f[i]) < StartOf(f[j])
  <2>1. f[i].idx \in Int /\ f[j].idx \in Int /\ f[i].idx < f[j].idx
    BY <1>2, IndexIn
  <2>2. StartOf(f[i]) + Resolution <= StartOf(f[j])
    BY <2>1, Apart DEF StartOf
  <2>3. StartOf(f[i]) \in Nat /\ StartOf(f[j]) \in Nat /\ Resolution \in Nat \ {0}
    BY <1>1, Widths
  <2>. QED BY <2>2, <2>3
<1>3. ASSUME NEW i \in 1 .. Len(f), NEW j \in 1 .. Len(f), i <= j PROVE StartOf(f[i]) <= StartOf(f[j])
  <2>1. CASE i = j
    BY <1>1, <2>1
  <2>2. CASE i < j
    BY <1>1, <1>2, <2>2
  <2>. QED BY <1>3, <2>1, <2>2
<1>. QED BY <1>1, <1>2, <1>3

(***************************************************************************)
(* A snapshot is the end of what has been streamed.                        *)
(***************************************************************************)
LEMMA SnapshotIs ==
    ASSUME InStep, Streaming({})
    PROVE  /\ Snapshot \subseteq ToSet(stream)
           /\ Upward(Snapshot, ToSet(stream))
           /\ phase # "replaced" /\ Snapshot = {} => ToSet(stream) = {}
<1>0. Types /\ Ordered({})
  BY DEF InStep
<1>1. CASE phase = "replaced"
  BY <1>1 DEF Snapshot, Upward
<1>2. CASE phase # "replaced"
  <2>. DEFINE L == Len(filed)
              C == Capacity
              tl == Timeline(store, 0)
              n == L - store.closedN
              D == ToSet(stream)
              S == Snapshot
  <2>1. store \in StoreRecord /\ filed \in Seq(Bucket) /\ Ring(store, filed) /\ L \in Nat /\ C \in Nat \ {0}
        /\ stream \in Seq(Nat)
    BY <1>0, Widths DEF Types, Sound
  <2>3. /\ tl \in Seq(Bucket) /\ Len(tl) = L - n /\ \A k \in 1 .. L - n : tl[k] = filed[n + k]
        /\ n \in Nat /\ n = IF L < C THEN 0 ELSE L - C
    BY <1>0, TimelineOfAll
  <2>4. S = {StartOf(tl[k]) : k \in 1 .. Len(tl)}
    <3>1. DOMAIN tl = 1 .. Len(tl)
      BY <2>3
    <3>2. S = {tl[k].idx * Resolution : k \in DOMAIN tl}
      BY <1>2 DEF Snapshot
    <3>. HIDE DEF tl
    <3>. QED BY <3>1, <3>2 DEF StartOf
  <2>5. D = {stream[i] : i \in 1 .. Len(stream)}
    BY <2>1 DEF ToSet
  <2>6. /\ \A k \in 1 .. L : StartOf(filed[k]) \in Nat
        /\ \A i, j \in 1 .. L : i < j => StartOf(filed[i]) < StartOf(filed[j])
        /\ \A i, j \in 1 .. L : i <= j => StartOf(filed[i]) <= StartOf(filed[j])
    BY <1>0, <2>1, StartsRise DEF Ordered
  <2>. HIDE DEF L, C, tl, n, D, S
  <2>7. ASSUME NEW k \in 1 .. L, k > n PROVE StartOf(filed[k]) \in S
    <3>1. k - n \in 1 .. L - n /\ n + (k - n) = k
      BY <2>1, <2>3, <2>7
    <3>2. tl[k - n] = filed[k] /\ k - n \in 1 .. Len(tl)
      BY <2>3, <3>1
    <3>. QED BY <2>4, <3>2
  <2>8. ASSUME NEW s \in S PROVE \E k \in 1 .. L : k > n /\ s = StartOf(filed[k])
    <3>1. PICK j \in 1 .. Len(tl) : s = StartOf(tl[j])
      BY <2>4
    <3>2. j \in 1 .. L - n /\ n + j \in 1 .. L /\ n + j > n
      BY <2>1, <2>3
    <3>3. tl[j] = filed[n + j]
      BY <2>3, <3>2
    <3>. QED BY <3>1, <3>2, <3>3
  <2>9. S \subseteq D
    <3>. SUFFICES ASSUME NEW s \in S PROVE s \in D
      OBVIOUS
    <3>1. PICK k \in 1 .. L : k > n /\ s = StartOf(filed[k])
      BY <2>8
    <3>2. k > L - C
      BY <2>1, <2>3, <3>1
    <3>3. \E i \in 1 .. Len(stream) : stream[i] = StartOf(filed[k])
      BY <3>1, <3>2 DEF Streaming, L, C
    <3>. QED BY <2>5, <3>1, <3>3
  <2>10. ASSUME NEW t \in D PROVE \E k \in 1 .. L : t = StartOf(filed[k])
    BY <2>5 DEF Streaming, L
  <2>11. ASSUME NEW s \in S, NEW t \in D, s < t PROVE t \in S
    <3>1. PICK k \in 1 .. L : k > n /\ s = StartOf(filed[k])
      BY <2>8
    <3>2. PICK j \in 1 .. L : t = StartOf(filed[j])
      BY <2>10
    <3>3. ~(j <= k)
      BY <2>6, <2>11, <3>1, <3>2
    <3>4. j > n
      BY <2>1, <2>3, <3>1, <3>3
    <3>. QED BY <2>7, <3>2, <3>4
  <2>12. ASSUME D # {} PROVE S # {}
    <3>1. L \in 1 .. L /\ L > n
      <4>1. \E k \in 1 .. L : TRUE
        BY <2>10, <2>12
      <4>. QED BY <2>1, <2>3, <4>1
    <3>. QED BY <2>7, <3>1
  <2>. QED BY <2>9, <2>11, <2>12 DEF Upward, S, D
<1>. QED BY <1>1, <1>2

(***************************************************************************)
(* What a dashboard knows are buckets that have been streamed; unless it   *)
(* is behind, its inbox lacks none that follow, and neither does what it   *)
(* shows, or is about to show.                                             *)
(***************************************************************************)
Known ==
    LET D == ToSet(stream)
    IN  /\ update \in Message /\ update.run # "next" /\ inbox \in Seq(Message) /\ behind \in BOOLEAN
        /\ Carried(update) \subseteq D /\ Upward(Carried(update), D)
        /\ \A i \in 1 .. Len(inbox) : Carried(inbox[i]) \subseteq D
        /\ chart \subseteq D /\ frame \subseteq D
        /\ \A X \in fetched : X \subseteq D /\ Convex(X, D)
        /\ conn = "away" => inbox = <<>>
        /\ phase # "replaced" => \A i \in 1 .. Len(inbox) : inbox[i].run # "next"

Complete == ~behind => Followed(ToSet(stream), inbox, update)

Joined ==
    ~behind /\ phase # "replaced" =>
        /\ conn = "writing" => Linked(frame, ToSet(stream), inbox, update)
        /\ conn = "live" => Linked(chart, ToSet(stream), inbox, update)

Viewed == Known /\ Complete /\ Joined

LEMMA QuietKeepsView ==
    ASSUME Viewed, UNCHANGED <<stream, update, viewVars>>, phase' # "replaced" => phase # "replaced"
    PROVE  Viewed'
<1>1. UNCHANGED <<stream, update, conn, inbox, frame, fetched, chart, behind>>
  BY DEF viewVars
<1>2. Known'
  BY <1>1 DEF Viewed, Known
<1>3. Complete'
  BY <1>1 DEF Viewed, Complete
<1>4. Joined'
  BY <1>1 DEF Viewed, Joined
<1>. QED BY <1>2, <1>3, <1>4 DEF Viewed

LEMMA SetOf ==
    ASSUME NEW S, NEW q \in Seq(S)
    PROVE  ToSet(q) = {q[i] : i \in 1 .. Len(q)}
<1>1. DOMAIN q = 1 .. Len(q)
  OBVIOUS
<1>. QED BY <1>1 DEF ToSet

LEMMA CollectIs ==
    ASSUME InStep, Streaming({}), CollectTick
    PROVE  /\ update = NoUpdate /\ update' \in Message /\ update'.run = "this"
           /\ ToSet(stream)' = ToSet(stream) \cup Carried(update')
           /\ \A x \in ToSet(stream), y \in Carried(update') : x < y /\ x \in Nat /\ y \in Nat
<1>0. Types /\ Ordered({}) /\ Tick /\ update = NoUpdate
      /\ update' = TickOf(SubSeq(stream', Len(stream) + 1, Len(stream')))
  BY DEF InStep, CollectTick
<1>1. PICK z \in Seq(Nat) : stream' = stream \o z /\ \A k \in 1 .. Len(z) : z[k] > published
  BY <1>0, TickStreams DEF Streaming
<1>2. stream \in Seq(Nat) /\ filed \in Seq(Bucket) /\ published \in Nat
  BY <1>0 DEF Types
<1>. DEFINE l == Len(stream)
            w == SubSeq(stream', l + 1, Len(stream'))
<1>3. /\ l \in Nat /\ Len(z) \in Nat /\ Len(stream') = l + Len(z) /\ stream' \in Seq(Nat)
      /\ \A i \in 1 .. l : stream'[i] = stream[i]
      /\ \A k \in 1 .. Len(z) : stream'[l + k] = z[k]
  BY <1>1, <1>2
<1>4. w = z
  <2>1. \A i \in l + 1 .. Len(stream') : stream'[i] \in Nat
    BY <1>3, SMTT(30)
  <2>2. l + 1 \in Int /\ Len(stream') \in Int
    BY <1>3
  <2>3. /\ w \in Seq(Nat) /\ Len(w) = (IF l + 1 <= Len(stream') THEN Len(stream') - (l + 1) + 1 ELSE 0)
        /\ \A i \in 1 .. Len(stream') - (l + 1) + 1 : w[i] = stream'[(l + 1) + i - 1]
    BY <2>1, <2>2, SubSeqProperties
  <2>. HIDE DEF w, l
  <2>4. Len(w) = Len(z) /\ Len(stream') - (l + 1) + 1 = Len(z)
    BY <1>3, <2>3
  <2>5. \A i \in 1 .. Len(z) : (l + 1) + i - 1 = l + i
    BY <1>3
  <2>6. \A i \in 1 .. Len(z) : w[i] = z[i]
    BY <1>3, <2>3, <2>4, <2>5
  <2>. QED BY <2>3, <2>4, <2>6, SeqEqual
<1>5. update' \in Message /\ update'.run = "this" /\ update'.ticks = z
  BY <1>0, <1>4 DEF TickOf, Message
<1>6. /\ ToSet(stream) = {stream[i] : i \in 1 .. l} /\ ToSet(z) = {z[k] : k \in 1 .. Len(z)}
      /\ ToSet(stream') = {stream'[i] : i \in 1 .. l + Len(z)}
  <2>1. ToSet(stream') = {stream'[i] : i \in 1 .. Len(stream')}
    BY <1>3, SetOf
  <2>2. ToSet(stream) = {stream[i] : i \in 1 .. l} /\ ToSet(z) = {z[k] : k \in 1 .. Len(z)}
    BY <1>2, SetOf
  <2>. QED BY <1>3, <2>1, <2>2
<1>. HIDE DEF l, w
<1>7. ToSet(stream') = ToSet(stream) \cup ToSet(z)
  <2>1. \A i \in 1 .. l + Len(z) : i \in 1 .. l \/ (i - l \in 1 .. Len(z) /\ i = l + (i - l))
    BY <1>3
  <2>2. ASSUME NEW x \in ToSet(stream') PROVE x \in ToSet(stream) \cup ToSet(z)
    <3>1. PICK i \in 1 .. l + Len(z) : x = stream'[i]
      BY <1>6
    <3>2. CASE i \in 1 .. l
      BY <1>3, <1>6, <3>1, <3>2
    <3>3. CASE i - l \in 1 .. Len(z) /\ i = l + (i - l)
      <4>1. x = z[i - l]
        BY <1>3, <3>1, <3>3
      <4>. QED BY <1>6, <3>3, <4>1
    <3>. QED BY <2>1, <3>2, <3>3
  <2>3. ASSUME NEW x \in ToSet(stream) PROVE x \in ToSet(stream')
    <3>1. PICK i \in 1 .. l : x = stream[i]
      BY <1>6
    <3>2. i \in 1 .. l + Len(z) /\ x = stream'[i]
      BY <1>3, <3>1
    <3>. QED BY <1>6, <3>2
  <2>4. ASSUME NEW x \in ToSet(z) PROVE x \in ToSet(stream')
    <3>1. PICK k \in 1 .. Len(z) : x = z[k]
      BY <1>6
    <3>2. l + k \in 1 .. l + Len(z) /\ x = stream'[l + k]
      BY <1>3, <3>1
    <3>. QED BY <1>6, <3>2
  <2>. QED BY <2>2, <2>3, <2>4
<1>8. ASSUME NEW x \in ToSet(stream), NEW y \in ToSet(z) PROVE x < y /\ x \in Nat /\ y \in Nat
  <2>1. PICK i \in 1 .. l : x = stream[i]
    BY <1>6
  <2>2. PICK k \in 1 .. Len(filed) : x = StartOf(filed[k])
    BY <2>1 DEF Streaming, l
  <2>6. x <= published
    BY <2>2 DEF Streaming
  <2>7. y \in Nat /\ y > published
    BY <1>1, <1>6, SMTT(30)
  <2>8. x \in Nat
    BY <1>2, <2>1 DEF l
  <2>. QED BY <1>2, <2>6, <2>7, <2>8
<1>. QED BY <1>0, <1>5, <1>7, <1>8 DEF Carried

LEMMA CollectKeepsView ==
    ASSUME InStep, Streaming({}), Viewed, CollectTick
    PROVE  Viewed'
<1>. DEFINE D == ToSet(stream)
            N == Carried(update')
            E == ToSet(stream')
<1>1. /\ update = NoUpdate /\ update' \in Message /\ update'.run # "next" /\ E = D \cup N
      /\ \A x \in D, y \in N : x < y /\ x \in Nat /\ y \in Nat
  BY CollectIs
<1>2. UNCHANGED <<conn, inbox, frame, fetched, chart, behind>> /\ (phase' # "replaced" => phase # "replaced")
  BY DEF CollectTick, Tick, EndRun, KeepOn, viewVars
<1>3. Known /\ Complete /\ Joined /\ Carried(update) = {}
  BY <1>1, NoneCarried DEF Viewed
<1>4. N \subseteq Nat /\ D \subseteq Nat
  <2>1. Types
    BY DEF InStep
  <2>. QED BY <1>1, <2>1, CarriedTyped, StreamedIs
<1>5. /\ Followed(D, inbox, update) => Followed(E, inbox, update')
      /\ \A X : Linked(X, D, inbox, update) => Linked(X, E, inbox, update')
  <2>. HIDE DEF D, E
  <2>1. /\ Followed(D, inbox, update) => Followed(D \cup N, inbox, update')
        /\ \A X : Linked(X, D, inbox, update) => Linked(X, D \cup N, inbox, update')
    BY <1>3, CollectLinks
  <2>. QED BY <1>1, <2>1
<1>6. Upward(N, E)
  <2>. SUFFICES ASSUME NEW s \in N, NEW t \in D \cup N, s < t PROVE t \in N
    BY <1>1 DEF Upward
  <2>1. CASE t \in D
    <3>1. t < s /\ s \in Nat /\ t \in Nat
      BY <1>1, <2>1
    <3>. QED BY <3>1
  <2>. QED BY <2>1
<1>7. ASSUME NEW X \in fetched PROVE X \subseteq E /\ Convex(X, E)
  <2>1. X \subseteq D /\ Convex(X, D)
    BY <1>3, <1>7 DEF Known
  <2>2. ASSUME NEW r \in X, NEW s \in X, NEW t \in E, r < t, t < s PROVE t \in X
    <3>1. CASE t \in D
      BY <2>1, <2>2, <3>1 DEF Convex
    <3>2. CASE t \in N
      <4>1. s < t /\ s \in Nat /\ t \in Nat
        BY <1>1, <2>1, <3>2
      <4>. QED BY <2>2, <4>1
    <3>. QED BY <1>1, <3>1, <3>2
  <2>. QED BY <1>1, <2>1, <2>2 DEF Convex
<1>8. Known'
  BY <1>1, <1>2, <1>3, <1>6, <1>7 DEF Known
<1>9. Complete'
  BY <1>2, <1>3, <1>5 DEF Complete
<1>10. Joined'
  BY <1>2, <1>3, <1>5 DEF Joined
<1>. QED BY <1>8, <1>9, <1>10 DEF Viewed

LEMMA PublishKeepsView ==
    ASSUME Viewed, NEW e \in Message, PublishTo(e), UNCHANGED <<stream, phase>>,
           update' \in Message, update'.run # "next",
           Carried(e) \cup Carried(update') = Carried(update), Upward(Carried(update'), ToSet(stream)),
           phase # "replaced" => e.run # "next"
    PROVE  Viewed'
<1>. DEFINE D == ToSet(stream)
<1>0. Known /\ Complete /\ Joined
  BY DEF Viewed
<1>1. UNCHANGED <<conn, frame, fetched, chart>>
  BY DEF PublishTo
<1>2. inbox \in Seq(Message) /\ Upward(Carried(update), D) /\ Carried(update) \subseteq D
  BY <1>0 DEF Known
<1>3. Carried(update') \subseteq D /\ Carried(e) \subseteq D
  BY <1>2
<1>4. CASE conn # "away" /\ inbox' = Append(inbox, e) /\ behind' = behind
  <2>1. /\ Followed(D, inbox, update) => Followed(D, inbox', update')
        /\ Followed(D, inbox, update) =>
             \A X : Linked(X, D, inbox, update) => Linked(X, D, inbox', update')
    <3>. HIDE DEF D
    <3>. QED BY <1>2, <1>4, SendLinks
  <2>2. /\ inbox' \in Seq(Message) /\ Len(inbox') = Len(inbox) + 1 /\ Len(inbox) \in Nat
        /\ inbox'[Len(inbox) + 1] = e /\ \A i \in 1 .. Len(inbox) : inbox'[i] = inbox[i]
    BY <1>2, <1>4
  <2>3. \A i \in 1 .. Len(inbox') : i \in 1 .. Len(inbox) \/ i = Len(inbox) + 1
    BY <2>2
  <2>4. \A i \in 1 .. Len(inbox') : Carried(inbox'[i]) \subseteq D
    BY <1>0, <1>3, <2>2, <2>3 DEF Known
  <2>5. phase # "replaced" => \A i \in 1 .. Len(inbox') : inbox'[i].run # "next"
    BY <1>0, <2>2, <2>3 DEF Known
  <2>6. Known'
    BY <1>0, <1>1, <1>3, <1>4, <2>2, <2>4, <2>5 DEF Known
  <2>7. Complete'
    BY <1>0, <1>4, <2>1 DEF Complete
  <2>8. Joined'
    BY <1>0, <1>1, <1>4, <2>1 DEF Joined, Complete
  <2>. QED BY <2>6, <2>7, <2>8 DEF Viewed
<1>5. CASE conn # "away" /\ inbox' = inbox /\ behind' = (behind \/ e.ticks # <<>>)
  <2>1. Known'
    BY <1>0, <1>1, <1>3, <1>5 DEF Known
  <2>2. CASE e.ticks # <<>> \/ behind
    <3>1. behind'
      BY <1>5, <2>2
    <3>. QED BY <2>1, <3>1 DEF Viewed, Complete, Joined
  <2>3. CASE e.ticks = <<>> /\ ~behind
    <3>1. Carried(update') = Carried(update)
      BY <2>3, CarriedTyped
    <3>2. /\ Followed(D, inbox, update) => Followed(D, inbox, update')
          /\ \A X : Linked(X, D, inbox, update) => Linked(X, D, inbox, update')
      <4>. HIDE DEF D
      <4>. QED BY <3>1, SkipLinks
    <3>3. Complete'
      BY <1>0, <1>5, <2>3, <3>2 DEF Complete
    <3>4. Joined'
      BY <1>0, <1>1, <1>5, <2>3, <3>2 DEF Joined
    <3>. QED BY <2>1, <3>3, <3>4 DEF Viewed
  <2>. QED BY <2>2, <2>3
<1>6. CASE conn = "away" /\ inbox' = inbox /\ behind' = behind
  <2>1. Known'
    BY <1>0, <1>1, <1>3, <1>6 DEF Known
  <2>2. Len(inbox') = 0
    BY <1>0, <1>6 DEF Known
  <2>3. Complete'
    BY <2>2 DEF Complete, Followed
  <2>4. Joined'
    BY <1>1, <1>6 DEF Joined
  <2>. QED BY <2>1, <2>3, <2>4 DEF Viewed
<1>. QED BY <1>4, <1>5, <1>6 DEF PublishTo, Registered, Send

LEMMA ConnectKeepsView ==
    ASSUME InStep, Streaming({}), Viewed,
           Subscribe \/ RenderSnapshot \/ SnapshotArrives \/ Disconnect
    PROVE  Viewed'
<1>. DEFINE D == ToSet(stream)
<1>0. Known /\ Complete /\ Joined
  BY DEF Viewed
<1>1. CASE Subscribe
  <2>1. UNCHANGED <<stream, phase, update, inbox, frame, fetched, chart, behind>> /\ conn' = "subscribed"
    BY <1>1 DEF Subscribe, vars, history
  <2>2. Known'
    BY <1>0, <2>1 DEF Known
  <2>3. Complete' /\ Joined'
    BY <1>0, <2>1 DEF Complete, Joined
  <2>. QED BY <2>2, <2>3 DEF Viewed
<1>2. CASE RenderSnapshot
  <2>1. UNCHANGED <<stream, phase, update, inbox, fetched, chart, behind>> /\ conn' = "writing"
        /\ frame' = Snapshot
    BY <1>2 DEF RenderSnapshot, vars, history
  <2>2. /\ frame' \subseteq D /\ Upward(frame', D)
        /\ phase # "replaced" /\ frame' = {} => D = {}
    BY <2>1, SnapshotIs
  <2>3. Known'
    BY <1>0, <2>1, <2>2 DEF Known
  <2>4. phase # "replaced" => Linked(frame', D, inbox, update)
    BY <2>2 DEF Linked, Upward
  <2>5. Complete' /\ Joined'
    BY <1>0, <2>1, <2>4 DEF Complete, Joined
  <2>. QED BY <2>3, <2>5 DEF Viewed
<1>3. CASE SnapshotArrives
  <2>1. UNCHANGED <<stream, phase, update, inbox, fetched, behind>> /\ conn = "writing" /\ conn' = "live"
        /\ chart' = Newest(frame) /\ frame' = {}
    BY <1>3 DEF SnapshotArrives, vars, history
  <2>2. Types
    BY DEF InStep
  <2>3. PICK m \in Nat : \A x \in D : x <= m
    BY <2>2, StreamedIs
  <2>4. frame \subseteq Nat /\ frame \subseteq D /\ \A x \in frame : x <= m
    BY <1>0, <2>2, <2>3, StreamedIs DEF Known
  <2>5. Newest(frame) \subseteq frame
    BY <2>4, NewestIs
  <2>6. Linked(frame, D, inbox, update) => Linked(Newest(frame), D, inbox, update)
    <3>. HIDE DEF D
    <3>. QED BY <2>4, NewestLinks
  <2>7. Known'
    <3>1. chart' \subseteq D /\ frame' \subseteq D
      BY <2>1, <2>4, <2>5
    <3>. QED BY <1>0, <2>1, <3>1 DEF Known
  <2>8. Complete' /\ Joined'
    BY <1>0, <2>1, <2>6 DEF Complete, Joined
  <2>. QED BY <2>7, <2>8 DEF Viewed
<1>4. CASE Disconnect
  <2>1. /\ UNCHANGED <<stream, phase, update, fetched, chart>> /\ conn' = "away"
        /\ inbox' = <<>> /\ frame' = {} /\ behind' = FALSE
    BY <1>4 DEF Disconnect, vars, history
  <2>2. inbox' \in Seq(Message) /\ Len(inbox') = 0
    BY <2>1
  <2>3. Known'
    <3>1. \A i \in 1 .. Len(inbox') : Carried(inbox'[i]) \subseteq D /\ inbox'[i].run # "next"
      BY <2>2
    <3>2. behind' \in BOOLEAN /\ frame' \subseteq D
      BY <2>1
    <3>. QED BY <1>0, <2>1, <2>2, <3>1, <3>2 DEF Known
  <2>4. Complete' /\ Joined'
    BY <2>1, <2>2 DEF Complete, Joined, Followed
  <2>. QED BY <2>3, <2>4 DEF Viewed
<1>. QED BY <1>1, <1>2, <1>3, <1>4

LEMMA UpdateKeepsView ==
    ASSUME InStep, Viewed, UpdateArrives
    PROVE  Viewed'
<1>. DEFINE D == ToSet(stream)
            h == Head(inbox)
            X == chart \cup Carried(h)
<1>0. Known /\ Complete /\ Joined /\ Types
  BY DEF Viewed, InStep
<1>1. /\ UNCHANGED <<stream, phase, update, conn, frame, fetched, behind>> /\ conn = "live" /\ inbox # <<>>
      /\ chart' = MergeTicks(chart, h) /\ inbox' = Tail(inbox)
  BY DEF UpdateArrives, vars, history
<1>2. inbox \in Seq(Message) /\ chart \subseteq D
  BY <1>0 DEF Known
<1>3. /\ Len(inbox) \in Nat /\ 1 \in 1 .. Len(inbox) /\ h = inbox[1]
      /\ Tail(inbox) \in Seq(Message) /\ Len(Tail(inbox)) = Len(inbox) - 1
      /\ \A i \in 1 .. Len(inbox) - 1 : Tail(inbox)[i] = inbox[i + 1] /\ i + 1 \in 1 .. Len(inbox)
  BY <1>1, <1>2
<1>4. Carried(h) \subseteq D /\ (phase # "replaced" => h.run # "next")
  BY <1>0, <1>3 DEF Known
<1>5. PICK m \in Nat : \A x \in D : x <= m
  BY <1>0, StreamedIs
<1>6. X \subseteq D /\ X \subseteq Nat /\ \A x \in X : x <= m
  BY <1>0, <1>2, <1>4, <1>5, StreamedIs
<1>7. chart' = IF h.run = "next" THEN {} ELSE Newest(X)
  BY <1>1 DEF MergeTicks, Carried
<1>. HIDE DEF X, D, h
<1>8. Newest(X) \subseteq X
  BY <1>6, NewestIs
<1>9. Followed(D, inbox, update) => Followed(D, inbox', update)
  BY <1>1, <1>2, TailLinks
<1>10. Followed(D, inbox, update) /\ Linked(chart, D, inbox, update) => Linked(Newest(X), D, inbox', update)
  <2>. SUFFICES ASSUME Followed(D, inbox, update), Linked(chart, D, inbox, update)
                PROVE  Linked(Newest(X), D, inbox', update)
    OBVIOUS
  <2>1. Linked(X, D, inbox', update)
    BY <1>1, <1>2, MergeLinks DEF X, h
  <2>. QED BY <1>6, <2>1, NewestLinks
<1>11. /\ \A i \in 1 .. Len(inbox') : Carried(inbox'[i]) \subseteq D
       /\ phase # "replaced" => \A i \in 1 .. Len(inbox') : inbox'[i].run # "next"
  BY <1>0, <1>1, <1>3 DEF Known, D
<1>12. chart' \subseteq D
  BY <1>6, <1>7, <1>8
<1>13. Known'
  BY <1>0, <1>1, <1>3, <1>11, <1>12 DEF Known, D
<1>14. Complete'
  BY <1>0, <1>1, <1>9 DEF Complete, D
<1>15. Joined'
  BY <1>0, <1>1, <1>4, <1>7, <1>10 DEF Joined, Complete, D
<1>. QED BY <1>13, <1>14, <1>15 DEF Viewed

LEMMA FetchKeepsView ==
    ASSUME InStep, Streaming({}), Viewed, Fetch \/ \E snapshot \in fetched : FetchArrives(snapshot)
    PROVE  Viewed'
<1>. DEFINE D == ToSet(stream)
<1>0. Known /\ Complete /\ Joined /\ Types
  BY DEF Viewed, InStep
<1>1. CASE Fetch
  <2>1. UNCHANGED <<stream, phase, update, conn, inbox, frame, chart, behind>>
        /\ fetched' = fetched \cup {Snapshot}
    BY <1>1 DEF Fetch, vars, history
  <2>2. Snapshot \subseteq D /\ Convex(Snapshot, D)
    <3>1. Snapshot \subseteq D /\ Upward(Snapshot, D)
      BY SnapshotIs
    <3>. QED BY <3>1 DEF Convex, Upward
  <2>3. \A X \in fetched' : X \subseteq D /\ Convex(X, D)
    BY <1>0, <2>1, <2>2 DEF Known
  <2>4. Known'
    BY <1>0, <2>1, <2>3 DEF Known
  <2>5. Complete' /\ Joined'
    BY <1>0, <2>1 DEF Complete, Joined
  <2>. QED BY <2>4, <2>5 DEF Viewed
<1>2. ASSUME NEW Y \in fetched, FetchArrives(Y) PROVE Viewed'
  <2>1. /\ UNCHANGED <<stream, phase, update, conn, inbox, frame>>
        /\ fetched' = fetched \ {Y} /\ chart' = Newest(Y)
        /\ behind' = (behind \/ (conn = "live" /\ Outdated(Y)))
    BY <1>2 DEF FetchArrives, vars, history
  <2>2. Y \subseteq D /\ Convex(Y, D) /\ chart \subseteq D
    BY <1>0, <1>2 DEF Known
  <2>3. PICK m \in Nat : \A x \in D : x <= m
    BY <1>0, StreamedIs
  <2>4. D \subseteq Nat /\ Y \subseteq Nat /\ \A x \in Y : x <= m
    BY <1>0, <2>2, <2>3, StreamedIs
  <2>5. Newest(Y) \subseteq Y
    BY <2>4, NewestIs
  <2>6. behind' \in BOOLEAN
    BY <2>1
  <2>7. Known'
    <3>1. chart' \subseteq D /\ fetched' \subseteq fetched
      BY <2>1, <2>2, <2>5
    <3>. QED BY <1>0, <2>1, <2>6, <3>1 DEF Known
  <2>8. ~behind' => ~behind /\ (conn = "live" => ~Outdated(Y))
    BY <2>1
  <2>9. Complete'
    BY <1>0, <2>1, <2>8 DEF Complete
  <2>10. ~Outdated(Y) /\ Linked(chart, D, inbox, update) => Linked(Newest(Y), D, inbox, update)
    <3>. SUFFICES ASSUME ~Outdated(Y), Linked(chart, D, inbox, update)
                  PROVE  Linked(Newest(Y), D, inbox, update)
      OBVIOUS
    <3>1. \A s \in chart : \E y \in Y : ~(y < s)
      BY DEF Outdated
    <3>. HIDE DEF D
    <3>2. Linked(Y, D, inbox, update)
      BY <2>2, <2>4, <3>1, FetchLinks
    <3>. QED BY <2>4, <3>2, NewestLinks
  <2>11. Joined'
    BY <1>0, <2>1, <2>8, <2>10 DEF Joined
  <2>. QED BY <2>7, <2>9, <2>11 DEF Viewed
<1>. QED BY <1>1, <1>2

LEMMA LiveStepIsStoreStep == [LiveNext]_liveVars => [Next]_vars
<1>1. StoreStep => [Next]_vars
  BY DEF StoreStep, Next
<1>2. CollectTick => [Next]_vars
  BY DEF CollectTick, Next
<1>3. Publish \/ PublishEvent \/ PublishNextRun => UNCHANGED vars
  BY DEF Publish, PublishEvent, PublishNextRun
<1>4. Subscribe \/ RenderSnapshot \/ SnapshotArrives \/ UpdateArrives \/ Disconnect => UNCHANGED vars
  BY DEF Subscribe, RenderSnapshot, SnapshotArrives, UpdateArrives, Disconnect
<1>5. Fetch \/ (\E snapshot \in fetched : FetchArrives(snapshot)) => UNCHANGED vars
  BY DEF Fetch, FetchArrives
<1>6. UNCHANGED liveVars => UNCHANGED vars
  BY DEF liveVars
<1>. QED BY <1>1, <1>2, <1>3, <1>4, <1>5, <1>6 DEF LiveNext

LEMMA StepKeepsView ==
    ASSUME InStep, Streaming({}), Viewed, [LiveNext]_liveVars
    PROVE  Viewed'
<1>0. Known
  BY DEF Viewed
<1>1. CASE StoreStep
  <2>1. UNCHANGED <<update, viewVars>>
    BY <1>1 DEF StoreStep
  <2>2. stream' = stream /\ (phase' # "replaced" => phase # "replaced")
    BY <1>1 DEF StoreStep, Flush, LastFlush, Deliver, Replace, FinalSnapshot, Advance, history
  <2>. QED BY <2>1, <2>2, QuietKeepsView
<1>2. CASE CollectTick
  BY <1>2, CollectKeepsView
<1>3. CASE Publish
  <2>1. /\ UNCHANGED <<stream, phase>> /\ PublishTo(update) /\ update' = NoUpdate
        /\ update \in Message /\ update.run # "next"
    BY <1>0, <1>3 DEF Publish, vars, history, Known
  <2>2. update' \in Message /\ update'.run # "next" /\ Carried(update') = {}
    BY <2>1, NoneCarried DEF NoUpdate
  <2>3. Carried(update) \cup Carried(update') = Carried(update) /\ Upward(Carried(update'), ToSet(stream))
    BY <2>2 DEF Upward
  <2>. QED BY <2>1, <2>2, <2>3, PublishKeepsView
<1>4. CASE PublishEvent
  <2>1. UNCHANGED <<stream, phase>> /\ PublishTo(EventUpdate) /\ update' = update
    BY <1>4 DEF PublishEvent, vars, history
  <2>2. EventUpdate \in Message /\ Carried(EventUpdate) = {} /\ EventUpdate.run # "next"
    BY NoneCarried DEF EventUpdate
  <2>3. update' \in Message /\ update'.run # "next" /\ Upward(Carried(update'), ToSet(stream))
        /\ Carried(EventUpdate) \cup Carried(update') = Carried(update)
    BY <1>0, <2>1, <2>2 DEF Known
  <2>. QED BY <2>1, <2>2, <2>3, PublishKeepsView
<1>5. CASE PublishNextRun
  <2>1. UNCHANGED <<stream, phase>> /\ PublishTo(NextRunTick) /\ update' = update /\ phase = "replaced"
    BY <1>5 DEF PublishNextRun, vars, history
  <2>2. NextRunTick \in Message /\ Carried(NextRunTick) = {}
    BY NoneCarried
  <2>3. update' \in Message /\ update'.run # "next" /\ Upward(Carried(update'), ToSet(stream))
        /\ Carried(NextRunTick) \cup Carried(update') = Carried(update)
    BY <1>0, <2>1, <2>2 DEF Known
  <2>. QED BY <2>1, <2>2, <2>3, PublishKeepsView
<1>6. CASE Subscribe \/ RenderSnapshot \/ SnapshotArrives \/ Disconnect
  BY <1>6, ConnectKeepsView
<1>7. CASE UpdateArrives
  BY <1>7, UpdateKeepsView
<1>8. CASE Fetch \/ \E snapshot \in fetched : FetchArrives(snapshot)
  BY <1>8, FetchKeepsView
<1>9. CASE UNCHANGED liveVars
  <2>1. UNCHANGED <<stream, update, viewVars>> /\ phase' = phase
    BY <1>9 DEF liveVars, vars, history
  <2>. QED BY <2>1, QuietKeepsView
<1>. QED BY <1>1, <1>2, <1>3, <1>4, <1>5, <1>6, <1>7, <1>8, <1>9 DEF LiveNext

LEMMA InitViewed == LiveInit => Viewed
<1>. SUFFICES ASSUME LiveInit PROVE Viewed
  OBVIOUS
<1>1. /\ stream = <<>> /\ update = NoUpdate /\ inbox = <<>> /\ frame = {} /\ fetched = {} /\ chart = {}
      /\ behind = FALSE /\ conn = "away"
  BY DEF LiveInit, Init
<1>2. ToSet(stream) = {} /\ update \in Message /\ update.run # "next" /\ Carried(update) = {}
  BY <1>1, NoneCarried DEF ToSet, NoUpdate
<1>3. inbox \in Seq(Message) /\ Len(inbox) = 0 /\ behind \in BOOLEAN
  <2>1. behind \in BOOLEAN
    BY <1>1
  <2>2. inbox \in Seq(Message) /\ Len(inbox) = 0
    BY <1>1
  <2>. QED BY <2>1, <2>2
<1>4. Known
  <2>1. \A i \in 1 .. Len(inbox) : Carried(inbox[i]) \subseteq ToSet(stream) /\ inbox[i].run # "next"
    BY <1>3
  <2>. QED BY <1>1, <1>2, <1>3, <2>1 DEF Known, Upward
<1>5. Complete /\ Joined
  BY <1>1, <1>3 DEF Complete, Joined, Followed
<1>. QED BY <1>4, <1>5 DEF Viewed

LEMMA ViewedNoGap ==
    ASSUME InStep, Streaming({}), Viewed
    PROVE  ChartHasNoGap
<1>. DEFINE coming == (UNION {ToSet(inbox[i].ticks) : i \in DOMAIN inbox}) \cup ToSet(update.ticks)
            held(i) == stream[i] \in chart \cup coming
            D == ToSet(stream)
<1>. SUFFICES ASSUME conn = "live", ~behind, phase # "replaced"
              PROVE  /\ \A i, j \in DOMAIN stream : i < j /\ held(i) => held(j)
                     /\ stream # <<>> => held(Len(stream))
  BY DEF ChartHasNoGap
<1>0. Known /\ Followed(D, inbox, update) /\ Linked(chart, D, inbox, update)
  BY DEF Viewed, Complete, Joined
<1>1. inbox \in Seq(Message) /\ Upward(Carried(update), D) /\ stream \in Seq(Nat)
  BY <1>0 DEF Known, InStep, Types
<1>2. /\ DOMAIN inbox = 1 .. Len(inbox) /\ DOMAIN stream = 1 .. Len(stream)
      /\ Len(inbox) \in Nat /\ Len(stream) \in Nat /\ \A i \in 1 .. Len(stream) : stream[i] \in D
  BY <1>1 DEF ToSet
<1>3. \A x : x \in coming <=> Within(x, 1, inbox, update)
  BY <1>2 DEF Within, Carried
<1>4. \A i, j \in 1 .. Len(stream) : i < j => stream[i] < stream[j]
  BY DEF Streaming
<1>. HIDE DEF coming, D
<1>5. ASSUME NEW s \in chart \cup coming, NEW t \in D, s < t PROVE t \in chart \cup coming
  <2>1. CASE s \in chart
    BY <1>0, <1>3, <1>5, <2>1 DEF Linked
  <2>2. CASE s \in Carried(update)
    <3>1. t \in Carried(update)
      BY <1>1, <1>5, <2>2 DEF Upward
    <3>. QED BY <1>3, <3>1 DEF Within
  <2>3. ASSUME NEW i \in 1 .. Len(inbox), s \in Carried(inbox[i]) PROVE t \in chart \cup coming
    <3>1. Within(t, i, inbox, update)
      BY <1>0, <1>5, <2>3 DEF Followed
    <3>2. \A k \in i .. Len(inbox) : k \in 1 .. Len(inbox)
      BY <1>2
    <3>3. Within(t, 1, inbox, update)
      BY <3>1, <3>2 DEF Within
    <3>. QED BY <1>3, <3>3
  <2>4. s \in coming => s \in Carried(update) \/ \E i \in 1 .. Len(inbox) : s \in Carried(inbox[i])
    BY <1>3 DEF Within
  <2>. QED BY <1>5, <2>1, <2>2, <2>3, <2>4
<1>6. ASSUME NEW i \in DOMAIN stream, NEW j \in DOMAIN stream, i < j, held(i) PROVE held(j)
  <2>1. stream[i] < stream[j] /\ stream[j] \in D
    BY <1>2, <1>4, <1>6
  <2>. QED BY <1>5, <1>6, <2>1
<1>7. ASSUME stream # <<>> PROVE held(Len(stream))
  <2>1. Len(stream) \in 1 .. Len(stream)
    BY <1>1, <1>2, <1>7
  <2>2. stream[Len(stream)] \in D
    BY <1>2, <2>1
  <2>3. CASE chart = {}
    BY <1>0, <1>3, <2>2, <2>3 DEF Linked
  <2>4. CASE chart # {}
    <3>1. PICK s \in chart : TRUE
      BY <2>4
    <3>2. s \in D
      BY <1>0, <3>1 DEF Known, D
    <3>3. PICK i \in 1 .. Len(stream) : s = stream[i]
      BY <1>2, <3>2 DEF D, ToSet
    <3>4. CASE i = Len(stream)
      BY <3>3, <3>4
    <3>5. CASE i < Len(stream)
      BY <1>2, <1>6, <2>1, <3>3, <3>5
    <3>6. i = Len(stream) \/ i < Len(stream)
      <4>1. Len(stream) \in Nat
        BY <1>2
      <4>. QED BY <4>1
    <3>. QED BY <3>4, <3>5, <3>6
  <2>. QED BY <2>3, <2>4
<1>. QED BY <1>6, <1>7

(***************************************************************************)
(* handleStream and mergeTicks: what a live dashboard shows or is about to *)
(* be sent is the end of what has been published, without a gap, whenever  *)
(* it subscribed, rendered its snapshot or fetched another, for any        *)
(* subscriber buffer, any length of the chart and any capacity of the      *)
(* ring; a gap only comes from a buffer that was full or from an outdated  *)
(* snapshot.                                                               *)
(***************************************************************************)
THEOREM ALiveChartHasNoGap ==
    ASSUME Orderly
    PROVE  LiveSpec => []ChartHasNoGap
<1>. DEFINE Inv == InStep /\ Streaming({}) /\ Viewed
<1>1. LiveInit => Inv
  <2>1. LiveInit => Init
    BY DEF LiveInit
  <2>. QED BY <2>1, InitTypes, InitSerial, InitStreaming, InitViewed DEF InStep
<1>2. Inv /\ [LiveNext]_liveVars => Inv'
  <2>. SUFFICES ASSUME InStep, Streaming({}), Viewed, [LiveNext]_liveVars PROVE Inv'
    OBVIOUS
  <2>1. Types /\ Ordered({}) /\ [Next]_vars
    BY LiveStepIsStoreStep DEF InStep
  <2>2. InStep' /\ Streaming({})'
    BY <2>1, StepKeepsInStep, StepKeepsStreaming
  <2>. QED BY <2>2, StepKeepsView
<1>3. Inv => ChartHasNoGap
  BY ViewedNoGap
<1>. QED BY <1>1, <1>2, <1>3, PTL DEF LiveSpec
=============================================================================
