--------------------------- MODULE RecorderProofs ---------------------------
(***************************************************************************)
(* What the recorder and the store make of the observations, for every     *)
(* number of workers, virtual users, shards, series and batches.  The      *)
(* order is that of the argument: sums and folds; the wire form of a       *)
(* histogram; aggregates and what a measure reads from one; tables of      *)
(* aggregates; batches; ingestion; the places that hold observations and   *)
(* what each step moves between them; the inductive invariant, and the     *)
(* theorems it gives.                                                      *)
(***************************************************************************)
EXTENDS Recorder, ApportionProofs, SequenceTheorems

(***************************************************************************)
(* Induction over the numbers.                                             *)
(***************************************************************************)
LEMMA NumberInduction ==
    ASSUME NEW G, 0 \in G, \A n \in Nat : n \in G => n + 1 \in G
    PROVE  \A n \in Nat : n \in G
<1>. SUFFICES ASSUME NEW n \in Nat, n \notin G PROVE FALSE
  OBVIOUS
<1>1. PICK m \in Nat \ G : \A i \in Nat \ G : m <= i
  <2>1. Nat \ G \subseteq Nat /\ Nat \ G # {}
    OBVIOUS
  <2>. QED BY <2>1, LeastNat
<1>2. m # 0 /\ m \in Nat
  OBVIOUS
<1>3. m - 1 \in Nat /\ (m - 1) + 1 = m
  BY <1>2
<1>4. m - 1 \in G
  <2>1. ~(m <= m - 1)
    BY <1>2
  <2>. QED BY <1>1, <1>3, <2>1
<1>. QED BY <1>1, <1>3, <1>4

(***************************************************************************)
(* A fold over the subsets of a finite set exists: the element taken from  *)
(* a set is given by c, what is done with it by F.                         *)
(***************************************************************************)
Chooses(c, S) == \A s \in SUBSET S : s # {} => c[s] \in s

IsFold(g, b, F, c, S) ==
    \A s \in SUBSET S : g[s] = IF s = {} THEN b ELSE F[<<c[s], g[s \ {c[s]}]>>]

LEMMA FoldExists ==
    ASSUME NEW S, IsFiniteSet(S), NEW V, NEW b \in V, NEW F \in [S \X V -> V], NEW c, Chooses(c, S)
    PROVE  \E g \in [SUBSET S -> V] : IsFold(g, b, F, c, S)
<1>. DEFINE Small(s, n) == Cardinality(s) <= n
            Eq(g, s) == g[s] = IF s = {} THEN b ELSE F[<<c[s], g[s \ {c[s]}]>>]
            G == {n \in Nat : \E g \in [SUBSET S -> V] : \A s \in SUBSET S : Small(s, n) => Eq(g, s)}
<1>c. \A s \in SUBSET S : IsFiniteSet(s) /\ Cardinality(s) \in Nat /\ (Cardinality(s) = 0 <=> s = {})
  BY FS_Subset, FS_CardinalityType, FS_EmptySet
<1>d. \A s \in SUBSET S : s # {} => /\ c[s] \in S /\ s \ {c[s]} \in SUBSET S
                                    /\ Cardinality(s \ {c[s]}) = Cardinality(s) - 1
  BY <1>c, FS_RemoveElement DEF Chooses
<1>1. 0 \in G
  <2>. DEFINE g == [s \in SUBSET S |-> b]
  <2>1. g \in [SUBSET S -> V]
    OBVIOUS
  <2>2. ASSUME NEW s \in SUBSET S, Small(s, 0) PROVE Eq(g, s)
    <3>1. s = {}
      BY <1>c, <2>2
    <3>. QED BY <3>1
  <2>. HIDE DEF g, Eq, Small
  <2>. QED BY <2>1, <2>2
<1>2. ASSUME NEW n \in Nat, n \in G PROVE n + 1 \in G
  <2>1. PICK g \in [SUBSET S -> V] : \A s \in SUBSET S : Small(s, n) => Eq(g, s)
    BY <1>2
  <2>. DEFINE h == [s \in SUBSET S |-> IF Small(s, n) \/ s = {} THEN g[s] ELSE F[<<c[s], g[s \ {c[s]}]>>]]
  <2>2. h \in [SUBSET S -> V]
    <3>. SUFFICES ASSUME NEW s \in SUBSET S, s # {} PROVE F[<<c[s], g[s \ {c[s]}]>>] \in V
      BY <2>1
    <3>1. c[s] \in S /\ g[s \ {c[s]}] \in V
      BY <1>d, <2>1
    <3>. QED BY <3>1
  <2>3. ASSUME NEW s \in SUBSET S, Small(s, n + 1) PROVE Eq(h, s)
    <3>1. CASE s = {}
      <4>1. Small({}, n) /\ {} \in SUBSET S
        BY FS_EmptySet
      <4>2. g[{}] = b
        BY <2>1, <4>1
      <4>. QED BY <3>1, <4>2
    <3>2. CASE s # {}
      <4>1. s \ {c[s]} \in SUBSET S /\ Small(s \ {c[s]}, n)
        BY <1>c, <1>d, <2>3, <3>2
      <4>2. h[s \ {c[s]}] = g[s \ {c[s]}]
        BY <4>1
      <4>3. h[s] = F[<<c[s], g[s \ {c[s]}]>>]
        <5>1. CASE Small(s, n)
          <6>1. Eq(g, s) /\ h[s] = g[s]
            BY <2>1, <5>1
          <6>. QED BY <3>2, <6>1
        <5>2. CASE ~Small(s, n)
          BY <3>2, <5>2
        <5>. QED BY <5>1, <5>2
      <4>. HIDE DEF h
      <4>. QED BY <3>2, <4>2, <4>3
    <3>. QED BY <3>1, <3>2
  <2>. HIDE DEF h, Eq, Small
  <2>. QED BY <2>2, <2>3
<1>. HIDE DEF G
<1>3. Cardinality(S) \in G
  BY <1>1, <1>2, <1>c, NumberInduction
<1>4. PICK g \in [SUBSET S -> V] : \A s \in SUBSET S : Small(s, Cardinality(S)) => Eq(g, s)
  BY <1>3 DEF G
<1>5. \A s \in SUBSET S : Small(s, Cardinality(S))
  BY FS_Subset
<1>. QED BY <1>4, <1>5 DEF IsFold

(***************************************************************************)
(* The image of a finite set is finite.                                    *)
(***************************************************************************)
LEMMA ImageFinite ==
    ASSUME NEW S, IsFiniteSet(S), NEW f
    PROVE  IsFiniteSet({f[x] : x \in S})
<1>. DEFINE T == {f[x] : x \in S}
            h == [x \in S |-> f[x]]
<1>1. h \in Surjection(S, T)
  BY DEF Surjection
<1>. QED BY <1>1, FS_Surjection

-----------------------------------------------------------------------------
(***************************************************************************)
(* Sums of the values of a function.                                       *)
(***************************************************************************)
LEMMA SumInt ==
    ASSUME NEW f, IsFiniteSet(DOMAIN f), \A x \in DOMAIN f : f[x] \in Int
    PROVE  SumFunction(f) \in Int
<1>1. DOMAIN f \in SUBSET (DOMAIN f)
  OBVIOUS
<1>. QED BY <1>1, SumsInt DEF SumFunction

LEMMA SumOne ==
    ASSUME NEW f, IsFiniteSet(DOMAIN f), \A x \in DOMAIN f : f[x] \in Int, NEW x \in DOMAIN f
    PROVE  SumFunction(f) = f[x] + SumFunctionOnSet(f, DOMAIN f \ {x})
BY SumRemove DEF SumFunction

LEMMA SumZero ==
    ASSUME NEW f, IsFiniteSet(DOMAIN f), \A x \in DOMAIN f : f[x] = 0
    PROVE  SumFunction(f) = 0
<1>1. SumFunction(f) = 0 * Cardinality(DOMAIN f)
  BY SumCount DEF SumFunction
<1>2. Cardinality(DOMAIN f) \in Nat
  BY FS_CardinalityType
<1>. QED BY <1>1, <1>2

LEMMA SumNat ==
    ASSUME NEW f, IsFiniteSet(DOMAIN f), \A x \in DOMAIN f : f[x] \in Nat
    PROVE  /\ SumFunction(f) \in Nat
           /\ \A x \in DOMAIN f : f[x] <= SumFunction(f)
<1>1. ASSUME NEW T \in SUBSET DOMAIN f PROVE SumFunctionOnSet(f, T) \in Nat
  <2>. DEFINE z == [x \in DOMAIN f |-> 0]
  <2>1. IsFiniteSet(T) /\ Cardinality(T) \in Nat
    BY FS_Subset, FS_CardinalityType
  <2>2. \A x \in T : z[x] = 0
    OBVIOUS
  <2>. HIDE DEF z
  <2>3. SumFunctionOnSet(z, T) = 0 * Cardinality(T)
    BY <2>1, <2>2, SumCount
  <2>4. \A x \in T : z[x] \in Int /\ f[x] \in Int /\ z[x] <= f[x]
    BY <2>2
  <2>5. SumFunctionOnSet(z, T) <= SumFunctionOnSet(f, T)
    BY <2>1, <2>4, SumMonotone
  <2>6. SumFunctionOnSet(f, T) \in Int
    <3>1. \A x \in DOMAIN f : f[x] \in Int
      OBVIOUS
    <3>. QED BY <3>1, SumsInt
  <2>. QED BY <2>1, <2>3, <2>5, <2>6
<1>2. SumFunction(f) \in Nat
  BY <1>1 DEF SumFunction
<1>3. ASSUME NEW x \in DOMAIN f PROVE f[x] <= SumFunction(f)
  <2>1. SumFunction(f) = f[x] + SumFunctionOnSet(f, DOMAIN f \ {x})
    BY SumOne
  <2>2. SumFunctionOnSet(f, DOMAIN f \ {x}) \in Nat
    BY <1>1
  <2>. QED BY <2>1, <2>2
<1>. QED BY <1>2, <1>3

(***************************************************************************)
(* The sums of functions that differ at one argument.                      *)
(***************************************************************************)
LEMMA SumChange ==
    ASSUME NEW f, NEW g, NEW x, IsFiniteSet(DOMAIN f), DOMAIN g = DOMAIN f, x \in DOMAIN f,
           \A y \in DOMAIN f : f[y] \in Int /\ g[y] \in Int,
           \A y \in DOMAIN f : y # x => g[y] = f[y]
    PROVE  SumFunction(g) = SumFunction(f) + (g[x] - f[x])
<1>. DEFINE R == DOMAIN f \ {x}
<1>1. SumFunction(f) = f[x] + SumFunctionOnSet(f, R) /\ SumFunction(g) = g[x] + SumFunctionOnSet(g, R)
  BY SumOne
<1>2. IsFiniteSet(R) /\ \A y \in R : f[y] \in Int /\ f[y] = g[y]
  BY FS_Subset
<1>3. SumFunctionOnSet(f, R) = SumFunctionOnSet(g, R)
  <2>. HIDE DEF R
  <2>. QED BY <1>2, SumSame
<1>4. SumFunctionOnSet(f, R) \in Int
  BY SumsInt
<1>. QED BY <1>1, <1>3, <1>4

LEMMA SumExtend ==
    ASSUME NEW f, NEW g, NEW x, IsFiniteSet(DOMAIN f), x \notin DOMAIN f,
           DOMAIN g = DOMAIN f \cup {x}, g[x] \in Int,
           \A y \in DOMAIN f : f[y] \in Int /\ g[y] = f[y]
    PROVE  SumFunction(g) = SumFunction(f) + g[x]
<1>1. IsFiniteSet(DOMAIN g) /\ \A y \in DOMAIN g : g[y] \in Int
  BY FS_AddElement
<1>2. SumFunction(g) = g[x] + SumFunctionOnSet(g, DOMAIN g \ {x})
  BY <1>1, SumOne
<1>3. DOMAIN g \ {x} = DOMAIN f
  OBVIOUS
<1>4. SumFunctionOnSet(f, DOMAIN f) = SumFunctionOnSet(g, DOMAIN f)
  BY SumSame
<1>5. SumFunction(f) = SumFunctionOnSet(f, DOMAIN f) /\ SumFunction(f) \in Int
  BY SumInt DEF SumFunction
<1>. QED BY <1>2, <1>3, <1>4, <1>5

(***************************************************************************)
(* The same values under other names.                                      *)
(***************************************************************************)
LEMMA SumReindex ==
    ASSUME NEW f, NEW g, NEW h, IsFiniteSet(DOMAIN g),
           DOMAIN f = {h[x] : x \in DOMAIN g},
           \A x, y \in DOMAIN g : h[x] = h[y] => x = y,
           \A x \in DOMAIN g : g[x] \in Int /\ f[h[x]] = g[x]
    PROVE  SumFunction(f) = SumFunction(g)
<1>. DEFINE S == DOMAIN g
            Img(A) == {h[x] : x \in A}
            Good == {A \in SUBSET S : SumFunctionOnSet(f, Img(A)) = SumFunctionOnSet(g, A)}
<1>1. {} \in Good
  <2>1. Img({}) = {}
    OBVIOUS
  <2>. QED BY <2>1, SumEmpty
<1>2. ASSUME NEW A \in SUBSET S, NEW x \in S, x \in A, A \ {x} \in Good PROVE A \in Good
  <2>1. IsFiniteSet(A) /\ IsFiniteSet(Img(A))
    <3>1. IsFiniteSet(A)
      BY FS_Subset
    <3>2. IsFiniteSet({h[y] : y \in A})
      BY <3>1, ImageFinite
    <3>. QED BY <3>1, <3>2
  <2>2. (\A y \in A : g[y] \in Int) /\ \A z \in Img(A) : f[z] \in Int
    OBVIOUS
  <2>3. h[x] \in Img(A) /\ Img(A) \ {h[x]} = Img(A \ {x}) /\ f[h[x]] = g[x]
    BY <1>2
  <2>4. SumFunctionOnSet(f, Img(A \ {x})) = SumFunctionOnSet(g, A \ {x})
    BY <1>2
  <2>. HIDE DEF Img
  <2>5. SumFunctionOnSet(f, Img(A)) = f[h[x]] + SumFunctionOnSet(f, Img(A) \ {h[x]})
    BY <2>1, <2>2, <2>3, SumRemove
  <2>6. SumFunctionOnSet(g, A) = g[x] + SumFunctionOnSet(g, A \ {x})
    BY <1>2, <2>1, <2>2, SumRemove
  <2>7. SumFunctionOnSet(f, Img(A)) = SumFunctionOnSet(g, A)
    BY <2>3, <2>4, <2>5, <2>6
  <2>. QED BY <2>7
<1>. HIDE DEF Good
<1>3. S \in Good
  BY <1>1, <1>2, ElementInduction
<1>4. SumFunctionOnSet(f, Img(S)) = SumFunctionOnSet(g, S)
  BY <1>3 DEF Good
<1>. QED BY <1>4 DEF SumFunction

(***************************************************************************)
(* A sum over two halves, and a sum of sums.                               *)
(***************************************************************************)
LEMMA SumHalves ==
    ASSUME NEW f, NEW g, NEW h, IsFiniteSet(DOMAIN h), DOMAIN h = DOMAIN f \cup DOMAIN g,
           DOMAIN f \cap DOMAIN g = {}, \A x \in DOMAIN h : h[x] \in Int,
           \A x \in DOMAIN f : f[x] = h[x], \A x \in DOMAIN g : g[x] = h[x]
    PROVE  SumFunction(h) = SumFunction(f) + SumFunction(g)
<1>1. SumFunction(h) = SumFunctionOnSet(h, DOMAIN f) + SumFunctionOnSet(h, DOMAIN g)
  BY SumUnion DEF SumFunction
<1>2. IsFiniteSet(DOMAIN f) /\ IsFiniteSet(DOMAIN g)
  BY FS_Subset
<1>3. SumFunctionOnSet(f, DOMAIN f) = SumFunctionOnSet(h, DOMAIN f)
  BY <1>2, SumSame
<1>4. SumFunctionOnSet(g, DOMAIN g) = SumFunctionOnSet(h, DOMAIN g)
  BY <1>2, SumSame
<1>. QED BY <1>1, <1>3, <1>4 DEF SumFunction

LEMMA SumPlus ==
    ASSUME NEW f, NEW g, NEW h, IsFiniteSet(DOMAIN h), DOMAIN f = DOMAIN h, DOMAIN g = DOMAIN h,
           \A x \in DOMAIN h : f[x] \in Int /\ g[x] \in Int /\ h[x] = f[x] + g[x]
    PROVE  SumFunction(h) = SumFunction(f) + SumFunction(g)
BY SumAdd DEF SumFunction

-----------------------------------------------------------------------------
(***************************************************************************)
(* Folds over sequences take the elements off from the last.               *)
(***************************************************************************)
LEMMA MaxBelow ==
    ASSUME NEW n \in Nat, NEW s, s \subseteq 0 .. n, s # {}
    PROVE  Max(s) \in s /\ \A y \in s : Max(s) >= y
<1>. DEFINE T == {n - x : x \in s}
<1>1. T \subseteq Nat /\ T # {}
  <2>1. PICK x \in s : TRUE
    OBVIOUS
  <2>2. n - x \in T
    OBVIOUS
  <2>3. \A y \in s : n - y \in Nat
    OBVIOUS
  <2>. QED BY <2>2, <2>3
<1>2. PICK t \in T : \A u \in T : t <= u
  BY <1>1, LeastNat
<1>3. PICK x \in s : t = n - x
  BY <1>2
<1>4. \A y \in s : x >= y
  <2>. SUFFICES ASSUME NEW y \in s PROVE x >= y
    OBVIOUS
  <2>1. n - y \in T
    OBVIOUS
  <2>2. n - x <= n - y
    BY <1>2, <1>3, <2>1
  <2>. QED BY <2>2
<1>. QED BY <1>3, <1>4 DEF Max

LEMMA MaxIn ==
    ASSUME NEW n \in Nat, NEW s, s \subseteq 1 .. n, s # {}
    PROVE  Max(s) \in s /\ \A y \in s : Max(s) >= y
<1>1. s \subseteq 0 .. n
  OBVIOUS
<1>. QED BY <1>1, MaxBelow

LEMMA MaxUpTo ==
    ASSUME NEW i \in Nat \ {0}
    PROVE  Max(1 .. i) = i /\ (1 .. i) \ {i} = 1 .. i - 1 /\ 1 .. i # {}
<1>1. 1 .. i # {} /\ i \in 1 .. i /\ 1 .. i \subseteq 1 .. i
  OBVIOUS
<1>2. Max(1 .. i) \in 1 .. i /\ \A y \in 1 .. i : Max(1 .. i) >= y
  BY <1>1, MaxIn
<1>3. Max(1 .. i) = i
  BY <1>1, <1>2
<1>. QED BY <1>1, <1>3

LastOf(n) == [s \in SUBSET (1 .. n) |-> Max(s)]

LEMMA LeftFoldExists ==
    ASSUME NEW n \in Nat, NEW V, NEW b \in V, NEW F \in [(1 .. n) \X V -> V]
    PROVE  \E g \in [SUBSET (1 .. n) -> V] : IsFold(g, b, F, LastOf(n), 1 .. n)
<1>1. IsFiniteSet(1 .. n)
  BY FS_Interval
<1>2. Chooses(LastOf(n), 1 .. n)
  BY MaxIn DEF Chooses, LastOf
<1>. QED BY <1>1, <1>2, FoldExists

(***************************************************************************)
(* The total of a histogram is the sum of its counts.                      *)
(***************************************************************************)
LEMMA TotalCountIs ==
    ASSUME NEW n \in Nat, NEW h \in [1 .. n -> Nat]
    PROVE  TotalCount(h) = SumFunction(h)
<1>. DEFINE A(g) == g = [s \in SUBSET DOMAIN h |-> IF s = {} THEN 0 ELSE g[s \ {Max(s)}] + h[Max(s)]]
            G == CHOOSE g : A(g)
<1>1. TotalCount(h) = G[DOMAIN h]
  BY DEF TotalCount, FoldLeft, MapThenFoldSet
<1>2. DOMAIN h = 1 .. n
  OBVIOUS
<1>3. \E g : A(g)
  <2>. DEFINE F == [p \in (1 .. n) \X Int |-> p[2] + h[p[1]]]
  <2>1. F \in [(1 .. n) \X Int -> Int] /\ 0 \in Int
    OBVIOUS
  <2>2. \A i \in 1 .. n, v \in Int : F[<<i, v>>] = v + h[i]
    OBVIOUS
  <2>. HIDE DEF F
  <2>3. PICK g \in [SUBSET (1 .. n) -> Int] : IsFold(g, 0, F, LastOf(n), 1 .. n)
    BY <2>1, LeftFoldExists
  <2>4. ASSUME NEW s \in SUBSET (1 .. n)
        PROVE  g[s] = IF s = {} THEN 0 ELSE g[s \ {Max(s)}] + h[Max(s)]
    <3>1. CASE s # {}
      <4>1. Max(s) \in 1 .. n /\ s \ {Max(s)} \in SUBSET (1 .. n)
        BY <3>1, MaxIn
      <4>2. g[s] = F[<<Max(s), g[s \ {Max(s)}]>>]
        BY <2>3, <3>1 DEF IsFold, LastOf
      <4>. QED BY <2>2, <2>3, <3>1, <4>1, <4>2
    <3>. QED BY <2>3, <3>1 DEF IsFold
  <2>5. g = [s \in SUBSET (1 .. n) |-> IF s = {} THEN 0 ELSE g[s \ {Max(s)}] + h[Max(s)]]
    BY <2>3, <2>4
  <2>. QED BY <1>2, <2>5
<1>4. A(G)
  BY <1>3, Zenon
<1>. DEFINE rhs(s) == IF s = {} THEN 0 ELSE G[s \ {Max(s)}] + h[Max(s)]
<1>5. ASSUME NEW s \in SUBSET (1 .. n)
      PROVE  G[s] = IF s = {} THEN 0 ELSE G[s \ {Max(s)}] + h[Max(s)]
  <2>1. G = [x \in SUBSET (1 .. n) |-> rhs(x)]
    BY <1>2, <1>4
  <2>. HIDE DEF G, rhs
  <2>2. G[s] = rhs(s)
    BY <2>1
  <2>. QED BY <2>2 DEF rhs
<1>. HIDE DEF G
<1>. DEFINE Good == {i \in Nat : i <= n => G[1 .. i] = SumFunctionOnSet(h, 1 .. i)}
<1>6. 0 \in Good
  <2>1. 1 .. 0 = {} /\ {} \in SUBSET (1 .. n)
    OBVIOUS
  <2>. QED BY <1>5, <2>1, SumEmpty
<1>7. ASSUME NEW i \in Nat, i \in Good PROVE i + 1 \in Good
  <2>. SUFFICES ASSUME i + 1 <= n PROVE G[1 .. i + 1] = SumFunctionOnSet(h, 1 .. i + 1)
    OBVIOUS
  <2>1. Max(1 .. i + 1) = i + 1 /\ (1 .. i + 1) \ {i + 1} = 1 .. i /\ 1 .. i + 1 # {}
    <3>1. i + 1 \in Nat \ {0} /\ (i + 1) - 1 = i
      OBVIOUS
    <3>. QED BY <3>1, MaxUpTo
  <2>2. 1 .. i + 1 \in SUBSET (1 .. n)
    OBVIOUS
  <2>3. G[1 .. i + 1] = G[1 .. i] + h[i + 1]
    BY <1>5, <2>1, <2>2
  <2>4. SumFunctionOnSet(h, 1 .. i + 1) = h[i + 1] + SumFunctionOnSet(h, 1 .. i)
    <3>. DEFINE T == 1 .. i + 1
    <3>1. IsFiniteSet(T) /\ (\A x \in T : h[x] \in Int) /\ i + 1 \in T /\ T \ {i + 1} = 1 .. i
      <4>1. IsFiniteSet(1 .. i + 1)
        BY FS_Interval
      <4>2. \A x \in T : h[x] \in Int
        OBVIOUS
      <4>. QED BY <2>1, <4>1, <4>2
    <3>. HIDE DEF T
    <3>2. SumFunctionOnSet(h, T) = h[i + 1] + SumFunctionOnSet(h, T \ {i + 1})
      BY <3>1, SumRemove
    <3>. QED BY <3>1, <3>2 DEF T
  <2>5. SumFunctionOnSet(h, 1 .. i) \in Int /\ h[i + 1] \in Nat
    <3>1. IsFiniteSet(1 .. n) /\ (\A x \in 1 .. n : h[x] \in Int) /\ 1 .. i \in SUBSET (1 .. n)
      BY FS_Interval
    <3>. QED BY <3>1, SumsInt
  <2>6. G[1 .. i] = SumFunctionOnSet(h, 1 .. i)
    BY <1>7
  <2>. QED BY <2>3, <2>4, <2>5, <2>6
<1>. HIDE DEF Good
<1>8. n \in Good
  BY <1>6, <1>7, NumberInduction
<1>. QED BY <1>1, <1>2, <1>8 DEF Good, SumFunction

-----------------------------------------------------------------------------
(***************************************************************************)
(* The wire form of a histogram.  Reads and Emits are the states the two   *)
(* loops pass through.                                                     *)
(***************************************************************************)
ReadState == [counts : Seq(Nat), zero : BOOLEAN, ok : BOOLEAN]

ReadInit == [counts |-> <<>>, zero |-> FALSE, ok |-> TRUE]

Read(st, v) ==
    IF st.zero
    THEN [counts |-> st.counts \o [i \in 1 .. v |-> 0], zero |-> FALSE, ok |-> st.ok /\ v > 0]
    ELSE IF v > 0 THEN [st EXCEPT !.counts = Append(@, v)]
    ELSE [st EXCEPT !.zero = TRUE, !.ok = @ /\ v = 0]

Reading(e) == FoldLeft(Read, ReadInit, e)

Reads(st, e) == /\ st \in [0 .. Len(e) -> ReadState] /\ st[0] = ReadInit
                /\ \A i \in 1 .. Len(e) : st[i] = Read(st[i - 1], e[i])

LEMMA ReadType ==
    ASSUME NEW st \in ReadState, NEW v \in Nat
    PROVE  Read(st, v) \in ReadState
<1>1. [i \in 1 .. v |-> 0] \in Seq(Nat)
  OBVIOUS
<1>2. st.counts \o [i \in 1 .. v |-> 0] \in Seq(Nat) /\ Append(st.counts, v) \in Seq(Nat)
  BY <1>1 DEF ReadState
<1>3. CASE st.zero
  <2>1. Read(st, v) = [counts |-> st.counts \o [i \in 1 .. v |-> 0], zero |-> FALSE, ok |-> st.ok /\ v > 0]
    BY <1>3 DEF Read
  <2>. QED BY <1>2, <2>1 DEF ReadState
<1>4. CASE ~st.zero /\ v > 0
  <2>1. Read(st, v) = [st EXCEPT !.counts = Append(@, v)]
    BY <1>4 DEF Read
  <2>. QED BY <1>2, <2>1 DEF ReadState
<1>5. CASE ~st.zero /\ ~(v > 0)
  <2>1. Read(st, v) = [st EXCEPT !.zero = TRUE, !.ok = @ /\ v = 0]
    BY <1>5 DEF Read
  <2>. QED BY <2>1 DEF ReadState
<1>. QED BY <1>3, <1>4, <1>5

LEMMA ReadingReads ==
    ASSUME NEW e \in Seq(Nat)
    PROVE  \E st : Reads(st, e) /\ Reading(e) = st[Len(e)]
<1>. DEFINE n == Len(e)
            A(g) == g = [s \in SUBSET DOMAIN e |->
                            IF s = {} THEN ReadInit ELSE Read(g[s \ {Max(s)}], e[Max(s)])]
            G == CHOOSE g : A(g)
<1>1. Reading(e) = G[DOMAIN e]
  BY DEF Reading, FoldLeft, MapThenFoldSet
<1>2. DOMAIN e = 1 .. n /\ n \in Nat /\ \A i \in 1 .. n : e[i] \in Nat
  OBVIOUS
<1>. HIDE DEF n
<1>i. ReadInit \in ReadState
  BY DEF ReadInit, ReadState
<1>3. \E g : g \in [SUBSET (1 .. n) -> ReadState] /\ A(g)
  <2>. DEFINE F == [p \in (1 .. n) \X ReadState |-> Read(p[2], e[p[1]])]
  <2>1. F \in [(1 .. n) \X ReadState -> ReadState]
    BY <1>2, ReadType
  <2>2. \A i \in 1 .. n, v \in ReadState : F[<<i, v>>] = Read(v, e[i])
    OBVIOUS
  <2>. HIDE DEF F
  <2>3. PICK g \in [SUBSET (1 .. n) -> ReadState] : IsFold(g, ReadInit, F, LastOf(n), 1 .. n)
    BY <1>2, <1>i, <2>1, LeftFoldExists
  <2>4. ASSUME NEW s \in SUBSET (1 .. n)
        PROVE  g[s] = IF s = {} THEN ReadInit ELSE Read(g[s \ {Max(s)}], e[Max(s)])
    <3>1. CASE s # {}
      <4>1. Max(s) \in 1 .. n /\ s \ {Max(s)} \in SUBSET (1 .. n)
        BY <1>2, <3>1, MaxIn
      <4>2. g[s] = F[<<Max(s), g[s \ {Max(s)}]>>]
        BY <2>3, <3>1 DEF IsFold, LastOf
      <4>. QED BY <2>2, <2>3, <3>1, <4>1, <4>2
    <3>. QED BY <2>3, <3>1 DEF IsFold
  <2>5. g = [s \in SUBSET (1 .. n) |-> IF s = {} THEN ReadInit ELSE Read(g[s \ {Max(s)}], e[Max(s)])]
    BY <2>3, <2>4
  <2>. QED BY <1>2, <2>5
<1>4. A(G)
  BY <1>3, Zenon
<1>. DEFINE rhs(s) == IF s = {} THEN ReadInit ELSE Read(G[s \ {Max(s)}], e[Max(s)])
<1>5. ASSUME NEW s \in SUBSET (1 .. n) PROVE G[s] = rhs(s)
  <2>1. G = [x \in SUBSET (1 .. n) |-> rhs(x)]
    BY <1>2, <1>4
  <2>. HIDE DEF G, rhs
  <2>. QED BY <2>1
<1>. HIDE DEF G
<1>. DEFINE st == [i \in 0 .. n |-> G[1 .. i]]
<1>6. G[{}] = ReadInit /\ 1 .. 0 = {}
  <2>1. {} \in SUBSET (1 .. n)
    OBVIOUS
  <2>2. G[{}] = rhs({})
    BY <1>5, <2>1
  <2>. QED BY <2>2
<1>7. ASSUME NEW i \in Nat, i + 1 <= n PROVE G[1 .. i + 1] = Read(G[1 .. i], e[i + 1])
  <2>1. Max(1 .. i + 1) = i + 1 /\ (1 .. i + 1) \ {i + 1} = 1 .. i /\ 1 .. i + 1 # {}
    <3>1. i + 1 \in Nat \ {0} /\ (i + 1) - 1 = i
      OBVIOUS
    <3>. QED BY <3>1, MaxUpTo
  <2>2. 1 .. i + 1 \in SUBSET (1 .. n)
    BY <1>2, <1>7
  <2>. QED BY <1>5, <2>1, <2>2
<1>8. \A i \in 1 .. n : st[i] = Read(st[i - 1], e[i])
  <2>. SUFFICES ASSUME NEW i \in 1 .. n PROVE st[i] = Read(st[i - 1], e[i])
    OBVIOUS
  <2>1. i - 1 \in Nat /\ (i - 1) + 1 = i /\ i <= n /\ i - 1 \in 0 .. n /\ i \in 0 .. n
    BY <1>2
  <2>2. G[1 .. i] = Read(G[1 .. i - 1], e[i])
    <3>. DEFINE j == i - 1
    <3>1. j \in Nat /\ j + 1 <= n /\ j + 1 = i
      BY <2>1
    <3>. HIDE DEF j
    <3>2. G[1 .. j + 1] = Read(G[1 .. j], e[j + 1])
      BY <1>7, <3>1
    <3>. QED BY <3>1, <3>2 DEF j
  <2>. QED BY <2>1, <2>2
<1>9. \A i \in Nat : i <= n => G[1 .. i] \in ReadState
  <2>. DEFINE Good == {i \in Nat : i <= n => G[1 .. i] \in ReadState}
  <2>1. 0 \in Good
    BY <1>6, <1>i
  <2>2. ASSUME NEW i \in Nat, i \in Good PROVE i + 1 \in Good
    <3>. SUFFICES ASSUME i + 1 <= n PROVE G[1 .. i + 1] \in ReadState
      OBVIOUS
    <3>1. i <= n /\ i + 1 \in 1 .. n
      BY <1>2
    <3>2. G[1 .. i] \in ReadState /\ e[i + 1] \in Nat
      BY <1>2, <2>2, <3>1
    <3>. QED BY <1>7, <3>2, ReadType
  <2>. HIDE DEF Good
  <2>3. \A i \in Nat : i \in Good
    BY <2>1, <2>2, NumberInduction
  <2>. QED BY <2>3 DEF Good
<1>10. st \in [0 .. n -> ReadState] /\ st[0] = ReadInit /\ st[n] = G[1 .. n]
  BY <1>2, <1>6, <1>9
<1>. HIDE DEF st
<1>11. Reads(st, e) /\ Reading(e) = st[Len(e)]
  BY <1>1, <1>2, <1>8, <1>10 DEF Reads, n
<1>. QED BY <1>11

LEMMA ReadingEmpty == Reading(<<>>) = ReadInit
<1>1. <<>> \in Seq(Nat) /\ Len(<<>>) = 0
  OBVIOUS
<1>. QED BY <1>1, ReadingReads DEF Reads

LEMMA ReadingAppend ==
    ASSUME NEW e \in Seq(Nat), NEW v \in Nat
    PROVE  Reading(e) \in ReadState /\ Reading(Append(e, v)) = Read(Reading(e), v)
<1>. DEFINE f == Append(e, v)
            n == Len(e)
<1>1. f \in Seq(Nat) /\ Len(f) = n + 1 /\ n \in Nat /\ (\A i \in 1 .. n : f[i] = e[i]) /\ f[n + 1] = v
  OBVIOUS
<1>2. PICK s : Reads(s, e) /\ Reading(e) = s[n]
  BY ReadingReads
<1>3. PICK t : Reads(t, f) /\ Reading(f) = t[n + 1]
  BY <1>1, ReadingReads
<1>. DEFINE Good == {i \in Nat : i <= n => s[i] = t[i]}
<1>. HIDE DEF f, n
<1>4. 0 \in Good
  BY <1>2, <1>3 DEF Reads
<1>5. ASSUME NEW i \in Nat, i \in Good PROVE i + 1 \in Good
  <2>. SUFFICES ASSUME i + 1 <= n PROVE s[i + 1] = t[i + 1]
    OBVIOUS
  <2>1. i <= n /\ i + 1 \in 1 .. n /\ i + 1 \in 1 .. n + 1 /\ (i + 1) - 1 = i
    BY <1>1
  <2>2. s[i + 1] = Read(s[i], e[i + 1])
    BY <1>2, <2>1 DEF Reads, n
  <2>3. t[i + 1] = Read(t[i], f[i + 1])
    BY <1>1, <1>3, <2>1 DEF Reads
  <2>. QED BY <1>1, <1>5, <2>1, <2>2, <2>3
<1>. HIDE DEF Good
<1>6. n \in Good
  BY <1>1, <1>4, <1>5, NumberInduction
<1>7. s[n] = t[n]
  BY <1>1, <1>6 DEF Good
<1>8. n + 1 \in 1 .. n + 1 /\ (n + 1) - 1 = n
  BY <1>1
<1>9. t[n + 1] = Read(t[n], v)
  BY <1>1, <1>3, <1>8 DEF Reads
<1>10. s[n] \in ReadState
  BY <1>1, <1>2 DEF Reads, n
<1>. QED BY <1>2, <1>3, <1>7, <1>9, <1>10 DEF f

-----------------------------------------------------------------------------
Emit(counts, out, i) ==
    IF counts[i] # 0 THEN Append(out, counts[i])
    ELSE IF i > 1 /\ counts[i - 1] = 0 THEN [out EXCEPT ![Len(out)] = @ + 1]
    ELSE out \o <<0, 1>>

Emits(st, counts) == /\ st[0] = <<>>
                     /\ \A i \in 1 .. Len(counts) : st[i] = Emit(counts, st[i - 1], i)

EmitFold(g, counts, n) ==
    g = [s \in SUBSET (1 .. n) |-> IF s = {} THEN <<>> ELSE Emit(counts, g[s \ {Max(s)}], Max(s))]

(***************************************************************************)
(* The loop of encodeRLE never fails, whatever it is given, so its states  *)
(* need no type.                                                           *)
(***************************************************************************)
LEMMA EmitsExist ==
    ASSUME NEW n \in Nat, NEW counts
    PROVE  \E g : EmitFold(g, counts, n)
<1>. DEFINE S == 1 .. n
            Eq(g, s) == g[s] = IF s = {} THEN <<>> ELSE Emit(counts, g[s \ {Max(s)}], Max(s))
            Small(s, m) == Cardinality(s) <= m
            G == {m \in Nat : \E g : \A s \in SUBSET S : Small(s, m) => Eq(g, s)}
<1>f. IsFiniteSet(S) /\ Cardinality(S) \in Nat
  BY FS_Interval, FS_CardinalityType
<1>c. \A s \in SUBSET S : IsFiniteSet(s) /\ Cardinality(s) \in Nat /\ (Cardinality(s) = 0 <=> s = {})
  BY <1>f, FS_Subset, FS_CardinalityType, FS_EmptySet
<1>d. \A s \in SUBSET S : s # {} => /\ s \ {Max(s)} \in SUBSET S
                                    /\ Cardinality(s \ {Max(s)}) = Cardinality(s) - 1
  BY <1>c, FS_RemoveElement, MaxIn
<1>. HIDE DEF S
<1>1. 0 \in G
  <2>. DEFINE g == [s \in SUBSET S |-> <<>>]
  <2>2. ASSUME NEW s \in SUBSET S, Small(s, 0) PROVE Eq(g, s)
    <3>1. s = {}
      BY <1>c, <2>2
    <3>. QED BY <3>1
  <2>. HIDE DEF g, Eq, Small
  <2>. QED BY <2>2
<1>2. ASSUME NEW m \in Nat, m \in G PROVE m + 1 \in G
  <2>1. PICK g : \A s \in SUBSET S : Small(s, m) => Eq(g, s)
    BY <1>2
  <2>. DEFINE h == [s \in SUBSET S |-> IF s = {} THEN <<>> ELSE Emit(counts, g[s \ {Max(s)}], Max(s))]
  <2>3. ASSUME NEW s \in SUBSET S, Small(s, m + 1) PROVE Eq(h, s)
    <3>1. CASE s = {}
      BY <3>1
    <3>2. CASE s # {}
      <4>1. s \ {Max(s)} \in SUBSET S /\ Small(s \ {Max(s)}, m)
        BY <1>c, <1>d, <2>3, <3>2
      <4>2. Eq(g, s \ {Max(s)})
        BY <2>1, <4>1
      <4>3. h[s \ {Max(s)}] = g[s \ {Max(s)}]
        <5>. DEFINE r == s \ {Max(s)}
        <5>1. r \in SUBSET S /\ Eq(g, r)
          BY <4>1, <4>2
        <5>. HIDE DEF r
        <5>2. h[r] = g[r]
          BY <5>1
        <5>. QED BY <5>2 DEF r
      <4>4. h[s] = Emit(counts, g[s \ {Max(s)}], Max(s))
        BY <3>2
      <4>. HIDE DEF h
      <4>. QED BY <3>2, <4>3, <4>4
    <3>. QED BY <3>1, <3>2
  <2>. HIDE DEF h, Eq, Small
  <2>. QED BY <2>3
<1>. HIDE DEF G
<1>3. Cardinality(S) \in G
  BY <1>1, <1>2, <1>f, NumberInduction
<1>4. PICK g : \A s \in SUBSET S : Small(s, Cardinality(S)) => Eq(g, s)
  BY <1>3 DEF G
<1>5. \A s \in SUBSET S : Small(s, Cardinality(S))
  BY <1>f, FS_Subset
<1>6. \A s \in SUBSET S : Eq(g, s)
  BY <1>4, <1>5
<1>. DEFINE h == [s \in SUBSET S |-> g[s]]
<1>7. ASSUME NEW s \in SUBSET S PROVE Eq(h, s)
  <2>1. CASE s = {}
    BY <1>6, <2>1
  <2>2. CASE s # {}
    <3>1. s \ {Max(s)} \in SUBSET S
      BY <1>d, <2>2
    <3>2. h[s] = g[s] /\ h[s \ {Max(s)}] = g[s \ {Max(s)}]
      BY <3>1
    <3>3. Eq(g, s)
      BY <1>6
    <3>. HIDE DEF h
    <3>. QED BY <2>2, <3>2, <3>3
  <2>. QED BY <2>1, <2>2
<1>8. h = [s \in SUBSET S |-> h[s]]
  OBVIOUS
<1>. HIDE DEF h
<1>9. h = [s \in SUBSET S |-> IF s = {} THEN <<>> ELSE Emit(counts, h[s \ {Max(s)}], Max(s))]
  BY <1>7, <1>8
<1>. QED BY <1>9 DEF S, EmitFold

LEMMA EncodingEmits ==
    ASSUME NEW counts \in Seq(Nat)
    PROVE  \E st : Emits(st, counts) /\ EncodeRLE(counts) = st[Len(counts)]
<1>. DEFINE n == Len(counts)
            q == [i \in 1 .. n |-> i]
            B(g) == g = [s \in SUBSET DOMAIN q |->
                            IF s = {} THEN <<>> ELSE Emit(counts, g[s \ {Max(s)}], q[Max(s)])]
            A(g) == EmitFold(g, counts, n)
            G == CHOOSE g : A(g)
<1>1. EncodeRLE(counts) = (CHOOSE g : B(g))[DOMAIN q]
  BY DEF EncodeRLE, FoldLeft, MapThenFoldSet, Emit
<1>2. n \in Nat /\ DOMAIN q = 1 .. n /\ \A i \in 1 .. n : q[i] = i
  OBVIOUS
<1>. HIDE DEF n, q
<1>3. ASSUME NEW g PROVE A(g) <=> B(g)
  <2>1. \A s \in SUBSET (1 .. n) : s # {} => q[Max(s)] = Max(s)
    BY <1>2, MaxIn
  <2>2. [s \in SUBSET (1 .. n) |-> IF s = {} THEN <<>> ELSE Emit(counts, g[s \ {Max(s)}], q[Max(s)])]
          = [s \in SUBSET (1 .. n) |-> IF s = {} THEN <<>> ELSE Emit(counts, g[s \ {Max(s)}], Max(s))]
    BY <2>1
  <2>. QED BY <1>2, <2>2 DEF EmitFold
<1>4. (CHOOSE g : B(g)) = G
  <2>. HIDE DEF A, B
  <2>. QED BY <1>3, Zenon
<1>5. A(G)
  <2>1. \E g : A(g)
    BY <1>2, EmitsExist
  <2>. HIDE DEF A
  <2>. QED BY <2>1, Zenon
<1>. DEFINE rhs(s) == IF s = {} THEN <<>> ELSE Emit(counts, G[s \ {Max(s)}], Max(s))
<1>6. ASSUME NEW s \in SUBSET (1 .. n) PROVE G[s] = rhs(s)
  <2>1. G = [x \in SUBSET (1 .. n) |-> rhs(x)]
    BY <1>5 DEF EmitFold
  <2>. HIDE DEF G, rhs
  <2>. QED BY <2>1
<1>. HIDE DEF G
<1>. DEFINE st == [i \in 0 .. n |-> G[1 .. i]]
<1>7. G[{}] = <<>> /\ 1 .. 0 = {}
  <2>1. {} \in SUBSET (1 .. n)
    OBVIOUS
  <2>2. G[{}] = rhs({})
    BY <1>6, <2>1
  <2>. QED BY <2>2
<1>8. \A i \in 1 .. n : st[i] = Emit(counts, st[i - 1], i)
  <2>. SUFFICES ASSUME NEW i \in 1 .. n PROVE st[i] = Emit(counts, st[i - 1], i)
    OBVIOUS
  <2>1. i \in Nat \ {0} /\ i - 1 \in 0 .. n /\ i \in 0 .. n /\ 1 .. i \in SUBSET (1 .. n)
    BY <1>2
  <2>2. Max(1 .. i) = i /\ (1 .. i) \ {i} = 1 .. i - 1 /\ 1 .. i # {}
    BY <2>1, MaxUpTo
  <2>3. G[1 .. i] = rhs(1 .. i)
    BY <1>6, <2>1
  <2>4. G[1 .. i] = Emit(counts, G[1 .. i - 1], i)
    BY <2>2, <2>3
  <2>. QED BY <2>1, <2>4
<1>9. st[0] = <<>> /\ st[n] = G[1 .. n]
  BY <1>2, <1>7
<1>. HIDE DEF st
<1>10. Emits(st, counts) /\ EncodeRLE(counts) = st[Len(counts)]
  BY <1>1, <1>2, <1>4, <1>8, <1>9 DEF Emits, n
<1>. QED BY <1>10

(***************************************************************************)
(* Reading back what was emitted for the first i counts.  A run of zeros   *)
(* at the end is the number r after the zero at the end of front.          *)
(***************************************************************************)
UpToCount(counts, i) == [j \in 1 .. i |-> counts[j]]

ReadBack(c) == [counts |-> c, zero |-> FALSE, ok |-> TRUE]

Opened(c) == [counts |-> c, zero |-> TRUE, ok |-> TRUE]

OpenRun(counts, out, i) ==
    \E front \in Seq(Nat), r \in 1 .. i :
        /\ out = Append(front, r)
        /\ Reading(front) = Opened(UpToCount(counts, i - r))
        /\ \A j \in (i - r) + 1 .. i : counts[j] = 0

Emitted(counts, out, i) ==
    /\ out \in Seq(Nat)
    /\ Reading(out) = ReadBack(UpToCount(counts, i))
    /\ i > 0 /\ counts[i] = 0 => OpenRun(counts, out, i)

LEMMA ReadPositive ==
    ASSUME NEW c, NEW v \in Nat, v > 0
    PROVE  Read(ReadBack(c), v) = ReadBack(Append(c, v))
<1>1. ReadBack(c).zero = FALSE
  BY DEF ReadBack
<1>2. Read(ReadBack(c), v) = [ReadBack(c) EXCEPT !.counts = Append(@, v)]
  BY <1>1 DEF Read
<1>. QED BY <1>2 DEF ReadBack

LEMMA ReadZero ==
    ASSUME NEW c
    PROVE  Read(ReadBack(c), 0) = Opened(c)
<1>1. ReadBack(c).zero = FALSE
  BY DEF ReadBack
<1>2. Read(ReadBack(c), 0) = [ReadBack(c) EXCEPT !.zero = TRUE, !.ok = @ /\ 0 = 0]
  BY <1>1 DEF Read
<1>3. (ReadBack(c).ok /\ 0 = 0) = TRUE
  BY DEF ReadBack
<1>. QED BY <1>2, <1>3 DEF ReadBack, Opened

LEMMA ReadRun ==
    ASSUME NEW c, NEW v \in Nat, v > 0
    PROVE  Read(Opened(c), v) = ReadBack(c \o [i \in 1 .. v |-> 0])
<1>1. Opened(c).zero = TRUE /\ Opened(c).counts = c /\ (Opened(c).ok /\ v > 0) = TRUE
  BY DEF Opened
<1>2. Read(Opened(c), v) = [counts |-> Opened(c).counts \o [i \in 1 .. v |-> 0], zero |-> FALSE,
                            ok |-> Opened(c).ok /\ v > 0]
  BY <1>1 DEF Read
<1>. QED BY <1>1, <1>2 DEF ReadBack

LEMMA AppendTwo ==
    ASSUME NEW out \in Seq(Nat)
    PROVE  out \o <<0, 1>> = Append(Append(out, 0), 1)
<1>. DEFINE a == Append(out, 0)
            b == Append(a, 1)
            c == out \o <<0, 1>>
<1>1. a \in Seq(Nat) /\ Len(a) = Len(out) + 1 /\ (\A i \in 1 .. Len(out) : a[i] = out[i]) /\ a[Len(out) + 1] = 0
  BY AppendProperties
<1>2. b \in Seq(Nat) /\ Len(b) = Len(a) + 1 /\ (\A i \in 1 .. Len(a) : b[i] = a[i]) /\ b[Len(a) + 1] = 1
  <2>. HIDE DEF a
  <2>. QED BY <1>1, AppendProperties
<1>3. <<0, 1>> \in Seq(Nat) /\ Len(<<0, 1>>) = 2 /\ <<0, 1>>[1] = 0 /\ <<0, 1>>[2] = 1 /\ Len(out) \in Nat
  OBVIOUS
<1>4. c \in Seq(Nat) /\ Len(c) = Len(out) + 2
      /\ \A i \in 1 .. Len(out) + 2 : c[i] = IF i <= Len(out) THEN out[i] ELSE <<0, 1>>[i - Len(out)]
  BY <1>3, ConcatProperties
<1>. HIDE DEF a, b, c
<1>5. ASSUME NEW i \in 1 .. Len(out) + 2 PROVE b[i] = c[i]
  <2>1. i <= Len(out) \/ i = Len(out) + 1 \/ i = Len(out) + 2
    BY <1>3
  <2>2. (Len(out) + 1) - Len(out) = 1 /\ (Len(out) + 2) - Len(out) = 2
    BY <1>3
  <2>3. CASE i <= Len(out)
    <3>1. i \in 1 .. Len(out) /\ i \in 1 .. Len(a)
      BY <1>1, <1>3, <2>3
    <3>2. b[i] = out[i]
      BY <1>1, <1>2, <3>1
    <3>. QED BY <1>4, <2>3, <3>2
  <2>4. CASE i = Len(out) + 1
    BY <1>1, <1>2, <1>3, <1>4, <2>2, <2>4, SMTT(60)
  <2>5. CASE i = Len(out) + 2
    <3>1. i = Len(a) + 1 /\ ~(i <= Len(out)) /\ i - Len(out) = 2
      BY <1>1, <1>3, <2>2, <2>5
    <3>2. c[i] = <<0, 1>>[2]
      BY <1>4, <3>1
    <3>. QED BY <1>2, <1>3, <3>1, <3>2
  <2>. QED BY <2>1, <2>3, <2>4, <2>5
<1>6. b = c
  BY <1>1, <1>2, <1>3, <1>4, <1>5, SeqEqual, SMTT(60)
<1>. QED BY <1>6 DEF a, b, c

LEMMA AppendBump ==
    ASSUME NEW front \in Seq(Nat), NEW r \in Nat
    PROVE  [Append(front, r) EXCEPT ![Len(Append(front, r))] = @ + 1] = Append(front, r + 1)
<1>. DEFINE a == Append(front, r)
            b == Append(front, r + 1)
            n == Len(front)
            c == [a EXCEPT ![n + 1] = r + 1]
<1>1. a \in Seq(Nat) /\ Len(a) = n + 1 /\ (\A i \in 1 .. n : a[i] = front[i]) /\ a[n + 1] = r
  BY AppendProperties
<1>2. b \in Seq(Nat) /\ Len(b) = n + 1 /\ (\A i \in 1 .. n : b[i] = front[i]) /\ b[n + 1] = r + 1
  <2>1. r + 1 \in Nat
    OBVIOUS
  <2>. QED BY <2>1, AppendProperties
<1>3. n \in Nat /\ n + 1 \in 1 .. n + 1 /\ r + 1 \in Nat
  OBVIOUS
<1>4. [a EXCEPT ![Len(a)] = @ + 1] = c
  BY <1>1
<1>. HIDE DEF a, b, n
<1>5. c \in Seq(Nat) /\ Len(c) = n + 1 /\ \A i \in 1 .. n + 1 : c[i] = IF i = n + 1 THEN r + 1 ELSE a[i]
  BY <1>1, <1>3, ExceptSeq
<1>. HIDE DEF c
<1>6. \A i \in 1 .. n + 1 : b[i] = c[i]
  BY <1>1, <1>2, <1>3, <1>5
<1>7. b = c
  BY <1>2, <1>5, <1>6, SeqEqual
<1>. QED BY <1>4, <1>7 DEF a, b

LEMMA EmitReadsBack ==
    ASSUME NEW counts \in Seq(Nat), NEW i \in Nat, i + 1 <= Len(counts), NEW out,
           Emitted(counts, out, i)
    PROVE  Emitted(counts, Emit(counts, out, i + 1), i + 1)
<1>. DEFINE new == Emit(counts, out, i + 1)
            c == counts[i + 1]
<1>1. i + 1 \in 1 .. Len(counts) /\ c \in Nat /\ (i + 1) - 1 = i
  OBVIOUS
<1>2. UpToCount(counts, i) \in Seq(Nat) /\ Len(UpToCount(counts, i)) = i
  BY DEF UpToCount
<1>3. UpToCount(counts, i + 1) = Append(UpToCount(counts, i), c)
  BY <1>1 DEF UpToCount
<1>4. out \in Seq(Nat) /\ Reading(out) = ReadBack(UpToCount(counts, i))
  BY DEF Emitted
<1>5. CASE c # 0
  <2>1. new = Append(out, c)
    BY <1>5 DEF Emit
  <2>2. Reading(new) = Read(ReadBack(UpToCount(counts, i)), c)
    BY <1>1, <1>4, <2>1, ReadingAppend
  <2>3. Read(ReadBack(UpToCount(counts, i)), c) = ReadBack(Append(UpToCount(counts, i), c))
    BY <1>1, <1>5, ReadPositive
  <2>4. new \in Seq(Nat)
    <3>1. Append(out, c) \in Seq(Nat)
      <4>. HIDE DEF c
      <4>. QED BY <1>1, <1>4, AppendProperties
    <3>. QED BY <2>1, <3>1, Zenon
  <2>. HIDE DEF new
  <2>5. Emitted(counts, new, i + 1)
    BY <1>3, <1>5, <2>2, <2>3, <2>4 DEF Emitted
  <2>. QED BY <2>5 DEF new
<1>6. CASE c = 0 /\ i > 0 /\ counts[i] = 0
  <2>1. PICK front \in Seq(Nat), r \in 1 .. i :
            /\ out = Append(front, r)
            /\ Reading(front) = Opened(UpToCount(counts, i - r))
            /\ \A j \in (i - r) + 1 .. i : counts[j] = 0
    BY <1>6 DEF Emitted, OpenRun
  <2>2. new = [out EXCEPT ![Len(out)] = @ + 1]
    BY <1>1, <1>6 DEF Emit
  <2>3. new = Append(front, r + 1)
    <3>1. r \in Nat
      OBVIOUS
    <3>. QED BY <2>1, <2>2, <3>1, AppendBump
  <2>4. r + 1 \in 1 .. i + 1 /\ (i + 1) - (r + 1) = i - r /\ r + 1 \in Nat /\ i - r \in Nat
    OBVIOUS
  <2>5. ASSUME NEW j \in (i - r) + 1 .. i + 1 PROVE counts[j] = 0
    <3>1. j = i + 1 \/ j \in (i - r) + 1 .. i
      BY <2>4
    <3>. QED BY <1>6, <2>1, <3>1
  <2>6. Reading(new) = Read(Opened(UpToCount(counts, i - r)), r + 1)
    BY <2>1, <2>3, <2>4, ReadingAppend
  <2>7. Read(Opened(UpToCount(counts, i - r)), r + 1)
          = ReadBack(UpToCount(counts, i - r) \o [j \in 1 .. r + 1 |-> 0])
    <3>1. r + 1 > 0
      OBVIOUS
    <3>. QED BY <2>4, <3>1, ReadRun
  <2>8. UpToCount(counts, i - r) \o [j \in 1 .. r + 1 |-> 0] = UpToCount(counts, i + 1)
    <3>. DEFINE a == UpToCount(counts, i - r)
                z == [j \in 1 .. r + 1 |-> 0]
                w == a \o z
                u == UpToCount(counts, i + 1)
    <3>1. a \in Seq(Nat) /\ Len(a) = i - r /\ \A j \in 1 .. i - r : a[j] = counts[j]
      BY <2>4 DEF UpToCount
    <3>2. z \in Seq(Nat) /\ Len(z) = r + 1 /\ \A j \in 1 .. r + 1 : z[j] = 0
      BY <2>4
    <3>3. u \in Seq(Nat) /\ Len(u) = i + 1 /\ \A j \in 1 .. i + 1 : u[j] = counts[j]
      BY DEF UpToCount
    <3>. HIDE DEF a, z, u
    <3>4. w \in Seq(Nat) /\ Len(w) = i + 1
          /\ \A j \in 1 .. i + 1 : w[j] = IF j <= i - r THEN a[j] ELSE z[j - (i - r)]
      <4>1. (i - r) + (r + 1) = i + 1
        BY <2>4
      <4>2. /\ w \in Seq(Nat) /\ Len(w) = Len(a) + Len(z)
            /\ \A j \in 1 .. Len(a) + Len(z) : w[j] = IF j <= Len(a) THEN a[j] ELSE z[j - Len(a)]
        BY <3>1, <3>2, ConcatProperties
      <4>. HIDE DEF w
      <4>. QED BY <3>1, <3>2, <4>1, <4>2
    <3>. HIDE DEF w
    <3>5. ASSUME NEW j \in 1 .. i + 1 PROVE w[j] = u[j]
      <4>1. CASE j <= i - r
        <5>1. j \in 1 .. i - r
          BY <2>4, <4>1
        <5>. QED BY <3>1, <3>3, <3>4, <4>1, <5>1
      <4>2. CASE ~(j <= i - r)
        <5>1. w[j] = z[j - (i - r)]
          BY <3>4, <4>2
        <5>2. j - (i - r) \in 1 .. r + 1 /\ j \in (i - r) + 1 .. i + 1
          BY <2>4, <4>2
        <5>. QED BY <2>5, <3>2, <3>3, <5>1, <5>2
      <4>. QED BY <4>1, <4>2
    <3>6. w = u
      <4>. QED BY <3>3, <3>4, <3>5, SeqEqual
    <3>. QED BY <3>6 DEF a, z, u, w
  <2>9. new \in Seq(Nat)
    <3>1. Append(front, r + 1) \in Seq(Nat)
      BY <2>4, AppendProperties
    <3>. QED BY <2>3, <3>1, Zenon
  <2>10. OpenRun(counts, new, i + 1)
    <3>1. new = Append(front, r + 1) /\ (\A j \in ((i + 1) - (r + 1)) + 1 .. i + 1 : counts[j] = 0)
      BY <2>3, <2>4, <2>5
    <3>2. Reading(front) = Opened(UpToCount(counts, (i + 1) - (r + 1)))
      BY <2>1, <2>4
    <3>. HIDE DEF new
    <3>. QED BY <2>4, <3>1, <3>2 DEF OpenRun
  <2>. HIDE DEF new
  <2>11. Emitted(counts, new, i + 1)
    BY <2>6, <2>7, <2>8, <2>9, <2>10 DEF Emitted
  <2>. QED BY <2>11 DEF new
<1>7. CASE c = 0 /\ ~(i > 0 /\ counts[i] = 0)
  <2>1. new = out \o <<0, 1>>
    BY <1>1, <1>7 DEF Emit
  <2>2. new = Append(Append(out, 0), 1)
    BY <1>4, <2>1, AppendTwo
  <2>3. Append(out, 0) \in Seq(Nat) /\ new \in Seq(Nat)
    <3>. DEFINE front == Append(out, 0)
    <3>1. 0 \in Nat /\ 1 \in Nat
      OBVIOUS
    <3>2. front \in Seq(Nat)
      BY <1>4, <3>1, AppendProperties
    <3>. HIDE DEF front
    <3>3. Append(front, 1) \in Seq(Nat)
      BY <3>1, <3>2, AppendProperties
    <3>. QED BY <2>2, <3>2, <3>3 DEF front
  <2>4. Reading(Append(out, 0)) = Opened(UpToCount(counts, i))
    <3>1. Reading(Append(out, 0)) = Read(ReadBack(UpToCount(counts, i)), 0)
      BY <1>4, ReadingAppend
    <3>. QED BY <3>1, ReadZero
  <2>5. Reading(new) = Read(Opened(UpToCount(counts, i)), 1)
    <3>1. 1 \in Nat
      OBVIOUS
    <3>. QED BY <2>2, <2>3, <2>4, <3>1, ReadingAppend
  <2>6. Read(Opened(UpToCount(counts, i)), 1)
          = ReadBack(UpToCount(counts, i) \o [j \in 1 .. 1 |-> 0])
    <3>1. 1 \in Nat /\ 1 > 0
      OBVIOUS
    <3>. QED BY <3>1, ReadRun
  <2>7. UpToCount(counts, i) \o [j \in 1 .. 1 |-> 0] = UpToCount(counts, i + 1)
    <3>1. [j \in 1 .. 1 |-> 0] = <<0>>
      OBVIOUS
    <3>2. UpToCount(counts, i) \o <<0>> = Append(UpToCount(counts, i), 0)
      <4>. DEFINE a == UpToCount(counts, i)
      <4>1. a \in Seq(Nat) /\ 0 \in Nat
        BY <1>2
      <4>. HIDE DEF a
      <4>2. a \o <<0>> = Append(a, 0)
        BY <4>1, AppendIsConcat
      <4>. QED BY <4>2 DEF a
    <3>. QED BY <1>3, <1>7, <3>1, <3>2
  <2>8. OpenRun(counts, new, i + 1)
    <3>. DEFINE front == Append(out, 0)
    <3>1. 1 \in 1 .. i + 1 /\ (i + 1) - 1 = i /\ front \in Seq(Nat)
      BY <2>3
    <3>2. \A j \in ((i + 1) - 1) + 1 .. i + 1 : counts[j] = 0
      BY <1>7
    <3>3. new = Append(front, 1)
          /\ Reading(front) = Opened(UpToCount(counts, (i + 1) - 1))
      BY <2>2, <2>4, <3>1
    <3>. HIDE DEF new, front
    <3>. QED BY <3>1, <3>2, <3>3 DEF OpenRun
  <2>. HIDE DEF new
  <2>9. Emitted(counts, new, i + 1)
    BY <2>3, <2>5, <2>6, <2>7, <2>8 DEF Emitted
  <2>. QED BY <2>9 DEF new
<1>. QED BY <1>5, <1>6, <1>7

(***************************************************************************)
(* decodeRLE gives back what encodeRLE was given.                          *)
(***************************************************************************)
LEMMA RoundTrip ==
    ASSUME NEW h \in Seq(Nat)
    PROVE  DecodeRLE(EncodeRLE(h)) = [counts |-> h, ok |-> TRUE]
<1>. DEFINE n == Len(h)
<1>1. PICK st : Emits(st, h) /\ EncodeRLE(h) = st[n]
  BY EncodingEmits
<1>. DEFINE Good == {i \in Nat : i <= n => Emitted(h, st[i], i)}
<1>2. 0 \in Good
  <2>1. st[0] = <<>> /\ <<>> \in Seq(Nat)
    BY <1>1 DEF Emits
  <2>2. UpToCount(h, 0) = <<>>
    BY DEF UpToCount
  <2>3. Emitted(h, st[0], 0)
    BY <2>1, <2>2, ReadingEmpty DEF Emitted, ReadInit, ReadBack
  <2>. QED BY <2>3
<1>3. ASSUME NEW i \in Nat, i \in Good PROVE i + 1 \in Good
  <2>. SUFFICES ASSUME i + 1 <= n PROVE Emitted(h, st[i + 1], i + 1)
    OBVIOUS
  <2>1. Emitted(h, st[i], i)
    BY <1>3
  <2>2. i + 1 \in 1 .. Len(h) /\ (i + 1) - 1 = i
    OBVIOUS
  <2>3. st[i + 1] = Emit(h, st[i], i + 1)
    BY <1>1, <2>2 DEF Emits
  <2>. QED BY <2>1, <2>3, EmitReadsBack
<1>4. n \in Nat
  OBVIOUS
<1>. HIDE DEF Good
<1>5. n \in Good
  BY <1>2, <1>3, <1>4, NumberInduction
<1>6. Reading(EncodeRLE(h)) = ReadBack(UpToCount(h, n))
  BY <1>1, <1>4, <1>5 DEF Good, Emitted
<1>7. UpToCount(h, n) = h
  BY DEF UpToCount
<1>8. DecodeRLE(EncodeRLE(h)) = [counts |-> Reading(EncodeRLE(h)).counts,
                                 ok |-> Reading(EncodeRLE(h)).ok /\ ~Reading(EncodeRLE(h)).zero]
  BY DEF DecodeRLE, Reading, Read, ReadInit
<1>9. ReadBack(h).counts = h /\ (ReadBack(h).ok /\ ~ReadBack(h).zero) = TRUE
  BY DEF ReadBack
<1>. QED BY <1>6, <1>7, <1>8, <1>9

LEMMA DecodeEmpty == DecodeRLE(NoHist).counts = NoHist
<1>1. DecodeRLE(<<>>) = [counts |-> Reading(<<>>).counts, ok |-> Reading(<<>>).ok /\ ~Reading(<<>>).zero]
  BY DEF DecodeRLE, Reading, Read, ReadInit
<1>. QED BY <1>1, ReadingEmpty DEF NoHist, ReadInit

-----------------------------------------------------------------------------
(***************************************************************************)
(* What an aggregate looks like.  The kind of a series goes with its       *)
(* metric; an aggregate that has counted nothing is as good as new; and a  *)
(* distribution holds as many values as were counted.                      *)
(***************************************************************************)
Hist == [1 .. CountsLen -> Nat]

Labelled(metric, labels) ==
    /\ "scenario" \in DOMAIN labels /\ Get(labels, "scenario") # ""
    /\ metric # "vus" => "status" \in DOMAIN labels /\ Get(labels, "name") # ""
    /\ metric = "vus" => Get(labels, "name") = ""

Kinded(x) ==
    /\ \/ x.metric = "http_reqs" /\ x.kind = "counter"
       \/ x.metric = "http_req_duration" /\ x.kind = "trend"
       \/ x.metric = "http_req_failed" /\ x.kind = "rate"
       \/ x.metric = "vus" /\ x.kind = "gauge"
    /\ Labelled(x.metric, x.labels)

AggOf(metric, labels, kind, count, sum, min, max, nonZero, gauge, hist) ==
    [metric |-> metric, labels |-> labels, kind |-> kind, count |-> count, sum |-> sum, min |-> min,
     max |-> max, nonZero |-> nonZero, gauge |-> gauge, hist |-> hist]

Plain(a) ==
    /\ a.kind = "counter" /\ a.count > 0 => a.min = 1 /\ a.max = 1
    /\ a.kind = "rate" => a.min \in {0, Infinity} /\ a.max \in {0, -Infinity}

IsAgg(a) ==
    /\ a = AggOf(a.metric, a.labels, a.kind, a.count, a.sum, a.min, a.max, a.nonZero, a.gauge, a.hist)
    /\ Kinded(a)
    /\ a.count \in Nat /\ a.sum \in Nat /\ a.nonZero \in Nat /\ a.gauge \in Nat
    /\ a.min \in Int /\ a.max \in Int
    /\ IF a.kind = "trend" THEN a.hist \in Hist /\ SumFunction(a.hist) = a.count ELSE a.hist = NoHist
    /\ a.count = 0 => a = Reset(a)
    /\ a.kind = "trend" /\ a.count > 0 => a.min \in 0 .. Infinity - 1 /\ a.max \in 0 .. Infinity - 1
    /\ Plain(a)

IsObs(o) ==
    /\ Kinded(o) /\ o.value \in Nat /\ o.truthy \in BOOLEAN
    /\ o.kind = "rate" => o.value = 0
    /\ o.kind = "counter" => o.value = 1
    /\ o.kind # "rate" => ~o.truthy
    /\ o.kind = "trend" => o.value \in 0 .. Infinity - 1

Same(a, b) == a.metric = b.metric /\ a.labels = b.labels

IsMeasure(k) == k.of \in {"count", "nonZero", "sum"} \/ k.slot \in 1 .. CountsLen

LEMMA SameKind ==
    ASSUME NEW a, NEW b, Kinded(a), Kinded(b), Same(a, b)
    PROVE  a.kind = b.kind
BY DEF Kinded, Same

LEMMA HistFacts ==
    /\ CountsLen \in Nat /\ CountsLen > 1
    /\ NewHist \in Hist /\ (\A i \in 1 .. CountsLen : NewHist[i] = 0) /\ SumFunction(NewHist) = 0
    /\ NoHist \notin Hist
    /\ \A h \in Hist : DOMAIN h = 1 .. CountsLen /\ IsFiniteSet(DOMAIN h) /\ h # NoHist
<1>1. CountsLen \in Nat /\ CountsLen > 1
  BY MetricsAssumption DEF CountsLen
<1>2. NewHist \in Hist /\ \A i \in 1 .. CountsLen : NewHist[i] = 0
  BY DEF NewHist, Hist
<1>3. IsFiniteSet(1 .. CountsLen)
  BY <1>1, FS_Interval
<1>4. \A h \in Hist : DOMAIN h = 1 .. CountsLen
  BY DEF Hist
<1>5. SumFunction(NewHist) = 0
  BY <1>2, <1>3, <1>4, SumZero
<1>6. NoHist \notin Hist
  <2>1. DOMAIN NoHist = {} /\ 1 \in 1 .. CountsLen
    BY <1>1 DEF NoHist
  <2>. QED BY <1>4, <2>1
<1>. QED BY <1>1, <1>2, <1>3, <1>4, <1>5, <1>6

LEMMA MinPair ==
    ASSUME NEW x \in Int, NEW y \in Int
    PROVE  /\ Min({x, y}) = IF x <= y THEN x ELSE y
           /\ Max({x, y}) = IF x <= y THEN y ELSE x
<1>1. Min({x, y}) \in {x, y} /\ \A z \in {x, y} : Min({x, y}) <= z
  <2>1. \E u \in {x, y} : \A z \in {x, y} : u <= z
    OBVIOUS
  <2>. QED BY <2>1 DEF Min
<1>2. Max({x, y}) \in {x, y} /\ \A z \in {x, y} : Max({x, y}) >= z
  <2>1. \E u \in {x, y} : \A z \in {x, y} : u >= z
    OBVIOUS
  <2>. QED BY <2>1 DEF Max
<1>. QED BY <1>1, <1>2

LEMMA NewAgg ==
    ASSUME NEW metric, NEW labels, NEW kind, Kinded([metric |-> metric, labels |-> labels, kind |-> kind])
    PROVE  LET n == NewAggregate(metric, labels, kind)
           IN  /\ IsAgg(n) /\ n.metric = metric /\ n.labels = labels /\ n.kind = kind /\ n.count = 0
               /\ n.sum = 0 /\ n.nonZero = 0 /\ n.min = Infinity /\ n.max = -Infinity
               /\ n.hist = IF kind = "trend" THEN NewHist ELSE NoHist
<1>. DEFINE n == NewAggregate(metric, labels, kind)
            hist == IF kind = "trend" THEN NewHist ELSE NoHist
<1>1. n = AggOf(metric, labels, kind, 0, 0, Infinity, -Infinity, 0, 0, hist)
  BY DEF NewAggregate, AggOf
<1>2. /\ n.metric = metric /\ n.labels = labels /\ n.kind = kind /\ n.count = 0 /\ n.sum = 0
      /\ n.nonZero = 0 /\ n.gauge = 0 /\ n.min = Infinity /\ n.max = -Infinity /\ n.hist = hist
  BY <1>1 DEF AggOf
<1>3. Reset(n) = n
  BY <1>2 DEF Reset
<1>4. Kinded(n)
  BY <1>2 DEF Kinded
<1>5. Infinity \in Nat
  BY DEF Infinity
<1>6. hist = IF kind = "trend" THEN NewHist ELSE NoHist
  OBVIOUS
<1>. HIDE DEF n, hist
<1>7. IsAgg(n)
  BY <1>1, <1>2, <1>3, <1>4, <1>5, <1>6, HistFacts DEF IsAgg, Plain
<1>. QED BY <1>2, <1>6, <1>7 DEF n

LEMMA AggNew ==
    ASSUME NEW a, IsAgg(a)
    PROVE  a.count = 0 => /\ a.sum = 0 /\ a.nonZero = 0 /\ a.min = Infinity /\ a.max = -Infinity
                          /\ a.hist = IF a.kind = "trend" THEN NewHist ELSE NoHist
<1>. SUFFICES ASSUME a.count = 0
              PROVE  /\ a.sum = 0 /\ a.nonZero = 0 /\ a.min = Infinity /\ a.max = -Infinity
                     /\ a.hist = IF a.kind = "trend" THEN NewHist ELSE NoHist
  OBVIOUS
<1>1. a = NewAggregate(a.metric, a.labels, a.kind)
  BY DEF IsAgg, Reset
<1>2. Kinded([metric |-> a.metric, labels |-> a.labels, kind |-> a.kind])
  BY DEF IsAgg, Kinded
<1>. QED BY <1>1, <1>2, NewAgg

(***************************************************************************)
(* Scaling keeps the order of values and stays within the range.           *)
(***************************************************************************)
Rounded(v) == (2 * v + Unit) \div (2 * Unit)

LEMMA RoundedNat ==
    ASSUME NEW v \in Nat
    PROVE  Rounded(v) \in Nat
<1>. DEFINE a == 2 * v + Unit
            d == 2 * Unit
<1>1. a \in Nat /\ d \in Nat /\ d > 0
  BY MetricsAssumption
<1>. HIDE DEF a, d
<1>2. a \div d \in Nat
  BY <1>1, Division
<1>. QED BY <1>2 DEF a, d, Rounded

LEMMA QuotientGrows ==
    ASSUME NEW a \in Nat, NEW b \in Nat, NEW d \in Nat, d > 0, a <= b
    PROVE  a \div d <= b \div d
<1>. DEFINE x == a \div d
            y == b \div d
<1>1. x \in Nat /\ y \in Nat /\ d * x <= a /\ b < d * y + d
  <2>1. x \in Nat /\ a % d \in 0 .. d - 1 /\ a = d * x + (a % d)
    BY Division
  <2>2. y \in Nat /\ b % d \in 0 .. d - 1 /\ b = d * y + (b % d)
    BY Division
  <2>. HIDE DEF x, y
  <2>3. d * x \in Nat /\ d * y \in Nat
    BY <2>1, <2>2
  <2>. QED BY <2>1, <2>2, <2>3
<1>. HIDE DEF x, y
<1>2. ASSUME y < x PROVE FALSE
  <2>1. PICK k \in Nat : x = y + 1 + k
    <3>1. x - (y + 1) \in Nat /\ x = y + 1 + (x - (y + 1))
      BY <1>1, <1>2
    <3>. QED BY <3>1
  <2>2. d * x = d * y + d + d * k
    BY <1>1, <2>1
  <2>3. d * k \in Nat /\ d * y \in Nat
    BY <1>1, <2>1
  <2>. QED BY <1>1, <2>2, <2>3
<1>3. x <= y
  BY <1>1, <1>2
<1>. QED BY <1>3 DEF x, y

LEMMA ScaledIs ==
    ASSUME NEW v \in Nat
    PROVE  /\ ScaleValue(v) = IF Rounded(v) < Lowest THEN Lowest
                              ELSE IF Rounded(v) > Highest THEN Highest ELSE Rounded(v)
           /\ ScaleValue(v) \in Nat /\ ScaleValue(v) <= Highest
<1>. DEFINE r == Rounded(v)
            m == Min({Highest, r})
<1>1. Lowest \in Nat /\ Highest \in Nat /\ Lowest < Highest
  BY MetricsAssumption
<1>2. r \in Nat
  BY RoundedNat
<1>3. ScaleValue(v) = Max({Lowest, m})
  BY DEF ScaleValue, Rounded
<1>. HIDE DEF r
<1>4. m = IF Highest <= r THEN Highest ELSE r
  BY <1>1, <1>2, MinPair
<1>. HIDE DEF m
<1>5. m \in Int /\ Lowest \in Int
  BY <1>1, <1>2, <1>4
<1>6. Max({Lowest, m}) = IF Lowest <= m THEN m ELSE Lowest
  BY <1>5, MinPair
<1>. QED BY <1>1, <1>2, <1>3, <1>4, <1>6 DEF r

LEMMA ScaleGrows ==
    ASSUME NEW v \in Nat, NEW w \in Nat, v <= w
    PROVE  ScaleValue(v) <= ScaleValue(w)
<1>. DEFINE a == 2 * v + Unit
            b == 2 * w + Unit
            d == 2 * Unit
<1>1. a \in Nat /\ b \in Nat /\ d \in Nat /\ d > 0 /\ a <= b
  BY MetricsAssumption
<1>. HIDE DEF a, b, d
<1>2. a \div d <= b \div d
  BY <1>1, QuotientGrows
<1>3. Rounded(v) <= Rounded(w)
  BY <1>2 DEF a, b, d, Rounded
<1>4. Lowest \in Nat /\ Highest \in Nat /\ Lowest < Highest
  BY MetricsAssumption
<1>5. Rounded(v) \in Nat /\ Rounded(w) \in Nat
  BY RoundedNat
<1>6. ScaleValue(v) = IF Rounded(v) < Lowest THEN Lowest
                      ELSE IF Rounded(v) > Highest THEN Highest ELSE Rounded(v)
  BY ScaledIs
<1>7. ScaleValue(w) = IF Rounded(w) < Lowest THEN Lowest
                      ELSE IF Rounded(w) > Highest THEN Highest ELSE Rounded(w)
  BY ScaledIs
<1>. QED BY <1>3, <1>4, <1>5, <1>6, <1>7

(***************************************************************************)
(* The bucket of a value is the only one that counts it.                   *)
(***************************************************************************)
SlotOf(v) == Slot(ScaleValue(v))

LEMMA LayoutFacts ==
    /\ CountsLen \in Nat /\ CountsLen > 1 /\ Highest \in Nat
    /\ \A i \in 1 .. CountsLen : Bounds[i] \in Nat
    /\ Highest <= Bounds[CountsLen]
    /\ \A i, j \in 1 .. CountsLen : i < j => Bounds[i] < Bounds[j]
BY MetricsAssumption DEF CountsLen

LEMMA SlotIs ==
    ASSUME NEW v \in Nat
    PROVE  /\ SlotOf(v) \in 1 .. CountsLen
           /\ \A i \in 1 .. CountsLen : ScaleValue(v) <= Bounds[i] <=> SlotOf(v) <= i
<1>. DEFINE u == ScaleValue(v)
            X == {i \in 1 .. CountsLen : u <= Bounds[i]}
<1>1. u \in Nat /\ u <= Highest
  BY ScaledIs
<1>. HIDE DEF u
<1>2. X \subseteq Nat /\ CountsLen \in X
  BY <1>1, LayoutFacts
<1>3. PICK m \in X : \A y \in X : m <= y
  BY <1>2, LeastNat
<1>4. Min(X) \in X /\ \A y \in X : Min(X) <= y
  BY <1>3, Zenon DEF Min
<1>. DEFINE s == Min(X)
<1>5. s = SlotOf(v)
  BY DEF u, Slot, SlotOf
<1>6. s \in 1 .. CountsLen /\ u <= Bounds[s] /\ \A i \in 1 .. CountsLen : u <= Bounds[i] => s <= i
  BY <1>4
<1>. HIDE DEF s, X
<1>7. ASSUME NEW i \in 1 .. CountsLen, s <= i PROVE u <= Bounds[i]
  <2>1. s < i => Bounds[s] < Bounds[i]
    BY <1>6, LayoutFacts
  <2>2. Bounds[s] \in Nat /\ Bounds[i] \in Nat
    BY <1>6, LayoutFacts
  <2>. QED BY <1>1, <1>6, <1>7, <2>1, <2>2, LayoutFacts
<1>. QED BY <1>5, <1>6, <1>7 DEF u

LEMMA OneSlot ==
    ASSUME NEW v \in Nat
    PROVE  SlotOf(v) \in 1 .. CountsLen /\ \A i \in 1 .. CountsLen : InSlot(v, i) <=> i = SlotOf(v)
<1>. DEFINE u == ScaleValue(v)
            s == SlotOf(v)
<1>1. u \in Nat /\ s \in 1 .. CountsLen /\ \A i \in 1 .. CountsLen : u <= Bounds[i] <=> s <= i
  BY ScaledIs, SlotIs
<1>2. \A i : InSlot(v, i) <=> u <= Bounds[i] /\ (i > 1 => Bounds[i - 1] < u)
  BY DEF InSlot
<1>. HIDE DEF u, s
<1>3. ASSUME NEW i \in 1 .. CountsLen PROVE InSlot(v, i) <=> i = s
  <2>1. CASE i = 1
    BY <1>1, <1>2, <2>1
  <2>2. CASE i > 1
    <3>1. i - 1 \in 1 .. CountsLen /\ Bounds[i - 1] \in Nat
      BY <2>2, LayoutFacts
    <3>2. Bounds[i - 1] < u <=> ~(u <= Bounds[i - 1])
      BY <1>1, <3>1
    <3>3. InSlot(v, i) <=> s <= i /\ ~(s <= i - 1)
      BY <1>1, <1>2, <2>2, <3>1, <3>2
    <3>. QED BY <1>1, <3>3
  <2>. QED BY <2>1, <2>2
<1>. QED BY <1>1, <1>3 DEF s

(***************************************************************************)
(* A value is recorded in the slot it belongs to.                          *)
(***************************************************************************)
LEMMA RecordValueIs ==
    ASSUME NEW h \in Hist, NEW v \in Nat
    PROVE  /\ RecordValue(h, v) \in Hist
           /\ SumFunction(RecordValue(h, v)) = SumFunction(h) + 1
           /\ \A i \in 1 .. CountsLen :
                RecordValue(h, v)[i] = h[i] + (IF InSlot(v, i) THEN 1 ELSE 0)
<1>. DEFINE s == SlotOf(v)
            r == RecordValue(h, v)
<1>3. s \in 1 .. CountsLen /\ \A i \in 1 .. CountsLen : InSlot(v, i) <=> i = s
  BY OneSlot
<1>5. DOMAIN h = 1 .. CountsLen /\ IsFiniteSet(DOMAIN h) /\ \A i \in 1 .. CountsLen : h[i] \in Nat
  BY HistFacts DEF Hist
<1>6. r = [i \in 1 .. CountsLen |-> IF i = s THEN h[i] + 1 ELSE h[i]]
  BY <1>5 DEF RecordValue, SlotOf
<1>. HIDE DEF s, r
<1>7. r \in Hist /\ DOMAIN r = 1 .. CountsLen
      /\ \A i \in 1 .. CountsLen : r[i] \in Nat /\ r[i] = h[i] + (IF i = s THEN 1 ELSE 0)
  BY <1>5, <1>6 DEF Hist
<1>8. SumFunction(r) = SumFunction(h) + (r[s] - h[s])
  <2>1. \A y \in DOMAIN h : h[y] \in Int /\ r[y] \in Int
    BY <1>5, <1>7
  <2>2. \A y \in DOMAIN h : y # s => r[y] = h[y]
    BY <1>5, <1>7
  <2>3. s \in DOMAIN h /\ DOMAIN r = DOMAIN h
    BY <1>3, <1>5, <1>7
  <2>. QED BY <1>5, <2>1, <2>2, <2>3, SumChange
<1>9. r[s] - h[s] = 1
  <2>1. r[s] = h[s] + 1 /\ h[s] \in Nat
    BY <1>3, <1>5, <1>7
  <2>. QED BY <2>1
<1>. QED BY <1>3, <1>7, <1>8, <1>9 DEF r

LEMMA MergeHistIs ==
    ASSUME NEW h \in Hist, NEW g \in Hist
    PROVE  /\ MergeHist(h, g) \in Hist
           /\ SumFunction(MergeHist(h, g)) = SumFunction(h) + SumFunction(g)
           /\ \A i \in 1 .. CountsLen : MergeHist(h, g)[i] = h[i] + g[i]
<1>. DEFINE m == MergeHist(h, g)
<1>1. /\ DOMAIN h = 1 .. CountsLen /\ DOMAIN g = 1 .. CountsLen /\ IsFiniteSet(1 .. CountsLen)
      /\ \A i \in 1 .. CountsLen : h[i] \in Nat /\ g[i] \in Nat
  BY HistFacts DEF Hist
<1>2. m = [i \in 1 .. CountsLen |-> h[i] + g[i]]
  BY <1>1 DEF MergeHist
<1>3. m \in Hist /\ DOMAIN m = 1 .. CountsLen /\ \A i \in 1 .. CountsLen : m[i] = h[i] + g[i]
  BY <1>1, <1>2 DEF Hist
<1>. HIDE DEF m
<1>4. SumFunction(m) = SumFunction(h) + SumFunction(g)
  <2>1. \A x \in DOMAIN m : h[x] \in Int /\ g[x] \in Int /\ m[x] = h[x] + g[x]
    BY <1>1, <1>3
  <2>2. DOMAIN h = DOMAIN m /\ DOMAIN g = DOMAIN m /\ IsFiniteSet(DOMAIN m)
    BY <1>1, <1>3
  <2>. QED BY <2>1, <2>2, SumPlus
<1>. QED BY <1>3, <1>4 DEF m

LEMMA PartNat ==
    ASSUME NEW a, IsAgg(a), NEW k, IsMeasure(k)
    PROVE  Part(k, a) \in Nat /\ (a.count = 0 => Part(k, a) = 0)
<1>1. a.hist # NoHist /\ k.slot \in 1 .. CountsLen => a.hist[k.slot] \in Nat
  BY DEF IsAgg, Hist
<1>2. a.count = 0 /\ a.hist # NoHist /\ k.slot \in 1 .. CountsLen => a.hist[k.slot] = 0
  BY AggNew, HistFacts
<1>3. a.count \in Nat /\ a.nonZero \in Nat /\ a.sum \in Nat
  BY DEF IsAgg
<1>4. a.count = 0 => a.nonZero = 0 /\ a.sum = 0
  BY AggNew
<1>5. CASE ~Measured(k, a.metric, a.labels)
  BY <1>5 DEF Part
<1>6. CASE Measured(k, a.metric, a.labels)
  <2>1. CASE k.of = "count"
    BY <1>3, <1>6, <2>1 DEF Part
  <2>2. CASE k.of = "nonZero"
    BY <1>3, <1>4, <1>6, <2>2 DEF Part
  <2>3. CASE k.of = "sum"
    BY <1>3, <1>4, <1>6, <2>3 DEF Part
  <2>4. CASE k.of \notin {"count", "nonZero", "sum"}
    <3>1. k.slot \in 1 .. CountsLen
      BY <2>4 DEF IsMeasure
    <3>2. Part(k, a) = IF a.hist = NoHist THEN 0 ELSE a.hist[k.slot]
      BY <1>6, <2>4 DEF Part
    <3>. QED BY <1>1, <1>2, <3>1, <3>2
  <2>. QED BY <2>1, <2>2, <2>3, <2>4
<1>. QED BY <1>5, <1>6

(***************************************************************************)
(* Observe counts the observation, and nothing else.                       *)
(***************************************************************************)
LEMMA ObserveIs ==
    ASSUME NEW a, IsAgg(a), NEW o, IsObs(o), Same(a, o)
    PROVE  LET b == Observe(a, o.value, o.truthy)
           IN  /\ b.metric = a.metric /\ b.labels = a.labels /\ b.kind = a.kind
               /\ b.count = a.count + 1
               /\ b.sum = a.sum + (IF a.kind \in {"counter", "trend"} THEN o.value ELSE 0)
               /\ b.nonZero = a.nonZero + (IF o.truthy /\ a.kind = "rate" THEN 1 ELSE 0)
               /\ b.gauge \in Nat /\ b.min \in Int /\ b.max \in Int
               /\ b = AggOf(b.metric, b.labels, b.kind, b.count, b.sum, b.min, b.max, b.nonZero, b.gauge, b.hist)
               /\ a.kind = "trend" => /\ b.hist = RecordValue(a.hist, o.value)
                                      /\ b.min = (IF a.min <= o.value THEN a.min ELSE o.value)
                                      /\ b.max = (IF a.max <= o.value THEN o.value ELSE a.max)
               /\ a.kind # "trend" => b.hist = NoHist
               /\ a.kind = "counter" => /\ b.min = (IF a.min <= o.value THEN a.min ELSE o.value)
                                        /\ b.max = (IF a.max <= o.value THEN o.value ELSE a.max)
               /\ a.kind = "rate" => b.min = a.min /\ b.max = a.max
<1>. DEFINE b == Observe(a, o.value, o.truthy)
            counted == [a EXCEPT !.count = @ + 1]
<1>1. a.kind = o.kind /\ Kinded(a)
  BY SameKind DEF IsAgg, IsObs
<1>2. o.value \in Nat /\ o.truthy \in BOOLEAN
  BY DEF IsObs
<1>3. /\ a = AggOf(a.metric, a.labels, a.kind, a.count, a.sum, a.min, a.max, a.nonZero, a.gauge, a.hist)
      /\ a.count \in Nat /\ a.sum \in Nat /\ a.nonZero \in Nat /\ a.gauge \in Nat
      /\ a.min \in Int /\ a.max \in Int /\ (a.kind # "trend" => a.hist = NoHist)
  BY DEF IsAgg
<1>4. counted = AggOf(a.metric, a.labels, a.kind, a.count + 1, a.sum, a.min, a.max, a.nonZero, a.gauge, a.hist)
  BY <1>3 DEF AggOf
<1>. HIDE DEF counted
<1>5. CASE a.kind = "gauge"
  <2>1. b = [counted EXCEPT !.gauge = o.value]
    BY <1>5 DEF Observe, counted
  <2>2. b = AggOf(a.metric, a.labels, a.kind, a.count + 1, a.sum, a.min, a.max, a.nonZero, o.value, a.hist)
    BY <1>4, <2>1 DEF AggOf
  <2>. HIDE DEF b
  <2>3. /\ b.metric = a.metric /\ b.labels = a.labels /\ b.kind = a.kind
        /\ b.count = a.count + 1 /\ b.sum = a.sum /\ b.nonZero = a.nonZero /\ b.gauge = o.value
        /\ b.min = a.min /\ b.max = a.max /\ b.hist = a.hist
    BY <2>2 DEF AggOf
  <2>. QED BY <1>2, <1>3, <1>5, <2>2, <2>3 DEF b
<1>6. CASE a.kind = "rate"
  <2>. DEFINE nz == IF o.truthy THEN a.nonZero + 1 ELSE a.nonZero
  <2>1. b = [counted EXCEPT !.nonZero = IF o.truthy THEN @ + 1 ELSE @]
    BY <1>6 DEF Observe, counted
  <2>2. b = AggOf(a.metric, a.labels, a.kind, a.count + 1, a.sum, a.min, a.max, nz, a.gauge, a.hist)
    BY <1>2, <1>4, <2>1 DEF AggOf
  <2>3. nz = a.nonZero + (IF o.truthy THEN 1 ELSE 0)
    BY <1>2, <1>3
  <2>. HIDE DEF b, nz
  <2>4. /\ b.metric = a.metric /\ b.labels = a.labels /\ b.kind = a.kind
        /\ b.count = a.count + 1 /\ b.sum = a.sum /\ b.nonZero = nz /\ b.gauge = a.gauge
        /\ b.min = a.min /\ b.max = a.max /\ b.hist = a.hist
    BY <2>2 DEF AggOf
  <2>. QED BY <1>2, <1>3, <1>6, <2>2, <2>3, <2>4 DEF b
<1>7. CASE a.kind \in {"counter", "trend"}
  <2>. DEFINE h == RecordValue(a.hist, o.value)
              mn == Min({a.min, o.value})
              mx == Max({a.max, o.value})
  <2>1. b = [counted EXCEPT !.sum = @ + o.value, !.min = Min({@, o.value}), !.max = Max({@, o.value}),
                            !.hist = RecordValue(@, o.value)]
    BY <1>7 DEF Observe, counted
  <2>2. b = AggOf(a.metric, a.labels, a.kind, a.count + 1, a.sum + o.value, mn, mx, a.nonZero, a.gauge, h)
    BY <1>4, <2>1, ZenonT(60) DEF AggOf
  <2>3. mn = (IF a.min <= o.value THEN a.min ELSE o.value) /\ mx = (IF a.max <= o.value THEN o.value ELSE a.max)
    <3>1. o.value \in Int /\ a.min \in Int /\ a.max \in Int
      BY <1>2, <1>3
    <3>2. mn = (IF a.min <= o.value THEN a.min ELSE o.value)
      BY <3>1, MinPair
    <3>3. mx = (IF a.max <= o.value THEN o.value ELSE a.max)
      BY <3>1, MinPair
    <3>. QED BY <3>2, <3>3
  <2>4. a.kind = "counter" => h = NoHist
    <3>1. a.kind = "counter" => a.hist = NoHist
      BY <1>3
    <3>2. RecordValue(NoHist, o.value) = NoHist
      BY DEF RecordValue, NoHist
    <3>. QED BY <3>1, <3>2
  <2>5. ~(o.truthy /\ a.kind = "rate")
    BY <1>7
  <2>6. h = RecordValue(a.hist, o.value)
    OBVIOUS
  <2>. HIDE DEF b, h, mn, mx
  <2>7. /\ b.metric = a.metric /\ b.labels = a.labels /\ b.kind = a.kind
        /\ b.count = a.count + 1 /\ b.sum = a.sum + o.value /\ b.nonZero = a.nonZero /\ b.gauge = a.gauge
        /\ b.min = mn /\ b.max = mx /\ b.hist = h
    BY <2>2 DEF AggOf
  <2>8. mn \in Int /\ mx \in Int
    BY <1>2, <1>3, <2>3
  <2>. QED BY <1>2, <1>3, <1>7, <2>2, <2>3, <2>4, <2>5, <2>6, <2>7, <2>8 DEF b
<1>8. a.kind = "gauge" \/ a.kind = "rate" \/ a.kind \in {"counter", "trend"}
  BY <1>1 DEF Kinded
<1>. QED BY <1>5, <1>6, <1>7, <1>8

LEMMA Finite ==
    ASSUME NEW x \in 0 .. Infinity - 1
    PROVE  x \in Nat /\ ~(Infinity <= x) /\ -Infinity <= x /\ x # Infinity /\ x # -Infinity
<1>1. Infinity \in Nat
  BY DEF Infinity
<1>. QED BY <1>1

LEMMA ObserveAgg ==
    ASSUME NEW a, IsAgg(a), NEW o, IsObs(o), Same(a, o)
    PROVE  IsAgg(Observe(a, o.value, o.truthy)) /\ Same(Observe(a, o.value, o.truthy), a)
<1>. DEFINE b == Observe(a, o.value, o.truthy)
<1>1. /\ b.metric = a.metric /\ b.labels = a.labels /\ b.kind = a.kind
      /\ b.count = a.count + 1
      /\ b.sum = a.sum + (IF a.kind \in {"counter", "trend"} THEN o.value ELSE 0)
      /\ b.nonZero = a.nonZero + (IF o.truthy /\ a.kind = "rate" THEN 1 ELSE 0)
      /\ b.gauge \in Nat /\ b.min \in Int /\ b.max \in Int
      /\ b = AggOf(b.metric, b.labels, b.kind, b.count, b.sum, b.min, b.max, b.nonZero, b.gauge, b.hist)
      /\ a.kind = "trend" => /\ b.hist = RecordValue(a.hist, o.value)
                             /\ b.min = (IF a.min <= o.value THEN a.min ELSE o.value)
                             /\ b.max = (IF a.max <= o.value THEN o.value ELSE a.max)
      /\ a.kind # "trend" => b.hist = NoHist
  BY ObserveIs
<1>2. /\ Kinded(a) /\ a.count \in Nat /\ a.sum \in Nat /\ a.nonZero \in Nat
      /\ (a.kind = "trend" => a.hist \in Hist /\ SumFunction(a.hist) = a.count)
      /\ (a.kind = "trend" /\ a.count > 0 => a.min \in 0 .. Infinity - 1 /\ a.max \in 0 .. Infinity - 1)
  BY DEF IsAgg
<1>3. o.value \in Nat /\ (o.kind = "trend" => o.value \in 0 .. Infinity - 1) /\ o.kind = a.kind
  BY SameKind DEF IsObs, IsAgg
<1>4. a.count = 0 => a.min = Infinity /\ a.max = -Infinity
  BY AggNew
<1>. HIDE DEF b
<1>5. b.count \in Nat /\ b.count > 0 /\ b.sum \in Nat /\ b.nonZero \in Nat
  BY <1>1, <1>2, <1>3
<1>6. Kinded(b)
  BY <1>1, <1>2 DEF Kinded
<1>7. ASSUME b.kind = "trend" PROVE b.hist \in Hist /\ SumFunction(b.hist) = b.count
  BY <1>1, <1>2, <1>3, <1>7, RecordValueIs
<1>8. ASSUME b.kind = "trend" PROVE b.min \in 0 .. Infinity - 1 /\ b.max \in 0 .. Infinity - 1
  <2>1. o.value \in 0 .. Infinity - 1 /\ a.kind = "trend"
    BY <1>1, <1>3, <1>8
  <2>2. CASE a.count = 0
    <3>1. ~(a.min <= o.value) /\ a.max <= o.value
      BY <1>4, <2>1, <2>2, Finite
    <3>2. b.min = o.value /\ b.max = o.value
      BY <1>1, <2>1, <3>1
    <3>. QED BY <2>1, <3>2
  <2>3. CASE a.count > 0
    BY <1>1, <1>2, <2>1, <2>3
  <2>. QED BY <1>2, <2>2, <2>3
<1>p. Plain(b)
  <2>1. /\ a.kind = "counter" => /\ b.min = (IF a.min <= o.value THEN a.min ELSE o.value)
                                 /\ b.max = (IF a.max <= o.value THEN o.value ELSE a.max)
        /\ a.kind = "rate" => b.min = a.min /\ b.max = a.max
    BY ObserveIs DEF b
  <2>2. Plain(a) /\ (o.kind = "counter" => o.value = 1) /\ Infinity \in Nat /\ Infinity > 1
    BY DEF IsAgg, IsObs, Infinity
  <2>3. ASSUME b.kind = "counter" PROVE b.min = 1 /\ b.max = 1
    <3>1. o.value = 1 /\ a.kind = "counter"
      BY <1>1, <1>3, <2>2, <2>3
    <3>2. (a.min = 1 /\ a.max = 1) \/ (a.min = Infinity /\ a.max = -Infinity)
      BY <1>2, <1>4, <2>2, <3>1 DEF Plain
    <3>. QED BY <2>1, <2>2, <3>1, <3>2
  <2>. QED BY <1>1, <2>1, <2>2, <2>3 DEF Plain
<1>9. IsAgg(b)
  BY <1>1, <1>5, <1>6, <1>7, <1>8, <1>p DEF IsAgg
<1>10. Same(b, a)
  BY <1>1 DEF Same
<1>. QED BY <1>9, <1>10 DEF b

LEMMA ObservePart ==
    ASSUME NEW a, IsAgg(a), NEW o, IsObs(o), Same(a, o), NEW k, IsMeasure(k)
    PROVE  /\ PartOf(k, o) \in Nat
           /\ Part(k, Observe(a, o.value, o.truthy)) = Part(k, a) + PartOf(k, o)
<1>. DEFINE b == Observe(a, o.value, o.truthy)
<1>1. /\ b.metric = a.metric /\ b.labels = a.labels /\ b.kind = a.kind
      /\ b.count = a.count + 1
      /\ b.sum = a.sum + (IF a.kind \in {"counter", "trend"} THEN o.value ELSE 0)
      /\ b.nonZero = a.nonZero + (IF o.truthy /\ a.kind = "rate" THEN 1 ELSE 0)
      /\ a.kind = "trend" => b.hist = RecordValue(a.hist, o.value)
      /\ a.kind # "trend" => b.hist = NoHist
  BY ObserveIs
<1>2. /\ Kinded(a) /\ a.count \in Nat /\ a.sum \in Nat /\ a.nonZero \in Nat
      /\ (a.kind = "trend" => a.hist \in Hist)
      /\ (a.kind # "trend" => a.hist = NoHist)
  BY DEF IsAgg
<1>3. /\ o.value \in Nat /\ o.kind = a.kind /\ (o.kind # "rate" => ~o.truthy)
      /\ (o.kind = "rate" => o.value = 0) /\ o.metric = a.metric /\ o.labels = a.labels
  BY SameKind DEF IsObs, IsAgg, Same
<1>. HIDE DEF b
<1>4. CASE ~Measured(k, a.metric, a.labels)
  <2>1. Part(k, a) = 0 /\ Part(k, b) = 0 /\ PartOf(k, o) = 0
    BY <1>1, <1>3, <1>4 DEF Part, PartOf
  <2>. QED BY <2>1 DEF b
<1>5. CASE Measured(k, a.metric, a.labels)
  <2>0. Measured(k, b.metric, b.labels) /\ Measured(k, o.metric, o.labels) /\ a.kind # "gauge"
    BY <1>1, <1>2, <1>3, <1>5 DEF Measured, Kinded
  <2>1. CASE k.of = "count"
    <3>1. Part(k, a) = a.count /\ Part(k, b) = b.count /\ PartOf(k, o) = 1
      BY <1>5, <2>0, <2>1 DEF Part, PartOf
    <3>. QED BY <1>1, <1>2, <3>1 DEF b
  <2>2. CASE k.of = "nonZero"
    <3>1. Part(k, a) = a.nonZero /\ Part(k, b) = b.nonZero /\ PartOf(k, o) = IF o.truthy THEN 1 ELSE 0
      BY <1>5, <2>0, <2>2 DEF Part, PartOf
    <3>2. o.truthy => a.kind = "rate"
      BY <1>3
    <3>3. (IF o.truthy /\ a.kind = "rate" THEN 1 ELSE 0) = IF o.truthy THEN 1 ELSE 0
      BY <3>2
    <3>. QED BY <1>1, <1>2, <3>1, <3>3 DEF b
  <2>3. CASE k.of = "sum"
    <3>1. Part(k, a) = a.sum /\ Part(k, b) = b.sum /\ PartOf(k, o) = o.value
      BY <1>5, <2>0, <2>3 DEF Part, PartOf
    <3>2. a.kind \in {"counter", "trend"} \/ a.kind = "rate"
      BY <1>2, <2>0 DEF Kinded
    <3>. QED BY <1>1, <1>2, <1>3, <3>1, <3>2 DEF b
  <2>4. CASE k.of \notin {"count", "nonZero", "sum"}
    <3>1. k.slot \in 1 .. CountsLen
      BY <2>4 DEF IsMeasure
    <3>2. /\ Part(k, a) = (IF a.hist = NoHist THEN 0 ELSE a.hist[k.slot])
          /\ Part(k, b) = (IF b.hist = NoHist THEN 0 ELSE b.hist[k.slot])
          /\ PartOf(k, o) = (IF o.kind = "trend" /\ InSlot(o.value, k.slot) THEN 1 ELSE 0)
      BY <1>5, <2>0, <2>4 DEF Part, PartOf
    <3>3. CASE a.kind = "trend"
      <4>1. a.hist \in Hist /\ b.hist \in Hist
            /\ b.hist[k.slot] = a.hist[k.slot] + (IF InSlot(o.value, k.slot) THEN 1 ELSE 0)
        BY <1>1, <1>2, <1>3, <3>1, <3>3, RecordValueIs, ZenonT(60)
      <4>2. a.hist # NoHist /\ b.hist # NoHist
        BY <4>1, HistFacts
      <4>. QED BY <1>3, <3>2, <3>3, <4>1, <4>2 DEF b
    <3>4. CASE a.kind # "trend"
      BY <1>1, <1>2, <1>3, <3>2, <3>4 DEF b
    <3>. QED BY <3>3, <3>4
  <2>. QED BY <2>1, <2>2, <2>3, <2>4
<1>. QED BY <1>4, <1>5

(***************************************************************************)
(* mergeFrom adds.                                                         *)
(***************************************************************************)
LEMMA MergeIs ==
    ASSUME NEW a, IsAgg(a), NEW c, IsAgg(c), Same(a, c), c.count > 0
    PROVE  LET b == MergeFrom(a, c)
           IN  /\ b.metric = a.metric /\ b.labels = a.labels /\ b.kind = a.kind
               /\ b.count = a.count + c.count /\ b.sum = a.sum + c.sum /\ b.nonZero = a.nonZero + c.nonZero
               /\ b.gauge \in Nat
               /\ b.min = (IF a.min <= c.min THEN a.min ELSE c.min)
               /\ b.max = (IF a.max <= c.max THEN c.max ELSE a.max)
               /\ b = AggOf(b.metric, b.labels, b.kind, b.count, b.sum, b.min, b.max, b.nonZero, b.gauge, b.hist)
               /\ a.kind = "trend" => b.hist = MergeHist(a.hist, c.hist)
               /\ a.kind # "trend" => b.hist = NoHist
<1>. DEFINE b == MergeFrom(a, c)
            h == IF a.hist # NoHist /\ c.hist # NoHist THEN MergeHist(a.hist, c.hist) ELSE a.hist
            mn == Min({a.min, c.min})
            mx == Max({a.max, c.max})
            ga == IF a.kind = "gauge" THEN a.gauge + c.gauge ELSE a.gauge
<1>1. a.kind = c.kind
  BY SameKind DEF IsAgg
<1>2. /\ a = AggOf(a.metric, a.labels, a.kind, a.count, a.sum, a.min, a.max, a.nonZero, a.gauge, a.hist)
      /\ a.gauge \in Nat /\ a.min \in Int /\ a.max \in Int
      /\ (a.kind # "trend" => a.hist = NoHist) /\ (a.kind = "trend" => a.hist \in Hist)
  BY DEF IsAgg
<1>3. c.gauge \in Nat /\ c.min \in Int /\ c.max \in Int /\ (c.kind = "trend" => c.hist \in Hist)
  BY DEF IsAgg
<1>4. b = [a EXCEPT !.count = @ + c.count, !.sum = @ + c.sum, !.nonZero = @ + c.nonZero,
                    !.min = Min({@, c.min}), !.max = Max({@, c.max}),
                    !.gauge = IF a.kind = "gauge" THEN @ + c.gauge ELSE @,
                    !.hist = IF @ # NoHist /\ c.hist # NoHist THEN MergeHist(@, c.hist) ELSE @]
  BY DEF MergeFrom
<1>5. b = AggOf(a.metric, a.labels, a.kind, a.count + c.count, a.sum + c.sum, mn, mx,
                a.nonZero + c.nonZero, ga, h)
  <2>. HIDE DEF b
  <2>. QED BY <1>2, <1>4 DEF AggOf
<1>6. mn = (IF a.min <= c.min THEN a.min ELSE c.min)
  BY <1>2, <1>3, MinPair
<1>7. mx = (IF a.max <= c.max THEN c.max ELSE a.max)
  BY <1>2, <1>3, MinPair
<1>8. ga \in Nat
  BY <1>2, <1>3
<1>9. a.kind = "trend" => h = MergeHist(a.hist, c.hist)
  BY <1>1, <1>2, <1>3, HistFacts
<1>10. a.kind # "trend" => h = NoHist
  BY <1>2
<1>. HIDE DEF b, h, mn, mx, ga
<1>11. /\ b.metric = a.metric /\ b.labels = a.labels /\ b.kind = a.kind
       /\ b.count = a.count + c.count /\ b.sum = a.sum + c.sum /\ b.nonZero = a.nonZero + c.nonZero
       /\ b.gauge = ga /\ b.min = mn /\ b.max = mx /\ b.hist = h
  BY <1>5 DEF AggOf
<1>. QED BY <1>5, <1>6, <1>7, <1>8, <1>9, <1>10, <1>11 DEF b

LEMMA MergeAgg ==
    ASSUME NEW a, IsAgg(a), NEW c, IsAgg(c), Same(a, c)
    PROVE  /\ IsAgg(MergeFrom(a, c)) /\ Same(MergeFrom(a, c), a)
           /\ MergeFrom(a, c).count = a.count + c.count
<1>. DEFINE b == MergeFrom(a, c)
<1>1. CASE c.count = 0
  <2>1. b = a
    BY <1>1 DEF MergeFrom
  <2>2. a.count \in Nat
    BY DEF IsAgg
  <2>. QED BY <1>1, <2>1, <2>2 DEF Same
<1>2. CASE c.count > 0
  <2>1. /\ b.metric = a.metric /\ b.labels = a.labels /\ b.kind = a.kind
        /\ b.count = a.count + c.count /\ b.sum = a.sum + c.sum /\ b.nonZero = a.nonZero + c.nonZero
        /\ b.gauge \in Nat
        /\ b.min = (IF a.min <= c.min THEN a.min ELSE c.min)
        /\ b.max = (IF a.max <= c.max THEN c.max ELSE a.max)
        /\ b = AggOf(b.metric, b.labels, b.kind, b.count, b.sum, b.min, b.max, b.nonZero, b.gauge, b.hist)
        /\ a.kind = "trend" => b.hist = MergeHist(a.hist, c.hist)
        /\ a.kind # "trend" => b.hist = NoHist
    BY <1>2, MergeIs
  <2>2. /\ Kinded(a) /\ a.count \in Nat /\ a.sum \in Nat /\ a.nonZero \in Nat /\ a.min \in Int /\ a.max \in Int
        /\ (a.kind = "trend" => a.hist \in Hist /\ SumFunction(a.hist) = a.count)
        /\ (a.kind = "trend" /\ a.count > 0 => a.min \in 0 .. Infinity - 1 /\ a.max \in 0 .. Infinity - 1)
    BY DEF IsAgg
  <2>3. /\ c.count \in Nat /\ c.sum \in Nat /\ c.nonZero \in Nat /\ c.min \in Int /\ c.max \in Int
        /\ (c.kind = "trend" => c.hist \in Hist /\ SumFunction(c.hist) = c.count)
        /\ (c.kind = "trend" => c.min \in 0 .. Infinity - 1 /\ c.max \in 0 .. Infinity - 1)
    BY <1>2 DEF IsAgg
  <2>4. a.kind = c.kind
    BY SameKind DEF IsAgg
  <2>5. a.count = 0 => a.min = Infinity /\ a.max = -Infinity
    BY AggNew
  <2>. HIDE DEF b
  <2>6. b.count \in Nat /\ b.count > 0 /\ b.sum \in Nat /\ b.nonZero \in Nat /\ b.min \in Int /\ b.max \in Int
    BY <1>2, <2>1, <2>2, <2>3
  <2>7. Kinded(b)
    BY <2>1, <2>2 DEF Kinded
  <2>8. ASSUME b.kind = "trend" PROVE b.hist \in Hist /\ SumFunction(b.hist) = b.count
    BY <2>1, <2>2, <2>3, <2>4, <2>8, MergeHistIs
  <2>9. ASSUME b.kind = "trend" PROVE b.min \in 0 .. Infinity - 1 /\ b.max \in 0 .. Infinity - 1
    <3>1. c.min \in 0 .. Infinity - 1 /\ c.max \in 0 .. Infinity - 1 /\ a.kind = "trend"
      BY <2>1, <2>3, <2>4, <2>9
    <3>2. CASE a.count = 0
      <4>1. ~(a.min <= c.min) /\ a.max <= c.max
        BY <2>5, <3>1, <3>2, Finite
      <4>. QED BY <2>1, <3>1, <4>1
    <3>3. CASE a.count > 0
      BY <2>1, <2>2, <3>1, <3>3
    <3>. QED BY <2>2, <3>2, <3>3
  <2>p. Plain(b)
    <3>1. Plain(a) /\ Plain(c) /\ Infinity \in Nat /\ Infinity > 1
      BY DEF IsAgg, Infinity
    <3>2. ASSUME b.kind = "counter" PROVE b.min = 1 /\ b.max = 1
      <4>1. c.min = 1 /\ c.max = 1 /\ a.kind = "counter"
        BY <1>2, <2>1, <2>4, <3>1, <3>2 DEF Plain
      <4>2. (a.min = 1 /\ a.max = 1) \/ (a.min = Infinity /\ a.max = -Infinity)
        BY <2>2, <2>5, <3>1, <4>1 DEF Plain
      <4>. QED BY <2>1, <3>1, <4>1, <4>2
    <3>3. ASSUME b.kind = "rate" PROVE b.min \in {0, Infinity} /\ b.max \in {0, -Infinity}
      <4>1. /\ a.min \in {0, Infinity} /\ a.max \in {0, -Infinity}
            /\ c.min \in {0, Infinity} /\ c.max \in {0, -Infinity}
        BY <2>1, <2>4, <3>1, <3>3 DEF Plain
      <4>. QED BY <2>1, <4>1
    <3>. QED BY <3>2, <3>3 DEF Plain
  <2>10. IsAgg(b)
    BY <2>1, <2>6, <2>7, <2>8, <2>9, <2>p DEF IsAgg
  <2>. QED BY <2>1, <2>10 DEF b, Same
<1>3. c.count \in Nat
  BY DEF IsAgg
<1>. QED BY <1>1, <1>2, <1>3

LEMMA MergePart ==
    ASSUME NEW a, IsAgg(a), NEW c, IsAgg(c), Same(a, c), NEW k, IsMeasure(k)
    PROVE  Part(k, MergeFrom(a, c)) = Part(k, a) + Part(k, c)
<1>. DEFINE b == MergeFrom(a, c)
<1>0. Part(k, a) \in Nat /\ Part(k, c) \in Nat /\ (c.count = 0 => Part(k, c) = 0)
  BY PartNat
<1>1. CASE c.count = 0
  <2>1. b = a
    BY <1>1 DEF MergeFrom
  <2>. QED BY <1>0, <1>1, <2>1
<1>2. CASE c.count > 0
  <2>1. /\ b.metric = a.metric /\ b.labels = a.labels /\ b.kind = a.kind
        /\ b.count = a.count + c.count /\ b.sum = a.sum + c.sum /\ b.nonZero = a.nonZero + c.nonZero
        /\ a.kind = "trend" => b.hist = MergeHist(a.hist, c.hist)
        /\ a.kind # "trend" => b.hist = NoHist
    BY <1>2, MergeIs
  <2>2. /\ (a.kind = "trend" => a.hist \in Hist) /\ (a.kind # "trend" => a.hist = NoHist)
        /\ (c.kind = "trend" => c.hist \in Hist) /\ (c.kind # "trend" => c.hist = NoHist)
        /\ a.kind = c.kind /\ a.metric = c.metric /\ a.labels = c.labels
    BY SameKind DEF IsAgg, Same
  <2>. HIDE DEF b
  <2>3. CASE ~Measured(k, a.metric, a.labels)
    <3>1. Part(k, a) = 0 /\ Part(k, b) = 0 /\ Part(k, c) = 0
      BY <2>1, <2>2, <2>3 DEF Part
    <3>. QED BY <3>1 DEF b
  <2>4. CASE Measured(k, a.metric, a.labels)
    <3>0. Measured(k, b.metric, b.labels) /\ Measured(k, c.metric, c.labels)
      BY <2>1, <2>2, <2>4
    <3>1. CASE k.of = "count"
      <4>1. Part(k, a) = a.count /\ Part(k, b) = b.count /\ Part(k, c) = c.count
        BY <2>4, <3>0, <3>1 DEF Part
      <4>. QED BY <2>1, <4>1 DEF b
    <3>2. CASE k.of = "nonZero"
      <4>1. Part(k, a) = a.nonZero /\ Part(k, b) = b.nonZero /\ Part(k, c) = c.nonZero
        BY <2>4, <3>0, <3>2 DEF Part
      <4>. QED BY <2>1, <4>1 DEF b
    <3>3. CASE k.of = "sum"
      <4>1. Part(k, a) = a.sum /\ Part(k, b) = b.sum /\ Part(k, c) = c.sum
        BY <2>4, <3>0, <3>3 DEF Part
      <4>. QED BY <2>1, <4>1 DEF b
    <3>4. CASE k.of \notin {"count", "nonZero", "sum"}
      <4>1. k.slot \in 1 .. CountsLen
        BY <3>4 DEF IsMeasure
      <4>2. /\ Part(k, a) = (IF a.hist = NoHist THEN 0 ELSE a.hist[k.slot])
            /\ Part(k, b) = (IF b.hist = NoHist THEN 0 ELSE b.hist[k.slot])
            /\ Part(k, c) = (IF c.hist = NoHist THEN 0 ELSE c.hist[k.slot])
        BY <2>4, <3>0, <3>4 DEF Part
      <4>3. CASE a.kind = "trend"
        <5>1. a.hist \in Hist /\ b.hist \in Hist /\ c.hist \in Hist
              /\ b.hist[k.slot] = a.hist[k.slot] + c.hist[k.slot]
          BY <2>1, <2>2, <4>1, <4>3, MergeHistIs
        <5>2. a.hist # NoHist /\ b.hist # NoHist /\ c.hist # NoHist
          BY <5>1, HistFacts
        <5>. QED BY <4>2, <5>1, <5>2 DEF b
      <4>4. CASE a.kind # "trend"
        BY <2>1, <2>2, <4>2, <4>4 DEF b
      <4>. QED BY <4>3, <4>4
    <3>. QED BY <3>1, <3>2, <3>3, <3>4
  <2>. QED BY <2>3, <2>4
<1>3. c.count \in Nat
  BY DEF IsAgg
<1>. QED BY <1>1, <1>2, <1>3

(***************************************************************************)
(* What arrives is what was sent, save that a gauge travels in the sum.    *)
(***************************************************************************)
Arrived(a) == Incoming(EncodeDelta(a))

LEMMA ArrivedIs ==
    ASSUME NEW a, IsAgg(a), a.count > 0
    PROVE  LET b == Arrived(a)
               d == EncodeDelta(a)
           IN  /\ b.metric = a.metric /\ b.labels = a.labels /\ b.kind = a.kind
               /\ b.count = a.count /\ b.nonZero = a.nonZero /\ (a.kind # "gauge" => b.sum = a.sum)
               /\ b.sum \in Nat /\ b.gauge = b.sum /\ b.min \in Int /\ b.max \in Int
               /\ (a.kind = "trend" => b.min = a.min /\ b.max = a.max) /\ Plain(b)
               /\ b = AggOf(b.metric, b.labels, b.kind, b.count, b.sum, b.min, b.max, b.nonZero, b.gauge, b.hist)
               /\ b.hist = a.hist
               /\ d.metric = a.metric /\ d.tags = a.labels /\ d.kind = a.kind
               /\ d.hist # NoHist => Decodes(d.hist)
<1>. DEFINE d == EncodeDelta(a)
            b == Arrived(a)
<1>1. /\ a.count \in Nat /\ a.sum \in Nat /\ a.nonZero \in Nat /\ a.gauge \in Nat
      /\ a.min \in Int /\ a.max \in Int
      /\ (IF a.kind = "trend" THEN a.hist \in Hist /\ SumFunction(a.hist) = a.count ELSE a.hist = NoHist)
      /\ (a.kind = "trend" => a.min \in 0 .. Infinity - 1 /\ a.max \in 0 .. Infinity - 1)
  BY DEF IsAgg
<1>2. /\ d.metric = a.metric /\ d.kind = a.kind /\ d.tags = a.labels /\ d.count = a.count
      /\ d.sum = (IF a.kind = "gauge" THEN a.gauge ELSE a.sum)
      /\ d.min = MinOf(a) /\ d.max = MaxOf(a) /\ d.nonZero = a.nonZero
      /\ d.hist = IF a.hist # NoHist /\ TotalCount(a.hist) > 0 THEN EncodeRLE(a.hist) ELSE NoHist
  BY DEF EncodeDelta
<1>3. b = AggOf(d.metric, d.tags, d.kind, d.count, d.sum, d.min, d.max, d.nonZero, d.sum,
                DecodeRLE(d.hist).counts)
  BY DEF Arrived, Incoming, AggOf
<1>. HIDE DEF d, b
<1>4. /\ b.metric = d.metric /\ b.labels = d.tags /\ b.kind = d.kind /\ b.count = d.count /\ b.sum = d.sum
      /\ b.min = d.min /\ b.max = d.max /\ b.nonZero = d.nonZero /\ b.gauge = d.sum
      /\ b.hist = DecodeRLE(d.hist).counts
  BY <1>3 DEF AggOf
<1>5. CASE a.kind = "trend"
  <2>1. a.hist \in Hist /\ a.hist # NoHist /\ a.hist \in Seq(Nat) /\ Len(a.hist) = CountsLen
    <3>1. a.hist \in Hist
      BY <1>1, <1>5
    <3>2. a.hist # NoHist /\ CountsLen \in Nat
      BY <3>1, HistFacts
    <3>. QED BY <3>1, <3>2 DEF Hist
  <2>2. TotalCount(a.hist) = a.count
    <3>1. CountsLen \in Nat /\ a.hist \in [1 .. CountsLen -> Nat]
      BY <2>1, HistFacts DEF Hist
    <3>2. TotalCount(a.hist) = SumFunction(a.hist)
      BY <3>1, TotalCountIs
    <3>. QED BY <1>1, <1>5, <3>2
  <2>3. d.hist = EncodeRLE(a.hist)
    BY <1>2, <2>1, <2>2
  <2>4. DecodeRLE(d.hist) = [counts |-> a.hist, ok |-> TRUE]
    BY <2>1, <2>3, RoundTrip
  <2>5. b.hist = a.hist /\ Decodes(d.hist)
    BY <1>4, <2>1, <2>4 DEF Decodes
  <2>6. d.min = a.min /\ d.max = a.max
    <3>1. a.min # Infinity /\ a.max # -Infinity /\ a.count # 0
      BY <1>1, <1>5, Finite
    <3>. QED BY <1>2, <3>1 DEF MinOf, MaxOf
  <2>7. Plain(b)
    BY <1>2, <1>4, <1>5 DEF Plain
  <2>. QED BY <1>1, <1>2, <1>3, <1>4, <1>5, <2>5, <2>6, <2>7 DEF d, b
<1>6. CASE a.kind # "trend"
  <2>1. d.hist = NoHist /\ a.hist = NoHist
    BY <1>1, <1>2, <1>6
  <2>2. b.hist = NoHist
    BY <1>4, <2>1, DecodeEmpty
  <2>3. d.min \in Int /\ d.max \in Int
    BY <1>1, <1>2 DEF MinOf, MaxOf
  <2>4. d.sum \in Nat /\ (a.kind # "gauge" => d.sum = a.sum)
    BY <1>1, <1>2
  <2>5. Plain(b)
    <3>1. Plain(a) /\ Infinity \in Nat /\ Infinity > 1
      BY DEF IsAgg, Infinity
    <3>2. a.kind = "counter" => MinOf(a) = 1 /\ MaxOf(a) = 1
      BY <1>1, <3>1 DEF Plain, MinOf, MaxOf
    <3>3. a.kind = "rate" => MinOf(a) = 0 /\ MaxOf(a) = 0
      BY <1>1, <3>1 DEF Plain, MinOf, MaxOf
    <3>. QED BY <1>2, <1>4, <3>2, <3>3 DEF Plain
  <2>. QED BY <1>2, <1>3, <1>4, <1>6, <2>1, <2>2, <2>3, <2>4, <2>5 DEF d, b
<1>. QED BY <1>5, <1>6

LEMMA ArrivedAgg ==
    ASSUME NEW a, IsAgg(a), a.count > 0
    PROVE  IsAgg(Arrived(a)) /\ Same(Arrived(a), a) /\ Arrived(a).count = a.count
<1>. DEFINE b == Arrived(a)
<1>1. /\ b.metric = a.metric /\ b.labels = a.labels /\ b.kind = a.kind
      /\ b.count = a.count /\ b.nonZero = a.nonZero
      /\ b.sum \in Nat /\ b.gauge = b.sum /\ b.min \in Int /\ b.max \in Int
      /\ (a.kind = "trend" => b.min = a.min /\ b.max = a.max) /\ Plain(b)
      /\ b = AggOf(b.metric, b.labels, b.kind, b.count, b.sum, b.min, b.max, b.nonZero, b.gauge, b.hist)
      /\ b.hist = a.hist
  BY ArrivedIs
<1>2. /\ Kinded(a) /\ a.count \in Nat /\ a.nonZero \in Nat
      /\ (IF a.kind = "trend" THEN a.hist \in Hist /\ SumFunction(a.hist) = a.count ELSE a.hist = NoHist)
      /\ (a.kind = "trend" => a.min \in 0 .. Infinity - 1 /\ a.max \in 0 .. Infinity - 1)
  BY DEF IsAgg
<1>. HIDE DEF b
<1>3. Kinded(b)
  BY <1>1, <1>2 DEF Kinded
<1>4. IsAgg(b)
  BY <1>1, <1>2, <1>3 DEF IsAgg
<1>. QED BY <1>1, <1>4 DEF b, Same

LEMMA ArrivedPart ==
    ASSUME NEW a, IsAgg(a), a.count > 0, NEW k, IsMeasure(k)
    PROVE  Part(k, Arrived(a)) = Part(k, a)
<1>. DEFINE b == Arrived(a)
<1>1. /\ b.metric = a.metric /\ b.labels = a.labels /\ b.kind = a.kind
      /\ b.count = a.count /\ b.nonZero = a.nonZero /\ (a.kind # "gauge" => b.sum = a.sum) /\ b.hist = a.hist
  BY ArrivedIs
<1>2. Kinded(a)
  BY DEF IsAgg
<1>. HIDE DEF b
<1>3. Measured(k, a.metric, a.labels) => b.sum = a.sum
  BY <1>1, <1>2 DEF Measured, Kinded
<1>4. Part(k, b) = Part(k, a)
  BY <1>1, <1>3 DEF Part
<1>. QED BY <1>4 DEF b

-----------------------------------------------------------------------------
(***************************************************************************)
(* Tables of aggregates: one per series.                                   *)
(***************************************************************************)
Aggs(m) == IsFiniteSet(m) /\ \A a \in m : IsAgg(a)

Unique(m) == \A a, b \in m : Same(a, b) => a = b

Table(m) == Aggs(m) /\ Unique(m)

LEMMA FindIs ==
    ASSUME NEW m, NEW metric, NEW labels
    PROVE  Find(m, metric, labels) = {a \in m : a.metric = metric /\ a.labels = labels}
<1>1. ASSUME NEW a, a.labels = labels PROVE Key(a.metric, a.labels) = Key(metric, labels) <=> a.metric = metric
  BY <1>1 DEF Key
<1>. QED BY <1>1 DEF Find

LEMMA MassInt ==
    ASSUME NEW S, Aggs(S), NEW k, IsMeasure(k)
    PROVE  /\ Mass(k, S) \in Nat
           /\ \A a \in S : Part(k, a) \in Nat
<1>. DEFINE f == [a \in S |-> Part(k, a)]
<1>1. \A a \in S : Part(k, a) \in Nat
  BY PartNat DEF Aggs
<1>2. DOMAIN f = S /\ \A x \in DOMAIN f : f[x] \in Nat
  BY <1>1
<1>3. IsFiniteSet(S)
  BY DEF Aggs
<1>. HIDE DEF f
<1>4. SumFunction(f) \in Nat
  BY <1>2, <1>3, SumNat
<1>. QED BY <1>1, <1>4 DEF Mass, f

LEMMA MassEmpty == ASSUME NEW k PROVE Mass(k, {}) = 0
<1>. DEFINE f == [a \in {} |-> Part(k, a)]
<1>1. DOMAIN f = {} /\ IsFiniteSet({})
  BY FS_EmptySet
<1>. HIDE DEF f
<1>2. SumFunction(f) = 0
  BY <1>1, SumZero
<1>. QED BY <1>2 DEF f, Mass

LEMMA MassAdd ==
    ASSUME NEW S, Aggs(S), NEW a, IsAgg(a), a \notin S, NEW k, IsMeasure(k)
    PROVE  Aggs(S \cup {a}) /\ Mass(k, S \cup {a}) = Mass(k, S) + Part(k, a)
<1>. DEFINE f == [x \in S |-> Part(k, x)]
            g == [x \in S \cup {a} |-> Part(k, x)]
<1>1. IsFiniteSet(S) /\ Part(k, a) \in Int /\ \A x \in S : Part(k, x) \in Int
  BY PartNat DEF Aggs
<1>2. DOMAIN f = S /\ DOMAIN g = DOMAIN f \cup {a} /\ g[a] = Part(k, a) /\ a \notin DOMAIN f
      /\ \A y \in DOMAIN f : f[y] \in Int /\ g[y] = f[y]
  BY <1>1
<1>. HIDE DEF f, g
<1>3. SumFunction(g) = SumFunction(f) + g[a]
  BY <1>1, <1>2, SumExtend
<1>4. Aggs(S \cup {a})
  BY <1>1, FS_AddElement DEF Aggs
<1>. QED BY <1>2, <1>3, <1>4 DEF f, g, Mass

LEMMA MassSplit ==
    ASSUME NEW S, Aggs(S), NEW T, T \subseteq S, NEW k, IsMeasure(k)
    PROVE  Aggs(T) /\ Aggs(S \ T) /\ Mass(k, S) = Mass(k, T) + Mass(k, S \ T)
<1>. DEFINE f == [x \in T |-> Part(k, x)]
            g == [x \in S \ T |-> Part(k, x)]
            h == [x \in S |-> Part(k, x)]
<1>1. IsFiniteSet(S) /\ \A x \in S : Part(k, x) \in Int
  BY PartNat DEF Aggs
<1>2. DOMAIN f = T /\ DOMAIN g = S \ T /\ DOMAIN h = S
      /\ (\A x \in S : h[x] \in Int) /\ (\A x \in T : f[x] = h[x]) /\ (\A x \in S \ T : g[x] = h[x])
  BY <1>1
<1>. HIDE DEF f, g, h
<1>3. S = T \cup (S \ T) /\ T \cap (S \ T) = {}
  OBVIOUS
<1>4. SumFunction(h) = SumFunction(f) + SumFunction(g)
  BY <1>1, <1>2, <1>3, SumHalves
<1>5. Aggs(T) /\ Aggs(S \ T)
  BY <1>1, FS_Subset DEF Aggs
<1>. QED BY <1>4, <1>5 DEF f, g, h, Mass

LEMMA MassZero ==
    ASSUME NEW S, Aggs(S), NEW k, \A a \in S : Part(k, a) = 0
    PROVE  Mass(k, S) = 0
<1>. DEFINE f == [x \in S |-> Part(k, x)]
<1>1. DOMAIN f = S /\ IsFiniteSet(S) /\ \A x \in S : f[x] = 0
  BY DEF Aggs
<1>. HIDE DEF f
<1>2. SumFunction(f) = 0
  BY <1>1, SumZero
<1>. QED BY <1>2 DEF f, Mass

(***************************************************************************)
(* Aggregates that have counted nothing have no mass.                      *)
(***************************************************************************)
LEMMA MassCounted ==
    ASSUME NEW S, Aggs(S), NEW k, IsMeasure(k)
    PROVE  /\ Aggs({a \in S : a.count > 0})
           /\ Mass(k, {a \in S : a.count > 0}) = Mass(k, S)
<1>. DEFINE T == {a \in S : a.count > 0}
<1>1. Aggs(T) /\ Aggs(S \ T) /\ Mass(k, S) = Mass(k, T) + Mass(k, S \ T)
  <2>1. T \subseteq S
    OBVIOUS
  <2>. HIDE DEF T
  <2>. QED BY <2>1, MassSplit
<1>2. \A a \in S \ T : Part(k, a) = 0
  <2>. SUFFICES ASSUME NEW a \in S \ T PROVE Part(k, a) = 0
    OBVIOUS
  <2>1. IsAgg(a) /\ a.count \in Nat /\ ~(a.count > 0)
    BY DEF Aggs, IsAgg
  <2>2. a.count = 0
    BY <2>1
  <2>. QED BY <2>1, <2>2, PartNat
<1>3. Mass(k, S \ T) = 0
  <2>. HIDE DEF T
  <2>. QED BY <1>1, <1>2, MassZero
<1>4. Mass(k, T) \in Nat
  BY <1>1, MassInt
<1>. QED BY <1>1, <1>3, <1>4

(***************************************************************************)
(* getOrCreate and put.                                                    *)
(***************************************************************************)
LEMMA GetOrCreateIs ==
    ASSUME NEW m, Table(m), NEW metric, NEW labels, NEW kind,
           Kinded([metric |-> metric, labels |-> labels, kind |-> kind])
    PROVE  LET t == GetOrCreate(m, metric, labels, kind)
           IN  /\ IsAgg(t) /\ t.metric = metric /\ t.labels = labels
               /\ \/ t \in m /\ Find(m, metric, labels) = {t}
                  \/ /\ Find(m, metric, labels) = {} /\ t = NewAggregate(metric, labels, kind)
                     /\ t.count = 0
<1>. DEFINE old == Find(m, metric, labels)
            t == GetOrCreate(m, metric, labels, kind)
<1>1. old = {a \in m : a.metric = metric /\ a.labels = labels}
  BY FindIs
<1>2. t = IF old = {} THEN NewAggregate(metric, labels, kind) ELSE CHOOSE a \in old : TRUE
  BY DEF GetOrCreate
<1>. HIDE DEF t, old
<1>3. CASE old = {}
  <2>1. t = NewAggregate(metric, labels, kind)
    BY <1>2, <1>3
  <2>2. IsAgg(t) /\ t.metric = metric /\ t.labels = labels /\ t.count = 0
    BY <2>1, NewAgg
  <2>. QED BY <1>3, <2>1, <2>2 DEF t, old
<1>4. CASE old # {}
  <2>1. t \in old
    BY <1>2, <1>4
  <2>2. \A a \in old : a = t
    BY <1>1, <2>1 DEF Table, Unique, Same
  <2>3. IsAgg(t)
    BY <1>1, <2>1 DEF Table, Aggs
  <2>4. old = {t}
    BY <2>1, <2>2
  <2>. QED BY <1>1, <2>1, <2>3, <2>4 DEF t, old
<1>. QED BY <1>3, <1>4

LEMMA PutIs ==
    ASSUME NEW m, Table(m), NEW a, IsAgg(a)
    PROVE  /\ Put(m, a) = {b \in m : ~Same(b, a)} \cup {a}
           /\ Table(Put(m, a))
<1>1. Put(m, a) = {b \in m : ~Same(b, a)} \cup {a}
  BY FindIs DEF Put, Same
<1>. DEFINE R == {b \in m : ~Same(b, a)}
<1>2. IsFiniteSet(R)
  BY FS_Subset DEF Table, Aggs
<1>3. IsFiniteSet(R \cup {a})
  BY <1>2, FS_AddElement
<1>4. Aggs(R \cup {a})
  BY <1>3 DEF Table, Aggs
<1>5. Unique(R \cup {a})
  BY DEF Table, Unique, Same
<1>. QED BY <1>1, <1>4, <1>5 DEF Table

LEMMA PutMass ==
    ASSUME NEW m, Table(m), NEW a, IsAgg(a), NEW k, IsMeasure(k), NEW t,
           t = GetOrCreate(m, a.metric, a.labels, a.kind)
    PROVE  IsAgg(t) /\ Same(t, a) /\ Mass(k, Put(m, a)) = Mass(k, m) + (Part(k, a) - Part(k, t))
<1>. DEFINE R == {b \in m : ~Same(b, a)}
<1>1. Kinded([metric |-> a.metric, labels |-> a.labels, kind |-> a.kind])
  BY DEF IsAgg, Kinded
<1>2. /\ IsAgg(t) /\ t.metric = a.metric /\ t.labels = a.labels
      /\ \/ t \in m /\ Find(m, a.metric, a.labels) = {t}
         \/ Find(m, a.metric, a.labels) = {} /\ t.count = 0
  BY <1>1, GetOrCreateIs
<1>3. Aggs(m) /\ R \subseteq m /\ a \notin R
  BY DEF Table, Same
<1>4. Put(m, a) = R \cup {a}
  BY PutIs
<1>5. Aggs(R) /\ Aggs(m \ R) /\ Mass(k, m) = Mass(k, R) + Mass(k, m \ R)
  <2>. HIDE DEF R
  <2>. QED BY <1>3, MassSplit
<1>6. Mass(k, R \cup {a}) = Mass(k, R) + Part(k, a)
  <2>. HIDE DEF R
  <2>. QED BY <1>3, <1>5, MassAdd
<1>7. Mass(k, m \ R) = Part(k, t)
  <2>1. m \ R = Find(m, a.metric, a.labels)
    BY FindIs DEF Same
  <2>2. CASE t \in m /\ Find(m, a.metric, a.labels) = {t}
    <3>1. m \ R = {} \cup {t} /\ t \notin {}
      BY <2>1, <2>2
    <3>2. Aggs({})
      BY FS_EmptySet DEF Aggs
    <3>3. Mass(k, {} \cup {t}) = Mass(k, {}) + Part(k, t)
      BY <1>2, <3>1, <3>2, MassAdd
    <3>4. Part(k, t) \in Nat
      BY <1>2, PartNat
    <3>. HIDE DEF R
    <3>. QED BY <3>1, <3>3, <3>4, MassEmpty
  <2>3. CASE Find(m, a.metric, a.labels) = {} /\ t.count = 0
    <3>1. Part(k, t) = 0
      BY <1>2, <2>3, PartNat
    <3>. HIDE DEF R
    <3>. QED BY <2>1, <2>3, <3>1, MassEmpty
  <2>. QED BY <1>2, <2>2, <2>3
<1>8. Mass(k, R) \in Nat /\ Part(k, a) \in Nat /\ Part(k, t) \in Nat
  BY <1>2, <1>5, MassInt, PartNat
<1>9. Mass(k, Put(m, a)) = Mass(k, m) + (Part(k, a) - Part(k, t))
  <2>. HIDE DEF R
  <2>. QED BY <1>4, <1>5, <1>6, <1>7, <1>8
<1>. QED BY <1>2, <1>9 DEF Same

-----------------------------------------------------------------------------
(***************************************************************************)
(* The extremes of durations: every one of X is covered by M, and those of *)
(* M are all found in X.                                                   *)
(***************************************************************************)
Timed(a) == a.kind = "trend" /\ a.count > 0

Covers(M, X) ==
    \A x \in X : Timed(x) => \E y \in M : Timed(y) /\ Same(y, x) /\ y.min <= x.min /\ x.max <= y.max

Within(M, X) ==
    \A y \in M : Timed(y) => /\ \E x \in X : Timed(x) /\ Same(x, y) /\ x.min = y.min
                             /\ \E x \in X : Timed(x) /\ Same(x, y) /\ x.max = y.max

Spans(M, X) == Covers(M, X) /\ Within(M, X)

LEMMA AbsorbIs ==
    ASSUME NEW m, Table(m), NEW a, IsAgg(a)
    PROVE  /\ Table(Absorb(m, a))
           /\ \A k : IsMeasure(k) => Mass(k, Absorb(m, a)) = Mass(k, m) + Part(k, a)
           /\ Spans(Absorb(m, a), m \cup {a})
<1>. DEFINE t == GetOrCreate(m, a.metric, a.labels, a.kind)
            c == MergeFrom(t, a)
            M == Absorb(m, a)
<1>1. Kinded([metric |-> a.metric, labels |-> a.labels, kind |-> a.kind])
  BY DEF IsAgg, Kinded
<1>2. /\ IsAgg(t) /\ t.metric = a.metric /\ t.labels = a.labels
      /\ \/ t \in m /\ Find(m, a.metric, a.labels) = {t}
         \/ Find(m, a.metric, a.labels) = {} /\ t.count = 0
  BY <1>1, GetOrCreateIs
<1>3. Same(t, a) /\ t.kind = a.kind
  BY <1>2, SameKind DEF Same, IsAgg
<1>4. M = Put(m, c)
  BY DEF Absorb
<1>t. t = GetOrCreate(m, a.metric, a.labels, a.kind)
  OBVIOUS
<1>c. c = MergeFrom(t, a)
  OBVIOUS
<1>. HIDE DEF t, c, M
<1>5. IsAgg(c) /\ Same(c, t) /\ c.count = t.count + a.count
  BY <1>2, <1>3, <1>c, MergeAgg
<1>6. c.metric = a.metric /\ c.labels = a.labels /\ c.kind = a.kind
  BY <1>3, <1>5, SameKind DEF Same, IsAgg
<1>7. Table(M) /\ M = {b \in m : ~Same(b, c)} \cup {c}
  BY <1>4, <1>5, PutIs
<1>8. ASSUME NEW k, IsMeasure(k) PROVE Mass(k, M) = Mass(k, m) + Part(k, a)
  <2>1. Mass(k, Put(m, c)) = Mass(k, m) + (Part(k, c) - Part(k, t))
    BY <1>5, <1>6, <1>8, <1>t, PutMass
  <2>2. Part(k, c) = Part(k, t) + Part(k, a)
    BY <1>2, <1>3, <1>8, <1>c, MergePart
  <2>3. Part(k, t) \in Nat /\ Part(k, a) \in Nat
    BY <1>2, <1>8, PartNat
  <2>. QED BY <1>4, <2>1, <2>2, <2>3
<1>9. /\ t.count \in Nat /\ a.count \in Nat /\ t.min \in Int /\ t.max \in Int /\ a.min \in Int /\ a.max \in Int
      /\ (t.count = 0 => t.min = Infinity /\ t.max = -Infinity)
      /\ (Timed(a) => a.min \in 0 .. Infinity - 1 /\ a.max \in 0 .. Infinity - 1)
  BY <1>2, AggNew DEF IsAgg, Timed
<1>10. a.count > 0 => /\ c.min = (IF t.min <= a.min THEN t.min ELSE a.min)
                      /\ c.max = (IF t.max <= a.max THEN a.max ELSE t.max)
  BY <1>2, <1>3, <1>c, MergeIs
<1>11. a.count = 0 => c = t
  BY <1>c DEF MergeFrom
<1>12. t.count > 0 => t \in m
  BY <1>2
<1>13. \A b \in m : Same(b, c) => b = t
  <2>. SUFFICES ASSUME NEW b \in m, Same(b, c) PROVE b = t
    OBVIOUS
  <2>1. b \in Find(m, a.metric, a.labels)
    BY <1>6, FindIs DEF Same
  <2>. QED BY <1>2, <2>1
<1>14. ASSUME NEW x \in m \cup {a}, Timed(x)
       PROVE  \E y \in M : Timed(y) /\ Same(y, x) /\ y.min <= x.min /\ x.max <= y.max
  <2>1. CASE x = a
    <3>1. c \in M /\ Same(c, a)
      BY <1>6, <1>7 DEF Same
    <3>2. Timed(c)
      BY <1>5, <1>6, <1>9, <1>14, <2>1 DEF Timed
    <3>3. c.min <= a.min /\ a.max <= c.max
      <4>1. a.count > 0
        BY <1>14, <2>1 DEF Timed
      <4>. QED BY <1>9, <1>10, <4>1
    <3>. QED BY <2>1, <3>1, <3>2, <3>3
  <2>2. CASE x \in m /\ Same(x, c)
    <3>1. x = t
      BY <1>13, <2>2
    <3>2. c \in M /\ Same(c, x) /\ Timed(c)
      BY <1>3, <1>5, <1>6, <1>7, <1>9, <1>14, <3>1 DEF Timed, Same
    <3>3. c.min <= t.min /\ t.max <= c.max
      <4>1. CASE a.count = 0
        BY <1>9, <1>11, <4>1
      <4>2. CASE a.count > 0
        BY <1>9, <1>10, <4>2
      <4>. QED BY <1>9, <4>1, <4>2
    <3>. QED BY <3>1, <3>2, <3>3
  <2>3. CASE x \in m /\ ~Same(x, c)
    <3>1. x \in M /\ IsAgg(x)
      BY <1>7, <2>3 DEF Table, Aggs
    <3>2. x.min <= x.min /\ x.max <= x.max /\ Same(x, x)
      BY <3>1 DEF IsAgg, Same
    <3>. QED BY <1>14, <3>1, <3>2
  <2>. QED BY <2>1, <2>2, <2>3
<1>15. ASSUME NEW y \in M, Timed(y)
       PROVE  /\ \E x \in m \cup {a} : Timed(x) /\ Same(x, y) /\ x.min = y.min
              /\ \E x \in m \cup {a} : Timed(x) /\ Same(x, y) /\ x.max = y.max
  <2>1. CASE y # c
    <3>1. y \in m \cup {a} /\ Same(y, y)
      BY <1>7, <2>1 DEF Same
    <3>. QED BY <1>15, <3>1
  <2>2. CASE y = c
    <3>1. Same(a, y) /\ Same(t, y) /\ a.kind = "trend" /\ t.kind = "trend"
      BY <1>3, <1>6, <1>15, <2>2 DEF Same, Timed
    <3>2. CASE a.count = 0
      <4>1. t \in m \cup {a} /\ Timed(t)
        BY <1>11, <1>12, <1>15, <2>2, <3>2 DEF Timed
      <4>. QED BY <1>11, <2>2, <3>1, <3>2, <4>1
    <3>3. CASE a.count > 0 /\ t.count = 0
      <4>1. Timed(a) /\ a \in m \cup {a}
        BY <3>1, <3>3 DEF Timed
      <4>2. ~(t.min <= a.min) /\ t.max <= a.max
        BY <1>9, <3>3, <4>1, Finite
      <4>. QED BY <1>10, <2>2, <3>1, <3>3, <4>1, <4>2
    <3>4. CASE a.count > 0 /\ t.count > 0
      <4>1. Timed(a) /\ a \in m \cup {a} /\ Timed(t) /\ t \in m \cup {a}
        BY <1>12, <3>1, <3>4 DEF Timed
      <4>2. (c.min = t.min \/ c.min = a.min) /\ (c.max = t.max \/ c.max = a.max)
        BY <1>10, <3>4
      <4>. QED BY <2>2, <3>1, <4>1, <4>2
    <3>. QED BY <1>9, <3>2, <3>3, <3>4
  <2>. QED BY <2>1, <2>2
<1>. QED BY <1>7, <1>8, <1>14, <1>15 DEF M, Spans, Covers, Within

(***************************************************************************)
(* absorbing a set, one aggregate after another.                           *)
(***************************************************************************)
AbsorbFold(g, m, S) ==
    g = [s \in SUBSET S |-> IF s = {} THEN m ELSE Absorb(g[s \ {Pick(s)}], Pick(s))]

LEMMA AbsorbFoldExists ==
    ASSUME NEW S, IsFiniteSet(S), NEW m
    PROVE  \E g : AbsorbFold(g, m, S)
<1>. DEFINE Eq(g, s) == g[s] = IF s = {} THEN m ELSE Absorb(g[s \ {Pick(s)}], Pick(s))
            Small(s, n) == Cardinality(s) <= n
            G == {n \in Nat : \E g : \A s \in SUBSET S : Small(s, n) => Eq(g, s)}
<1>f. Cardinality(S) \in Nat
  BY FS_CardinalityType
<1>c. \A s \in SUBSET S : IsFiniteSet(s) /\ Cardinality(s) \in Nat /\ (Cardinality(s) = 0 <=> s = {})
  BY FS_Subset, FS_CardinalityType, FS_EmptySet
<1>d. \A s \in SUBSET S : s # {} => /\ s \ {Pick(s)} \in SUBSET S
                                    /\ Cardinality(s \ {Pick(s)}) = Cardinality(s) - 1
  BY <1>c, FS_RemoveElement, PickIn
<1>1. 0 \in G
  <2>. DEFINE g == [s \in SUBSET S |-> m]
  <2>2. ASSUME NEW s \in SUBSET S, Small(s, 0) PROVE Eq(g, s)
    <3>1. s = {}
      BY <1>c, <2>2
    <3>. QED BY <3>1
  <2>. HIDE DEF g, Eq, Small
  <2>. QED BY <2>2
<1>2. ASSUME NEW n \in Nat, n \in G PROVE n + 1 \in G
  <2>1. PICK g : \A s \in SUBSET S : Small(s, n) => Eq(g, s)
    BY <1>2
  <2>. DEFINE h == [s \in SUBSET S |-> IF s = {} THEN m ELSE Absorb(g[s \ {Pick(s)}], Pick(s))]
  <2>3. ASSUME NEW s \in SUBSET S, Small(s, n + 1) PROVE Eq(h, s)
    <3>1. CASE s = {}
      BY <3>1
    <3>2. CASE s # {}
      <4>1. s \ {Pick(s)} \in SUBSET S /\ Small(s \ {Pick(s)}, n)
        BY <1>c, <1>d, <2>3, <3>2
      <4>2. Eq(g, s \ {Pick(s)})
        BY <2>1, <4>1
      <4>3. h[s \ {Pick(s)}] = g[s \ {Pick(s)}]
        <5>. DEFINE r == s \ {Pick(s)}
        <5>1. r \in SUBSET S /\ Eq(g, r)
          BY <4>1, <4>2
        <5>. HIDE DEF r
        <5>2. h[r] = g[r]
          BY <5>1
        <5>. QED BY <5>2 DEF r
      <4>4. h[s] = Absorb(g[s \ {Pick(s)}], Pick(s))
        BY <3>2
      <4>. HIDE DEF h
      <4>. QED BY <3>2, <4>3, <4>4
    <3>. QED BY <3>1, <3>2
  <2>. HIDE DEF h, Eq, Small
  <2>. QED BY <2>3
<1>. HIDE DEF G
<1>3. Cardinality(S) \in G
  BY <1>1, <1>2, <1>f, NumberInduction
<1>4. PICK g : \A s \in SUBSET S : Small(s, Cardinality(S)) => Eq(g, s)
  BY <1>3 DEF G
<1>5. \A s \in SUBSET S : Small(s, Cardinality(S))
  BY FS_Subset
<1>6. \A s \in SUBSET S : Eq(g, s)
  BY <1>4, <1>5
<1>. DEFINE h == [s \in SUBSET S |-> g[s]]
<1>7. ASSUME NEW s \in SUBSET S PROVE Eq(h, s)
  <2>1. CASE s = {}
    BY <1>6, <2>1
  <2>2. CASE s # {}
    <3>1. s \ {Pick(s)} \in SUBSET S
      BY <1>d, <2>2
    <3>2. h[s] = g[s] /\ h[s \ {Pick(s)}] = g[s \ {Pick(s)}]
      BY <3>1
    <3>3. Eq(g, s)
      BY <1>6
    <3>. HIDE DEF h
    <3>. QED BY <2>2, <3>2, <3>3
  <2>. QED BY <2>1, <2>2
<1>8. h = [s \in SUBSET S |-> h[s]]
  OBVIOUS
<1>. HIDE DEF h
<1>9. h = [s \in SUBSET S |-> IF s = {} THEN m ELSE Absorb(h[s \ {Pick(s)}], Pick(s))]
  BY <1>7, <1>8
<1>. QED BY <1>9 DEF AbsorbFold

LEMMA SpansMore ==
    ASSUME NEW M, NEW N, NEW X, NEW a, Spans(M, N \cup {a}), Spans(N, X), \A x \in N : IsAgg(x),
           \A x \in M : IsAgg(x), \A x \in X \cup {a} : IsAgg(x)
    PROVE  Spans(M, X \cup {a})
<1>t. \A x, y, z : Same(x, y) /\ Same(y, z) => Same(x, z)
  BY DEF Same
<1>1. ASSUME NEW x \in X \cup {a}, Timed(x)
      PROVE  \E y \in M : Timed(y) /\ Same(y, x) /\ y.min <= x.min /\ x.max <= y.max
  <2>1. CASE x = a
    BY <1>1, <2>1 DEF Spans, Covers
  <2>2. CASE x \in X
    <3>1. PICK z \in N : Timed(z) /\ Same(z, x) /\ z.min <= x.min /\ x.max <= z.max
      BY <1>1, <2>2 DEF Spans, Covers
    <3>2. PICK y \in M : Timed(y) /\ Same(y, z) /\ y.min <= z.min /\ z.max <= y.max
      BY <3>1 DEF Spans, Covers
    <3>3. /\ x.min \in Int /\ x.max \in Int /\ y.min \in Int /\ y.max \in Int /\ z.min \in Int /\ z.max \in Int
      BY DEF IsAgg
    <3>4. y.min <= x.min /\ x.max <= y.max
      BY <3>1, <3>2, <3>3
    <3>. QED BY <1>t, <3>1, <3>2, <3>4
  <2>. QED BY <2>1, <2>2
<1>2. ASSUME NEW y \in M, Timed(y)
      PROVE  \E x \in X \cup {a} : Timed(x) /\ Same(x, y) /\ x.min = y.min
  <2>1. PICK z \in N \cup {a} : Timed(z) /\ Same(z, y) /\ z.min = y.min
    BY <1>2 DEF Spans, Within
  <2>2. CASE z \in N
    <3>1. PICK x \in X : Timed(x) /\ Same(x, z) /\ x.min = z.min
      BY <2>1, <2>2 DEF Spans, Within
    <3>. QED BY <1>t, <2>1, <3>1
  <2>. QED BY <2>1, <2>2
<1>3. ASSUME NEW y \in M, Timed(y)
      PROVE  \E x \in X \cup {a} : Timed(x) /\ Same(x, y) /\ x.max = y.max
  <2>1. PICK z \in N \cup {a} : Timed(z) /\ Same(z, y) /\ z.max = y.max
    BY <1>3 DEF Spans, Within
  <2>2. CASE z \in N
    <3>1. PICK x \in X : Timed(x) /\ Same(x, z) /\ x.max = z.max
      BY <2>1, <2>2 DEF Spans, Within
    <3>. QED BY <1>t, <2>1, <3>1
  <2>. QED BY <2>1, <2>2
<1>. QED BY <1>1, <1>2, <1>3 DEF Spans, Covers, Within

LEMMA SpansItself ==
    ASSUME NEW M, \A a \in M : IsAgg(a)
    PROVE  Spans(M, M)
BY DEF Spans, Covers, Within, IsAgg, Same

LEMMA AbsorbAllIs ==
    ASSUME NEW m, Table(m), NEW S, Aggs(S)
    PROVE  /\ Table(AbsorbAll(m, S))
           /\ \A k : IsMeasure(k) => Mass(k, AbsorbAll(m, S)) = Mass(k, m) + Mass(k, S)
           /\ Spans(AbsorbAll(m, S), m \cup S)
<1>. DEFINE A(g) == AbsorbFold(g, m, S)
            G == CHOOSE g : A(g)
<1>f. IsFiniteSet(S)
  BY DEF Aggs
<1>1. AbsorbAll(m, S) = G[S]
  BY DEF AbsorbAll, FoldSet, MapThenFoldSet, AbsorbFold, Pick
<1>2. A(G)
  <2>1. \E g : A(g)
    BY <1>f, AbsorbFoldExists
  <2>. HIDE DEF A
  <2>. QED BY <2>1, Zenon
<1>. DEFINE rhs(s) == IF s = {} THEN m ELSE Absorb(G[s \ {Pick(s)}], Pick(s))
<1>3. ASSUME NEW s \in SUBSET S PROVE G[s] = rhs(s)
  <2>1. G = [x \in SUBSET S |-> rhs(x)]
    BY <1>2 DEF AbsorbFold
  <2>. HIDE DEF G, rhs
  <2>. QED BY <2>1
<1>. HIDE DEF G
<1>. DEFINE Ok(s) == /\ Table(G[s])
                     /\ \A k : IsMeasure(k) => Mass(k, G[s]) = Mass(k, m) + Mass(k, s)
                     /\ Spans(G[s], m \cup s)
            Good == {s \in SUBSET S : Ok(s)}
<1>4. ASSUME NEW T \in SUBSET S, \A U \in SUBSET T : U # T => U \in Good PROVE T \in Good
  <2>1. CASE T = {}
    <3>1. G[{}] = m
      BY <1>3, <2>1
    <3>2. \A k : IsMeasure(k) => Mass(k, m) = Mass(k, m) + 0
      BY MassInt DEF Table
    <3>3. Spans(m, m \cup {})
      BY SpansItself DEF Table, Aggs
    <3>4. Ok({})
      BY <3>1, <3>2, <3>3, MassEmpty
    <3>. QED BY <2>1, <3>4
  <2>2. CASE T # {}
    <3>. DEFINE a == Pick(T)
                U == T \ {Pick(T)}
    <3>1. a \in T /\ a \in S /\ U \in SUBSET T /\ U # T /\ U \in SUBSET S /\ a \notin U /\ T = U \cup {a}
      BY <2>2, PickIn
    <3>2. G[T] = Absorb(G[U], a)
      BY <1>3, <2>2
    <3>. HIDE DEF a, U
    <3>3. Ok(U)
      BY <1>4, <3>1
    <3>4. IsAgg(a) /\ Aggs(U) /\ Aggs(T)
      BY <1>f, <3>1, FS_Subset DEF Aggs
    <3>5. /\ Table(G[T]) /\ Spans(G[T], G[U] \cup {a})
          /\ \A k : IsMeasure(k) => Mass(k, G[T]) = Mass(k, G[U]) + Part(k, a)
      BY <3>2, <3>3, <3>4, AbsorbIs
    <3>6. Spans(G[T], m \cup T)
      <4>1. \A x \in G[U] : IsAgg(x)
        BY <3>3 DEF Table, Aggs
      <4>2. \A x \in G[T] : IsAgg(x)
        BY <3>5 DEF Table, Aggs
      <4>3. \A x \in (m \cup U) \cup {a} : IsAgg(x)
        BY <3>4 DEF Table, Aggs
      <4>4. Spans(G[T], (m \cup U) \cup {a})
        BY <3>3, <3>5, <4>1, <4>2, <4>3, SpansMore
      <4>5. (m \cup U) \cup {a} = m \cup T
        BY <3>1
      <4>. QED BY <4>4, <4>5
    <3>7. ASSUME NEW k, IsMeasure(k) PROVE Mass(k, G[T]) = Mass(k, m) + Mass(k, T)
      <4>1. Mass(k, T) = Mass(k, U) + Part(k, a)
        BY <3>1, <3>4, <3>7, MassAdd
      <4>2. Mass(k, G[T]) = (Mass(k, m) + Mass(k, U)) + Part(k, a)
        BY <3>3, <3>5, <3>7
      <4>3. Mass(k, m) \in Nat /\ Mass(k, U) \in Nat /\ Part(k, a) \in Nat
        BY <3>4, <3>7, MassInt, PartNat DEF Table
      <4>. QED BY <4>1, <4>2, <4>3
    <3>8. Ok(T)
      BY <3>5, <3>6, <3>7
    <3>. QED BY <3>8
  <2>. QED BY <2>1, <2>2
<1>. HIDE DEF Good
<1>5. SUBSET S \subseteq Good
  BY <1>4, <1>f, SubsetInduction
<1>6. S \in Good
  BY <1>5
<1>7. Ok(S)
  BY <1>6 DEF Good
<1>. QED BY <1>1, <1>7

LEMMA AbsorbNothing ==
    ASSUME NEW m PROVE AbsorbAll(m, {}) = m
<1>. DEFINE A(g) == AbsorbFold(g, m, {})
            G == CHOOSE g : A(g)
<1>1. AbsorbAll(m, {}) = G[{}]
  BY DEF AbsorbAll, FoldSet, MapThenFoldSet, AbsorbFold, Pick
<1>2. A(G)
  <2>1. \E g : A(g)
    BY FS_EmptySet, AbsorbFoldExists
  <2>. HIDE DEF A
  <2>. QED BY <2>1, Zenon
<1>. DEFINE rhs(s) == IF s = {} THEN m ELSE Absorb(G[s \ {Pick(s)}], Pick(s))
<1>3. G = [x \in SUBSET {} |-> rhs(x)]
  BY <1>2 DEF AbsorbFold
<1>. HIDE DEF G
<1>4. G[{}] = rhs({})
  <2>. HIDE DEF rhs
  <2>. QED BY <1>3
<1>. QED BY <1>1, <1>4

LEMMA ResetAllIs ==
    ASSUME NEW m, Table(m)
    PROVE  /\ Table(ResetAll(m)) /\ \A a \in ResetAll(m) : a.count = 0
           /\ \A k : IsMeasure(k) => Mass(k, ResetAll(m)) = 0
<1>. DEFINE f == [a \in m |-> Reset(a)]
            R == ResetAll(m)
<1>1. R = {f[a] : a \in m}
  BY DEF ResetAll
<1>2. IsFiniteSet(m)
  BY DEF Table, Aggs
<1>3. IsFiniteSet(R)
  <2>. HIDE DEF f, R
  <2>. QED BY <1>1, <1>2, ImageFinite
<1>4. ASSUME NEW a \in m PROVE IsAgg(Reset(a)) /\ Reset(a).count = 0 /\ Same(Reset(a), a)
  <2>1. Kinded([metric |-> a.metric, labels |-> a.labels, kind |-> a.kind])
    BY DEF Table, Aggs, IsAgg, Kinded
  <2>. QED BY <2>1, NewAgg DEF Reset, Same
<1>5. \A b \in R : IsAgg(b) /\ b.count = 0
  BY <1>4 DEF ResetAll
<1>6. Aggs(R)
  BY <1>3, <1>5 DEF Aggs
<1>7. Unique(R)
  <2>. SUFFICES ASSUME NEW x \in R, NEW y \in R, Same(x, y) PROVE x = y
    BY DEF Unique
  <2>1. PICK a \in m : x = Reset(a)
    BY DEF ResetAll
  <2>2. PICK b \in m : y = Reset(b)
    BY DEF ResetAll
  <2>3. Same(a, b)
    BY <1>4, <2>1, <2>2 DEF Same
  <2>. QED BY <2>1, <2>2, <2>3 DEF Table, Unique
<1>8. ASSUME NEW k, IsMeasure(k) PROVE Mass(k, R) = 0
  <2>1. \A a \in R : Part(k, a) = 0
    BY <1>5, <1>8, PartNat
  <2>. HIDE DEF R
  <2>. QED BY <1>6, <2>1, MassZero
<1>. QED BY <1>5, <1>6, <1>7, <1>8 DEF Table

-----------------------------------------------------------------------------
(***************************************************************************)
(* The series of a batch: what was encoded from a table, of which every    *)
(* aggregate has counted something.                                        *)
(***************************************************************************)
IsDelta(d) == \E a : IsAgg(a) /\ a.count > 0 /\ d = EncodeDelta(a)

Shipped(D) ==
    /\ IsFiniteSet(D) /\ \A d \in D : IsDelta(d)
    /\ \A d, e \in D : d.metric = e.metric /\ d.tags = e.tags => d = e

LEMMA DeltaIs ==
    ASSUME NEW d, IsDelta(d)
    PROVE  /\ IsAgg(Incoming(d)) /\ Incoming(d).count > 0
           /\ Incoming(d).metric = d.metric /\ Incoming(d).labels = d.tags /\ Incoming(d).kind = d.kind
           /\ d.hist # NoHist => Decodes(d.hist)
<1>1. PICK a : IsAgg(a) /\ a.count > 0 /\ d = EncodeDelta(a)
  BY DEF IsDelta
<1>2. IsAgg(Arrived(a)) /\ Arrived(a).count = a.count
  BY <1>1, ArrivedAgg
<1>3. /\ Arrived(a).metric = a.metric /\ Arrived(a).labels = a.labels /\ Arrived(a).kind = a.kind
      /\ EncodeDelta(a).metric = a.metric /\ EncodeDelta(a).tags = a.labels /\ EncodeDelta(a).kind = a.kind
      /\ EncodeDelta(a).hist # NoHist => Decodes(EncodeDelta(a).hist)
  BY <1>1, ArrivedIs
<1>4. Incoming(d) = Arrived(a)
  BY <1>1 DEF Arrived
<1>. QED BY <1>1, <1>2, <1>3, <1>4

LEMMA ContentsTable ==
    ASSUME NEW D, Shipped(D)
    PROVE  Table(Contents(D)) /\ \A a \in Contents(D) : a.count > 0
<1>. DEFINE f == [d \in D |-> Incoming(d)]
            C == Contents(D)
<1>1. C = {f[d] : d \in D}
  BY DEF Contents
<1>2. IsFiniteSet(C)
  <2>1. IsFiniteSet(D)
    BY DEF Shipped
  <2>. HIDE DEF f, C
  <2>. QED BY <1>1, <2>1, ImageFinite
<1>3. \A d \in D : /\ IsAgg(Incoming(d)) /\ Incoming(d).count > 0
                   /\ Incoming(d).metric = d.metric /\ Incoming(d).labels = d.tags
  BY DeltaIs DEF Shipped
<1>4. Aggs(C) /\ \A a \in C : a.count > 0
  BY <1>2, <1>3 DEF Aggs, Contents
<1>5. Unique(C)
  BY <1>3 DEF Unique, Contents, Same, Shipped
<1>. QED BY <1>4, <1>5 DEF Table

LEMMA ShippedPart ==
    ASSUME NEW D, Shipped(D), NEW E, E \subseteq D
    PROVE  Shipped(E)
<1>1. IsFiniteSet(E)
  BY FS_Subset DEF Shipped
<1>. QED BY <1>1 DEF Shipped

LEMMA ContentsSplit ==
    ASSUME NEW D, Shipped(D), NEW E, E \subseteq D, NEW k, IsMeasure(k)
    PROVE  Mass(k, Contents(D)) = Mass(k, Contents(E)) + Mass(k, Contents(D \ E))
<1>1. Aggs(Contents(D)) /\ Contents(E) \subseteq Contents(D)
  BY ContentsTable DEF Table, Contents
<1>2. Contents(D) \ Contents(E) = Contents(D \ E)
  <2>1. \A d, e \in D : Incoming(d) = Incoming(e) => d = e
    <3>. SUFFICES ASSUME NEW d \in D, NEW e \in D, Incoming(d) = Incoming(e) PROVE d = e
      OBVIOUS
    <3>1. d.metric = e.metric /\ d.tags = e.tags
      <4>1. IsDelta(d) /\ IsDelta(e)
        BY DEF Shipped
      <4>. QED BY <4>1, DeltaIs
    <3>. QED BY <3>1 DEF Shipped
  <2>. QED BY <2>1 DEF Contents
<1>. QED BY <1>1, <1>2, MassSplit

LEMMA ContentsAdd ==
    ASSUME NEW D, Shipped(D), NEW d \in D, NEW k, IsMeasure(k)
    PROVE  Mass(k, Contents(D)) = Mass(k, Contents(D \ {d})) + Part(k, Incoming(d))
<1>1. Mass(k, Contents(D)) = Mass(k, Contents({d})) + Mass(k, Contents(D \ {d}))
  BY ContentsSplit
<1>2. Contents({d}) = {} \cup {Incoming(d)}
  BY DEF Contents
<1>3. IsAgg(Incoming(d)) /\ Aggs({}) /\ Incoming(d) \notin {}
  BY DeltaIs, FS_EmptySet DEF Shipped, Aggs
<1>4. Mass(k, {} \cup {Incoming(d)}) = Mass(k, {}) + Part(k, Incoming(d))
  BY <1>3, MassAdd
<1>5. Part(k, Incoming(d)) \in Nat
  BY <1>3, PartNat
<1>6. Mass(k, Contents(D \ {d})) \in Nat
  <2>1. Shipped(D \ {d})
    BY ShippedPart
  <2>2. Aggs(Contents(D \ {d}))
    BY <2>1, ContentsTable DEF Table
  <2>. QED BY <2>2, MassInt
<1>7. Mass(k, Contents({d})) = Part(k, Incoming(d))
  <2>1. Mass(k, Contents({d})) = Mass(k, {}) + Part(k, Incoming(d))
    BY <1>2, <1>4, Zenon
  <2>2. Mass(k, {}) = 0
    BY MassEmpty
  <2>. QED BY <1>5, <2>1, <2>2
<1>. QED BY <1>1, <1>5, <1>6, <1>7

LEMMA ContentsEmpty == Contents({}) = {}
BY DEF Contents

(***************************************************************************)
(* What is encoded arrives whole.                                          *)
(***************************************************************************)
Encoded(P) == {EncodeDelta(a) : a \in P}

LEMMA EncodedIs ==
    ASSUME NEW P, Table(P), \A a \in P : a.count > 0
    PROVE  /\ Shipped(Encoded(P))
           /\ \A k : IsMeasure(k) => Mass(k, Contents(Encoded(P))) = Mass(k, P)
           /\ Spans(Contents(Encoded(P)), P)
<1>. DEFINE f == [a \in P |-> EncodeDelta(a)]
            D == Encoded(P)
            C == Contents(D)
<1>1. C = {Arrived(a) : a \in P}
  BY DEF Contents, Encoded, Arrived
<1>2. ASSUME NEW a \in P
      PROVE  /\ IsAgg(Arrived(a)) /\ Same(Arrived(a), a) /\ Arrived(a).count = a.count
             /\ Arrived(a).kind = a.kind
             /\ (a.kind = "trend" => Arrived(a).min = a.min /\ Arrived(a).max = a.max)
             /\ EncodeDelta(a).metric = a.metric /\ EncodeDelta(a).tags = a.labels
             /\ IsAgg(a) /\ a.count > 0
  <2>1. IsAgg(a) /\ a.count > 0
    BY DEF Table, Aggs
  <2>2. IsAgg(Arrived(a)) /\ Same(Arrived(a), a) /\ Arrived(a).count = a.count
    BY <2>1, ArrivedAgg
  <2>3. /\ Arrived(a).kind = a.kind /\ (a.kind = "trend" => Arrived(a).min = a.min /\ Arrived(a).max = a.max)
        /\ EncodeDelta(a).metric = a.metric /\ EncodeDelta(a).tags = a.labels
    BY <2>1, ArrivedIs
  <2>. QED BY <2>1, <2>2, <2>3
<1>3. Shipped(D)
  <2>1. IsFiniteSet(D)
    <3>1. IsFiniteSet(P) /\ D = {f[a] : a \in P}
      BY DEF Encoded, Table, Aggs
    <3>. HIDE DEF f, D
    <3>. QED BY <3>1, ImageFinite
  <2>2. \A d \in D : IsDelta(d)
    BY <1>2 DEF Encoded, IsDelta
  <2>3. ASSUME NEW d \in D, NEW e \in D, d.metric = e.metric, d.tags = e.tags PROVE d = e
    <3>1. PICK a \in P : d = EncodeDelta(a)
      BY DEF Encoded
    <3>2. PICK b \in P : e = EncodeDelta(b)
      BY DEF Encoded
    <3>3. Same(a, b)
      BY <1>2, <2>3, <3>1, <3>2 DEF Same
    <3>. QED BY <3>1, <3>2, <3>3 DEF Table, Unique
  <2>. QED BY <2>1, <2>2, <2>3 DEF Shipped
<1>4. ASSUME NEW k, IsMeasure(k) PROVE Mass(k, C) = Mass(k, P)
  <2>. DEFINE u == [x \in C |-> Part(k, x)]
              v == [a \in P |-> Part(k, a)]
              h == [a \in P |-> Arrived(a)]
  <2>1. DOMAIN v = P /\ IsFiniteSet(DOMAIN v)
    BY DEF Table, Aggs
  <2>2. DOMAIN u = {h[x] : x \in DOMAIN v}
    BY <1>1
  <2>3. \A x, y \in DOMAIN v : h[x] = h[y] => x = y
    BY <1>2 DEF Table, Unique, Same
  <2>4. ASSUME NEW x \in DOMAIN v PROVE v[x] \in Int /\ u[h[x]] = v[x]
    <3>1. IsAgg(x) /\ x.count > 0 /\ x \in P
      BY <1>2
    <3>2. Part(k, Arrived(x)) = Part(k, x)
      BY <1>4, <3>1, ArrivedPart
    <3>3. Part(k, x) \in Nat
      BY <1>4, <3>1, PartNat
    <3>4. h[x] = Arrived(x) /\ Arrived(x) \in C /\ v[x] = Part(k, x)
      BY <1>1, <3>1
    <3>5. u[h[x]] = Part(k, Arrived(x))
      BY <3>4
    <3>. QED BY <3>2, <3>3, <3>4, <3>5
  <2>. HIDE DEF u, v, h
  <2>5. SumFunction(u) = SumFunction(v)
    BY <2>1, <2>2, <2>3, <2>4, SumReindex
  <2>. QED BY <2>5 DEF u, v, Mass
<1>5. Spans(C, P)
  <2>1. ASSUME NEW x \in P, Timed(x)
        PROVE  \E y \in C : Timed(y) /\ Same(y, x) /\ y.min <= x.min /\ x.max <= y.max
    <3>1. /\ Arrived(x) \in C /\ Timed(Arrived(x)) /\ Same(Arrived(x), x)
          /\ Arrived(x).min = x.min /\ Arrived(x).max = x.max
      BY <1>1, <1>2, <2>1 DEF Timed
    <3>2. x.min \in Int /\ x.max \in Int
      BY <1>2 DEF IsAgg
    <3>. QED BY <3>1, <3>2
  <2>2. ASSUME NEW y \in C, Timed(y)
        PROVE  \E x \in P : Timed(x) /\ Same(x, y) /\ x.min = y.min /\ x.max = y.max
    <3>1. PICK x \in P : y = Arrived(x)
      BY <1>1
    <3>2. Timed(x) /\ Same(x, y) /\ x.min = y.min /\ x.max = y.max
      BY <1>2, <2>2, <3>1 DEF Timed, Same
    <3>. QED BY <3>2
  <2>. QED BY <2>1, <2>2 DEF Spans, Covers, Within
<1>. QED BY <1>3, <1>4, <1>5

-----------------------------------------------------------------------------
(***************************************************************************)
(* The loop of Ingest over the series of a batch.  It is total, so the     *)
(* states it passes through need no type.                                  *)
(***************************************************************************)
IngestOne(st, delta, idx) ==
    CASE ~st.ok -> st
      [] delta.hist # NoHist /\ ~Decodes(delta.hist) -> [st EXCEPT !.ok = FALSE]
      [] OTHER -> [st EXCEPT !.store = MergeBucket(MergeCumulative(@, Incoming(delta)), idx, Incoming(delta))]

IngestFold(g, base, q, idx, n) ==
    g = [s \in SUBSET (1 .. n) |-> IF s = {} THEN base ELSE IngestOne(g[s \ {Max(s)}], q[Max(s)], idx)]

IngestSteps(st, base, q, idx, n) == st[0] = base /\ \A i \in 1 .. n : st[i] = IngestOne(st[i - 1], q[i], idx)

LEMMA IngestFoldExists ==
    ASSUME NEW n \in Nat, NEW base, NEW q, NEW idx
    PROVE  \E g : IngestFold(g, base, q, idx, n)
<1>. DEFINE S == 1 .. n
            Eq(g, s) == g[s] = IF s = {} THEN base ELSE IngestOne(g[s \ {Max(s)}], q[Max(s)], idx)
            Small(s, m) == Cardinality(s) <= m
            G == {m \in Nat : \E g : \A s \in SUBSET S : Small(s, m) => Eq(g, s)}
<1>f. IsFiniteSet(S) /\ Cardinality(S) \in Nat
  BY FS_Interval, FS_CardinalityType
<1>c. \A s \in SUBSET S : IsFiniteSet(s) /\ Cardinality(s) \in Nat /\ (Cardinality(s) = 0 <=> s = {})
  BY <1>f, FS_Subset, FS_CardinalityType, FS_EmptySet
<1>d. \A s \in SUBSET S : s # {} => /\ s \ {Max(s)} \in SUBSET S
                                    /\ Cardinality(s \ {Max(s)}) = Cardinality(s) - 1
  BY <1>c, FS_RemoveElement, MaxIn
<1>. HIDE DEF S
<1>1. 0 \in G
  <2>. DEFINE g == [s \in SUBSET S |-> base]
  <2>2. ASSUME NEW s \in SUBSET S, Small(s, 0) PROVE Eq(g, s)
    <3>1. s = {}
      BY <1>c, <2>2
    <3>. QED BY <3>1
  <2>. HIDE DEF g, Eq, Small
  <2>. QED BY <2>2
<1>2. ASSUME NEW m \in Nat, m \in G PROVE m + 1 \in G
  <2>1. PICK g : \A s \in SUBSET S : Small(s, m) => Eq(g, s)
    BY <1>2
  <2>. DEFINE h == [s \in SUBSET S |-> IF s = {} THEN base ELSE IngestOne(g[s \ {Max(s)}], q[Max(s)], idx)]
  <2>3. ASSUME NEW s \in SUBSET S, Small(s, m + 1) PROVE Eq(h, s)
    <3>1. CASE s = {}
      BY <3>1
    <3>2. CASE s # {}
      <4>1. s \ {Max(s)} \in SUBSET S /\ Small(s \ {Max(s)}, m)
        BY <1>c, <1>d, <2>3, <3>2
      <4>2. Eq(g, s \ {Max(s)})
        BY <2>1, <4>1
      <4>3. h[s \ {Max(s)}] = g[s \ {Max(s)}]
        <5>. DEFINE r == s \ {Max(s)}
        <5>1. r \in SUBSET S /\ Eq(g, r)
          BY <4>1, <4>2
        <5>. HIDE DEF r
        <5>2. h[r] = g[r]
          BY <5>1
        <5>. QED BY <5>2 DEF r
      <4>4. h[s] = IngestOne(g[s \ {Max(s)}], q[Max(s)], idx)
        BY <3>2
      <4>. HIDE DEF h
      <4>. QED BY <3>2, <4>3, <4>4
    <3>. QED BY <3>1, <3>2
  <2>. HIDE DEF h, Eq, Small
  <2>. QED BY <2>3
<1>. HIDE DEF G
<1>3. Cardinality(S) \in G
  BY <1>1, <1>2, <1>f, NumberInduction
<1>4. PICK g : \A s \in SUBSET S : Small(s, Cardinality(S)) => Eq(g, s)
  BY <1>3 DEF G
<1>5. \A s \in SUBSET S : Small(s, Cardinality(S))
  BY <1>f, FS_Subset
<1>6. \A s \in SUBSET S : Eq(g, s)
  BY <1>4, <1>5
<1>. DEFINE h == [s \in SUBSET S |-> g[s]]
<1>7. ASSUME NEW s \in SUBSET S PROVE Eq(h, s)
  <2>1. CASE s = {}
    BY <1>6, <2>1
  <2>2. CASE s # {}
    <3>1. s \ {Max(s)} \in SUBSET S
      BY <1>d, <2>2
    <3>2. h[s] = g[s] /\ h[s \ {Max(s)}] = g[s \ {Max(s)}]
      BY <3>1
    <3>3. Eq(g, s)
      BY <1>6
    <3>. HIDE DEF h
    <3>. QED BY <2>2, <3>2, <3>3
  <2>. QED BY <2>1, <2>2
<1>8. h = [s \in SUBSET S |-> h[s]]
  OBVIOUS
<1>. HIDE DEF h
<1>9. h = [s \in SUBSET S |-> IF s = {} THEN base ELSE IngestOne(h[s \ {Max(s)}], q[Max(s)], idx)]
  BY <1>7, <1>8
<1>. QED BY <1>9 DEF S, IngestFold

LEMMA IngestStepsExist ==
    ASSUME NEW n \in Nat, NEW base, NEW q, NEW idx
    PROVE  \E st : IngestSteps(st, base, q, idx, n) /\ (CHOOSE g : IngestFold(g, base, q, idx, n))[1 .. n] = st[n]
<1>. DEFINE G == CHOOSE g : IngestFold(g, base, q, idx, n)
<1>1. IngestFold(G, base, q, idx, n)
  <2>1. \E g : IngestFold(g, base, q, idx, n)
    BY IngestFoldExists
  <2>. QED BY <2>1, Zenon
<1>. DEFINE rhs(s) == IF s = {} THEN base ELSE IngestOne(G[s \ {Max(s)}], q[Max(s)], idx)
<1>2. ASSUME NEW s \in SUBSET (1 .. n) PROVE G[s] = rhs(s)
  <2>1. G = [x \in SUBSET (1 .. n) |-> rhs(x)]
    BY <1>1 DEF IngestFold
  <2>. HIDE DEF G, rhs
  <2>. QED BY <2>1
<1>g. G = CHOOSE g : IngestFold(g, base, q, idx, n)
  OBVIOUS
<1>. HIDE DEF G
<1>. DEFINE st == [i \in 0 .. n |-> G[1 .. i]]
<1>3. G[{}] = base /\ 1 .. 0 = {}
  <2>1. {} \in SUBSET (1 .. n)
    OBVIOUS
  <2>2. G[{}] = rhs({})
    BY <1>2, <2>1
  <2>. QED BY <2>2
<1>4. \A i \in 1 .. n : st[i] = IngestOne(st[i - 1], q[i], idx)
  <2>. SUFFICES ASSUME NEW i \in 1 .. n PROVE st[i] = IngestOne(st[i - 1], q[i], idx)
    OBVIOUS
  <2>1. i \in Nat \ {0} /\ i - 1 \in 0 .. n /\ i \in 0 .. n /\ 1 .. i \in SUBSET (1 .. n)
    OBVIOUS
  <2>2. Max(1 .. i) = i /\ (1 .. i) \ {i} = 1 .. i - 1 /\ 1 .. i # {}
    BY <2>1, MaxUpTo
  <2>3. G[1 .. i] = rhs(1 .. i)
    BY <1>2, <2>1
  <2>4. G[1 .. i] = IngestOne(G[1 .. i - 1], q[i], idx)
    BY <2>2, <2>3
  <2>. QED BY <2>1, <2>4
<1>5. st[0] = base /\ st[n] = G[1 .. n]
  BY <1>3
<1>. HIDE DEF st
<1>6. IngestSteps(st, base, q, idx, n) /\ G[1 .. n] = st[n]
  BY <1>4, <1>5 DEF IngestSteps
<1>. QED BY <1>6, <1>g

(***************************************************************************)
(* The store, as the record of its fields, and what a change of one bucket *)
(* leaves alone.                                                           *)
(***************************************************************************)
StoreShape(s) ==
    s = [cumulative |-> s.cumulative, buckets |-> s.buckets, droppedSeries |-> s.droppedSeries,
         droppedLate |-> s.droppedLate, droppedEndpoints |-> s.droppedEndpoints,
         nodeDropped |-> s.nodeDropped, failures |-> s.failures]

Keeps(t, s) ==
    /\ StoreShape(t) /\ t.cumulative = s.cumulative /\ t.droppedSeries = s.droppedSeries
    /\ t.droppedLate = s.droppedLate /\ t.nodeDropped = s.nodeDropped /\ t.failures = s.failures

LEMMA KeepsBuckets ==
    ASSUME NEW s, StoreShape(s), NEW x, NEW y
    PROVE  /\ Keeps([s EXCEPT !.buckets = x], s)
           /\ Keeps([s EXCEPT !.droppedEndpoints = y], s)
           /\ [s EXCEPT !.buckets = x].buckets = x
  BY DEF StoreShape, Keeps

LEMMA KeepsOn ==
    ASSUME NEW s, NEW t, NEW u, Keeps(t, s), Keeps(u, t)
    PROVE  Keeps(u, s)
  BY DEF Keeps

LEMMA AddEndpointPointKeeps ==
    ASSUME NEW s, StoreShape(s), NEW idx, NEW name, NEW inc
    PROVE  Keeps(AddEndpointPoint(s, idx, name, inc), s)
<1>1. Keeps(s, s)
  BY DEF Keeps
<1>. DEFINE all == s.buckets[idx].endpoints
            p == At(all, name, NewEndpointPoint)
            q == CASE inc.metric = "http_reqs" -> [p EXCEPT !.requests = @ + inc.count]
               [] inc.metric = "http_req_duration" ->
                    [p EXCEPT !.sum = @ + inc.sum, !.observed = @ + inc.count]
               [] inc.metric = "http_req_failed" -> [p EXCEPT !.failures = @ + inc.nonZero]
<1>2. Keeps([s EXCEPT !.droppedEndpoints = @ + 1], s)
  BY KeepsBuckets
<1>3. Keeps([s EXCEPT !.buckets[idx].endpoints = Set(@, name, q)], s)
  <2>. HIDE DEF q
  <2>. QED BY KeepsBuckets
<1>4. AddEndpointPoint(s, idx, name, inc) =
        CASE inc.metric \notin ChartedMetrics -> s
          [] name \notin DOMAIN all /\ Cardinality(DOMAIN all) >= MaxChartedEndpoints ->
                [s EXCEPT !.droppedEndpoints = @ + 1]
          [] OTHER -> [s EXCEPT !.buckets[idx].endpoints = Set(@, name, q)]
  BY DEF AddEndpointPoint
<1>. HIDE DEF q, all
<1>5. CASE inc.metric \notin ChartedMetrics /\ (name \notin DOMAIN all /\ Cardinality(DOMAIN all) >= MaxChartedEndpoints)
  <2>1. \/ AddEndpointPoint(s, idx, name, inc) = s
        \/ AddEndpointPoint(s, idx, name, inc) = [s EXCEPT !.droppedEndpoints = @ + 1]
    BY <1>4, <1>5, Zenon
  <2>. QED BY <2>1, <1>1, <1>2
<1>6. CASE inc.metric \notin ChartedMetrics /\ ~(name \notin DOMAIN all /\ Cardinality(DOMAIN all) >= MaxChartedEndpoints)
  <2>1. AddEndpointPoint(s, idx, name, inc) = s
    BY <1>4, <1>6
  <2>. QED BY <2>1, <1>1
<1>7. CASE ~(inc.metric \notin ChartedMetrics) /\ (name \notin DOMAIN all /\ Cardinality(DOMAIN all) >= MaxChartedEndpoints)
  <2>1. AddEndpointPoint(s, idx, name, inc) = [s EXCEPT !.droppedEndpoints = @ + 1]
    BY <1>4, <1>7
  <2>. QED BY <2>1, <1>2
<1>8. CASE ~(inc.metric \notin ChartedMetrics) /\ ~(name \notin DOMAIN all /\ Cardinality(DOMAIN all) >= MaxChartedEndpoints)
  <2>1. AddEndpointPoint(s, idx, name, inc) = [s EXCEPT !.buckets[idx].endpoints = Set(@, name, q)]
    BY <1>4, <1>8
  <2>. QED BY <2>1, <1>3
<1>. QED BY <1>5, <1>6, <1>7, <1>8

LEMMA MergeBucketKeeps ==
    ASSUME NEW s, StoreShape(s), NEW idx, NEW inc
    PROVE  Keeps(MergeBucket(s, idx, inc), s)
<1>. DEFINE counted == [s EXCEPT !.buckets[idx].points = PointsOf(@, inc)]
            class == StatusClass(inc.labels["status"])
            classed == IF inc.metric = "http_reqs" /\ "status" \in DOMAIN inc.labels
                   THEN [counted EXCEPT !.buckets[idx].status = Set(@, class, At(@, class, 0) + inc.count)]
                   ELSE counted
            name == Get(inc.labels, "name")
<1>1. Keeps(counted, s)
  BY KeepsBuckets
<1>2. Keeps(classed, counted)
  <2>. HIDE DEF class, counted
  <2>1. StoreShape(counted)
    BY <1>1 DEF Keeps
  <2>2. Keeps(counted, counted)
    BY <2>1 DEF Keeps
  <2>3. Keeps([counted EXCEPT !.buckets[idx].status = Set(@, class, At(@, class, 0) + inc.count)], counted)
    BY <2>1, KeepsBuckets
  <2>. QED BY <2>2, <2>3
<1>3. Keeps(classed, s) /\ StoreShape(classed)
  <2>. HIDE DEF classed, counted
  <2>. QED BY <1>1, <1>2, KeepsOn DEF Keeps
<1>4. MergeBucket(s, idx, inc) = IF name = "" THEN classed ELSE AddEndpointPoint(classed, idx, name, inc)
  BY DEF MergeBucket
<1>. HIDE DEF classed, counted, name
<1>5. Keeps(AddEndpointPoint(classed, idx, name, inc), classed)
  BY <1>3, AddEndpointPointKeeps
<1>6. Keeps(AddEndpointPoint(classed, idx, name, inc), s)
  BY <1>3, <1>5, KeepsOn
<1>. QED BY <1>3, <1>4, <1>6

Names(m) == {<<a.metric, a.labels>> : a \in m}

LEMMA NamesIs ==
    ASSUME NEW m, NEW metric, NEW labels
    PROVE  Find(m, metric, labels) = {} <=> <<metric, labels>> \notin Names(m)
  BY FindIs DEF Names

LEMMA PutNames ==
    ASSUME NEW m, Table(m), NEW a, IsAgg(a)
    PROVE  Names(Put(m, a)) = Names(m) \cup {<<a.metric, a.labels>>}
<1>1. Put(m, a) = {b \in m : ~Same(b, a)} \cup {a}
  BY PutIs
<1>. QED BY <1>1 DEF Names, Same

(***************************************************************************)
(* The two outcomes of mergeCumulative.                                    *)
(***************************************************************************)
Refuses(t, s, inc) ==
    /\ <<inc.metric, inc.labels>> \notin Names(s.cumulative)
    /\ t.cumulative = s.cumulative /\ t.droppedSeries = s.droppedSeries + 1

Merges(t, s, inc) ==
    /\ t.droppedSeries = s.droppedSeries
    /\ \A k : IsMeasure(k) => Mass(k, t.cumulative) = Mass(k, s.cumulative) + Part(k, inc)
    /\ Spans(t.cumulative, s.cumulative \cup {inc})
    /\ Names(t.cumulative) = Names(s.cumulative) \cup {<<inc.metric, inc.labels>>}

Apart(t, s) ==
    /\ StoreShape(t) /\ t.droppedLate = s.droppedLate /\ t.nodeDropped = s.nodeDropped
    /\ t.failures = s.failures

Latest(t, inc) == [t EXCEPT !.count = @ + 1, !.gauge = inc.gauge]

LEMMA LatestIs ==
    ASSUME NEW metric, NEW labels, NEW kind, NEW count, NEW sum, NEW min, NEW max, NEW nonZero, NEW gauge,
           NEW hist, NEW t, t = AggOf(metric, labels, kind, count, sum, min, max, nonZero, gauge, hist), NEW inc
    PROVE  Latest(t, inc) = AggOf(metric, labels, kind, count + 1, sum, min, max, nonZero, inc.gauge, hist)
<1>. DEFINE c == [t EXCEPT !.count = @ + 1]
<1>1. c = AggOf(metric, labels, kind, count + 1, sum, min, max, nonZero, gauge, hist)
  BY DEF AggOf
<1>2. Latest(t, inc) = [c EXCEPT !.gauge = inc.gauge]
  BY DEF Latest
<1>. HIDE DEF c
<1>. QED BY <1>1, <1>2 DEF AggOf

LEMMA GaugePut ==
    ASSUME NEW m, Table(m), NEW inc, IsAgg(inc), inc.kind = "gauge", NEW t,
           t = GetOrCreate(m, inc.metric, inc.labels, inc.kind)
    PROVE  /\ IsAgg(Latest(t, inc)) /\ Latest(t, inc).metric = inc.metric /\ Latest(t, inc).labels = inc.labels
           /\ \A k : IsMeasure(k) => Mass(k, Put(m, Latest(t, inc))) = Mass(k, m) + Part(k, inc)
           /\ Spans(Put(m, Latest(t, inc)), m \cup {inc})
<1>. DEFINE b == Latest(t, inc)
<1>0. inc.metric = "vus" /\ inc.kind = "gauge" /\ Kinded([metric |-> inc.metric, labels |-> inc.labels, kind |-> inc.kind]) /\ inc.gauge \in Nat
  BY DEF IsAgg, Kinded
<1>1. IsAgg(t) /\ t.metric = inc.metric /\ t.labels = inc.labels
  BY <1>0, GetOrCreateIs
<1>2. t.kind = "gauge" /\ t.count \in Nat
  BY <1>0, <1>1 DEF IsAgg, Kinded
<1>3. /\ b.metric = t.metric /\ b.labels = t.labels /\ b.kind = "gauge" /\ b.count = t.count + 1 /\ b.sum = t.sum
      /\ b.min = t.min /\ b.max = t.max /\ b.nonZero = t.nonZero /\ b.gauge = inc.gauge /\ b.hist = t.hist
      /\ b = AggOf(b.metric, b.labels, b.kind, b.count, b.sum, b.min, b.max, b.nonZero, b.gauge, b.hist)
  <2>1. t = AggOf(t.metric, t.labels, t.kind, t.count, t.sum, t.min, t.max, t.nonZero, t.gauge, t.hist)
    BY <1>1 DEF IsAgg
  <2>2. b = AggOf(t.metric, t.labels, t.kind, t.count + 1, t.sum, t.min, t.max, t.nonZero, inc.gauge, t.hist)
    BY <2>1, LatestIs, SMTT(60)
  <2>. HIDE DEF b
  <2>. QED BY <1>2, <2>2 DEF AggOf
<1>. HIDE DEF b
<1>4. IsAgg(b)
  <2>1. b.count \in Nat /\ b.count # 0 /\ b.kind # "trend"
    BY <1>2, <1>3
  <2>2. Kinded(b)
    BY <1>0, <1>1, <1>3 DEF Kinded
  <2>3. /\ b.sum \in Nat /\ b.nonZero \in Nat /\ b.gauge \in Nat /\ b.min \in Int /\ b.max \in Int
        /\ b.hist = NoHist
    BY <1>0, <1>1, <1>2, <1>3 DEF IsAgg
  <2>4. Plain(b)
    BY <1>3 DEF Plain
  <2>. QED BY <1>3, <2>1, <2>2, <2>3, <2>4 DEF IsAgg
<1>5. ASSUME NEW k, IsMeasure(k) PROVE Mass(k, Put(m, b)) = Mass(k, m) + Part(k, inc)
  <2>1. t = GetOrCreate(m, b.metric, b.labels, b.kind)
    BY <1>0, <1>1, <1>3
  <2>2. Mass(k, Put(m, b)) = Mass(k, m) + (Part(k, b) - Part(k, t))
    BY <1>4, <1>5, <2>1, PutMass
  <2>3. Part(k, b) = 0 /\ Part(k, t) = 0 /\ Part(k, inc) = 0
    BY <1>0, <1>1, <1>3 DEF Part, Measured
  <2>4. Mass(k, m) \in Nat
    BY <1>5, MassInt DEF Table
  <2>. QED BY <2>2, <2>3, <2>4
<1>6. Spans(Put(m, b), m \cup {inc})
  <2>1. Put(m, b) = {x \in m : ~Same(x, b)} \cup {b}
    BY <1>4, PutIs
  <2>2. ~Timed(b) /\ ~Timed(inc)
    BY <1>0, <1>3 DEF Timed
  <2>3. \A x \in m : Timed(x) => ~Same(x, b) /\ x.min \in Int /\ x.max \in Int
    BY <1>0, <1>1, <1>3 DEF Timed, Same, Table, Aggs, IsAgg, Kinded
  <2>4. \A x : Same(x, x)
    BY DEF Same
  <2>5. Covers(Put(m, b), m \cup {inc})
    <3>. SUFFICES ASSUME NEW x \in m \cup {inc}, Timed(x)
                  PROVE \E y \in Put(m, b) : Timed(y) /\ Same(y, x) /\ y.min <= x.min /\ x.max <= y.max
      BY DEF Covers
    <3>1. x \in Put(m, b) /\ x.min <= x.min /\ x.max <= x.max
      BY <2>1, <2>2, <2>3
    <3>. QED BY <3>1, <2>4
  <2>6. Within(Put(m, b), m \cup {inc})
    BY <2>1, <2>2, <2>4 DEF Within
  <2>. QED BY <2>5, <2>6 DEF Spans
<1>. QED BY <1>1, <1>3, <1>4, <1>5, <1>6 DEF b

LEMMA MergeCumulativeIs ==
    ASSUME NEW s, StoreShape(s), Table(s.cumulative), NEW inc, IsAgg(inc)
    PROVE  /\ Apart(MergeCumulative(s, inc), s) /\ Table(MergeCumulative(s, inc).cumulative)
           /\ Refuses(MergeCumulative(s, inc), s, inc) \/ Merges(MergeCumulative(s, inc), s, inc)
<1>. DEFINE m == s.cumulative
            old == Find(m, inc.metric, inc.labels)
            t == GetOrCreate(m, inc.metric, inc.labels, inc.kind)
            g == Latest(t, inc)
            x == IF inc.kind = "gauge" THEN g ELSE MergeFrom(t, inc)
            r == MergeCumulative(s, inc)
<1>1. r = IF old = {} /\ Cardinality(m) >= StoreSeries THEN [s EXCEPT !.droppedSeries = @ + 1]
          ELSE [s EXCEPT !.cumulative = Put(@, x)]
  BY DEF MergeCumulative, Latest
<1>2. CASE old = {} /\ Cardinality(m) >= StoreSeries
  <2>1. r = [s EXCEPT !.droppedSeries = @ + 1]
    BY <1>1, <1>2
  <2>2. <<inc.metric, inc.labels>> \notin Names(s.cumulative)
    BY <1>2, NamesIs
  <2>3. /\ StoreShape(r) /\ r.cumulative = s.cumulative /\ r.droppedLate = s.droppedLate
        /\ r.nodeDropped = s.nodeDropped /\ r.failures = s.failures /\ r.droppedSeries = s.droppedSeries + 1
    <3>. HIDE DEF r
    <3>. QED BY <2>1 DEF StoreShape
  <2>. HIDE DEF r
  <2>4. Apart(r, s) /\ Table(r.cumulative) /\ Refuses(r, s, inc)
    BY <2>2, <2>3 DEF Apart, Refuses
  <2>. QED BY <2>4 DEF r
<1>3. CASE ~(old = {} /\ Cardinality(m) >= StoreSeries)
  <2>1. r = [s EXCEPT !.cumulative = Put(m, x)]
    BY <1>1, <1>3
  <2>3. /\ StoreShape(r) /\ r.cumulative = Put(m, x) /\ r.droppedLate = s.droppedLate
        /\ r.nodeDropped = s.nodeDropped /\ r.failures = s.failures /\ r.droppedSeries = s.droppedSeries
    <3>. HIDE DEF r, x, m
    <3>. QED BY <2>1 DEF StoreShape
  <2>4. IsAgg(x) /\ x.metric = inc.metric /\ x.labels = inc.labels
    <3>1. CASE inc.kind = "gauge"
      <4>1. IsAgg(g) /\ g.metric = inc.metric /\ g.labels = inc.labels
        BY <3>1, GaugePut, ZenonT(60)
      <4>. QED BY <3>1, <4>1
    <3>2. CASE inc.kind # "gauge"
      <4>0. Kinded([metric |-> inc.metric, labels |-> inc.labels, kind |-> inc.kind])
        BY DEF IsAgg, Kinded
      <4>1. IsAgg(t) /\ t.metric = inc.metric /\ t.labels = inc.labels
        BY <4>0, GetOrCreateIs
      <4>2. IsAgg(MergeFrom(t, inc)) /\ Same(MergeFrom(t, inc), t)
        <5>. HIDE DEF t
        <5>. QED BY <4>1, MergeAgg DEF Same
      <4>. QED BY <3>2, <4>1, <4>2 DEF Same
    <3>. QED BY <3>1, <3>2
  <2>5. Table(Put(m, x)) /\ Names(Put(m, x)) = Names(m) \cup {<<inc.metric, inc.labels>>}
    <3>. HIDE DEF x
    <3>. QED BY <2>4, PutIs, PutNames
  <2>6. /\ \A k : IsMeasure(k) => Mass(k, Put(m, x)) = Mass(k, m) + Part(k, inc)
        /\ Spans(Put(m, x), m \cup {inc})
    <3>1. CASE inc.kind = "gauge"
      <4>1. /\ \A k : IsMeasure(k) => Mass(k, Put(m, g)) = Mass(k, m) + Part(k, inc)
            /\ Spans(Put(m, g), m \cup {inc})
        BY <3>1, GaugePut
      <4>. QED BY <3>1, <4>1
    <3>2. CASE inc.kind # "gauge"
      <4>1. Put(m, x) = Absorb(m, inc)
        BY <3>2 DEF Absorb
      <4>. HIDE DEF x
      <4>. QED BY <4>1, AbsorbIs
    <3>. QED BY <3>1, <3>2
  <2>. HIDE DEF r, x
  <2>7. Apart(r, s) /\ Table(r.cumulative) /\ Merges(r, s, inc)
    BY <2>3, <2>5, <2>6 DEF Apart, Merges
  <2>. QED BY <2>7 DEF r
<1>. QED BY <1>2, <1>3

(***************************************************************************)
(* What the loop has done to the store s once it has tried the deltas E:   *)
(* the series that found a place are in the totals, the others counted.    *)
(***************************************************************************)
Kept(m, E) == {d \in E : <<d.metric, d.tags>> \in Names(m)}

Ingested(t, s, E) ==
    /\ Apart(t, s) /\ Table(t.cumulative) /\ t.droppedSeries \in Nat
    /\ t.droppedSeries = 0 => s.droppedSeries = 0 /\ Kept(t.cumulative, E) = E
    /\ \A k : IsMeasure(k) =>
            Mass(k, t.cumulative) = Mass(k, s.cumulative) + Mass(k, Contents(Kept(t.cumulative, E)))
    /\ Spans(t.cumulative, s.cumulative \cup Contents(Kept(t.cumulative, E)))

LEMMA IngestedNone ==
    ASSUME NEW s, StoreShape(s), Table(s.cumulative), s.droppedSeries \in Nat
    PROVE  Ingested(s, s, {})
<1>1. Kept(s.cumulative, {}) = {} /\ Contents({}) = {}
  BY ContentsEmpty DEF Kept
<1>2. ASSUME NEW k, IsMeasure(k)
      PROVE Mass(k, s.cumulative) = Mass(k, s.cumulative) + Mass(k, {})
  BY <1>2, MassEmpty, MassInt DEF Table
<1>3. Spans(s.cumulative, s.cumulative)
  BY SpansItself DEF Table, Aggs
<1>4. Spans(s.cumulative, s.cumulative \cup {})
  <2>1. s.cumulative \cup {} = s.cumulative
    OBVIOUS
  <2>. QED BY <1>3, <2>1
<1>5. Apart(s, s)
  BY DEF Apart
<1>. QED BY <1>1, <1>2, <1>4, <1>5 DEF Ingested

LEMMA IngestedMore ==
    ASSUME NEW s, Table(s.cumulative), NEW t, NEW E, Ingested(t, s, E), NEW d, d \notin E,
           Shipped(E \cup {d}), NEW idx, NEW u,
           u = MergeBucket(MergeCumulative(t, Incoming(d)), idx, Incoming(d))
    PROVE  Ingested(u, s, E \cup {d})
<1>. DEFINE inc == Incoming(d)
            r == MergeCumulative(t, inc)
            F == Kept(t.cumulative, E)
            G == Kept(u.cumulative, E \cup {d})
<1>1. IsAgg(inc) /\ inc.metric = d.metric /\ inc.labels = d.tags
  BY DeltaIs DEF Shipped
<1>2. StoreShape(t) /\ Table(t.cumulative) /\ t.droppedSeries \in Nat
  BY DEF Ingested, Apart
<1>3. /\ Apart(r, t) /\ Table(r.cumulative)
      /\ Refuses(r, t, inc) \/ Merges(r, t, inc)
  <2>. HIDE DEF inc
  <2>. QED BY <1>1, <1>2, MergeCumulativeIs
<1>4. Keeps(u, r)
  <2>1. StoreShape(r)
    BY <1>3 DEF Apart
  <2>. QED BY <2>1, MergeBucketKeeps
<1>. HIDE DEF inc, r
<1>5. u.cumulative = r.cumulative /\ u.droppedSeries = r.droppedSeries /\ Table(u.cumulative)
  BY <1>3, <1>4 DEF Keeps
<1>6. Apart(u, s)
  BY <1>3, <1>4 DEF Apart, Keeps, Ingested
<1>7. CASE Refuses(r, t, inc)
  <2>1. u.cumulative = t.cumulative /\ u.droppedSeries = t.droppedSeries + 1
    BY <1>5, <1>7 DEF Refuses
  <2>2. G = F
    BY <1>1, <1>7, <2>1 DEF Refuses, Kept
  <2>3. u.droppedSeries \in Nat /\ u.droppedSeries # 0
    BY <1>2, <2>1
  <2>. QED BY <1>5, <1>6, <2>1, <2>2, <2>3 DEF Ingested
<1>8. CASE Merges(r, t, inc)
  <2>1. G = F \cup {d}
    <3>1. Names(u.cumulative) = Names(t.cumulative) \cup {<<d.metric, d.tags>>}
      BY <1>1, <1>5, <1>8 DEF Merges
    <3>2. \A e \in E : <<e.metric, e.tags>> # <<d.metric, d.tags>>
      BY DEF Shipped
    <3>. QED BY <3>1, <3>2 DEF Kept
  <2>2. F \subseteq E /\ d \notin F
    BY DEF Kept
  <2>3. Shipped(F \cup {d}) /\ Shipped(F)
    <3>1. F \cup {d} \subseteq E \cup {d} /\ F \subseteq E \cup {d}
      BY <2>2
    <3>. HIDE DEF F
    <3>. QED BY <3>1, ShippedPart
  <2>4. Contents(G) = Contents(F) \cup {inc}
    <3>. HIDE DEF F, G
    <3>. QED BY <2>1 DEF Contents, inc
  <2>5. ASSUME NEW k, IsMeasure(k)
        PROVE  Mass(k, u.cumulative) = Mass(k, s.cumulative) + Mass(k, Contents(G))
    <3>1. Mass(k, u.cumulative) = Mass(k, t.cumulative) + Part(k, inc)
      BY <1>5, <1>8, <2>5 DEF Merges
    <3>2. Mass(k, t.cumulative) = Mass(k, s.cumulative) + Mass(k, Contents(F))
      BY <2>5 DEF Ingested
    <3>3. Mass(k, Contents(G)) = Mass(k, Contents(F)) + Part(k, inc)
      <4>. HIDE DEF F, G
      <4>1. (F \cup {d}) \ {d} = F /\ d \in F \cup {d}
        BY <2>2
      <4>. QED BY <2>1, <2>3, <2>5, <4>1, ContentsAdd DEF inc
    <3>4. Mass(k, s.cumulative) \in Nat /\ Mass(k, Contents(F)) \in Nat /\ Part(k, inc) \in Nat
      <4>. HIDE DEF F
      <4>1. Aggs(Contents(F)) /\ Aggs(s.cumulative)
        BY <2>3, ContentsTable DEF Table
      <4>. QED BY <1>1, <2>5, <4>1, MassInt, PartNat
    <3>. HIDE DEF F, G
    <3>. QED BY <3>1, <3>2, <3>3, <3>4
  <2>6. Spans(u.cumulative, s.cumulative \cup Contents(G))
    <3>. DEFINE X == s.cumulative \cup Contents(F)
                M == u.cumulative
                N == t.cumulative
    <3>1. Spans(M, N \cup {inc})
      BY <1>5, <1>8 DEF Merges
    <3>2. Spans(N, X)
      BY DEF Ingested
    <3>3. (\A x \in N : IsAgg(x)) /\ (\A x \in M : IsAgg(x))
      BY <1>2, <1>5 DEF Table, Aggs
    <3>4. \A x \in X \cup {inc} : IsAgg(x)
      <4>. HIDE DEF F
      <4>1. \A x \in Contents(F) : IsAgg(x)
        BY <2>3, ContentsTable DEF Table, Aggs
      <4>. QED BY <1>1, <4>1 DEF Table, Aggs
    <3>5. X \cup {inc} = s.cumulative \cup Contents(G)
      <4>. HIDE DEF F, G
      <4>. QED BY <2>4
    <3>. HIDE DEF X, M, N, G
    <3>6. Spans(M, X \cup {inc})
      BY <3>1, <3>2, <3>3, <3>4, SpansMore
    <3>. QED BY <3>5, <3>6 DEF M
  <2>7. u.droppedSeries \in Nat /\ (u.droppedSeries = 0 => s.droppedSeries = 0 /\ G = E \cup {d})
    <3>1. u.droppedSeries = t.droppedSeries
      BY <1>5, <1>8 DEF Merges
    <3>2. t.droppedSeries = 0 => s.droppedSeries = 0 /\ F = E
      BY DEF Ingested
    <3>. HIDE DEF F, G
    <3>. QED BY <1>2, <2>1, <3>1, <3>2
  <2>. QED BY <1>5, <1>6, <2>5, <2>6, <2>7 DEF Ingested
<1>. QED BY <1>3, <1>7, <1>8

Start(s) == [store |-> s, ok |-> TRUE]

IsOk(x) == DOMAIN x = {"store", "ok"} /\ x.ok

LEMMA OkStart ==
    ASSUME NEW s, NEW x, x = [store |-> s, ok |-> TRUE]
    PROVE  IsOk(x) /\ x.store = s
<1>1. DOMAIN x = {"store", "ok"} /\ x.store = s
  OBVIOUS
<1>2. x.ok
  BY Zenon
<1>. QED BY <1>1, <1>2 DEF IsOk

LEMMA OkStep ==
    ASSUME NEW x, IsOk(x), NEW z
    PROVE  IsOk([x EXCEPT !.store = z]) /\ [x EXCEPT !.store = z].store = z
<1>. DEFINE y == [x EXCEPT !.store = z]
<1>1. DOMAIN y = {"store", "ok"} /\ y.store = z /\ y.ok = x.ok
  BY DEF IsOk
<1>. HIDE DEF y
<1>2. IsOk(y)
  BY <1>1 DEF IsOk
<1>. QED BY <1>1, <1>2 DEF y

LEMMA IngestOneIs ==
    ASSUME NEW x, IsOk(x), NEW d, IsDelta(d), NEW idx
    PROVE  /\ IsOk(IngestOne(x, d, idx))
           /\ IngestOne(x, d, idx).store = MergeBucket(MergeCumulative(x.store, Incoming(d)), idx, Incoming(d))
<1>. DEFINE u == MergeBucket(MergeCumulative(x.store, Incoming(d)), idx, Incoming(d))
<1>1. ~(d.hist # NoHist /\ ~Decodes(d.hist)) /\ x.ok
  BY DeltaIs DEF IsOk
<1>2. IngestOne(x, d, idx) = [x EXCEPT !.store = u]
  BY <1>1 DEF IngestOne
<1>. HIDE DEF u
<1>3. IsOk([x EXCEPT !.store = u]) /\ [x EXCEPT !.store = u].store = u
  BY OkStep
<1>. QED BY <1>2, <1>3 DEF u

(***************************************************************************)
(* The first i members of a sequence.                                      *)
(***************************************************************************)
FirstOf(q, i) == {q[j] : j \in 1 .. i}

LEMMA IngestedSteps ==
    ASSUME NEW s, StoreShape(s), Table(s.cumulative), s.droppedSeries \in Nat, NEW D, Shipped(D),
           NEW n \in Nat, NEW q \in [1 .. n -> D], IsInjective(q),
           NEW idx, NEW st, IngestSteps(st, Start(s), q, idx, n)
    PROVE  \A i \in 0 .. n : IsOk(st[i]) /\ Ingested(st[i].store, s, FirstOf(q, i))
<1>0. \A i, j \in 1 .. n : q[i] = q[j] => i = j
  BY DEF IsInjective
<1>. DEFINE E(i) == {q[j] : j \in 1 .. i}
            Good == {i \in Nat : i <= n => /\ IsOk(st[i])
                                           /\ Ingested(st[i].store, s, E(i))}
<1>1. 0 \in Good
  <2>1. E(0) = {}
    OBVIOUS
  <2>2. st[0] = [store |-> s, ok |-> TRUE]
    BY DEF IngestSteps, Start
  <2>3. st[0].store = s /\ IsOk(st[0])
    BY <2>2, OkStart
  <2>. HIDE DEF E
  <2>. QED BY <2>1, <2>3, IngestedNone
<1>2. ASSUME NEW i \in Nat, i \in Good PROVE i + 1 \in Good
  <2>. SUFFICES ASSUME i + 1 <= n
                PROVE  /\ IsOk(st[i + 1])
                       /\ Ingested(st[i + 1].store, s, E(i + 1))
    OBVIOUS
  <2>. DEFINE d == q[i + 1]
              t == st[i].store
              u == MergeBucket(MergeCumulative(t, Incoming(d)), idx, Incoming(d))
  <2>1. i + 1 \in 1 .. n /\ d \in D /\ IsDelta(d) /\ (i + 1) - 1 = i
    BY DEF Shipped
  <2>2. IsOk(st[i]) /\ Ingested(t, s, E(i))
    BY <1>2
  <2>3. E(i + 1) = E(i) \cup {d} /\ d \notin E(i) /\ E(i) \cup {d} \subseteq D
    <3>1. 1 .. i + 1 = (1 .. i) \cup {i + 1}
      OBVIOUS
    <3>. QED BY <1>0, <2>1, <3>1
  <2>4. st[i + 1] = IngestOne(st[i], d, idx)
    BY <2>1 DEF IngestSteps
  <2>7. IsOk(st[i + 1]) /\ st[i + 1].store = u
    <3>. HIDE DEF d
    <3>. QED BY <2>1, <2>2, <2>4, IngestOneIs
  <2>8. Ingested(u, s, E(i) \cup {d})
    <3>1. Shipped(E(i) \cup {d})
      <4>. HIDE DEF E, d
      <4>. QED BY <2>3, ShippedPart
    <3>2. u = MergeBucket(MergeCumulative(t, Incoming(d)), idx, Incoming(d))
      OBVIOUS
    <3>. HIDE DEF E, d, t, u
    <3>. QED BY <2>2, <2>3, <3>1, <3>2, IngestedMore
  <2>. HIDE DEF u, E
  <2>. QED BY <2>3, <2>7, <2>8
<1>. HIDE DEF Good
<1>3. \A i \in Nat : i \in Good
  BY <1>1, <1>2, NumberInduction
<1>4. ASSUME NEW i \in 0 .. n PROVE IsOk(st[i]) /\ Ingested(st[i].store, s, E(i))
  <2>1. i \in Good /\ i <= n
    BY <1>3
  <2>. QED BY <2>1 DEF Good
<1>. HIDE DEF E
<1>5. \A i : E(i) = FirstOf(q, i)
  BY DEF E, FirstOf
<1>. QED BY <1>4, <1>5

(***************************************************************************)
(* An order of a set is a sequence that lists each member once.            *)
(***************************************************************************)
Lists(q, S) ==
    /\ q \in Seq(S) /\ \A i, j \in 1 .. Len(q) : q[i] = q[j] => i = j
    /\ S = {q[i] : i \in 1 .. Len(q)}

LEMMA SetToSeqIs ==
    ASSUME NEW S, IsFiniteSet(S)
    PROVE  Lists(SetToSeq(S), S)
<1>. DEFINE n == Cardinality(S)
            q == SetToSeq(S)
            A(f) == f \in [1 .. n -> S] /\ IsInjective(f)
<1>1. n \in Nat /\ ExistsBijection(1 .. n, S)
  BY FS_CardinalityType
<1>2. PICK f : f \in Bijection(1 .. n, S)
  BY <1>1 DEF ExistsBijection
<1>3. A(f)
  BY <1>2 DEF Bijection, Injection
<1>4. q = CHOOSE g \in [1 .. n -> S] : IsInjective(g)
  BY DEF SetToSeq
<1>5. A(q)
  <2>1. \E g \in [1 .. n -> S] : IsInjective(g)
    BY <1>3
  <2>. HIDE DEF n, q
  <2>. QED BY <1>4, <2>1, Zenon
<1>. HIDE DEF q
<1>6. q \in Injection(1 .. n, S)
  BY <1>5 DEF Injection
<1>7. Cardinality(1 .. n) = n /\ IsFiniteSet(1 .. n)
  <2>. HIDE DEF n
  <2>1. 0 \in Int /\ n \in Int /\ 1 \in Int
    BY <1>1
  <2>. QED BY <1>1, <2>1, FS_Interval
<1>8. q \in Surjection(1 .. n, S)
  BY <1>6, <1>7, FS_Injection
<1>9. q \in Seq(S) /\ Len(q) = n
  <2>. HIDE DEF n
  <2>1. q \in [1 .. n -> S]
    BY <1>5
  <2>. QED BY <1>1, <2>1
<1>10. \A i, j \in 1 .. n : q[i] = q[j] => i = j
  BY <1>5 DEF IsInjective
<1>11. S = {q[i] : i \in 1 .. n}
  BY <1>5, <1>8 DEF Surjection
<1>12. Lists(q, S)
  BY <1>9, <1>10, <1>11 DEF Lists
<1>. QED BY <1>12 DEF q

LEMMA OrderLists ==
    ASSUME NEW S, IsFiniteSet(S), NEW capped, NEW order \in Orders(S, capped)
    PROVE  Lists(order, S)
<1>1. PICK P : P \in SUBSET S /\ order = SetToSeq(P) \o SetToSeq(S \ P)
  BY DEF Orders
<1>. DEFINE p == SetToSeq(P)
            r == SetToSeq(S \ P)
<1>2. Lists(p, P) /\ Lists(r, S \ P)
  <2>1. IsFiniteSet(P) /\ IsFiniteSet(S \ P)
    BY <1>1, FS_Subset
  <2>. QED BY <2>1, SetToSeqIs
<1>. HIDE DEF p, r
<1>3. p \in Seq(S) /\ r \in Seq(S)
  BY <1>1, <1>2 DEF Lists
<1>4. /\ order \in Seq(S) /\ Len(order) = Len(p) + Len(r)
      /\ \A i \in 1 .. Len(p) + Len(r) : order[i] = IF i <= Len(p) THEN p[i] ELSE r[i - Len(p)]
  <2>1. order = p \o r
    BY <1>1 DEF p, r
  <2>. QED BY <1>3, <2>1, ConcatProperties
<1>5. Len(p) \in Nat /\ Len(r) \in Nat
  BY <1>3
<1>6. /\ \A i \in 1 .. Len(p) : order[i] = p[i] /\ p[i] \in P
      /\ \A i \in 1 .. Len(order) : i > Len(p) => /\ i - Len(p) \in 1 .. Len(r)
                                                 /\ order[i] = r[i - Len(p)] /\ r[i - Len(p)] \in S \ P
  <2>1. (\A i \in 1 .. Len(p) : p[i] \in P) /\ (\A i \in 1 .. Len(r) : r[i] \in S \ P)
    BY <1>2 DEF Lists
  <2>2. \A i \in 1 .. Len(p) : order[i] = p[i]
    BY <1>4, <1>5
  <2>3. \A i \in 1 .. Len(order) : i > Len(p) => i - Len(p) \in 1 .. Len(r) /\ order[i] = r[i - Len(p)]
    BY <1>4, <1>5
  <2>. QED BY <2>1, <2>2, <2>3
<1>7. ASSUME NEW i \in 1 .. Len(order), NEW j \in 1 .. Len(order), order[i] = order[j]
      PROVE  i = j
  <2>1. CASE i <= Len(p) /\ j <= Len(p)
    <3>1. i \in 1 .. Len(p) /\ j \in 1 .. Len(p)
      BY <1>5, <2>1
    <3>2. p[i] = p[j]
      BY <1>6, <1>7, <3>1
    <3>. QED BY <1>2, <3>1, <3>2 DEF Lists
  <2>2. CASE i > Len(p) /\ j > Len(p)
    <3>1. i - Len(p) \in 1 .. Len(r) /\ j - Len(p) \in 1 .. Len(r) /\ r[i - Len(p)] = r[j - Len(p)]
      BY <1>6, <1>7, <2>2
    <3>2. i - Len(p) = j - Len(p)
      BY <1>2, <3>1 DEF Lists
    <3>. QED BY <1>5, <3>2
  <2>3. CASE i <= Len(p) /\ j > Len(p)
    <3>1. i \in 1 .. Len(p)
      BY <1>5, <2>3
    <3>2. order[i] \in P /\ order[j] \in S \ P
      BY <1>6, <2>3, <3>1
    <3>. QED BY <1>7, <3>2
  <2>4. CASE i > Len(p) /\ j <= Len(p)
    <3>1. j \in 1 .. Len(p)
      BY <1>5, <2>4
    <3>2. order[j] \in P /\ order[i] \in S \ P
      BY <1>6, <2>4, <3>1
    <3>. QED BY <1>7, <3>2
  <2>. QED BY <1>5, <2>1, <2>2, <2>3, <2>4
<1>8. S = {order[i] : i \in 1 .. Len(order)}
  <2>1. ASSUME NEW x \in S PROVE \E i \in 1 .. Len(order) : x = order[i]
    <3>1. CASE x \in P
      <4>1. PICK i \in 1 .. Len(p) : x = p[i]
        BY <1>2, <3>1 DEF Lists
      <4>2. i \in 1 .. Len(order) /\ order[i] = x
        BY <1>4, <1>5, <1>6, <4>1
      <4>. QED BY <4>2
    <3>2. CASE x \notin P
      <4>1. PICK i \in 1 .. Len(r) : x = r[i]
        BY <1>2, <3>2 DEF Lists
      <4>2. Len(p) + i \in 1 .. Len(order) /\ Len(p) + i > Len(p) /\ (Len(p) + i) - Len(p) = i
        BY <1>4, <1>5
      <4>3. order[Len(p) + i] = x
        BY <1>6, <4>1, <4>2
      <4>. QED BY <4>2, <4>3
    <3>. QED BY <3>1, <3>2
  <2>2. \A i \in 1 .. Len(order) : order[i] \in S
    BY <1>4
  <2>. QED BY <2>1, <2>2
<1>. QED BY <1>4, <1>7, <1>8 DEF Lists

LEMMA IngestedAll ==
    ASSUME NEW s, StoreShape(s), Table(s.cumulative), s.droppedSeries \in Nat, NEW D, Shipped(D),
           NEW q, Lists(q, D), NEW idx, NEW st, IngestSteps(st, Start(s), q, idx, Len(q))
    PROVE  /\ st[Len(q)].ok /\ Ingested(st[Len(q)].store, s, D) /\ Len(q) \in Nat
           /\ \A i \in 0 .. Len(q) : IsOk(st[i]) /\ Ingested(st[i].store, s, FirstOf(q, i))
           /\ \A i \in 1 .. Len(q) :
                /\ IsDelta(q[i])
                /\ st[i].store = MergeBucket(MergeCumulative(st[i - 1].store, Incoming(q[i])), idx, Incoming(q[i]))
<1>. DEFINE n == Len(q)
<1>1. n \in Nat /\ q \in [1 .. n -> D] /\ IsInjective(q)
  BY DEF Lists, IsInjective
<1>2. D = FirstOf(q, n)
  BY DEF Lists, FirstOf
<1>3. IngestSteps(st, Start(s), q, idx, n)
  OBVIOUS
<1>. HIDE DEF n
<1>4. \A i \in 0 .. n : IsOk(st[i]) /\ Ingested(st[i].store, s, FirstOf(q, i))
  BY <1>1, <1>3, IngestedSteps
<1>5. IsOk(st[n]) /\ Ingested(st[n].store, s, D)
  <2>1. n \in 0 .. n
    BY <1>1
  <2>. QED BY <1>2, <1>4, <2>1
<1>6. ASSUME NEW i \in 1 .. n
      PROVE  /\ IsDelta(q[i])
             /\ st[i].store = MergeBucket(MergeCumulative(st[i - 1].store, Incoming(q[i])), idx, Incoming(q[i]))
  <2>1. i - 1 \in 0 .. n /\ IsDelta(q[i]) /\ st[i] = IngestOne(st[i - 1], q[i], idx)
    BY <1>1, <1>3 DEF Shipped, IngestSteps
  <2>2. IsOk(st[i - 1])
    BY <1>4, <2>1
  <2>. QED BY <2>1, <2>2, IngestOneIs
<1>. QED BY <1>1, <1>4, <1>5, <1>6 DEF n, IsOk

(***************************************************************************)
(* Ingest, as a whole.                                                     *)
(***************************************************************************)
HeardFrom(s, batch) ==
    IF batch.dropped > 0 THEN Set(s.nodeDropped, batch.node, batch.dropped) ELSE s.nodeDropped

LEMMA HeardIs ==
    ASSUME NEW s, StoreShape(s), NEW batch
    PROVE  /\ StoreShape(Heard(s, batch)) /\ Heard(s, batch).cumulative = s.cumulative
           /\ Heard(s, batch).droppedSeries = s.droppedSeries /\ Heard(s, batch).droppedLate = s.droppedLate
           /\ Heard(s, batch).failures = s.failures /\ Heard(s, batch).buckets = s.buckets
           /\ Heard(s, batch).nodeDropped = HeardFrom(s, batch)
           /\ Heard(s, batch).droppedEndpoints = s.droppedEndpoints
<1>1. CASE batch.dropped > 0
  <2>. DEFINE x == Set(s.nodeDropped, batch.node, batch.dropped)
  <2>1. Heard(s, batch) = [s EXCEPT !.nodeDropped = x] /\ HeardFrom(s, batch) = x
    BY <1>1 DEF Heard, HeardFrom
  <2>. HIDE DEF x
  <2>. QED BY <2>1 DEF StoreShape
<1>2. CASE ~(batch.dropped > 0)
  BY <1>2 DEF Heard, HeardFrom
<1>. QED BY <1>1, <1>2

IngestedAs(t, s, batch) ==
    /\ StoreShape(t) /\ Table(t.cumulative) /\ t.droppedSeries \in Nat
    /\ t.droppedSeries = 0 => s.droppedSeries = 0 /\ Kept(t.cumulative, batch.series) = batch.series
    /\ t.droppedLate = s.droppedLate /\ t.nodeDropped = HeardFrom(s, batch)
    /\ \A k : IsMeasure(k) =>
            Mass(k, t.cumulative) = Mass(k, s.cumulative) + Mass(k, Contents(Kept(t.cumulative, batch.series)))
    /\ Spans(t.cumulative, s.cumulative \cup Contents(Kept(t.cumulative, batch.series)))

Opening(s, batch) ==
    LET bucket == At(s.buckets, batch.bucket, NewBucket)
    IN  [Heard(s, batch) EXCEPT
            !.buckets = Set(@, batch.bucket,
                [bucket EXCEPT !.vusByNode = Set(@, batch.node, batch.activeVUs)])]

Reopens(cs, bs, idx) == \E v : cs = Set(bs, idx, [At(bs, idx, NewBucket) EXCEPT !.vusByNode = v])

LEMMA OpeningIs ==
    ASSUME NEW s, StoreShape(s), NEW batch, NEW open, open = Opening(s, batch)
    PROVE  /\ StoreShape(open) /\ open.cumulative = s.cumulative /\ open.droppedSeries = s.droppedSeries
           /\ open.droppedLate = s.droppedLate /\ open.nodeDropped = HeardFrom(s, batch)
           /\ open.droppedEndpoints = s.droppedEndpoints /\ open.failures = s.failures
           /\ Reopens(open.buckets, s.buckets, batch.bucket)
<1>. DEFINE h == Heard(s, batch)
            bucket == At(s.buckets, batch.bucket, NewBucket)
            v == Set(bucket.vusByNode, batch.node, batch.activeVUs)
            x == Set(s.buckets, batch.bucket, [bucket EXCEPT !.vusByNode = v])
<1>1. /\ StoreShape(h) /\ h.cumulative = s.cumulative /\ h.droppedSeries = s.droppedSeries
      /\ h.droppedLate = s.droppedLate /\ h.nodeDropped = HeardFrom(s, batch)
      /\ h.buckets = s.buckets /\ h.droppedEndpoints = s.droppedEndpoints /\ h.failures = s.failures
  BY HeardIs
<1>2. open = [h EXCEPT !.buckets = x]
  BY <1>1 DEF Opening
<1>. HIDE DEF h
<1>3. /\ open.buckets = x /\ open.droppedEndpoints = h.droppedEndpoints /\ open.cumulative = h.cumulative
      /\ open.droppedSeries = h.droppedSeries /\ open.droppedLate = h.droppedLate
      /\ open.nodeDropped = h.nodeDropped /\ open.failures = h.failures /\ StoreShape(open)
  <2>. HIDE DEF x
  <2>. QED BY <1>1, <1>2 DEF StoreShape
<1>. HIDE DEF v, bucket
<1>4. Reopens(open.buckets, s.buckets, batch.bucket)
  BY <1>3 DEF Reopens, bucket
<1>. QED BY <1>1, <1>3, <1>4

LEMMA IngestRuns ==
    ASSUME NEW s, NEW batch, NEW order, order \in Seq(batch.series), NEW reported
    PROVE  \E st : /\ IngestSteps(st, Start(Opening(s, batch)), order, batch.bucket, Len(order))
                   /\ Ingest(s, batch, order, reported) =
                        IF st[Len(order)].ok
                        THEN [st[Len(order)].store EXCEPT !.failures = FoldLeft(IngestFailure, @, reported)]
                        ELSE st[Len(order)].store
<1>. DEFINE idx == batch.bucket
            open == Opening(s, batch)
            base == [store |-> open, ok |-> TRUE]
            n == Len(order)
            end == (CHOOSE g : IngestFold(g, base, order, idx, n))[1 .. n]
            Failed(x) == FoldLeft(IngestFailure, x, reported)
<1>1. n \in Nat /\ DOMAIN order = 1 .. n
  OBVIOUS
<1>2. Ingest(s, batch, order, reported) =
        IF end.ok THEN [end.store EXCEPT !.failures = Failed(@)] ELSE end.store
  <2>. DEFINE One(st, delta) ==
                CASE ~st.ok -> st
                  [] delta.hist # NoHist /\ ~Decodes(delta.hist) -> [st EXCEPT !.ok = FALSE]
                  [] OTHER -> [st EXCEPT !.store =
                        MergeBucket(MergeCumulative(@, Incoming(delta)), batch.bucket, Incoming(delta))]
  <2>1. \A st, delta : One(st, delta) = IngestOne(st, delta, idx)
    BY DEF IngestOne
  <2>2. FoldLeft(One, base, order) = end
    <3>. HIDE DEF base, One
    <3>. QED BY <1>1, <2>1 DEF FoldLeft, MapThenFoldSet, IngestFold
  <2>. HIDE DEF base, end
  <2>. QED BY <2>2 DEF Ingest, base, Opening
<1>3. PICK st : IngestSteps(st, base, order, idx, n) /\ end = st[n]
  <2>. HIDE DEF base, n, idx
  <2>1. \E st : IngestSteps(st, base, order, idx, n) /\ (CHOOSE g : IngestFold(g, base, order, idx, n))[1 .. n] = st[n]
    <3>1. n \in Nat
      BY <1>1
    <3>. QED BY <3>1, IngestStepsExist, Zenon
  <2>. QED BY <2>1
<1>. HIDE DEF end, open
<1>4. Ingest(s, batch, order, reported) =
        IF st[n].ok THEN [st[n].store EXCEPT !.failures = Failed(@)] ELSE st[n].store
  BY <1>2, <1>3
<1>5. IngestSteps(st, Start(open), order, idx, n)
  BY <1>3 DEF Start
<1>. QED BY <1>4, <1>5 DEF open

LEMMA IngestIs ==
    ASSUME NEW s, StoreShape(s), Table(s.cumulative), s.droppedSeries \in Nat,
           NEW batch, Shipped(batch.series), NEW order, Lists(order, batch.series), NEW reported
    PROVE  IngestedAs(Ingest(s, batch, order, reported), s, batch)
<1>. DEFINE D == batch.series
            idx == batch.bucket
            open == Opening(s, batch)
            Failed(x) == FoldLeft(IngestFailure, x, reported)
            r == Ingest(s, batch, order, reported)
<1>1. PICK st : /\ IngestSteps(st, Start(open), order, idx, Len(order))
                /\ r = IF st[Len(order)].ok THEN [st[Len(order)].store EXCEPT !.failures = Failed(@)]
                       ELSE st[Len(order)].store
  <2>1. order \in Seq(batch.series)
    BY DEF Lists
  <2>. QED BY <2>1, IngestRuns, Zenon
<1>4. /\ StoreShape(open) /\ open.cumulative = s.cumulative /\ open.droppedSeries = s.droppedSeries
      /\ open.droppedLate = s.droppedLate /\ open.nodeDropped = HeardFrom(s, batch)
  BY OpeningIs
<1>. DEFINE t == st[Len(order)].store
            f == Failed(t.failures)
<1>. HIDE DEF open, r
<1>5. st[Len(order)].ok /\ Ingested(t, open, D)
  <2>1. Shipped(D) /\ Lists(order, D) /\ Table(open.cumulative) /\ open.droppedSeries \in Nat
    BY <1>4
  <2>. HIDE DEF idx, D
  <2>. QED BY <1>1, <1>4, <2>1, IngestedAll
<1>8. r = [t EXCEPT !.failures = f]
  BY <1>1, <1>5
<1>9. StoreShape(t)
  BY <1>5 DEF Ingested, Apart
<1>. HIDE DEF t, f, D
<1>10. /\ StoreShape(r) /\ r.cumulative = t.cumulative /\ r.droppedSeries = t.droppedSeries
       /\ r.droppedLate = t.droppedLate /\ r.nodeDropped = t.nodeDropped
  BY <1>8, <1>9 DEF StoreShape
<1>11. t.droppedLate = s.droppedLate /\ t.nodeDropped = HeardFrom(s, batch)
  BY <1>4, <1>5 DEF Ingested, Apart
<1>12. IngestedAs(r, s, batch)
  BY <1>4, <1>5, <1>10, <1>11 DEF Ingested, IngestedAs, D
<1>. QED BY <1>12 DEF r

(***************************************************************************)
(* What a virtual user is about to record.                                 *)
(***************************************************************************)
IsSample(o) == o.kind = "failure" \/ (IsObs(o) /\ o.kind # "gauge")

IsTodo(q) == \E S : q \in Seq(S) /\ \A o \in S : IsSample(o)

Flattened(f, seqs, S, m) ==
    /\ f \in [1 .. m -> Seq(S)]
    /\ \A i \in 1 .. m : f[i] = IF i = 1 THEN seqs[i] ELSE f[i - 1] \o seqs[i]

LEMMA SeqMore ==
    ASSUME NEW S, NEW T, S \subseteq T, NEW q \in Seq(S)
    PROVE  q \in Seq(T)
<1>1. Len(q) \in Nat /\ q \in [1 .. Len(q) -> T]
  OBVIOUS
<1>. QED BY <1>1

LEMMA FlattenRuns ==
    ASSUME NEW S, NEW seqs \in Seq(Seq(S)), Len(seqs) # 0
    PROVE  \E f : Flattened(f, seqs, S, Len(seqs)) /\ FlattenSeq(seqs) = f[Len(seqs)]
<1>. DEFINE n == Len(seqs)
            Def(f, i) == IF i = 1 THEN seqs[i] ELSE f[i - 1] \o seqs[i]
            A(f) == f = [i \in 1 .. n |-> IF i = 1 THEN seqs[i] ELSE f[i - 1] \o seqs[i]]
            F == CHOOSE f : A(f)
            G == {m \in Nat : m <= n => \E f : Flattened(f, seqs, S, m)}
<1>1. n \in Nat /\ \A i \in 1 .. n : seqs[i] \in Seq(S)
  OBVIOUS
<1>2. FlattenSeq(seqs) = IF n = 0 THEN seqs ELSE F[n]
  BY DEF FlattenSeq
<1>4. CASE n # 0
  <2>. HIDE DEF n
  <2>1. 0 \in G
    <3>1. [i \in 1 .. 0 |-> <<>>] \in [1 .. 0 -> Seq(S)] /\ 1 .. 0 = {}
      OBVIOUS
    <3>2. Flattened([i \in 1 .. 0 |-> <<>>], seqs, S, 0)
      BY <3>1 DEF Flattened
    <3>. QED BY <3>2
  <2>2. ASSUME NEW m \in Nat, m \in G PROVE m + 1 \in G
    <3>. SUFFICES ASSUME m + 1 <= n
                  PROVE  \E f : Flattened(f, seqs, S, m + 1)
      OBVIOUS
    <3>0. PICK f : Flattened(f, seqs, S, m)
      BY <1>1, <2>2
    <3>1. f \in [1 .. m -> Seq(S)] /\ \A i \in 1 .. m : f[i] = Def(f, i)
      BY <3>0 DEF Flattened
    <3>2. seqs[m + 1] \in Seq(S) /\ m + 1 \in 1 .. n
      BY <1>1
    <3>. DEFINE new == IF m = 0 THEN seqs[m + 1] ELSE f[m] \o seqs[m + 1]
                h == [i \in 1 .. m + 1 |-> IF i = m + 1 THEN new ELSE f[i]]
    <3>3. new \in Seq(S)
      <4>1. m # 0 => f[m] \in Seq(S)
        BY <3>1
      <4>. QED BY <3>2, <4>1, ConcatProperties
    <3>n. new = IF m = 0 THEN seqs[m + 1] ELSE f[m] \o seqs[m + 1]
      OBVIOUS
    <3>. HIDE DEF new
    <3>4. h \in [1 .. m + 1 -> Seq(S)]
      BY <3>1, <3>3
    <3>5. (\A i \in 1 .. m : h[i] = f[i]) /\ h[m + 1] = new
      OBVIOUS
    <3>. HIDE DEF h
    <3>6. ASSUME NEW i \in 1 .. m + 1 PROVE h[i] = Def(h, i)
      <4>1. CASE i = m + 1
        <5>1. i = 1 <=> m = 0
          BY <4>1
        <5>2. m # 0 => i - 1 = m /\ h[m] = f[m]
          BY <3>5, <4>1
        <5>. QED BY <3>5, <3>n, <4>1, <5>1, <5>2
      <4>2. CASE i # m + 1
        <5>0. i \in 1 .. m
          BY <4>2
        <5>1. i \in 1 .. m /\ h[i] = f[i] /\ f[i] = Def(f, i)
          <6>. HIDE DEF Def
          <6>. QED BY <3>1, <3>5, <5>0
        <5>2. i # 1 => i - 1 \in 1 .. m /\ h[i - 1] = f[i - 1]
          BY <3>5, <5>1
        <5>. QED BY <5>1, <5>2
      <4>. QED BY <4>1, <4>2
    <3>7. Flattened(h, seqs, S, m + 1)
      BY <3>4, <3>6 DEF Flattened
    <3>. QED BY <3>7
  <2>. HIDE DEF G
  <2>3. n \in G
    BY <1>1, <2>1, <2>2, NumberInduction
  <2>3a. PICK f : Flattened(f, seqs, S, n)
    BY <1>1, <2>3 DEF G
  <2>4. f \in [1 .. n -> Seq(S)] /\ \A i \in 1 .. n : f[i] = Def(f, i)
    BY <2>3a DEF Flattened
  <2>5. A(f)
    <3>1. f = [i \in 1 .. n |-> f[i]]
      BY <2>4
    <3>. QED BY <2>4, <3>1
  <2>6. A(F)
    BY <2>5, Zenon
  <2>. DEFINE rhs(i) == IF i = 1 THEN seqs[i] ELSE F[i - 1] \o seqs[i]
  <2>7. \A i \in 1 .. n : F[i] = rhs(i)
    <3>1. F = [i \in 1 .. n |-> rhs(i)]
      BY <2>6, Zenon
    <3>. HIDE DEF F, rhs
    <3>. QED BY <3>1, SMTT(60)
  <2>. HIDE DEF F
  <2>. DEFINE K == {m \in Nat : m + 1 <= n => F[m + 1] \in Seq(S)}
  <2>8. 0 \in K
    <3>1. 0 + 1 = 1 /\ 1 \in 1 .. n
      BY <1>1, <1>4
    <3>2. F[1] = seqs[1] /\ seqs[1] \in Seq(S)
      BY <1>1, <2>7, <3>1
    <3>. QED BY <3>1, <3>2
  <2>9. ASSUME NEW m \in Nat, m \in K PROVE m + 1 \in K
    <3>. SUFFICES ASSUME (m + 1) + 1 <= n PROVE F[(m + 1) + 1] \in Seq(S)
      OBVIOUS
    <3>1. /\ (m + 1) + 1 \in 1 .. n /\ (m + 1) + 1 # 1 /\ ((m + 1) + 1) - 1 = m + 1 /\ m + 1 <= n
      BY <1>1
    <3>2. F[(m + 1) + 1] = F[m + 1] \o seqs[(m + 1) + 1]
      BY <2>7, <3>1
    <3>3. F[m + 1] \in Seq(S) /\ seqs[(m + 1) + 1] \in Seq(S)
      BY <1>1, <2>9, <3>1
    <3>. QED BY <3>2, <3>3, ConcatProperties
  <2>. HIDE DEF K
  <2>10. ASSUME NEW i \in 1 .. n PROVE F[i] \in Seq(S)
    <3>1. i - 1 \in Nat /\ (i - 1) + 1 = i /\ i <= n
      BY <1>1
    <3>2. i - 1 \in K
      BY <2>8, <2>9, <3>1, NumberInduction
    <3>. QED BY <3>1, <3>2 DEF K
  <2>11. F = [i \in 1 .. n |-> rhs(i)]
    BY <2>6, Zenon
  <2>. HIDE DEF rhs
  <2>12. F = [i \in 1 .. n |-> F[i]]
    BY <2>11, Zenon
  <2>13. F \in [1 .. n -> Seq(S)]
    BY <2>10, <2>12
  <2>14. Flattened(F, seqs, S, n)
    BY <2>7, <2>13 DEF Flattened, rhs
  <2>. QED BY <1>2, <1>4, <2>14 DEF n
<1>. QED BY <1>4 DEF n

LEMMA FlattenIs ==
    ASSUME NEW S, NEW seqs \in Seq(Seq(S))
    PROVE  FlattenSeq(seqs) \in Seq(S)
<1>1. CASE Len(seqs) = 0
  <2>1. seqs = <<>> /\ <<>> \in Seq(S)
    BY <1>1
  <2>2. FlattenSeq(seqs) = seqs
    BY <1>1 DEF FlattenSeq
  <2>. QED BY <2>1, <2>2
<1>2. CASE Len(seqs) # 0
  <2>1. PICK f : Flattened(f, seqs, S, Len(seqs)) /\ FlattenSeq(seqs) = f[Len(seqs)]
    BY <1>2, FlattenRuns
  <2>2. Len(seqs) \in 1 .. Len(seqs)
    BY <1>2
  <2>. QED BY <2>1, <2>2 DEF Flattened
<1>. QED BY <1>1, <1>2

(***************************************************************************)
(* What RecorderAssumption says of numbers and sets, apart from texts.     *)
(***************************************************************************)
LEMMA Constants ==
    /\ Shards \in Nat \ {0} /\ TrendShards \in 1 .. Shards /\ MaxSeries \in Nat \ {0}
    /\ MaxFailureKinds \in Nat \ {0} /\ QueueSize \in Nat
    /\ IsFiniteSet(Node) /\ IsFiniteSet(VU)
    /\ Host \in [VU -> Node] /\ Hint \in [VU -> Nat] /\ VUReadings \subseteq Nat
    /\ MaxReadings \in [Node -> Nat] /\ MaxFlushes \in [Node -> Nat]
  BY RecorderAssumption, Zenon

LEMMA ScenariosNamed == \A v \in VU : Scenario[v] # ""
<1>1. Scenario \in [VU -> STRING \ {""}]
  BY RecorderAssumption, Zenon
<1>. QED BY <1>1

Request == [name : STRING \ {""}, status : Nat, duration : 0 .. Infinity - 1, failed : BOOLEAN]

LEMMA SamplesTodo ==
    ASSUME NEW v \in VU,
           NEW reqs \in Seq(Request)
    PROVE  IsTodo(AllSamples(v, reqs))
<1>. DEFINE S == UNION {{Samples(v, reqs[i])[j] : j \in 1 .. Len(Samples(v, reqs[i]))} : i \in 1 .. Len(reqs)}
            seqs == [i \in 1 .. Len(reqs) |-> Samples(v, reqs[i])]
<1>1. ASSUME NEW i \in 1 .. Len(reqs)
      PROVE  Samples(v, reqs[i]) \in Seq(S) /\ \A j \in 1 .. Len(Samples(v, reqs[i])) : IsSample(Samples(v, reqs[i])[j])
  <2>. DEFINE req == reqs[i]
              labels == [scenario |-> Scenario[v], name |-> req.name, status |-> req.status]
              of(metric, kind, value, truthy) ==
                [metric |-> metric, labels |-> labels, kind |-> kind, value |-> value, truthy |-> truthy]
              a == of("http_reqs", "counter", 1, FALSE)
              b == of("http_req_duration", "trend", req.duration, FALSE)
              c == of("http_req_failed", "rate", 0, req.failed)
              d == [metric |-> "failure", labels |-> labels, kind |-> "failure", value |-> 1, truthy |-> TRUE]
  <2>0. req \in Request
    OBVIOUS
  <2>1. req.duration \in 0 .. Infinity - 1 /\ req.failed \in BOOLEAN /\ req.duration \in Nat
    <3>. HIDE DEF req
    <3>1. req.failed \in BOOLEAN
      BY <2>0, Zenon DEF Request
    <3>2. req.duration \in 0 .. Infinity - 1
      BY <2>0 DEF Request
    <3>. QED BY <3>1, <3>2, Finite
  <2>2. Samples(v, req) = IF req.failed THEN Append(<<a, b, c>>, d) ELSE <<a, b, c>>
    BY DEF Samples
  <2>l. Labelled("http_reqs", labels) /\ Labelled("http_req_duration", labels) /\ Labelled("http_req_failed", labels)
    <3>1. Scenario[v] # "" /\ req.name # ""
      <4>1. Scenario[v] # ""
        BY ScenariosNamed
      <4>. HIDE DEF req
      <4>. QED BY <2>0, <4>1 DEF Request
    <3>. HIDE DEF req
    <3>. QED BY <3>1 DEF Labelled, Get
  <2>. HIDE DEF labels
  <2>3. IsSample(a)
    BY <2>l DEF IsSample, IsObs, Kinded
  <2>4. IsSample(b)
    <3>. QED BY <2>1, <2>l DEF IsSample, IsObs, Kinded
  <2>5. IsSample(c)
    BY <2>1, <2>l DEF IsSample, IsObs, Kinded
  <2>6. IsSample(d)
    BY DEF IsSample
  <2>. HIDE DEF a, b, c, d
  <2>. DEFINE p == <<a, b, c>>
              q == Samples(v, req)
  <2>7. p \in Seq({a, b, c, d}) /\ Len(p) = 3 /\ p[1] = a /\ p[2] = b /\ p[3] = c
    OBVIOUS
  <2>8. Append(p, d) \in Seq({a, b, c, d})
    BY <2>7, AppendProperties
  <2>9. q \in Seq({q[j] : j \in 1 .. Len(q)}) /\ \A j \in 1 .. Len(q) : IsSample(q[j])
    <3>1. q \in Seq({a, b, c, d})
      BY <2>2, <2>7, <2>8
    <3>. HIDE DEF q
    <3>2. \A x \in {a, b, c, d} : IsSample(x)
      BY <2>3, <2>4, <2>5, <2>6
    <3>3. Len(q) \in Nat /\ q \in [1 .. Len(q) -> {q[j] : j \in 1 .. Len(q)}]
      BY <3>1
    <3>4. \A j \in 1 .. Len(q) : q[j] \in {a, b, c, d}
      BY <3>1
    <3>5. \A j \in 1 .. Len(q) : IsSample(q[j])
      BY <3>2, <3>4
    <3>6. q \in Seq({q[j] : j \in 1 .. Len(q)})
      <4>. DEFINE Q == {q[j] : j \in 1 .. Len(q)}
      <4>1. Len(q) \in Nat /\ q \in [1 .. Len(q) -> Q]
        BY <3>3
      <4>. HIDE DEF Q
      <4>2. q \in Seq(Q)
        BY <4>1
      <4>. QED BY <4>2 DEF Q
    <3>. QED BY <3>5, <3>6
  <2>. HIDE DEF q
  <2>10. {q[j] : j \in 1 .. Len(q)} \subseteq S
    BY DEF q
  <2>11. q \in Seq(S)
    <3>. HIDE DEF S
    <3>. QED BY <2>9, <2>10, SeqMore
  <2>. QED BY <2>9, <2>11 DEF q
<1>2. \A o \in S : IsSample(o)
  BY <1>1
<1>3. seqs \in Seq(Seq(S))
  <2>0. \A i \in 1 .. Len(reqs) : Samples(v, reqs[i]) \in Seq(S)
    BY <1>1
  <2>1. Len(reqs) \in Nat /\ \A i \in 1 .. Len(reqs) : seqs[i] \in Seq(S)
    <3>. HIDE DEF S
    <3>. QED BY <2>0
  <2>2. seqs \in [1 .. Len(reqs) -> Seq(S)]
    <3>. HIDE DEF S
    <3>. QED BY <2>1
  <2>. HIDE DEF S, seqs
  <2>. QED BY <2>1, <2>2
<1>4. AllSamples(v, reqs) = FlattenSeq(seqs)
  BY DEF AllSamples
<1>. HIDE DEF S, seqs
<1>5. FlattenSeq(seqs) \in Seq(S)
  BY <1>3, FlattenIs
<1>. QED BY <1>2, <1>4, <1>5 DEF IsTodo

(***************************************************************************)
(* What one node holds: its shards, the aggregates of an unfinished flush  *)
(* and its batches on their way.                                           *)
(***************************************************************************)
Shape(f, S) == f = [x \in S |-> f[x]]

IsBatch(b, n) == b.node = n /\ b.dropped \in Nat /\ Shipped(b.series)

IsQueue(q, n) == \E S : q \in Seq(S) /\ \A b \in S : IsBatch(b, n)

IsShards(sh) == Shape(sh, 0 .. Shards - 1) /\ \A i \in 0 .. Shards - 1 : Table(sh[i])

ShardMass(k, sh) == SumFunction([i \in 0 .. Shards - 1 |-> Mass(k, sh[i])])

QueueMass(k, q) == SumFunction([j \in DOMAIN q |-> Mass(k, Contents(q[j].series))])

LEMMA ShardMassNat ==
    ASSUME NEW sh, IsShards(sh), NEW k, IsMeasure(k)
    PROVE  ShardMass(k, sh) \in Nat /\ \A i \in 0 .. Shards - 1 : Mass(k, sh[i]) \in Nat
<1>. DEFINE f == [i \in 0 .. Shards - 1 |-> Mass(k, sh[i])]
<1>1. \A i \in 0 .. Shards - 1 : Mass(k, sh[i]) \in Nat
  BY MassInt DEF IsShards, Table
<1>2. IsFiniteSet(0 .. Shards - 1)
  <2>1. 0 \in Int /\ Shards - 1 \in Int
    BY Constants
  <2>. QED BY <2>1, FS_Interval
<1>3. DOMAIN f = 0 .. Shards - 1 /\ \A i \in DOMAIN f : f[i] \in Nat
  BY <1>1
<1>. HIDE DEF f
<1>4. SumFunction(f) \in Nat
  BY <1>2, <1>3, SumNat
<1>. QED BY <1>1, <1>4 DEF f, ShardMass

LEMMA ShardMassChange ==
    ASSUME NEW sh, IsShards(sh), NEW th, IsShards(th), NEW k, IsMeasure(k), NEW i \in 0 .. Shards - 1,
           \A j \in 0 .. Shards - 1 : j # i => th[j] = sh[j]
    PROVE  ShardMass(k, th) = ShardMass(k, sh) + (Mass(k, th[i]) - Mass(k, sh[i]))
<1>. DEFINE f == [j \in 0 .. Shards - 1 |-> Mass(k, sh[j])]
            g == [j \in 0 .. Shards - 1 |-> Mass(k, th[j])]
<1>1. \A j \in 0 .. Shards - 1 : Mass(k, sh[j]) \in Int /\ Mass(k, th[j]) \in Int
  BY MassInt DEF IsShards, Table
<1>2. IsFiniteSet(0 .. Shards - 1)
  <2>1. 0 \in Int /\ Shards - 1 \in Int
    BY Constants
  <2>. QED BY <2>1, FS_Interval
<1>3. /\ DOMAIN f = 0 .. Shards - 1 /\ DOMAIN g = DOMAIN f /\ f[i] = Mass(k, sh[i]) /\ g[i] = Mass(k, th[i])
      /\ \A j \in DOMAIN f : f[j] \in Int /\ g[j] \in Int
      /\ \A j \in DOMAIN f : j # i => g[j] = f[j]
  BY <1>1
<1>. HIDE DEF f, g
<1>4. SumFunction(g) = SumFunction(f) + (g[i] - f[i])
  BY <1>2, <1>3, SumChange
<1>. QED BY <1>3, <1>4 DEF f, g, ShardMass

LEMMA QueueIs ==
    ASSUME NEW q, NEW n, IsQueue(q, n)
    PROVE  /\ Len(q) \in Nat /\ DOMAIN q = 1 .. Len(q) /\ IsFiniteSet(DOMAIN q)
           /\ \A j \in DOMAIN q : IsBatch(q[j], n)
<1>1. PICK S : q \in Seq(S) /\ \A b \in S : IsBatch(b, n)
  BY DEF IsQueue
<1>2. Len(q) \in Nat /\ DOMAIN q = 1 .. Len(q) /\ \A j \in 1 .. Len(q) : q[j] \in S
  BY <1>1
<1>3. IsFiniteSet(1 .. Len(q))
  <2>1. 1 \in Int /\ Len(q) \in Int
    BY <1>2
  <2>. QED BY <2>1, FS_Interval
<1>. QED BY <1>1, <1>2, <1>3

LEMMA BatchMassNat ==
    ASSUME NEW b, NEW n, IsBatch(b, n), NEW k, IsMeasure(k)
    PROVE  Mass(k, Contents(b.series)) \in Nat
<1>1. Table(Contents(b.series))
  BY ContentsTable DEF IsBatch
<1>. QED BY <1>1, MassInt DEF Table

LEMMA QueueMassNat ==
    ASSUME NEW q, NEW n, IsQueue(q, n), NEW k, IsMeasure(k)
    PROVE  QueueMass(k, q) \in Nat
<1>. DEFINE f == [j \in DOMAIN q |-> Mass(k, Contents(q[j].series))]
<1>1. IsFiniteSet(DOMAIN f) /\ \A j \in DOMAIN f : f[j] \in Nat
  BY QueueIs, BatchMassNat
<1>. HIDE DEF f
<1>2. SumFunction(f) \in Nat
  BY <1>1, SumNat
<1>. QED BY <1>2 DEF f, QueueMass

LEMMA QueueEmpty ==
    ASSUME NEW k, NEW n
    PROVE  IsQueue(<<>>, n) /\ QueueMass(k, <<>>) = 0
<1>1. IsQueue(<<>>, n)
  <2>. DEFINE none == {}
  <2>1. <<>> \in Seq(none) /\ \A b \in none : IsBatch(b, n)
    BY EmptySeq
  <2>. HIDE DEF none
  <2>. QED BY <2>1 DEF IsQueue
<1>. DEFINE f == [j \in DOMAIN <<>> |-> Mass(k, Contents(<<>>[j].series))]
<1>2. DOMAIN f = {}
  OBVIOUS
<1>3. IsFiniteSet(DOMAIN f) /\ \A j \in DOMAIN f : f[j] = 0
  BY <1>2, FS_EmptySet
<1>. HIDE DEF f
<1>4. SumFunction(f) = 0
  BY <1>3, SumZero
<1>. QED BY <1>1, <1>4 DEF f, QueueMass

LEMMA QueueAppend ==
    ASSUME NEW q, NEW n, IsQueue(q, n), NEW b, IsBatch(b, n)
    PROVE  /\ IsQueue(Append(q, b), n)
           /\ DOMAIN Append(q, b) = DOMAIN q \cup {Len(q) + 1} /\ Len(q) + 1 \notin DOMAIN q
           /\ Append(q, b)[Len(q) + 1] = b
           /\ \A j \in DOMAIN q : Append(q, b)[j] = q[j]
           /\ \A k : IsMeasure(k) => QueueMass(k, Append(q, b)) = QueueMass(k, q) + Mass(k, Contents(b.series))
<1>1. PICK S : q \in Seq(S) /\ \A x \in S : IsBatch(x, n)
  BY DEF IsQueue
<1>. DEFINE T == S \cup {b}
            r == Append(q, b)
            m == Len(q)
<1>2. q \in Seq(T) /\ b \in T /\ \A x \in T : IsBatch(x, n)
  <2>1. S \subseteq T
    OBVIOUS
  <2>2. q \in Seq(T)
    <3>. HIDE DEF T
    <3>. QED BY <1>1, <2>1, SeqMore
  <2>. QED BY <1>1, <2>2
<1>3. r \in Seq(T) /\ Len(r) = m + 1 /\ (\A j \in 1 .. m : r[j] = q[j]) /\ r[m + 1] = b
  <2>. HIDE DEF T
  <2>. QED BY <1>2, AppendProperties
<1>. HIDE DEF T, r
<1>4. IsQueue(r, n)
  BY <1>2, <1>3 DEF IsQueue
<1>5. m \in Nat /\ DOMAIN q = 1 .. m /\ DOMAIN r = 1 .. m + 1
  BY <1>1, <1>3
<1>6. DOMAIN r = DOMAIN q \cup {m + 1} /\ m + 1 \notin DOMAIN q
  BY <1>5
<1>. HIDE DEF m
<1>7. ASSUME NEW k, IsMeasure(k) PROVE QueueMass(k, r) = QueueMass(k, q) + Mass(k, Contents(b.series))
  <2>. DEFINE f == [j \in DOMAIN q |-> Mass(k, Contents(q[j].series))]
              g == [j \in DOMAIN r |-> Mass(k, Contents(r[j].series))]
  <2>1. \A j \in DOMAIN q : f[j] \in Int
    BY <1>7, QueueIs, BatchMassNat
  <2>2. Mass(k, Contents(b.series)) \in Int
    BY <1>7, BatchMassNat
  <2>3. \A j \in DOMAIN q : r[j] = q[j]
    BY <1>3, <1>5
  <2>4. /\ IsFiniteSet(DOMAIN f) /\ m + 1 \notin DOMAIN f /\ DOMAIN g = DOMAIN f \cup {m + 1}
        /\ g[m + 1] = Mass(k, Contents(b.series))
        /\ \A j \in DOMAIN f : f[j] \in Int /\ g[j] = f[j]
    <3>1. IsFiniteSet(DOMAIN q)
      BY QueueIs
    <3>2. g[m + 1] = Mass(k, Contents(b.series))
      BY <1>3, <1>6
    <3>3. \A j \in DOMAIN q : g[j] = f[j]
      BY <1>6, <2>3
    <3>. QED BY <1>6, <2>1, <3>1, <3>2, <3>3
  <2>. HIDE DEF f, g
  <2>5. SumFunction(g) = SumFunction(f) + g[m + 1]
    BY <2>2, <2>4, SumExtend
  <2>. QED BY <2>4, <2>5 DEF f, g, QueueMass
<1>. QED BY <1>3, <1>4, <1>5, <1>6, <1>7 DEF r, m

LEMMA QueueTail ==
    ASSUME NEW q, NEW n, IsQueue(q, n), q # <<>>
    PROVE  /\ IsQueue(Tail(q), n) /\ IsBatch(Head(q), n) /\ Head(q) = q[1] /\ 1 \in DOMAIN q
           /\ \A j \in DOMAIN q : j # 1 => j - 1 \in DOMAIN Tail(q)
           /\ \A j \in DOMAIN Tail(q) : j + 1 \in DOMAIN q /\ j + 1 # 1 /\ Tail(q)[j] = q[j + 1]
           /\ \A k : IsMeasure(k) => QueueMass(k, q) = Mass(k, Contents(Head(q).series)) + QueueMass(k, Tail(q))
<1>1. PICK S : q \in Seq(S) /\ \A x \in S : IsBatch(x, n)
  BY DEF IsQueue
<1>. DEFINE r == Tail(q)
            m == Len(r)
<1>2. r \in Seq(S) /\ Len(q) \in Nat /\ Len(q) > 0 /\ Len(r) = Len(q) - 1 /\ Head(q) = q[1]
  BY <1>1
<1>3. \A j \in 1 .. m : r[j] = q[j + 1]
  BY <1>1
<1>. HIDE DEF r
<1>4. m \in Nat /\ DOMAIN r = 1 .. m /\ DOMAIN q = 1 .. m + 1
  BY <1>1, <1>2
<1>. HIDE DEF m
<1>5. IsQueue(r, n) /\ IsBatch(Head(q), n) /\ 1 \in DOMAIN q
  <2>1. 1 \in DOMAIN q
    BY <1>4
  <2>2. IsBatch(q[1], n)
    BY <2>1, QueueIs
  <2>. QED BY <1>1, <1>2, <2>1, <2>2 DEF IsQueue
<1>6. \A j \in DOMAIN q : j # 1 => j - 1 \in DOMAIN r
  BY <1>4
<1>7. \A j \in DOMAIN r : j + 1 \in DOMAIN q /\ j + 1 # 1 /\ r[j] = q[j + 1]
  BY <1>3, <1>4
<1>8. ASSUME NEW k, IsMeasure(k) PROVE QueueMass(k, q) = Mass(k, Contents(Head(q).series)) + QueueMass(k, r)
  <2>. DEFINE f == [j \in DOMAIN q |-> Mass(k, Contents(q[j].series))]
              g == [j \in DOMAIN r |-> Mass(k, Contents(r[j].series))]
              h == [j \in DOMAIN r |-> j + 1]
              e == [j \in DOMAIN q \ {1} |-> f[j]]
              z == [j \in {1} |-> f[j]]
  <2>1. (\A j \in DOMAIN q : f[j] \in Int) /\ (\A j \in DOMAIN r : g[j] \in Int)
    BY <1>5, <1>8, QueueIs, BatchMassNat
  <2>2. IsFiniteSet(DOMAIN q) /\ IsFiniteSet(DOMAIN r)
    BY <1>5, QueueIs
  <2>3. \A j \in DOMAIN r : h[j] = j + 1 /\ g[j] = f[j + 1] /\ j + 1 \in DOMAIN q \ {1}
    BY <1>7
  <2>4. DOMAIN q \ {1} = {h[j] : j \in DOMAIN r}
    <3>1. \A j \in DOMAIN q \ {1} : j - 1 \in DOMAIN r /\ j = (j - 1) + 1
      BY <1>4
    <3>2. ASSUME NEW j \in DOMAIN q \ {1} PROVE j \in {h[i] : i \in DOMAIN r}
      <4>1. j - 1 \in DOMAIN r /\ h[j - 1] = j
        BY <2>3, <3>1
      <4>. QED BY <4>1
    <3>3. \A j \in DOMAIN r : h[j] \in DOMAIN q \ {1}
      BY <2>3
    <3>. HIDE DEF h
    <3>. QED BY <3>2, <3>3
  <2>5. \A x, y \in DOMAIN r : h[x] = h[y] => x = y
    BY <1>4, <2>3
  <2>6. f[1] = Mass(k, Contents(Head(q).series)) /\ f[1] \in Int
    BY <1>2, <1>5, <2>1
  <2>7. DOMAIN f = DOMAIN q /\ DOMAIN e = DOMAIN q \ {1} /\ DOMAIN g = DOMAIN r /\ DOMAIN z = {1}
    OBVIOUS
  <2>8. (\A j \in DOMAIN e : e[j] = f[j]) /\ z[1] = f[1]
    OBVIOUS
  <2>. HIDE DEF f, g, h, e, z
  <2>9. SumFunction(e) = SumFunction(g)
    <3>1. \A x \in DOMAIN g : g[x] \in Int /\ e[h[x]] = g[x]
      BY <2>1, <2>3, <2>7, <2>8
    <3>2. DOMAIN e = {h[x] : x \in DOMAIN g} /\ IsFiniteSet(DOMAIN g)
      BY <2>2, <2>4, <2>7
    <3>3. \A x, y \in DOMAIN g : h[x] = h[y] => x = y
      BY <2>5, <2>7
    <3>. QED BY <3>1, <3>2, <3>3, SumReindex
  <2>10. SumFunction(f) = f[1] + SumFunction(e)
    <3>1. SumFunction(f) = SumFunction(z) + SumFunction(e)
      <4>1. DOMAIN f = DOMAIN z \cup DOMAIN e /\ DOMAIN z \cap DOMAIN e = {}
        BY <1>5, <2>7
      <4>2. \A x \in DOMAIN z : z[x] = f[x]
        BY <2>7, <2>8
      <4>3. \A x \in DOMAIN f : f[x] \in Int
        BY <2>1, <2>7
      <4>4. IsFiniteSet(DOMAIN f)
        BY <2>2, <2>7
      <4>. QED BY <2>8, <4>1, <4>2, <4>3, <4>4, SumHalves
    <3>2. SumFunction(z) = z[1]
      <4>. DEFINE none == [j \in {} |-> 0]
      <4>1. DOMAIN none = {} /\ IsFiniteSet({})
        BY FS_EmptySet
      <4>. HIDE DEF none
      <4>2. SumFunction(none) = 0
        BY <4>1, SumZero
      <4>3. DOMAIN z = DOMAIN none \cup {1} /\ 1 \notin DOMAIN none /\ z[1] \in Int
        BY <2>6, <2>7, <2>8, <4>1
      <4>4. SumFunction(z) = SumFunction(none) + z[1]
        BY <4>1, <4>3, SumExtend
      <4>. QED BY <4>2, <4>3, <4>4
    <3>. QED BY <2>8, <3>1, <3>2
  <2>. QED BY <2>6, <2>9, <2>10 DEF f, g, QueueMass
<1>. QED BY <1>2, <1>5, <1>6, <1>7, <1>8 DEF r

LEMMA SpansTrans ==
    ASSUME NEW M, NEW N, NEW X, Spans(M, N), Spans(N, X),
           \A x \in M \cup (N \cup X) : IsAgg(x)
    PROVE  Spans(M, X)
<1>1. \A x \in M \cup (N \cup X) : x.min \in Int /\ x.max \in Int
  BY DEF IsAgg
<1>2. Covers(M, X)
  <2>. SUFFICES ASSUME NEW x \in X, Timed(x)
                PROVE \E y \in M : Timed(y) /\ Same(y, x) /\ y.min <= x.min /\ x.max <= y.max
    BY DEF Covers
  <2>1. PICK z \in N : Timed(z) /\ Same(z, x) /\ z.min <= x.min /\ x.max <= z.max
    BY DEF Spans, Covers
  <2>2. PICK y \in M : Timed(y) /\ Same(y, z) /\ y.min <= z.min /\ z.max <= y.max
    BY <2>1 DEF Spans, Covers
  <2>3. y.min <= x.min /\ x.max <= y.max
    BY <1>1, <2>1, <2>2
  <2>4. Same(y, x)
    BY <2>1, <2>2 DEF Same
  <2>. QED BY <2>2, <2>3, <2>4
<1>3. Within(M, X)
  <2>. SUFFICES ASSUME NEW y \in M, Timed(y)
                PROVE /\ \E x \in X : Timed(x) /\ Same(x, y) /\ x.min = y.min
                      /\ \E x \in X : Timed(x) /\ Same(x, y) /\ x.max = y.max
    BY DEF Within
  <2>1. PICK z \in N : Timed(z) /\ Same(z, y) /\ z.min = y.min
    BY DEF Spans, Within
  <2>2. PICK w \in N : Timed(w) /\ Same(w, y) /\ w.max = y.max
    BY DEF Spans, Within
  <2>3. PICK x \in X : Timed(x) /\ Same(x, z) /\ x.min = z.min
    BY <2>1 DEF Spans, Within
  <2>4. PICK u \in X : Timed(u) /\ Same(u, w) /\ u.max = w.max
    BY <2>2 DEF Spans, Within
  <2>5. Same(x, y) /\ Same(u, y) /\ x.min = y.min /\ u.max = y.max
    BY <2>1, <2>2, <2>3, <2>4 DEF Same
  <2>. QED BY <2>3, <2>4, <2>5
<1>. QED BY <1>2, <1>3 DEF Spans

LEMMA SpansUnion ==
    ASSUME NEW M, NEW N, NEW X, NEW Y, Spans(M, X), Spans(N, Y)
    PROVE  Spans(M \cup N, X \cup Y)
<1>1. Covers(M \cup N, X \cup Y)
  BY DEF Spans, Covers
<1>2. Within(M \cup N, X \cup Y)
  <2>. SUFFICES ASSUME NEW y \in M \cup N, Timed(y)
                PROVE /\ \E x \in X \cup Y : Timed(x) /\ Same(x, y) /\ x.min = y.min
                      /\ \E x \in X \cup Y : Timed(x) /\ Same(x, y) /\ x.max = y.max
    BY DEF Within
  <2>1. CASE y \in M
    BY <2>1 DEF Spans, Within
  <2>2. CASE y \in N
    BY <2>2 DEF Spans, Within
  <2>. QED BY <2>1, <2>2
<1>. QED BY <1>1, <1>2 DEF Spans

LEMMA SpansReplace ==
    ASSUME NEW R, NEW A, NEW B, NEW X, NEW Y, Spans(R \cup A, X), Spans(B, A \cup Y),
           \A x \in (R \cup A) \cup (B \cup (X \cup Y)) : IsAgg(x)
    PROVE  Spans(R \cup B, X \cup Y)
<1>1. Spans(R, R) /\ Spans(Y, Y)
  BY SpansItself
<1>2. Spans(R \cup B, R \cup (A \cup Y))
  BY <1>1, SpansUnion
<1>3. Spans((R \cup A) \cup Y, X \cup Y)
  BY <1>1, SpansUnion
<1>4. R \cup (A \cup Y) = (R \cup A) \cup Y
  OBVIOUS
<1>5. Spans(R \cup B, (R \cup A) \cup Y)
  BY <1>2, <1>4
<1>6. \A x \in (R \cup B) \cup (((R \cup A) \cup Y) \cup (X \cup Y)) : IsAgg(x)
  OBVIOUS
<1>. QED BY <1>3, <1>5, <1>6, SpansTrans

LEMMA SpansUntimed ==
    ASSUME NEW M, NEW X, NEW E, Spans(M, X \cup E), \A e \in E : ~Timed(e)
    PROVE  Spans(M, X)
  BY DEF Spans, Covers, Within

LEMMA SpansIdle ==
    ASSUME NEW M, NEW X, NEW E, Spans(M, X), \A e \in E : ~Timed(e)
    PROVE  Spans(M \cup E, X)
  BY DEF Spans, Covers, Within

(***************************************************************************)
(* The aggregate of a single observation, and what recording one does.     *)
(***************************************************************************)
Single(o) == Observe(NewAggregate(o.metric, o.labels, o.kind), o.value, o.truthy)

LEMMA SingleIs ==
    ASSUME NEW o, IsObs(o)
    PROVE  /\ IsAgg(Single(o)) /\ Same(Single(o), o) /\ Single(o).kind = o.kind /\ Single(o).count = 1
           /\ o.kind = "trend" => Single(o).min = o.value /\ Single(o).max = o.value
<1>. DEFINE a == NewAggregate(o.metric, o.labels, o.kind)
            b == Single(o)
<1>1. Kinded([metric |-> o.metric, labels |-> o.labels, kind |-> o.kind])
  BY DEF IsObs, Kinded
<1>2. /\ IsAgg(a) /\ a.metric = o.metric /\ a.labels = o.labels /\ a.kind = o.kind /\ a.count = 0
      /\ a.min = Infinity /\ a.max = -Infinity
  BY <1>1, NewAgg
<1>3. b = Observe(a, o.value, o.truthy)
  BY DEF Single
<1>. HIDE DEF a, b
<1>4. Same(a, o)
  BY <1>2 DEF Same
<1>5. IsAgg(b) /\ Same(b, a)
  BY <1>2, <1>3, <1>4, ObserveAgg
<1>6. /\ b.kind = a.kind /\ b.count = a.count + 1
      /\ a.kind = "trend" => /\ b.min = (IF a.min <= o.value THEN a.min ELSE o.value)
                             /\ b.max = (IF a.max <= o.value THEN o.value ELSE a.max)
  BY <1>2, <1>3, <1>4, ObserveIs
<1>7. o.kind = "trend" => b.min = o.value /\ b.max = o.value
  <2>. SUFFICES ASSUME o.kind = "trend" PROVE b.min = o.value /\ b.max = o.value
    OBVIOUS
  <2>1. o.value \in 0 .. Infinity - 1
    BY DEF IsObs
  <2>. QED BY <1>2, <1>6, <2>1, Finite
<1>8. b.count = 1
  BY <1>2, <1>6
<1>. QED BY <1>2, <1>4, <1>5, <1>6, <1>7, <1>8 DEF b, Same

LEMMA RecordedIs ==
    ASSUME NEW m, Table(m), NEW o, IsObs(o), NEW c,
           c = Observe(GetOrCreate(m, o.metric, o.labels, o.kind), o.value, o.truthy)
    PROVE  /\ Table(Put(m, c))
           /\ \A k : IsMeasure(k) => PartOf(k, o) \in Nat /\ Mass(k, Put(m, c)) = Mass(k, m) + PartOf(k, o)
           /\ Spans(Put(m, c), m \cup {Single(o)})
<1>. DEFINE t == GetOrCreate(m, o.metric, o.labels, o.kind)
            a == Single(o)
            M == Put(m, c)
<1>1. Kinded([metric |-> o.metric, labels |-> o.labels, kind |-> o.kind])
  BY DEF IsObs, Kinded
<1>2. /\ IsAgg(t) /\ t.metric = o.metric /\ t.labels = o.labels
      /\ \/ t \in m /\ Find(m, o.metric, o.labels) = {t}
         \/ Find(m, o.metric, o.labels) = {} /\ t.count = 0
  BY <1>1, GetOrCreateIs
<1>3. Same(t, o) /\ t.kind = o.kind
  BY <1>2, SameKind DEF Same, IsAgg, IsObs
<1>t. t = GetOrCreate(m, o.metric, o.labels, o.kind) /\ c = Observe(t, o.value, o.truthy)
  OBVIOUS
<1>a. IsAgg(a) /\ Same(a, o) /\ a.kind = o.kind /\ a.count = 1 /\ (o.kind = "trend" => a.min = o.value /\ a.max = o.value)
  BY SingleIs
<1>. HIDE DEF t, a
<1>5. IsAgg(c) /\ Same(c, t)
  BY <1>2, <1>3, <1>t, ObserveAgg
<1>6. c.metric = o.metric /\ c.labels = o.labels /\ c.kind = o.kind
  BY <1>2, <1>3, <1>5, SameKind DEF Same, IsAgg
<1>7. Table(M) /\ M = {b \in m : ~Same(b, c)} \cup {c}
  BY <1>5, PutIs
<1>8. ASSUME NEW k, IsMeasure(k) PROVE PartOf(k, o) \in Nat /\ Mass(k, M) = Mass(k, m) + PartOf(k, o)
  <2>1. Mass(k, M) = Mass(k, m) + (Part(k, c) - Part(k, t))
    BY <1>5, <1>6, <1>8, <1>t, PutMass
  <2>2. PartOf(k, o) \in Nat /\ Part(k, c) = Part(k, t) + PartOf(k, o)
    BY <1>2, <1>3, <1>8, <1>t, ObservePart
  <2>3. Part(k, t) \in Nat
    BY <1>2, <1>8, PartNat
  <2>. QED BY <2>1, <2>2, <2>3
<1>9. Spans(M, m \cup {a})
  <2>1. CASE o.kind # "trend"
    <3>1. ~Timed(a) /\ ~Timed(c)
      BY <1>6, <1>a, <2>1 DEF Timed
    <3>2. \A x \in m : Timed(x) => ~Same(x, c) /\ x.min \in Int /\ x.max \in Int /\ Same(x, x)
      BY <1>5, <1>6, <2>1, SameKind DEF Timed, Table, Aggs, IsAgg, Same
    <3>3. Covers(M, m \cup {a})
      <4>. SUFFICES ASSUME NEW x \in m \cup {a}, Timed(x)
                    PROVE \E y \in M : Timed(y) /\ Same(y, x) /\ y.min <= x.min /\ x.max <= y.max
        BY DEF Covers
      <4>1. x \in M /\ x.min <= x.min /\ x.max <= x.max /\ Same(x, x)
        BY <1>7, <3>1, <3>2
      <4>. QED BY <4>1
    <3>4. Within(M, m \cup {a})
      <4>1. \A x \in M : Timed(x) => x \in m
        BY <1>7, <3>1
      <4>2. \A x : Same(x, x)
        BY DEF Same
      <4>. QED BY <4>1, <4>2 DEF Within
    <3>. QED BY <3>3, <3>4 DEF Spans
  <2>2. CASE o.kind = "trend"
    <3>1. /\ c.count = t.count + 1 /\ c.min = (IF t.min <= o.value THEN t.min ELSE o.value)
          /\ c.max = (IF t.max <= o.value THEN o.value ELSE t.max)
      BY <1>2, <1>3, <1>t, <2>2, ObserveIs
    <3>2. /\ t.count \in Nat /\ t.min \in Int /\ t.max \in Int /\ o.value \in 0 .. Infinity - 1
          /\ (t.count = 0 => t.min = Infinity /\ t.max = -Infinity)
      BY <1>2, <2>2, AggNew DEF IsAgg, IsObs
    <3>3. o.value \in Int
      BY <3>2, Finite
    <3>4. Timed(c) /\ Timed(a) /\ Same(a, c) /\ Same(c, a)
      BY <1>6, <1>a, <2>2, <3>1, <3>2 DEF Timed, Same
    <3>5. a.min = o.value /\ a.max = o.value
      BY <1>a, <2>2
    <3>6. c.min <= a.min /\ a.max <= c.max /\ c.min <= t.min /\ t.max <= c.max /\ c.min \in Int /\ c.max \in Int
      BY <3>1, <3>2, <3>3, <3>5
    <3>7. \A x \in m : Same(x, c) => x = t
      <4>1. \A x \in m : Same(x, c) => x \in Find(m, o.metric, o.labels)
        BY <1>6, FindIs DEF Same
      <4>. QED BY <1>2, <4>1
    <3>8. \A x : Same(x, x)
      BY DEF Same
    <3>9. Covers(M, m \cup {a})
      <4>. SUFFICES ASSUME NEW x \in m \cup {a}, Timed(x)
                    PROVE \E y \in M : Timed(y) /\ Same(y, x) /\ y.min <= x.min /\ x.max <= y.max
        BY DEF Covers
      <4>1. c \in M
        BY <1>7
      <4>2. CASE x = a
        BY <3>4, <3>6, <4>1, <4>2
      <4>3. CASE x \in m /\ Same(x, c)
        <5>1. x = t /\ Same(c, x)
          BY <3>7, <4>3 DEF Same
        <5>. QED BY <3>4, <3>6, <4>1, <5>1
      <4>4. CASE x \in m /\ ~Same(x, c)
        <5>1. x \in M /\ x.min \in Int /\ x.max \in Int
          BY <1>7, <4>4 DEF Table, Aggs, IsAgg
        <5>2. x.min <= x.min /\ x.max <= x.max
          BY <5>1
        <5>. QED BY <3>8, <5>1, <5>2
      <4>. QED BY <4>2, <4>3, <4>4
    <3>10. Within(M, m \cup {a})
      <4>. SUFFICES ASSUME NEW y \in M, Timed(y)
                    PROVE /\ \E x \in m \cup {a} : Timed(x) /\ Same(x, y) /\ x.min = y.min
                          /\ \E x \in m \cup {a} : Timed(x) /\ Same(x, y) /\ x.max = y.max
        BY DEF Within
      <4>1. CASE y # c
        BY <1>7, <3>8, <4>1
      <4>2. CASE y = c
        <5>1. CASE t.count = 0
          <6>1. c.min = a.min /\ c.max = a.max
            BY <3>1, <3>2, <3>5, <5>1, Finite
          <6>. QED BY <3>4, <4>2, <6>1
        <5>2. CASE t.count # 0
          <6>1. t \in m /\ Timed(t) /\ Same(t, c)
            BY <1>2, <1>3, <1>6, <2>2, <3>2, <5>2 DEF Timed, Same
          <6>2. (c.min = t.min \/ c.min = a.min) /\ (c.max = t.max \/ c.max = a.max)
            BY <3>1, <3>5
          <6>. QED BY <3>4, <4>2, <6>1, <6>2
        <5>. QED BY <5>1, <5>2
      <4>. QED BY <4>1, <4>2
    <3>. QED BY <3>9, <3>10 DEF Spans
  <2>. QED BY <2>1, <2>2
<1>. QED BY <1>7, <1>8, <1>9 DEF a

(***************************************************************************)
(* The places that hold observations, as one value.                        *)
(***************************************************************************)
Places ==
    [shards |-> shards, flush |-> flush, merged |-> merged, inflight |-> inflight,
     cumulative |-> store.cumulative, lost |-> lost]

NodeMassAt(k, P, n) ==
    ShardMass(k, P.shards[n]) + (IF P.flush[n] > 0 THEN Mass(k, P.merged[n]) ELSE 0)
      + QueueMass(k, P.inflight[n])

AccountedAt(k, P) ==
    SumFunction([n \in Node |-> NodeMassAt(k, P, n)]) + Mass(k, P.cumulative) + Mass(k, P.lost)

InShards(sh) == UNION {sh[i] : i \in 0 .. Shards - 1}

InFlush(fl, mg) == IF fl > 0 THEN mg ELSE {}

InQueue(q) == UNION {Contents(q[j].series) : j \in DOMAIN q}

NodeHeldAt(P, n) ==
    InShards(P.shards[n]) \cup (InFlush(P.flush[n], P.merged[n]) \cup InQueue(P.inflight[n]))

HeldAt(P) == (P.cumulative \cup P.lost) \cup (UNION {NodeHeldAt(P, n) : n \in Node})

NodePlaced(P, n) ==
    /\ IsShards(P.shards[n]) /\ Table(P.merged[n]) /\ IsQueue(P.inflight[n], n)
    /\ P.flush[n] \in 0 .. Shards

Placed(P) ==
    /\ \A n \in Node : NodePlaced(P, n)
    /\ Table(P.cumulative) /\ Table(P.lost)

Elsewhere(P, Q, n) ==
    \A m \in Node : m # n => /\ Q.shards[m] = P.shards[m] /\ Q.flush[m] = P.flush[m]
                             /\ Q.merged[m] = P.merged[m] /\ Q.inflight[m] = P.inflight[m]

LocalMass(k, P, n) == NodeMassAt(k, P, n) + Mass(k, P.cumulative) + Mass(k, P.lost)

LocalHeld(P, n) == (P.cumulative \cup P.lost) \cup NodeHeldAt(P, n)

LEMMA PlacesIs ==
    /\ \A k : Accounted(k) = AccountedAt(k, Places)
    /\ Held = HeldAt(Places)
<1>1. ASSUME NEW k PROVE Accounted(k) = AccountedAt(k, Places)
  <2>1. \A n \in Node : NodeMass(k, n) = NodeMassAt(k, Places, n)
    BY DEF NodeMass, NodeMassAt, Places, ShardMass, QueueMass
  <2>2. [n \in Node |-> NodeMass(k, n)] = [n \in Node |-> NodeMassAt(k, Places, n)]
    BY <2>1
  <2>3. Places.cumulative = store.cumulative /\ Places.lost = lost
    BY DEF Places
  <2>. QED BY <2>2, <2>3 DEF Accounted, AccountedAt
<1>2. Held = HeldAt(Places)
  <2>. DEFINE P == Places
  <2>1. /\ P.shards = shards /\ P.flush = flush /\ P.merged = merged /\ P.inflight = inflight
        /\ P.cumulative = store.cumulative /\ P.lost = lost
    BY DEF Places
  <2>. HIDE DEF P
  <2>2. ASSUME NEW a PROVE a \in Held <=> a \in HeldAt(P)
    <3>1. a \in UNION {shards[n][i] : n \in Node, i \in 0 .. Shards - 1}
            <=> \E n \in Node : a \in InShards(P.shards[n])
      BY <2>1 DEF InShards
    <3>2. a \in UNION {merged[n] : n \in {m \in Node : flush[m] > 0}}
            <=> \E n \in Node : a \in InFlush(P.flush[n], P.merged[n])
      BY <2>1 DEF InFlush
    <3>3. a \in UNION {UNION {Contents(inflight[n][j].series) : j \in DOMAIN inflight[n]} : n \in Node}
            <=> \E n \in Node : a \in InQueue(P.inflight[n])
      BY <2>1 DEF InQueue
    <3>4. a \in HeldAt(P) <=> a \in store.cumulative \/ a \in lost \/ \E n \in Node : a \in NodeHeldAt(P, n)
      BY <2>1 DEF HeldAt
    <3>5. a \in Held <=> \/ a \in store.cumulative \/ a \in lost
                         \/ a \in UNION {shards[n][i] : n \in Node, i \in 0 .. Shards - 1}
                         \/ a \in UNION {merged[n] : n \in {m \in Node : flush[m] > 0}}
                         \/ a \in UNION {UNION {Contents(inflight[n][j].series) : j \in DOMAIN inflight[n]} : n \in Node}
      BY DEF Held
    <3>6. \A n \in Node : a \in NodeHeldAt(P, n) <=>
                \/ a \in InShards(P.shards[n])
                \/ a \in InFlush(P.flush[n], P.merged[n])
                \/ a \in InQueue(P.inflight[n])
      BY DEF NodeHeldAt
    <3>7. (\E n \in Node : a \in NodeHeldAt(P, n)) <=>
                \/ \E n \in Node : a \in InShards(P.shards[n])
                \/ \E n \in Node : a \in InFlush(P.flush[n], P.merged[n])
                \/ \E n \in Node : a \in InQueue(P.inflight[n])
      BY <3>6
    <3>. DEFINE A == a \in UNION {shards[n][i] : n \in Node, i \in 0 .. Shards - 1}
                B == a \in UNION {merged[n] : n \in {m \in Node : flush[m] > 0}}
                C == a \in UNION {UNION {Contents(inflight[n][j].series) : j \in DOMAIN inflight[n]} : n \in Node}
    <3>8. A \/ B \/ C <=> \E n \in Node : a \in NodeHeldAt(P, n)
      BY <3>1, <3>2, <3>3, <3>7
    <3>9. a \in Held <=> a \in store.cumulative \/ a \in lost \/ A \/ B \/ C
      BY <3>5
    <3>. HIDE DEF A, B, C
    <3>. QED BY <3>4, <3>8, <3>9
  <2>3. Held = HeldAt(P)
    BY <2>2
  <2>. QED BY <2>3 DEF P
<1>. QED BY <1>1, <1>2

LEMMA NodeMassNat ==
    ASSUME NEW P, NEW n, NodePlaced(P, n), NEW k, IsMeasure(k)
    PROVE  /\ NodeMassAt(k, P, n) \in Nat /\ ShardMass(k, P.shards[n]) \in Nat
           /\ Mass(k, P.merged[n]) \in Nat /\ QueueMass(k, P.inflight[n]) \in Nat
<1>1. ShardMass(k, P.shards[n]) \in Nat /\ QueueMass(k, P.inflight[n]) \in Nat /\ Mass(k, P.merged[n]) \in Nat
  BY ShardMassNat, QueueMassNat, MassInt DEF NodePlaced, Table
<1>. QED BY <1>1 DEF NodeMassAt

LEMMA NodeHeldAggs ==
    ASSUME NEW P, NEW n, NodePlaced(P, n)
    PROVE  \A a \in NodeHeldAt(P, n) : IsAgg(a)
<1>1. \A i \in 0 .. Shards - 1 : \A a \in P.shards[n][i] : IsAgg(a)
  BY DEF NodePlaced, IsShards, Table, Aggs
<1>2. \A a \in P.merged[n] : IsAgg(a)
  BY DEF NodePlaced, Table, Aggs
<1>3. ASSUME NEW j \in DOMAIN P.inflight[n] PROVE \A a \in Contents(P.inflight[n][j].series) : IsAgg(a)
  <2>1. IsBatch(P.inflight[n][j], n)
    BY QueueIs DEF NodePlaced
  <2>. QED BY <2>1, ContentsTable DEF IsBatch, Table, Aggs
<1>4. (\A a \in InShards(P.shards[n]) : IsAgg(a)) /\ (\A a \in InFlush(P.flush[n], P.merged[n]) : IsAgg(a))
  BY <1>1, <1>2 DEF InShards, InFlush
<1>5. \A a \in InQueue(P.inflight[n]) : IsAgg(a)
  BY <1>3 DEF InQueue
<1>. QED BY <1>4, <1>5 DEF NodeHeldAt

LEMMA HeldAggs ==
    ASSUME NEW P, Placed(P)
    PROVE  (\A a \in HeldAt(P) : IsAgg(a)) /\ \A n \in Node : \A a \in LocalHeld(P, n) : IsAgg(a)
<1>1. \A n \in Node : \A a \in NodeHeldAt(P, n) : IsAgg(a)
  BY NodeHeldAggs DEF Placed
<1>2. (\A a \in P.cumulative : IsAgg(a)) /\ (\A a \in P.lost : IsAgg(a))
  BY DEF Placed, Table, Aggs
<1>. QED BY <1>1, <1>2 DEF HeldAt, LocalHeld

(***************************************************************************)
(* A step of one node: what it does there, to the totals and to what was   *)
(* lost is what it does overall.                                           *)
(***************************************************************************)
LEMMA LocalAccounted ==
    ASSUME NEW P, NEW Q, Placed(P), Placed(Q), NEW n \in Node, Elsewhere(P, Q, n),
           NEW k, IsMeasure(k), NEW e \in Int, LocalMass(k, Q, n) = LocalMass(k, P, n) + e
    PROVE  AccountedAt(k, Q) = AccountedAt(k, P) + e
<1>. DEFINE f == [m \in Node |-> NodeMassAt(k, P, m)]
            g == [m \in Node |-> NodeMassAt(k, Q, m)]
<1>1. \A m \in Node : NodeMassAt(k, P, m) \in Int /\ NodeMassAt(k, Q, m) \in Int
  BY NodeMassNat DEF Placed
<1>2. \A m \in Node : m # n => NodeMassAt(k, Q, m) = NodeMassAt(k, P, m)
  BY DEF Elsewhere, NodeMassAt
<1>3. /\ DOMAIN f = Node /\ DOMAIN g = DOMAIN f /\ IsFiniteSet(DOMAIN f) /\ n \in DOMAIN f
      /\ \A m \in DOMAIN f : f[m] \in Int /\ g[m] \in Int
      /\ \A m \in DOMAIN f : m # n => g[m] = f[m]
      /\ f[n] = NodeMassAt(k, P, n) /\ g[n] = NodeMassAt(k, Q, n)
  BY <1>1, <1>2, Constants
<1>. HIDE DEF f, g
<1>4. SumFunction(g) = SumFunction(f) + (g[n] - f[n])
  BY <1>3, SumChange
<1>5. SumFunction(f) \in Int
  BY <1>3, SumInt
<1>6. /\ Mass(k, P.cumulative) \in Int /\ Mass(k, P.lost) \in Int
      /\ Mass(k, Q.cumulative) \in Int /\ Mass(k, Q.lost) \in Int
  BY MassInt DEF Placed, Table
<1>7. AccountedAt(k, P) = SumFunction(f) + Mass(k, P.cumulative) + Mass(k, P.lost)
  BY DEF AccountedAt, f
<1>8. AccountedAt(k, Q) = SumFunction(g) + Mass(k, Q.cumulative) + Mass(k, Q.lost)
  BY DEF AccountedAt, g
<1>9. f[n] + Mass(k, P.cumulative) + Mass(k, P.lost) + e = g[n] + Mass(k, Q.cumulative) + Mass(k, Q.lost)
  BY <1>3 DEF LocalMass
<1>10. f[n] \in Int /\ g[n] \in Int
  BY <1>3
<1>. QED BY <1>4, <1>5, <1>6, <1>7, <1>8, <1>9, <1>10

LEMMA LocalSpans ==
    ASSUME NEW P, NEW Q, Placed(P), Placed(Q), NEW n \in Node, Elsewhere(P, Q, n), NEW Y,
           \A y \in Y : IsAgg(y), Spans(LocalHeld(Q, n), LocalHeld(P, n) \cup Y)
    PROVE  Spans(HeldAt(Q), HeldAt(P) \cup Y)
<1>. DEFINE R == UNION {NodeHeldAt(P, m) : m \in Node \ {n}}
<1>1. \A m \in Node \ {n} : NodeHeldAt(Q, m) = NodeHeldAt(P, m)
  BY DEF Elsewhere, NodeHeldAt
<1>2. HeldAt(P) = R \cup LocalHeld(P, n)
  BY DEF HeldAt, LocalHeld
<1>3. HeldAt(Q) = R \cup LocalHeld(Q, n)
  <2>1. HeldAt(Q) = (Q.cumulative \cup Q.lost) \cup (UNION {NodeHeldAt(Q, m) : m \in Node})
    BY DEF HeldAt
  <2>2. UNION {NodeHeldAt(Q, m) : m \in Node} = R \cup NodeHeldAt(Q, n)
    BY <1>1
  <2>. HIDE DEF R
  <2>. QED BY <2>1, <2>2 DEF LocalHeld
<1>4. (\A a \in HeldAt(P) : IsAgg(a)) /\ \A a \in HeldAt(Q) : IsAgg(a)
  BY HeldAggs
<1>. HIDE DEF R
<1>5. Spans(R, R)
  BY <1>2, <1>4, SpansItself
<1>6. Spans(R \cup LocalHeld(Q, n), R \cup (LocalHeld(P, n) \cup Y))
  BY <1>5, SpansUnion
<1>7. R \cup (LocalHeld(P, n) \cup Y) = HeldAt(P) \cup Y
  BY <1>2
<1>. QED BY <1>3, <1>6, <1>7

OtherShards(sh, i) == UNION {sh[j] : j \in (0 .. Shards - 1) \ {i}}

LEMMA InShardsSplit ==
    ASSUME NEW sh, NEW i \in 0 .. Shards - 1
    PROVE  InShards(sh) = OtherShards(sh, i) \cup sh[i]
  BY DEF InShards, OtherShards

LEMMA InQueueAppend ==
    ASSUME NEW q, NEW n, IsQueue(q, n), NEW b, IsBatch(b, n)
    PROVE  InQueue(Append(q, b)) = InQueue(q) \cup Contents(b.series)
<1>. DEFINE r == Append(q, b)
            m == Len(q) + 1
<1>1. /\ DOMAIN r = DOMAIN q \cup {m} /\ m \notin DOMAIN q /\ r[m] = b
      /\ \A j \in DOMAIN q : r[j] = q[j]
  BY QueueAppend
<1>. HIDE DEF r, m
<1>2. InQueue(r) = InQueue(q) \cup Contents(b.series)
  BY <1>1 DEF InQueue
<1>. QED BY <1>2 DEF r

LEMMA InQueueTail ==
    ASSUME NEW q, NEW n, IsQueue(q, n), q # <<>>
    PROVE  InQueue(q) = Contents(Head(q).series) \cup InQueue(Tail(q))
<1>. DEFINE r == Tail(q)
            b == Head(q)
<1>1. /\ b = q[1] /\ 1 \in DOMAIN q
      /\ \A j \in DOMAIN q : j # 1 => j - 1 \in DOMAIN r
      /\ \A j \in DOMAIN r : j + 1 \in DOMAIN q /\ r[j] = q[j + 1]
      /\ \A j \in DOMAIN q : j \in Int
  <2>1. \A j \in DOMAIN q : j \in Int
    BY QueueIs
  <2>. QED BY <2>1, QueueTail
<1>2. \A j \in DOMAIN q : j # 1 => j - 1 \in DOMAIN r /\ r[j - 1] = q[j]
  <2>. SUFFICES ASSUME NEW j \in DOMAIN q, j # 1 PROVE j - 1 \in DOMAIN r /\ r[j - 1] = q[j]
    OBVIOUS
  <2>1. j - 1 \in DOMAIN r /\ (j - 1) + 1 = j
    BY <1>1
  <2>2. r[j - 1] = q[(j - 1) + 1]
    BY <1>1, <2>1
  <2>. QED BY <2>1, <2>2
<1>. HIDE DEF r, b
<1>3. InQueue(q) \subseteq Contents(b.series) \cup InQueue(r)
  <2>. SUFFICES ASSUME NEW j \in DOMAIN q, NEW a \in Contents(q[j].series)
                PROVE  a \in Contents(b.series) \cup InQueue(r)
    BY DEF InQueue
  <2>1. CASE j = 1
    BY <1>1, <2>1
  <2>2. CASE j # 1
    <3>1. j - 1 \in DOMAIN r /\ a \in Contents(r[j - 1].series)
      BY <1>2, <2>2
    <3>. QED BY <3>1 DEF InQueue
  <2>. QED BY <2>1, <2>2
<1>4. Contents(b.series) \subseteq InQueue(q)
  BY <1>1 DEF InQueue
<1>5. InQueue(r) \subseteq InQueue(q)
  <2>. SUFFICES ASSUME NEW j \in DOMAIN r, NEW a \in Contents(r[j].series) PROVE a \in InQueue(q)
    BY DEF InQueue
  <2>1. j + 1 \in DOMAIN q /\ a \in Contents(q[j + 1].series)
    BY <1>1
  <2>. QED BY <2>1 DEF InQueue
<1>. QED BY <1>3, <1>4, <1>5 DEF r, b

LEMMA PlacedStep ==
    ASSUME NEW P, NEW Q, Placed(P), NEW n \in Node, Elsewhere(P, Q, n), NodePlaced(Q, n),
           Table(Q.cumulative), Table(Q.lost)
    PROVE  Placed(Q)
  BY DEF Placed, Elsewhere, NodePlaced

(***************************************************************************)
(* A step that takes observations along without adding to them.            *)
(***************************************************************************)
Moves(P, Q) ==
    /\ Placed(Q)
    /\ \A k : IsMeasure(k) => AccountedAt(k, Q) = AccountedAt(k, P)
    /\ Spans(HeldAt(Q), HeldAt(P))

LEMMA LocalMoves ==
    ASSUME NEW P, NEW Q, Placed(P), NEW n \in Node, Elsewhere(P, Q, n), NodePlaced(Q, n),
           Table(Q.cumulative), Table(Q.lost),
           \A k : IsMeasure(k) => LocalMass(k, Q, n) = LocalMass(k, P, n),
           Spans(LocalHeld(Q, n), LocalHeld(P, n))
    PROVE  Moves(P, Q)
<1>1. Placed(Q)
  BY PlacedStep
<1>2. ASSUME NEW k, IsMeasure(k) PROVE AccountedAt(k, Q) = AccountedAt(k, P)
  <2>1. LocalMass(k, Q, n) = LocalMass(k, P, n) /\ LocalMass(k, P, n) \in Int
    <3>1. NodeMassAt(k, P, n) \in Int /\ Mass(k, P.cumulative) \in Int /\ Mass(k, P.lost) \in Int
      BY <1>2, NodeMassNat, MassInt DEF Placed, Table
    <3>. QED BY <1>2, <3>1 DEF LocalMass
  <2>2. LocalMass(k, Q, n) = LocalMass(k, P, n) + 0 /\ 0 \in Int
    BY <2>1
  <2>3. AccountedAt(k, Q) = AccountedAt(k, P) + 0
    BY <1>1, <1>2, <2>2, LocalAccounted
  <2>4. AccountedAt(k, P) \in Int
    <3>. DEFINE f == [m \in Node |-> NodeMassAt(k, P, m)]
    <3>1. IsFiniteSet(DOMAIN f) /\ \A m \in DOMAIN f : f[m] \in Int
      BY <1>2, NodeMassNat, Constants DEF Placed
    <3>. HIDE DEF f
    <3>2. SumFunction(f) \in Int
      BY <3>1, SumInt
    <3>3. Mass(k, P.cumulative) \in Int /\ Mass(k, P.lost) \in Int
      BY <1>2, MassInt DEF Placed, Table
    <3>. QED BY <3>2, <3>3 DEF AccountedAt, f
  <2>. QED BY <2>3, <2>4
<1>3. Spans(HeldAt(Q), HeldAt(P))
  <2>1. LocalHeld(P, n) \cup {} = LocalHeld(P, n) /\ HeldAt(P) \cup {} = HeldAt(P)
    OBVIOUS
  <2>2. Spans(LocalHeld(Q, n), LocalHeld(P, n) \cup {})
    BY <2>1
  <2>3. \A y \in {} : IsAgg(y)
    OBVIOUS
  <2>4. Spans(HeldAt(Q), HeldAt(P) \cup {})
    BY <1>1, <2>2, <2>3, LocalSpans
  <2>. QED BY <2>1, <2>4
<1>. QED BY <1>1, <1>2, <1>3 DEF Moves

(***************************************************************************)
(* Recorder.record, where the observation is admitted.                     *)
(***************************************************************************)
LEMMA RecordMoves ==
    ASSUME NEW P, NEW Q, Placed(P), NEW n \in Node, Elsewhere(P, Q, n), NEW i \in 0 .. Shards - 1,
           NEW o, IsObs(o),
           Q.shards[n] = [P.shards[n] EXCEPT ![i] =
                            Put(@, Observe(GetOrCreate(@, o.metric, o.labels, o.kind), o.value, o.truthy))],
           Q.flush[n] = P.flush[n], Q.merged[n] = P.merged[n], Q.inflight[n] = P.inflight[n],
           Q.cumulative = P.cumulative, Q.lost = P.lost
    PROVE  /\ Placed(Q)
           /\ \A k : IsMeasure(k) => AccountedAt(k, Q) = AccountedAt(k, P) + PartOf(k, o)
           /\ Spans(HeldAt(Q), HeldAt(P) \cup {Single(o)})
<1>. DEFINE sh == P.shards[n]
            th == Q.shards[n]
            m == sh[i]
            c == Observe(GetOrCreate(m, o.metric, o.labels, o.kind), o.value, o.truthy)
<1>1. IsShards(sh) /\ Table(m)
  BY DEF Placed, NodePlaced, IsShards
<1>2. /\ Table(Put(m, c))
      /\ \A k : IsMeasure(k) => PartOf(k, o) \in Nat /\ Mass(k, Put(m, c)) = Mass(k, m) + PartOf(k, o)
      /\ Spans(Put(m, c), m \cup {Single(o)})
  <2>1. c = Observe(GetOrCreate(m, o.metric, o.labels, o.kind), o.value, o.truthy)
    OBVIOUS
  <2>. HIDE DEF m, c
  <2>. QED BY <1>1, <2>1, RecordedIs
<1>3. th = [sh EXCEPT ![i] = Put(m, c)]
  OBVIOUS
<1>. HIDE DEF c
<1>4. Shape(th, 0 .. Shards - 1) /\ th[i] = Put(m, c) /\ \A j \in 0 .. Shards - 1 : j # i => th[j] = sh[j]
  <2>1. Shape(sh, 0 .. Shards - 1)
    BY <1>1 DEF IsShards
  <2>. HIDE DEF sh, th, m
  <2>. QED BY <1>3, <2>1 DEF Shape
<1>. HIDE DEF sh, th, m
<1>5. IsShards(th)
  BY <1>1, <1>2, <1>4 DEF IsShards
<1>6. NodePlaced(Q, n) /\ Table(Q.cumulative) /\ Table(Q.lost)
  BY <1>5 DEF Placed, NodePlaced, th
<1>7. Placed(Q)
  BY <1>6, PlacedStep
<1>8. ASSUME NEW k, IsMeasure(k) PROVE AccountedAt(k, Q) = AccountedAt(k, P) + PartOf(k, o)
  <2>1. ShardMass(k, th) = ShardMass(k, sh) + (Mass(k, th[i]) - Mass(k, sh[i]))
    BY <1>1, <1>4, <1>5, <1>8, ShardMassChange
  <2>2. Mass(k, th[i]) = Mass(k, sh[i]) + PartOf(k, o) /\ Mass(k, sh[i]) \in Int /\ PartOf(k, o) \in Int
    BY <1>1, <1>2, <1>4, <1>8, MassInt DEF m, Table
  <2>3. /\ ShardMass(k, sh) \in Int /\ Mass(k, P.merged[n]) \in Int /\ QueueMass(k, P.inflight[n]) \in Int
        /\ Mass(k, P.cumulative) \in Int /\ Mass(k, P.lost) \in Int
    BY <1>8, NodeMassNat, MassInt DEF Placed, Table, sh
  <2>4. ShardMass(k, th) = ShardMass(k, sh) + PartOf(k, o)
    BY <2>1, <2>2, <2>3
  <2>5. LocalMass(k, Q, n) = LocalMass(k, P, n) + PartOf(k, o)
    <3>1. NodeMassAt(k, Q, n) = NodeMassAt(k, P, n) + PartOf(k, o)
      <4>. DEFINE x == IF P.flush[n] > 0 THEN Mass(k, P.merged[n]) ELSE 0
      <4>1. x \in Int
        BY <2>3
      <4>2. NodeMassAt(k, Q, n) = ShardMass(k, th) + x + QueueMass(k, P.inflight[n])
        BY DEF NodeMassAt, th
      <4>3. NodeMassAt(k, P, n) = ShardMass(k, sh) + x + QueueMass(k, P.inflight[n])
        BY DEF NodeMassAt, sh
      <4>. HIDE DEF x
      <4>. QED BY <2>2, <2>3, <2>4, <4>1, <4>2, <4>3
    <3>2. NodeMassAt(k, P, n) \in Int
      BY <1>8, NodeMassNat DEF Placed
    <3>. QED BY <2>2, <2>3, <3>1, <3>2 DEF LocalMass
  <2>. QED BY <1>7, <1>8, <2>2, <2>5, LocalAccounted
<1>9. Spans(HeldAt(Q), HeldAt(P) \cup {Single(o)})
  <2>. DEFINE S == OtherShards(sh, i)
              F == InFlush(P.flush[n], P.merged[n]) \cup InQueue(P.inflight[n])
              C == P.cumulative \cup P.lost
              Y == {Single(o)}
              R == C \cup (S \cup F)
  <2>1. InShards(sh) = S \cup m
    BY InShardsSplit DEF m
  <2>2. InShards(th) = S \cup th[i]
    <3>1. OtherShards(th, i) = OtherShards(sh, i)
      BY <1>4 DEF OtherShards
    <3>. QED BY <3>1, InShardsSplit
  <2>3. NodeHeldAt(P, n) = InShards(sh) \cup F /\ NodeHeldAt(Q, n) = InShards(th) \cup F
    BY DEF NodeHeldAt, sh, th
  <2>4. LocalHeld(P, n) = C \cup NodeHeldAt(P, n) /\ LocalHeld(Q, n) = C \cup NodeHeldAt(Q, n)
    BY DEF LocalHeld
  <2>. HIDE DEF S, F, C
  <2>5. LocalHeld(P, n) = R \cup m /\ LocalHeld(Q, n) = R \cup th[i]
    BY <2>1, <2>2, <2>3, <2>4
  <2>6. \A a \in LocalHeld(P, n) : IsAgg(a)
    BY HeldAggs
  <2>. HIDE DEF R
  <2>7. Spans(R, R)
    BY <2>5, <2>6, SpansItself
  <2>8. Spans(th[i], m \cup Y)
    BY <1>2, <1>4
  <2>9. Spans(R \cup th[i], R \cup (m \cup Y))
    BY <2>7, <2>8, SpansUnion
  <2>10. R \cup (m \cup Y) = LocalHeld(P, n) \cup Y
    BY <2>5
  <2>11. Spans(LocalHeld(Q, n), LocalHeld(P, n) \cup Y)
    BY <2>5, <2>9, <2>10
  <2>12. \A y \in Y : IsAgg(y)
    BY SingleIs
  <2>. HIDE DEF Y
  <2>13. Spans(HeldAt(Q), HeldAt(P) \cup Y)
    BY <1>7, <2>11, <2>12, LocalSpans
  <2>. QED BY <2>13 DEF Y
<1>. QED BY <1>7, <1>8, <1>9

(***************************************************************************)
(* Flush at one shard.                                                     *)
(***************************************************************************)
Visited(P, Q, n) ==
    /\ Elsewhere(P, Q, n) /\ P.flush[n] < Shards /\ Q.flush[n] = P.flush[n] + 1
    /\ Q.shards[n] = [P.shards[n] EXCEPT ![P.flush[n]] = ResetAll(@)]
    /\ Q.merged[n] = AbsorbAll(IF P.flush[n] = 0 THEN ResetAll(P.merged[n]) ELSE P.merged[n],
                               {a \in P.shards[n][P.flush[n]] : a.count > 0})
    /\ Q.inflight[n] = P.inflight[n] /\ Q.cumulative = P.cumulative /\ Q.lost = P.lost

LEMMA FlushShardMoves ==
    ASSUME NEW P, NEW Q, Placed(P), NEW n \in Node, Visited(P, Q, n)
    PROVE  Moves(P, Q) /\ \A a \in Q.shards[n][P.flush[n]] : a.count = 0
<1>. USE DEF Visited
<1>. DEFINE i == P.flush[n]
            sh == P.shards[n]
            th == Q.shards[n]
            m == sh[i]
            S == {a \in m : a.count > 0}
            base == IF i = 0 THEN ResetAll(P.merged[n]) ELSE P.merged[n]
            M == Q.merged[n]
<1>1. i \in 0 .. Shards - 1 /\ i + 1 \in 0 .. Shards /\ i + 1 > 0 /\ i \in Nat
  BY Constants DEF Placed, NodePlaced
<1>2. NodePlaced(P, n) /\ IsShards(sh) /\ Table(m) /\ Table(P.merged[n])
  BY <1>1 DEF Placed, NodePlaced, IsShards
<1>3. Table(ResetAll(m)) /\ (\A a \in ResetAll(m) : a.count = 0) /\ \A k : IsMeasure(k) => Mass(k, ResetAll(m)) = 0
  <2>. HIDE DEF m
  <2>. QED BY <1>2, ResetAllIs
<1>4. /\ Table(base)
      /\ i = 0 => (\A a \in base : a.count = 0) /\ \A k : IsMeasure(k) => Mass(k, base) = 0
      /\ i # 0 => base = P.merged[n]
  BY <1>2, ResetAllIs
<1>5. M = AbsorbAll(base, S)
  OBVIOUS
<1>6. Aggs(S) /\ \A k : IsMeasure(k) => Mass(k, S) = Mass(k, m)
  <2>1. Aggs(m) /\ S = {a \in m : a.count > 0}
    BY <1>2 DEF Table
  <2>. HIDE DEF m, S
  <2>2. ASSUME NEW k, IsMeasure(k) PROVE Aggs(S) /\ Mass(k, S) = Mass(k, m)
    BY <2>1, <2>2, MassCounted
  <2>3. Aggs(S)
    <3>1. IsFiniteSet(S)
      BY <2>1, FS_Subset DEF Aggs
    <3>. QED BY <2>1, <3>1 DEF Aggs
  <2>. QED BY <2>2, <2>3
<1>7. th = [sh EXCEPT ![i] = ResetAll(m)]
  OBVIOUS
<1>. HIDE DEF base, S, M, m
<1>8. /\ Table(M) /\ \A k : IsMeasure(k) => Mass(k, M) = Mass(k, base) + Mass(k, S)
      /\ Spans(M, base \cup S)
  BY <1>4, <1>5, <1>6, AbsorbAllIs
<1>9. Shape(th, 0 .. Shards - 1) /\ th[i] = ResetAll(m) /\ \A j \in 0 .. Shards - 1 : j # i => th[j] = sh[j]
  <2>1. Shape(sh, 0 .. Shards - 1)
    BY <1>2 DEF IsShards
  <2>. HIDE DEF sh, th, i
  <2>. QED BY <1>1, <1>7, <2>1 DEF Shape
<1>s. m = sh[i]
  BY DEF m
<1>. HIDE DEF sh, th
<1>10. IsShards(th)
  BY <1>2, <1>3, <1>9 DEF IsShards
<1>11. NodePlaced(Q, n) /\ Table(Q.cumulative) /\ Table(Q.lost)
  BY <1>1, <1>8, <1>10 DEF Placed, NodePlaced, th, M
<1>12. ASSUME NEW k, IsMeasure(k) PROVE LocalMass(k, Q, n) = LocalMass(k, P, n)
  <2>. DEFINE x == IF i > 0 THEN Mass(k, P.merged[n]) ELSE 0
  <2>1. ShardMass(k, th) = ShardMass(k, sh) + (Mass(k, th[i]) - Mass(k, sh[i]))
    BY <1>1, <1>2, <1>9, <1>10, <1>12, ShardMassChange
  <2>2. Mass(k, th[i]) = 0 /\ Mass(k, m) \in Int
    BY <1>2, <1>3, <1>9, <1>12, MassInt DEF Table
  <2>3. /\ ShardMass(k, sh) \in Int /\ Mass(k, P.merged[n]) \in Int /\ QueueMass(k, P.inflight[n]) \in Int
        /\ Mass(k, P.cumulative) \in Int /\ Mass(k, P.lost) \in Int /\ Mass(k, base) \in Int
    BY <1>4, <1>12, NodeMassNat, MassInt DEF Placed, Table, sh
  <2>4. x = Mass(k, base)
    BY <1>1, <1>4, <1>12, <2>3
  <2>5. Mass(k, M) = x + Mass(k, m)
    BY <1>6, <1>8, <1>12, <2>4
  <2>6. NodeMassAt(k, P, n) = ShardMass(k, sh) + x + QueueMass(k, P.inflight[n])
    BY DEF NodeMassAt, sh
  <2>7. NodeMassAt(k, Q, n) = ShardMass(k, th) + Mass(k, M) + QueueMass(k, P.inflight[n])
    BY <1>1 DEF NodeMassAt, th, M
  <2>8. x \in Int
    BY <2>3, <2>4
  <2>. HIDE DEF x
  <2>9. NodeMassAt(k, Q, n) = NodeMassAt(k, P, n)
    BY <1>s, <2>1, <2>2, <2>3, <2>5, <2>6, <2>7, <2>8
  <2>. QED BY <2>9 DEF LocalMass
<1>13. Spans(LocalHeld(Q, n), LocalHeld(P, n))
  <2>. DEFINE O == OtherShards(sh, i)
              F == InFlush(i, P.merged[n])
              C == (P.cumulative \cup P.lost) \cup InQueue(P.inflight[n])
              R == C \cup O
              Z == ResetAll(m)
              B == IF i = 0 THEN base ELSE {}
  <2>1. InShards(sh) = O \cup m
    BY <1>1, <1>s, InShardsSplit
  <2>2. InShards(th) = O \cup Z
    <3>1. OtherShards(th, i) = OtherShards(sh, i)
      BY <1>9 DEF OtherShards
    <3>. QED BY <1>1, <1>9, <3>1, InShardsSplit
  <2>3. LocalHeld(P, n) = (P.cumulative \cup P.lost) \cup (InShards(sh) \cup (F \cup InQueue(P.inflight[n])))
    BY DEF LocalHeld, NodeHeldAt, sh
  <2>4. LocalHeld(Q, n) = (P.cumulative \cup P.lost) \cup (InShards(th) \cup (M \cup InQueue(P.inflight[n])))
    <3>1. InFlush(Q.flush[n], Q.merged[n]) = M
      BY <1>1 DEF InFlush, M
    <3>. QED BY <3>1 DEF LocalHeld, NodeHeldAt, th
  <2>5. base \subseteq F \cup B /\ F \subseteq base
    BY <1>1, <1>4 DEF InFlush
  <2>6. \A b \in B : ~Timed(b)
    <3>1. i = 0 => \A b \in base : b.count = 0
      BY <1>4
    <3>. QED BY <3>1 DEF Timed
  <2>7. \A z \in Z : ~Timed(z)
    BY <1>3 DEF Timed
  <2>8. S \subseteq m /\ \A a \in m : Timed(a) => a \in S
    BY DEF S, Timed
  <2>9. \A a \in LocalHeld(P, n) : IsAgg(a)
    BY HeldAggs
  <2>. HIDE DEF O, F, Z, B
  <2>10. LocalHeld(P, n) = R \cup (F \cup m) /\ LocalHeld(Q, n) = (R \cup M) \cup Z
    BY <2>1, <2>2, <2>3, <2>4
  <2>. HIDE DEF R
  <2>11. Spans(R, R)
    BY <2>9, <2>10, SpansItself
  <2>12. Spans(R \cup M, R \cup (base \cup S))
    BY <1>8, <2>11, SpansUnion
  <2>13. Spans(R \cup M, R \cup (F \cup m))
    <3>. DEFINE U == R \cup (base \cup S)
                V == R \cup (F \cup m)
    <3>1. \A a \in U : Timed(a) => a \in V
      BY <2>5, <2>6, <2>8
    <3>2. \A a \in V : Timed(a) => a \in U
      BY <2>5, <2>8
    <3>3. Spans(R \cup M, U)
      BY <2>12
    <3>. HIDE DEF U, V
    <3>4. Spans(R \cup M, V)
      BY <3>1, <3>2, <3>3 DEF Spans, Covers, Within
    <3>. QED BY <3>4 DEF V
  <2>14. Spans((R \cup M) \cup Z, R \cup (F \cup m))
    BY <2>7, <2>13, SpansIdle
  <2>. QED BY <2>10, <2>14
<1>14. Moves(P, Q)
  BY <1>11, <1>12, <1>13, LocalMoves
<1>. QED BY <1>3, <1>9, <1>14 DEF th

(***************************************************************************)
(* The end of Flush: the batch is queued, or lost at a full queue.         *)
(***************************************************************************)
LEMMA EncodedBatch ==
    ASSUME NEW mg, Table(mg), NEW D, D = {EncodeDelta(a) : a \in {b \in mg : b.count > 0}}
    PROVE  /\ Shipped(D)
           /\ \A k : IsMeasure(k) => Mass(k, Contents(D)) = Mass(k, mg)
           /\ Spans(Contents(D), mg)
<1>. DEFINE S == {b \in mg : b.count > 0}
<1>1. Table(S) /\ (\A a \in S : a.count > 0) /\ \A k : IsMeasure(k) => Mass(k, S) = Mass(k, mg)
  <2>1. \A k : IsMeasure(k) => Mass(k, S) = Mass(k, mg)
    BY MassCounted DEF Table
  <2>2. Table(S)
    <3>1. IsFiniteSet(S)
      BY FS_Subset DEF Table, Aggs
    <3>. QED BY <3>1 DEF Table, Aggs, Unique
  <2>. QED BY <2>1, <2>2
<1>2. D = Encoded(S)
  BY DEF Encoded
<1>3. S \subseteq mg /\ \A a \in mg : Timed(a) => a \in S
  BY DEF Timed
<1>. HIDE DEF S
<1>4. /\ Shipped(D) /\ \A k : IsMeasure(k) => Mass(k, Contents(D)) = Mass(k, S)
      /\ Spans(Contents(D), S)
  BY <1>1, <1>2, EncodedIs
<1>5. Spans(Contents(D), mg)
  BY <1>3, <1>4 DEF Spans, Covers, Within
<1>. QED BY <1>1, <1>4, <1>5

Queued(r, q, b, n) ==
    /\ IsQueue(r, n) /\ InQueue(r) = InQueue(q) \cup Contents(b.series)
    /\ \A k : IsMeasure(k) => QueueMass(k, r) = QueueMass(k, q) + Mass(k, Contents(b.series))

LEMMA QueuedIs ==
    ASSUME NEW q, NEW n, IsQueue(q, n), NEW b, IsBatch(b, n)
    PROVE  Queued(Append(q, b), q, b, n)
  BY QueueAppend, InQueueAppend DEF Queued

LEMMA FlushEndMoves ==
    ASSUME NEW P, NEW Q, Placed(P), NEW n \in Node, Elsewhere(P, Q, n), P.flush[n] = Shards,
           Q.flush[n] = 0, Q.shards[n] = P.shards[n], Q.merged[n] = P.merged[n],
           NEW b, b.node = n, b.dropped \in Nat,
           b.series = {EncodeDelta(a) : a \in {c \in P.merged[n] : c.count > 0}},
           Q.cumulative = P.cumulative,
           \/ Q.inflight[n] = Append(P.inflight[n], b) /\ Q.lost = P.lost
           \/ Q.inflight[n] = P.inflight[n] /\ Q.lost = AbsorbAll(P.lost, Contents(b.series))
    PROVE  Moves(P, Q) /\ IsBatch(b, n)
<1>. DEFINE mg == P.merged[n]
            D == b.series
            q == P.inflight[n]
<1>1. Table(mg) /\ IsQueue(q, n) /\ IsShards(P.shards[n]) /\ Shards > 0 /\ Shards \in Nat
  BY Constants DEF Placed, NodePlaced
<1>2. /\ Shipped(D) /\ \A k : IsMeasure(k) => Mass(k, Contents(D)) = Mass(k, mg)
      /\ Spans(Contents(D), mg)
  <2>1. D = {EncodeDelta(a) : a \in {c \in mg : c.count > 0}}
    OBVIOUS
  <2>. HIDE DEF D, mg
  <2>. QED BY <1>1, <2>1, EncodedBatch
<1>3. IsBatch(b, n)
  BY <1>2 DEF IsBatch
<1>4. Table(Contents(D))
  <2>. HIDE DEF D
  <2>. QED BY <1>2, ContentsTable
<1>5. 0 \in 0 .. Shards
  BY <1>1
<1>. DEFINE sh == P.shards[n]
            O == (P.cumulative \cup InShards(sh))
<1>6. LocalHeld(P, n) = (P.cumulative \cup P.lost) \cup (InShards(sh) \cup (mg \cup InQueue(q)))
  <2>1. InFlush(P.flush[n], P.merged[n]) = mg
    BY <1>1 DEF InFlush
  <2>. QED BY <2>1 DEF LocalHeld, NodeHeldAt
<1>7. LocalHeld(Q, n) = (P.cumulative \cup Q.lost) \cup (InShards(sh) \cup InQueue(Q.inflight[n]))
  <2>1. InFlush(Q.flush[n], Q.merged[n]) = {}
    BY DEF InFlush
  <2>. QED BY <2>1 DEF LocalHeld, NodeHeldAt
<1>8. \A a \in LocalHeld(P, n) : IsAgg(a)
  BY HeldAggs
<1>9. ASSUME NEW k, IsMeasure(k)
      PROVE  /\ LocalMass(k, P, n) = ShardMass(k, sh) + Mass(k, mg) + QueueMass(k, q) + Mass(k, P.cumulative) + Mass(k, P.lost)
             /\ LocalMass(k, Q, n) = ShardMass(k, sh) + QueueMass(k, Q.inflight[n]) + Mass(k, P.cumulative) + Mass(k, Q.lost)
             /\ ShardMass(k, sh) \in Int /\ Mass(k, mg) \in Int /\ QueueMass(k, q) \in Int
             /\ Mass(k, P.cumulative) \in Int /\ Mass(k, P.lost) \in Int
  <2>1. /\ ShardMass(k, sh) \in Int /\ Mass(k, mg) \in Int /\ QueueMass(k, q) \in Int
        /\ Mass(k, P.cumulative) \in Int /\ Mass(k, P.lost) \in Int
    BY <1>9, NodeMassNat, MassInt DEF Placed, Table
  <2>2. NodeMassAt(k, P, n) = ShardMass(k, sh) + Mass(k, mg) + QueueMass(k, q)
    BY <1>1 DEF NodeMassAt
  <2>3. NodeMassAt(k, Q, n) = ShardMass(k, sh) + 0 + QueueMass(k, Q.inflight[n])
    BY DEF NodeMassAt
  <2>4. ShardMass(k, sh) + 0 = ShardMass(k, sh)
    BY <2>1
  <2>. HIDE DEF sh, mg, q
  <2>. QED BY <2>1, <2>2, <2>3, <2>4 DEF LocalMass
<1>10. CASE Q.inflight[n] = Append(P.inflight[n], b) /\ Q.lost = P.lost
  <2>1. /\ IsQueue(Q.inflight[n], n) /\ InQueue(Q.inflight[n]) = InQueue(q) \cup Contents(D)
        /\ \A k : IsMeasure(k) => QueueMass(k, Q.inflight[n]) = QueueMass(k, q) + Mass(k, Contents(D))
    <3>1. Q.inflight[n] = Append(q, b) /\ D = b.series
      BY <1>10
    <3>. HIDE DEF q, D
    <3>2. Queued(Append(q, b), q, b, n)
      BY <1>1, <1>3, QueuedIs
    <3>. QED BY <3>1, <3>2 DEF Queued
  <2>2. NodePlaced(Q, n) /\ Table(Q.cumulative) /\ Table(Q.lost)
    BY <1>1, <1>5, <1>10, <2>1 DEF NodePlaced, Placed
  <2>3. ASSUME NEW k, IsMeasure(k) PROVE LocalMass(k, Q, n) = LocalMass(k, P, n)
    <3>1. QueueMass(k, Q.inflight[n]) = QueueMass(k, q) + Mass(k, mg)
      BY <1>2, <2>1, <2>3
    <3>. HIDE DEF sh, mg, q
    <3>. QED BY <1>9, <1>10, <2>3, <3>1
  <2>4. Spans(LocalHeld(Q, n), LocalHeld(P, n))
    <3>. DEFINE R == (P.cumulative \cup P.lost) \cup (InShards(sh) \cup InQueue(q))
    <3>. HIDE DEF sh, mg, q, D
    <3>1. LocalHeld(P, n) = R \cup mg /\ LocalHeld(Q, n) = R \cup Contents(D)
      BY <1>6, <1>7, <1>10, <2>1
    <3>. HIDE DEF R
    <3>2. Spans(R, R)
      BY <1>8, <3>1, SpansItself
    <3>. QED BY <1>2, <3>1, <3>2, SpansUnion
  <2>5. Moves(P, Q)
    BY <2>2, <2>3, <2>4, LocalMoves
  <2>. QED BY <1>3, <2>5
<1>11. CASE Q.inflight[n] = P.inflight[n] /\ Q.lost = AbsorbAll(P.lost, Contents(b.series))
  <2>1. /\ Table(Q.lost) /\ \A k : IsMeasure(k) => Mass(k, Q.lost) = Mass(k, P.lost) + Mass(k, Contents(D))
        /\ Spans(Q.lost, P.lost \cup Contents(D))
    <3>. DEFINE C == Contents(D)
                L == P.lost
    <3>1. Q.lost = AbsorbAll(L, C) /\ Table(L) /\ Aggs(C)
      BY <1>4, <1>11 DEF Placed, Table
    <3>. HIDE DEF C, L
    <3>2. /\ Table(AbsorbAll(L, C))
          /\ \A k : IsMeasure(k) => Mass(k, AbsorbAll(L, C)) = Mass(k, L) + Mass(k, C)
          /\ Spans(AbsorbAll(L, C), L \cup C)
      BY <3>1, AbsorbAllIs, Zenon
    <3>. QED BY <3>1, <3>2 DEF C, L
  <2>2. NodePlaced(Q, n) /\ Table(Q.cumulative) /\ Table(Q.lost)
    BY <1>1, <1>5, <1>11, <2>1 DEF NodePlaced, Placed
  <2>3. ASSUME NEW k, IsMeasure(k) PROVE LocalMass(k, Q, n) = LocalMass(k, P, n)
    <3>1. Mass(k, Q.lost) = Mass(k, P.lost) + Mass(k, mg)
      BY <1>2, <2>1, <2>3
    <3>. HIDE DEF sh, mg
    <3>. QED BY <1>9, <1>11, <2>3, <3>1
  <2>4. Spans(LocalHeld(Q, n), LocalHeld(P, n))
    <3>. DEFINE R == P.cumulative \cup (InShards(sh) \cup InQueue(q))
    <3>0. Q.inflight[n] = q
      BY <1>11
    <3>. HIDE DEF sh, mg, q, D
    <3>1. LocalHeld(P, n) = R \cup (P.lost \cup mg) /\ LocalHeld(Q, n) = R \cup Q.lost
      BY <1>6, <1>7, <3>0
    <3>. HIDE DEF R
    <3>2. Spans(R, R) /\ Spans(P.lost, P.lost)
      BY <1>8, <3>1, SpansItself
    <3>3. Spans(P.lost \cup Contents(D), P.lost \cup mg)
      BY <1>2, <3>2, SpansUnion
    <3>4. Spans(Q.lost, P.lost \cup mg)
      <4>1. \A x \in Q.lost \cup ((P.lost \cup Contents(D)) \cup (P.lost \cup mg)) : IsAgg(x)
        BY <1>4, <1>8, <2>1, <3>1 DEF Table, Aggs
      <4>. QED BY <2>1, <3>3, <4>1, SpansTrans
    <3>. QED BY <3>1, <3>2, <3>4, SpansUnion
  <2>5. Moves(P, Q)
    BY <2>2, <2>3, <2>4, LocalMoves
  <2>. QED BY <1>3, <2>5
<1>. QED BY <1>10, <1>11

(***************************************************************************)
(* Ingest, or the refusal of a late batch: what the totals do not take of  *)
(* it is lost.                                                             *)
(***************************************************************************)
Dequeued(r, q, b, n) ==
    /\ IsQueue(r, n) /\ IsBatch(b, n) /\ InQueue(q) = Contents(b.series) \cup InQueue(r)
    /\ \A k : IsMeasure(k) => QueueMass(k, q) = Mass(k, Contents(b.series)) + QueueMass(k, r)

LEMMA DequeuedIs ==
    ASSUME NEW q, NEW n, IsQueue(q, n), q # <<>>
    PROVE  Dequeued(Tail(q), q, Head(q), n)
  BY QueueTail, InQueueTail DEF Dequeued

LEMMA DequeueMoves ==
    ASSUME NEW P, NEW Q, Placed(P), NEW n \in Node, Elsewhere(P, Q, n),
           Q.flush[n] = P.flush[n], Q.shards[n] = P.shards[n], Q.merged[n] = P.merged[n],
           NEW b, Dequeued(Q.inflight[n], P.inflight[n], b, n),
           NEW E, E \subseteq b.series, Table(Q.cumulative),
           \A k : IsMeasure(k) => Mass(k, Q.cumulative) = Mass(k, P.cumulative) + Mass(k, Contents(E)),
           Spans(Q.cumulative, P.cumulative \cup Contents(E)),
           Q.lost = AbsorbAll(P.lost, Contents(b.series \ E))
    PROVE  Moves(P, Q)
<1>. DEFINE D == b.series
            C == Contents(D)
            X == Contents(E)
            Y == Contents(D \ E)
            L == P.lost
            q == P.inflight[n]
            r == Q.inflight[n]
            N == InShards(P.shards[n]) \cup InFlush(P.flush[n], P.merged[n])
<1>1. Shipped(D) /\ IsQueue(r, n) /\ InQueue(q) = C \cup InQueue(r)
  BY DEF Dequeued, IsBatch
<1>2. Shipped(D \ E)
  <2>. HIDE DEF D
  <2>. QED BY <1>1, FS_Subset DEF Shipped
<1>3. Table(C) /\ Table(Y)
  <2>. HIDE DEF D
  <2>. QED BY <1>1, <1>2, ContentsTable
<1>4. ASSUME NEW k, IsMeasure(k)
      PROVE  Mass(k, C) = Mass(k, X) + Mass(k, Y) /\ QueueMass(k, q) = Mass(k, C) + QueueMass(k, r)
  <2>1. E \subseteq D /\ QueueMass(k, q) = Mass(k, C) + QueueMass(k, r)
    BY <1>4 DEF Dequeued
  <2>. HIDE DEF D
  <2>2. Mass(k, C) = Mass(k, X) + Mass(k, Y)
    BY <1>1, <1>4, <2>1, ContentsSplit
  <2>. QED BY <2>1, <2>2
<1>5. C = X \cup Y
  <2>1. E \subseteq D
    OBVIOUS
  <2>. HIDE DEF D
  <2>. QED BY <2>1 DEF Contents
<1>6. Q.lost = AbsorbAll(L, Y) /\ Table(L)
  BY DEF Placed
<1>7. /\ Table(AbsorbAll(L, Y))
      /\ \A k : IsMeasure(k) => Mass(k, AbsorbAll(L, Y)) = Mass(k, L) + Mass(k, Y)
      /\ Spans(AbsorbAll(L, Y), L \cup Y)
  <2>1. Aggs(Y)
    BY <1>3 DEF Table
  <2>. HIDE DEF L, Y
  <2>. QED BY <1>6, <2>1, AbsorbAllIs, Zenon
<1>8. NodePlaced(Q, n) /\ Table(Q.cumulative) /\ Table(Q.lost)
  BY <1>1, <1>6, <1>7 DEF NodePlaced, Placed
<1>9. ASSUME NEW k, IsMeasure(k) PROVE LocalMass(k, Q, n) = LocalMass(k, P, n)
  <2>. DEFINE s == ShardMass(k, P.shards[n])
              f == IF P.flush[n] > 0 THEN Mass(k, P.merged[n]) ELSE 0
  <2>1. /\ s \in Int /\ QueueMass(k, q) \in Int /\ Mass(k, P.merged[n]) \in Int
        /\ Mass(k, P.cumulative) \in Int /\ Mass(k, L) \in Int
    BY <1>9, NodeMassNat, MassInt DEF Placed, Table
  <2>2. f \in Int
    BY <2>1
  <2>3. QueueMass(k, r) \in Int /\ Mass(k, X) \in Int /\ Mass(k, Y) \in Int
    <3>1. Shipped(E) /\ Table(X)
      <4>1. E \subseteq D
        OBVIOUS
      <4>. HIDE DEF D
      <4>2. Shipped(E)
        BY <1>1, <4>1, FS_Subset DEF Shipped
      <4>. QED BY <4>2, ContentsTable
    <3>. HIDE DEF X, Y, r
    <3>. QED BY <1>1, <1>3, <1>9, <3>1, QueueMassNat, MassInt DEF Table
  <2>4. NodeMassAt(k, P, n) = s + f + QueueMass(k, q)
    BY DEF NodeMassAt
  <2>5. NodeMassAt(k, Q, n) = s + f + QueueMass(k, r)
    BY DEF NodeMassAt
  <2>6. QueueMass(k, q) = (Mass(k, X) + Mass(k, Y)) + QueueMass(k, r)
    BY <1>4, <1>9
  <2>7. Mass(k, Q.lost) = Mass(k, L) + Mass(k, Y)
    BY <1>6, <1>7, <1>9
  <2>8. Mass(k, Q.cumulative) = Mass(k, P.cumulative) + Mass(k, X)
    BY <1>9
  <2>9. /\ LocalMass(k, P, n) = s + f + QueueMass(k, q) + Mass(k, P.cumulative) + Mass(k, L)
        /\ LocalMass(k, Q, n) = s + f + QueueMass(k, r) + Mass(k, Q.cumulative) + Mass(k, Q.lost)
    BY <2>4, <2>5 DEF LocalMass
  <2>. HIDE DEF s, f, q, r, X, Y, L
  <2>. QED BY <2>1, <2>2, <2>3, <2>6, <2>7, <2>8, <2>9
<1>10. Spans(LocalHeld(Q, n), LocalHeld(P, n))
  <2>1. LocalHeld(P, n) = (P.cumulative \cup L) \cup (N \cup InQueue(q))
    BY DEF LocalHeld, NodeHeldAt
  <2>2. LocalHeld(Q, n) = (Q.cumulative \cup Q.lost) \cup (N \cup InQueue(r))
    BY DEF LocalHeld, NodeHeldAt
  <2>3. \A a \in LocalHeld(P, n) : IsAgg(a)
    BY HeldAggs
  <2>4. Spans(Q.cumulative, P.cumulative \cup X) /\ Spans(Q.lost, L \cup Y)
    BY <1>6, <1>7
  <2>. DEFINE R == N \cup InQueue(r)
  <2>. HIDE DEF N, q, r, L, X, Y, C
  <2>5. LocalHeld(P, n) = R \cup ((P.cumulative \cup X) \cup (L \cup Y))
    BY <1>1, <1>5, <2>1
  <2>6. LocalHeld(Q, n) = R \cup (Q.cumulative \cup Q.lost)
    BY <2>2
  <2>. HIDE DEF R
  <2>7. Spans(R, R)
    BY <2>3, <2>5, SpansItself
  <2>8. Spans(Q.cumulative \cup Q.lost, (P.cumulative \cup X) \cup (L \cup Y))
    BY <2>4, SpansUnion
  <2>. DEFINE A == Q.cumulative \cup Q.lost
              B == (P.cumulative \cup X) \cup (L \cup Y)
  <2>9. Spans(A, B) /\ LocalHeld(P, n) = R \cup B /\ LocalHeld(Q, n) = R \cup A
    BY <2>5, <2>6, <2>8
  <2>. HIDE DEF A, B
  <2>10. Spans(R \cup A, R \cup B)
    BY <2>7, <2>9, SpansUnion
  <2>. QED BY <2>9, <2>10
<1>. QED BY <1>8, <1>9, <1>10, LocalMoves

LEMMA DeliverMoves ==
    ASSUME NEW P, NEW Q, Placed(P), NEW n \in Node, Elsewhere(P, Q, n),
           Q.flush[n] = P.flush[n], Q.shards[n] = P.shards[n], Q.merged[n] = P.merged[n],
           NEW b, Dequeued(Q.inflight[n], P.inflight[n], b, n),
           NEW s, NEW t, IngestedAs(t, s, b), P.cumulative = s.cumulative, Q.cumulative = t.cumulative,
           Q.lost = AbsorbAll(P.lost, Contents({d \in b.series : Find(t.cumulative, d.metric, d.tags) = {}}))
    PROVE  Moves(P, Q)
<1>. DEFINE E == Kept(t.cumulative, b.series)
<1>1. E \subseteq b.series
  BY DEF Kept
<1>2. {d \in b.series : Find(t.cumulative, d.metric, d.tags) = {}} = b.series \ E
  BY NamesIs DEF Kept
<1>3. Q.lost = AbsorbAll(P.lost, Contents(b.series \ E))
  BY <1>2
<1>. HIDE DEF E
<1>4. /\ Table(Q.cumulative)
      /\ \A k : IsMeasure(k) => Mass(k, Q.cumulative) = Mass(k, P.cumulative) + Mass(k, Contents(E))
      /\ Spans(Q.cumulative, P.cumulative \cup Contents(E))
  BY DEF IngestedAs, E
<1>. QED BY <1>1, <1>3, <1>4, DequeueMoves

LEMMA LateMoves ==
    ASSUME NEW P, NEW Q, Placed(P), NEW n \in Node, Elsewhere(P, Q, n),
           Q.flush[n] = P.flush[n], Q.shards[n] = P.shards[n], Q.merged[n] = P.merged[n],
           NEW b, Dequeued(Q.inflight[n], P.inflight[n], b, n), Q.cumulative = P.cumulative,
           Q.lost = AbsorbAll(P.lost, Contents(b.series))
    PROVE  Moves(P, Q)
<1>. DEFINE E == {}
<1>1. E \subseteq b.series /\ b.series \ E = b.series /\ Contents(E) = {} /\ \A k : Mass(k, Contents(E)) = 0
  BY ContentsEmpty, MassEmpty
<1>. HIDE DEF E
<1>2. Q.lost = AbsorbAll(P.lost, Contents(b.series \ E))
  BY <1>1
<1>3. Table(Q.cumulative) /\ \A a \in P.cumulative : IsAgg(a)
  BY DEF Placed, Table, Aggs
<1>4. ASSUME NEW k, IsMeasure(k) PROVE Mass(k, Q.cumulative) = Mass(k, P.cumulative) + Mass(k, Contents(E))
  <2>1. Mass(k, P.cumulative) \in Int
    BY <1>4, MassInt DEF Placed, Table
  <2>. QED BY <1>1, <2>1
<1>5. Spans(Q.cumulative, P.cumulative \cup Contents(E))
  <2>1. P.cumulative \cup Contents(E) = P.cumulative
    BY <1>1
  <2>. QED BY <1>3, <2>1, SpansItself
<1>. QED BY <1>1, <1>2, <1>3, <1>4, <1>5, DequeueMoves

(***************************************************************************)
(* The observations admitted, as a table of how often each was.            *)
(***************************************************************************)
Counted(A) == IsFiniteSet(DOMAIN A) /\ \A x \in DOMAIN A : IsObs(x[2]) /\ A[x] \in Nat \ {0}

ObservedIn(A, k) == SumFunction([x \in DOMAIN A |-> A[x] * PartOf(k, x[2])])

SeenIn(A) == {Single(x[2]) : x \in DOMAIN A}

Agrees(P, A) ==
    /\ Placed(P) /\ Counted(A)
    /\ \A k : IsMeasure(k) => AccountedAt(k, P) = ObservedIn(A, k)
    /\ Spans(HeldAt(P), SeenIn(A))

LEMMA ObsNat ==
    ASSUME NEW o, IsObs(o), NEW k, IsMeasure(k)
    PROVE  PartOf(k, o) \in Nat
<1>1. Table({})
  BY FS_EmptySet DEF Table, Aggs, Unique
<1>. DEFINE m == {}
<1>. HIDE DEF m
<1>2. Table(m)
  BY <1>1 DEF m
<1>. DEFINE c == Observe(GetOrCreate(m, o.metric, o.labels, o.kind), o.value, o.truthy)
<1>3. c = Observe(GetOrCreate(m, o.metric, o.labels, o.kind), o.value, o.truthy)
  OBVIOUS
<1>. HIDE DEF c
<1>. QED BY <1>2, <1>3, RecordedIs

LEMMA TermNat ==
    ASSUME NEW A, Counted(A), NEW k, IsMeasure(k)
    PROVE  \A x \in DOMAIN A : A[x] * PartOf(k, x[2]) \in Nat /\ PartOf(k, x[2]) \in Nat /\ A[x] \in Nat
<1>. SUFFICES ASSUME NEW x \in DOMAIN A
              PROVE  A[x] * PartOf(k, x[2]) \in Nat /\ PartOf(k, x[2]) \in Nat /\ A[x] \in Nat
  OBVIOUS
<1>1. A[x] \in Nat /\ PartOf(k, x[2]) \in Nat
  BY ObsNat DEF Counted
<1>. QED BY <1>1

LEMMA ObservedNat ==
    ASSUME NEW A, Counted(A), NEW k, IsMeasure(k)
    PROVE  ObservedIn(A, k) \in Nat
<1>. DEFINE f == [x \in DOMAIN A |-> A[x] * PartOf(k, x[2])]
<1>1. IsFiniteSet(DOMAIN f) /\ \A x \in DOMAIN f : f[x] \in Nat
  BY TermNat DEF Counted
<1>. HIDE DEF f
<1>2. SumFunction(f) \in Nat
  BY <1>1, SumNat
<1>. QED BY <1>2 DEF f, ObservedIn

LEMMA AdmitIs ==
    ASSUME NEW A, Counted(A), NEW n, NEW o, IsObs(o), NEW B, B = Set(A, <<n, o>>, At(A, <<n, o>>, 0) + 1)
    PROVE  /\ Counted(B) /\ SeenIn(B) = SeenIn(A) \cup {Single(o)}
           /\ \A k : IsMeasure(k) => ObservedIn(B, k) = ObservedIn(A, k) + PartOf(k, o)
<1>. DEFINE x == <<n, o>>
            c == At(A, x, 0)
<1>1. x[2] = o
  OBVIOUS
<1>2. c \in Nat /\ (x \in DOMAIN A => c = A[x]) /\ (x \notin DOMAIN A => c = 0)
  BY DEF At, Counted
<1>3. B = Set(A, x, c + 1)
  OBVIOUS
<1>. HIDE DEF x, c
<1>4. /\ DOMAIN B = DOMAIN A \cup {x} /\ B[x] = c + 1
      /\ \A y \in DOMAIN A : y # x => B[y] = A[y]
  BY <1>3 DEF Set
<1>5. Counted(B)
  <2>1. IsFiniteSet(DOMAIN B)
    BY <1>4, FS_AddElement DEF Counted
  <2>2. c + 1 \in Nat \ {0}
    BY <1>2
  <2>. QED BY <1>1, <1>4, <2>1, <2>2 DEF Counted
<1>6. SeenIn(B) = SeenIn(A) \cup {Single(o)}
  BY <1>1, <1>4 DEF SeenIn
<1>7. ASSUME NEW k, IsMeasure(k) PROVE ObservedIn(B, k) = ObservedIn(A, k) + PartOf(k, o)
  <2>. DEFINE f == [y \in DOMAIN A |-> A[y] * PartOf(k, y[2])]
              g == [y \in DOMAIN B |-> B[y] * PartOf(k, y[2])]
              p == PartOf(k, o)
  <2>1. p \in Nat
    BY <1>7, ObsNat
  <2>2. (\A y \in DOMAIN A : f[y] \in Int) /\ (\A y \in DOMAIN B : g[y] \in Int)
    BY <1>5, <1>7, TermNat
  <2>3. /\ DOMAIN f = DOMAIN A /\ DOMAIN g = DOMAIN A \cup {x} /\ g[x] = (c + 1) * p
        /\ \A y \in DOMAIN A : y # x => g[y] = f[y]
    BY <1>1, <1>4
  <2>4. x \in DOMAIN A => f[x] = c * p
    BY <1>1, <1>2
  <2>5. IsFiniteSet(DOMAIN f)
    BY DEF Counted
  <2>. HIDE DEF f, g, p
  <2>6. (c + 1) * p = c * p + p /\ 0 * p = 0 /\ c * p \in Int
    BY <1>2, <2>1
  <2>7. SumFunction(f) \in Int
    BY <2>2, <2>3, <2>5, SumInt
  <2>8. SumFunction(g) = SumFunction(f) + p
    <3>1. CASE x \in DOMAIN A
      <4>1. DOMAIN g = DOMAIN f /\ x \in DOMAIN f /\ \A y \in DOMAIN f : f[y] \in Int /\ g[y] \in Int
        BY <1>4, <2>2, <2>3, <3>1
      <4>2. SumFunction(g) = SumFunction(f) + (g[x] - f[x])
        BY <2>3, <2>5, <4>1, SumChange
      <4>3. g[x] - f[x] = p
        BY <2>1, <2>3, <2>4, <2>6, <3>1
      <4>. QED BY <4>2, <4>3
    <3>2. CASE x \notin DOMAIN A
      <4>1. g[x] = p
        BY <1>2, <2>1, <2>3, <2>6, <3>2
      <4>2. /\ x \notin DOMAIN f /\ DOMAIN g = DOMAIN f \cup {x} /\ g[x] \in Int
            /\ \A y \in DOMAIN f : f[y] \in Int /\ g[y] = f[y]
        BY <2>1, <2>2, <2>3, <3>2, <4>1
      <4>. QED BY <2>5, <4>1, <4>2, SumExtend
    <3>. QED BY <3>1, <3>2
  <2>. QED BY <2>8 DEF f, g, p, ObservedIn
<1>. QED BY <1>5, <1>6, <1>7

LEMMA SeenAggs ==
    ASSUME NEW A, Counted(A)
    PROVE  \A a \in SeenIn(A) : IsAgg(a)
  BY SingleIs DEF Counted, SeenIn

LEMMA MovesAgrees ==
    ASSUME NEW P, NEW Q, NEW A, Agrees(P, A), Moves(P, Q)
    PROVE  Agrees(Q, A)
<1>1. Placed(Q) /\ Counted(A) /\ Spans(HeldAt(Q), HeldAt(P)) /\ Spans(HeldAt(P), SeenIn(A)) /\ Placed(P)
  BY DEF Agrees, Moves
<1>2. \A a \in HeldAt(Q) \cup (HeldAt(P) \cup SeenIn(A)) : IsAgg(a)
  BY <1>1, HeldAggs, SeenAggs
<1>3. Spans(HeldAt(Q), SeenIn(A))
  BY <1>1, <1>2, SpansTrans
<1>4. \A k : IsMeasure(k) => AccountedAt(k, Q) = ObservedIn(A, k)
  BY DEF Agrees, Moves
<1>. QED BY <1>1, <1>3, <1>4 DEF Agrees

LEMMA RecordAgrees ==
    ASSUME NEW P, NEW Q, NEW A, NEW B, Agrees(P, A), NEW n \in Node, Elsewhere(P, Q, n),
           NEW i \in 0 .. Shards - 1, NEW o, IsObs(o),
           Q.shards[n] = [P.shards[n] EXCEPT ![i] =
                            Put(@, Observe(GetOrCreate(@, o.metric, o.labels, o.kind), o.value, o.truthy))],
           Q.flush[n] = P.flush[n], Q.merged[n] = P.merged[n], Q.inflight[n] = P.inflight[n],
           Q.cumulative = P.cumulative, Q.lost = P.lost,
           B = Set(A, <<n, o>>, At(A, <<n, o>>, 0) + 1)
    PROVE  Agrees(Q, B)
<1>1. Placed(P) /\ Counted(A)
  BY DEF Agrees
<1>2. /\ Placed(Q)
      /\ \A k : IsMeasure(k) => AccountedAt(k, Q) = AccountedAt(k, P) + PartOf(k, o)
      /\ Spans(HeldAt(Q), HeldAt(P) \cup {Single(o)})
  BY <1>1, RecordMoves
<1>3. /\ Counted(B) /\ SeenIn(B) = SeenIn(A) \cup {Single(o)}
      /\ \A k : IsMeasure(k) => ObservedIn(B, k) = ObservedIn(A, k) + PartOf(k, o)
  BY <1>1, AdmitIs
<1>4. \A k : IsMeasure(k) => AccountedAt(k, Q) = ObservedIn(B, k)
  BY <1>2, <1>3 DEF Agrees
<1>5. Spans(HeldAt(Q), SeenIn(B))
  <2>. DEFINE Y == {Single(o)}
  <2>1. \A y \in Y : IsAgg(y)
    BY SingleIs
  <2>2. Spans(HeldAt(Q), HeldAt(P) \cup Y) /\ SeenIn(B) = SeenIn(A) \cup Y
    BY <1>2, <1>3
  <2>. HIDE DEF Y
  <2>3. Spans(Y, Y)
    BY <2>1, SpansItself
  <2>4. Spans(HeldAt(P) \cup Y, SeenIn(A) \cup Y)
    BY <2>3, SpansUnion DEF Agrees
  <2>5. \A a \in HeldAt(Q) \cup ((HeldAt(P) \cup Y) \cup (SeenIn(A) \cup Y)) : IsAgg(a)
    BY <1>1, <1>2, <2>1, HeldAggs, SeenAggs
  <2>6. Spans(HeldAt(Q), SeenIn(A) \cup Y)
    BY <2>2, <2>4, <2>5, SpansTrans
  <2>. QED BY <2>2, <2>6
<1>. QED BY <1>2, <1>3, <1>4, <1>5 DEF Agrees

(***************************************************************************)
(* The inductive invariant.  Agrees says what SamplesConserved does, for   *)
(* every measure and together with the form of what holds observations;    *)
(* Ending, that the last flush leaves nothing behind and nothing comes     *)
(* after it; Counts, Losses and Told, what each counter of losses stands   *)
(* for while a batch that will raise it may still be on its way.           *)
(***************************************************************************)
AllCount == [among |-> "all", metric |-> "", labels |-> "", of |-> "count", slot |-> 0]

Shaped ==
    /\ Shape(todo, VU)
    /\ Shape(shards, Node) /\ Shape(dropped, Node) /\ Shape(rr, Node) /\ Shape(phase, Node)
    /\ Shape(flush, Node) /\ Shape(merged, Node) /\ Shape(inflight, Node)

Flags(f) == IsFiniteSet(DOMAIN f) /\ \A m \in DOMAIN f : f[m] \in Nat \ {0}

Counters(s) ==
    StoreShape(s) /\ s.droppedSeries \in Nat /\ s.droppedLate \in Nat /\ Flags(s.nodeDropped)

Typed ==
    /\ \A v \in VU : IsTodo(todo[v])
    /\ \A n \in Node : dropped[n] \in Nat /\ rr[n] \in Nat
    /\ Counters(store) /\ made \in Nat /\ unheard \in BOOLEAN

Counts == (\A n \in Node : dropped[n] = 0) => made = ObservedIn(admitted, AllCount)

Emptied(m) == \A a \in m : a.count = 0

Ending(n) ==
    /\ phase[n] # "running" => \A v \in VU : Host[v] = n => todo[v] = <<>>
    /\ phase[n] = "last" => flush[n] > 0 /\ \A i \in 0 .. Shards - 1 : i < flush[n] => Emptied(shards[n][i])
    /\ phase[n] = "done" => flush[n] = 0 /\ \A i \in 0 .. Shards - 1 : Emptied(shards[n][i])

Losses == ~unheard /\ store.droppedSeries = 0 /\ store.droppedLate = 0 => lost = {}

Told(n) ==
    phase[n] = "done" /\ dropped[n] > 0 /\ ~unheard =>
        n \in DOMAIN store.nodeDropped \/ \E j \in DOMAIN inflight[n] : inflight[n][j].dropped > 0

RecorderInv ==
    /\ Shaped /\ Typed /\ Agrees(Places, admitted) /\ Counts /\ Losses
    /\ \A n \in Node : Ending(n) /\ Told(n)

LEMMA ShardOfIs ==
    ASSUME NEW o, NEW hint \in Nat
    PROVE  ShardOf(o, hint) \in 0 .. Shards - 1
<1>1. /\ Shards \in Nat \ {0} /\ TrendShards \in Nat \ {0} /\ TrendShards <= Shards
  BY Constants
<1>2. hint % Shards \in 0 .. Shards - 1
  BY <1>1
<1>3. hint % TrendShards \in 0 .. TrendShards - 1
  BY <1>1
<1>4. hint % TrendShards \in 0 .. Shards - 1
  BY <1>1, <1>3
<1>. QED BY <1>2, <1>4 DEF ShardOf

LEMMA AllCountIs ==
    /\ IsMeasure(AllCount)
    /\ \A o : PartOf(AllCount, o) = IF o.metric = "vus" THEN 0 ELSE 1
    /\ \A a : Part(AllCount, a) = IF a.metric = "vus" THEN 0 ELSE a.count
  BY DEF AllCount, IsMeasure, PartOf, Part, Measured

(***************************************************************************)
(* Recorder.record, wherever it is called from.                            *)
(***************************************************************************)
LEMMA RecordAtIs ==
    ASSUME RecorderInv, NEW n \in Node, NEW o, IsObs(o), NEW hint \in Nat, RecordAt(n, o, hint),
           UNCHANGED <<flush, merged, inflight, store, lost>>
    PROVE  /\ Shape(shards', Node) /\ Shape(dropped', Node)
           /\ \A m \in Node : m # n => shards'[m] = shards[m] /\ dropped'[m] = dropped[m]
           /\ dropped'[n] \in Nat /\ Agrees(Places', admitted')
           /\ \/ dropped'[n] > 0 /\ ObservedIn(admitted', AllCount) = ObservedIn(admitted, AllCount)
              \/ /\ dropped'[n] = dropped[n]
                 /\ ObservedIn(admitted', AllCount) = ObservedIn(admitted, AllCount) + PartOf(AllCount, o)
<1>. DEFINE i == ShardOf(o, hint)
            P == Places
            Q == Places'
<1>0. Shaped /\ Typed /\ Agrees(P, admitted)
  BY DEF RecorderInv
<1>1. /\ P.shards = shards /\ P.flush = flush /\ P.merged = merged /\ P.inflight = inflight
      /\ P.cumulative = store.cumulative /\ P.lost = lost
  BY DEF Places
<1>2. /\ Q.shards = shards' /\ Q.flush = flush /\ Q.merged = merged /\ Q.inflight = inflight
      /\ Q.cumulative = store.cumulative /\ Q.lost = lost
  BY DEF Places
<1>3. i \in 0 .. Shards - 1
  BY ShardOfIs
<1>4. \/ dropped' = [dropped EXCEPT ![n] = @ + 1] /\ shards' = shards /\ admitted' = admitted
      \/ /\ shards' = [shards EXCEPT ![n][i] =
                    Put(@, Observe(GetOrCreate(@, o.metric, o.labels, o.kind), o.value, o.truthy))]
         /\ admitted' = Set(admitted, <<n, o>>, At(admitted, <<n, o>>, 0) + 1)
         /\ dropped' = dropped
  BY DEF RecordAt
<1>. HIDE DEF i
<1>5. CASE dropped' = [dropped EXCEPT ![n] = @ + 1] /\ shards' = shards /\ admitted' = admitted
  <2>1. Shape(dropped', Node) /\ dropped'[n] = dropped[n] + 1 /\ \A m \in Node : m # n => dropped'[m] = dropped[m]
    <3>. DEFINE e == dropped[n] + 1
    <3>1. dropped' = [dropped EXCEPT ![n] = e] /\ Shape(dropped, Node)
      BY <1>0, <1>5 DEF Shaped
    <3>. HIDE DEF e
    <3>2. Shape(dropped', Node) /\ dropped'[n] = e /\ \A m \in Node : m # n => dropped'[m] = dropped[m]
      BY <3>1 DEF Shape
    <3>. QED BY <3>2 DEF e
  <2>2. dropped'[n] \in Nat /\ dropped'[n] > 0
    BY <1>0, <2>1 DEF Typed
  <2>3. Q = P
    BY <1>5 DEF Places
  <2>. QED BY <1>0, <1>5, <2>1, <2>2, <2>3 DEF Shaped
<1>6. CASE /\ shards' = [shards EXCEPT ![n][i] =
                    Put(@, Observe(GetOrCreate(@, o.metric, o.labels, o.kind), o.value, o.truthy))]
           /\ admitted' = Set(admitted, <<n, o>>, At(admitted, <<n, o>>, 0) + 1)
           /\ dropped' = dropped
  <2>. DEFINE th == [shards[n] EXCEPT ![i] =
                    Put(@, Observe(GetOrCreate(@, o.metric, o.labels, o.kind), o.value, o.truthy))]
  <2>1. shards' = [shards EXCEPT ![n] = th] /\ Shape(shards, Node)
    BY <1>0, <1>6 DEF Shaped
  <2>t. th = [shards[n] EXCEPT ![i] =
                    Put(@, Observe(GetOrCreate(@, o.metric, o.labels, o.kind), o.value, o.truthy))]
    OBVIOUS
  <2>. HIDE DEF th
  <2>2. Shape(shards', Node) /\ shards'[n] = th /\ \A m \in Node : m # n => shards'[m] = shards[m]
    BY <2>1 DEF Shape
  <2>. HIDE DEF P, Q
  <2>3. Elsewhere(P, Q, n)
    BY <1>1, <1>2, <2>2 DEF Elsewhere
  <2>4. Q.shards[n] = [P.shards[n] EXCEPT ![i] =
                    Put(@, Observe(GetOrCreate(@, o.metric, o.labels, o.kind), o.value, o.truthy))]
    BY <1>1, <1>2, <2>2, <2>t
  <2>5. /\ Q.flush[n] = P.flush[n] /\ Q.merged[n] = P.merged[n] /\ Q.inflight[n] = P.inflight[n]
        /\ Q.cumulative = P.cumulative /\ Q.lost = P.lost
    BY <1>1, <1>2
  <2>. DEFINE A == admitted
              B == admitted'
  <2>6. B = Set(A, <<n, o>>, At(A, <<n, o>>, 0) + 1) /\ Agrees(P, A) /\ Counted(A)
    BY <1>0, <1>6 DEF Agrees
  <2>. HIDE DEF A, B
  <2>7. Agrees(Q, B)
    BY <1>3, <2>3, <2>4, <2>5, <2>6, RecordAgrees
  <2>8. ObservedIn(B, AllCount) = ObservedIn(A, AllCount) + PartOf(AllCount, o)
    BY <2>6, AdmitIs, AllCountIs
  <2>. QED BY <1>0, <1>6, <2>2, <2>7, <2>8 DEF A, B, Q, Shaped, Typed
<1>. QED BY <1>4, <1>5, <1>6

LEMMA TodoIs ==
    ASSUME NEW q, IsTodo(q), q # <<>>
    PROVE  IsTodo(Tail(q)) /\ IsSample(Head(q))
<1>1. PICK S : q \in Seq(S) /\ \A o \in S : IsSample(o)
  BY DEF IsTodo
<1>2. Tail(q) \in Seq(S) /\ Head(q) \in S
  BY <1>1, HeadTailProperties
<1>. QED BY <1>1, <1>2 DEF IsTodo

LEMMA RecordStep ==
    ASSUME RecorderInv, NEW v \in VU, Record(v)
    PROVE  RecorderInv'
<1>. DEFINE n == Host[v]
            o == Head(todo[v])
<1>0. n \in Node /\ Hint[v] \in Nat /\ Shaped /\ Typed /\ Counts /\ Losses /\ Agrees(Places, admitted)
  BY Constants DEF RecorderInv
<1>1. UNCHANGED <<rr, phase, flush, merged, flushes, inflight, store, lost, unheard>> /\ todo[v] # <<>>
  BY DEF Record
<1>2. IsTodo(Tail(todo[v])) /\ IsSample(o)
  BY <1>0, <1>1, TodoIs DEF Typed
<1>3. Shape(todo', VU) /\ todo'[v] = Tail(todo[v]) /\ \A w \in VU : w # v => todo'[w] = todo[w]
  <2>. DEFINE e == Tail(todo[v])
  <2>1. todo' = [todo EXCEPT ![v] = e] /\ Shape(todo, VU)
    BY <1>0 DEF Record, Shaped
  <2>. HIDE DEF e
  <2>2. Shape(todo', VU) /\ todo'[v] = e /\ \A w \in VU : w # v => todo'[w] = todo[w]
    BY <2>1 DEF Shape
  <2>. QED BY <2>2 DEF e
<1>4. \A w \in VU : IsTodo(todo'[w])
  BY <1>0, <1>2, <1>3 DEF Typed
<1>5. phase[n] = "running"
  BY <1>0, <1>1 DEF RecorderInv, Ending
<1>6. \/ /\ o.kind = "failure" /\ UNCHANGED <<shards, dropped, made, admitted>>
      \/ /\ o.kind # "failure" /\ RecordAt(n, o, Hint[v]) /\ made' = made + 1
  BY DEF Record
<1>. HIDE DEF n, o
<1>7. CASE o.kind = "failure" /\ UNCHANGED <<shards, dropped, made, admitted>>
  <2>1. Shaped' /\ Typed'
    BY <1>0, <1>1, <1>3, <1>4, <1>7 DEF Shaped, Typed
  <2>2. Agrees(Places, admitted)' /\ Counts' /\ Losses'
    <3>1. Places' = Places
      BY <1>1, <1>7 DEF Places
    <3>2. Counts' /\ Losses'
      BY <1>0, <1>1, <1>7 DEF Counts, Losses
    <3>. QED BY <1>0, <1>7, <3>1, <3>2
  <2>3. ASSUME NEW m \in Node PROVE Ending(m)' /\ Told(m)'
    <3>1. Ending(m) /\ Told(m)
      BY DEF RecorderInv
    <3>2. Told(m)'
      BY <1>1, <1>7, <3>1 DEF Told
    <3>3. Ending(m)'
      BY <1>1, <1>3, <1>5, <1>7, <3>1 DEF Ending, n
    <3>. QED BY <3>2, <3>3
  <2>. QED BY <2>1, <2>2, <2>3 DEF RecorderInv
<1>8. CASE o.kind # "failure" /\ RecordAt(n, o, Hint[v]) /\ made' = made + 1
  <2>0. IsObs(o) /\ o.kind # "gauge" /\ o.metric # "vus"
    BY <1>2, <1>8 DEF IsSample, IsObs, Kinded
  <2>1. /\ Shape(shards', Node) /\ Shape(dropped', Node)
        /\ \A m \in Node : m # n => shards'[m] = shards[m] /\ dropped'[m] = dropped[m]
        /\ dropped'[n] \in Nat /\ Agrees(Places', admitted')
        /\ \/ dropped'[n] > 0 /\ ObservedIn(admitted', AllCount) = ObservedIn(admitted, AllCount)
           \/ /\ dropped'[n] = dropped[n]
              /\ ObservedIn(admitted', AllCount) = ObservedIn(admitted, AllCount) + PartOf(AllCount, o)
    BY <1>0, <1>1, <1>8, <2>0, RecordAtIs
  <2>2. Shaped' /\ Typed'
    <3>1. \A m \in Node : dropped'[m] \in Nat
      BY <1>0, <2>1 DEF Typed
    <3>. QED BY <1>0, <1>1, <1>3, <1>4, <1>8, <2>1, <3>1 DEF Shaped, Typed
  <2>3. Counts'
    <3>. SUFFICES ASSUME \A m \in Node : dropped'[m] = 0
                  PROVE  made' = ObservedIn(admitted', AllCount)
      BY DEF Counts
    <3>1. dropped'[n] = 0 /\ dropped'[n] = dropped[n] /\ ObservedIn(admitted', AllCount) = ObservedIn(admitted, AllCount) + PartOf(AllCount, o)
      BY <1>0, <2>1
    <3>2. \A m \in Node : dropped[m] = 0
      BY <2>1, <3>1
    <3>3. made = ObservedIn(admitted, AllCount) /\ PartOf(AllCount, o) = 1
      BY <1>0, <2>0, <3>2, AllCountIs DEF Counts
    <3>. QED BY <1>8, <3>1, <3>3
  <2>4. Losses'
    BY <1>0, <1>1 DEF Losses
  <2>5. ASSUME NEW m \in Node PROVE Ending(m)' /\ Told(m)'
    <3>1. Ending(m) /\ Told(m)
      BY DEF RecorderInv
    <3>2. Told(m)'
      BY <1>1, <1>5, <2>1, <3>1 DEF Told
    <3>3. Ending(m)'
      BY <1>1, <1>3, <1>5, <2>1, <3>1 DEF Ending, n
    <3>. QED BY <3>2, <3>3
  <2>. QED BY <2>1, <2>2, <2>3, <2>4, <2>5 DEF RecorderInv
<1>. QED BY <1>6, <1>7, <1>8

LEMMA ReportGaugeStep ==
    ASSUME RecorderInv, NEW n \in Node, ReportGauge(n)
    PROVE  RecorderInv'
<1>0. Shaped /\ Typed /\ Counts /\ Losses /\ Agrees(Places, admitted)
  BY DEF RecorderInv
<1>1. /\ UNCHANGED <<todo, phase, flush, merged, flushes, inflight, store, made, lost, unheard>>
      /\ phase[n] = "running" /\ rr' = [rr EXCEPT ![n] = @ + 1]
  BY DEF ReportGauge
<1>2. PICK vus \in VUReadings, sc \in {Scenario[v] : v \in {u \in VU : Host[u] = n}} :
            RecordAt(n, [metric |-> "vus", labels |-> [scenario |-> sc], kind |-> "gauge",
                         value |-> vus, truthy |-> FALSE], rr'[n])
  BY DEF ReportGauge
<1>. DEFINE o == [metric |-> "vus", labels |-> [scenario |-> sc], kind |-> "gauge",
                  value |-> vus, truthy |-> FALSE]
<1>3. o.metric = "vus" /\ o.kind = "gauge" /\ o.value = vus /\ o.truthy = FALSE /\ RecordAt(n, o, rr'[n])
  BY <1>2
<1>l. Labelled("vus", o.labels)
  BY <1>2, ScenariosNamed DEF Labelled, Get
<1>. HIDE DEF o
<1>4. IsObs(o)
  BY <1>2, <1>3, <1>l, Constants DEF IsObs, Kinded
<1>5. Shape(rr', Node) /\ \A m \in Node : rr'[m] \in Nat
  <2>. DEFINE e == rr[n] + 1
  <2>1. rr' = [rr EXCEPT ![n] = e] /\ Shape(rr, Node) /\ e \in Nat /\ \A m \in Node : rr[m] \in Nat
    BY <1>0, <1>1 DEF Typed, Shaped
  <2>. HIDE DEF e
  <2>2. Shape(rr', Node) /\ rr'[n] = e /\ \A m \in Node : m # n => rr'[m] = rr[m]
    BY <2>1 DEF Shape
  <2>. QED BY <2>1, <2>2
<1>6. /\ Shape(shards', Node) /\ Shape(dropped', Node)
      /\ \A m \in Node : m # n => shards'[m] = shards[m] /\ dropped'[m] = dropped[m]
      /\ dropped'[n] \in Nat /\ Agrees(Places', admitted')
      /\ \/ dropped'[n] > 0 /\ ObservedIn(admitted', AllCount) = ObservedIn(admitted, AllCount)
         \/ /\ dropped'[n] = dropped[n]
            /\ ObservedIn(admitted', AllCount) = ObservedIn(admitted, AllCount) + PartOf(AllCount, o)
  BY <1>1, <1>3, <1>4, <1>5, RecordAtIs
<1>7. Shaped' /\ Typed'
  <2>1. \A m \in Node : dropped'[m] \in Nat
    BY <1>0, <1>6 DEF Typed
  <2>. QED BY <1>0, <1>1, <1>5, <1>6, <2>1 DEF Shaped, Typed
<1>8. Counts'
  <2>. SUFFICES ASSUME \A m \in Node : dropped'[m] = 0
                PROVE  made' = ObservedIn(admitted', AllCount)
    BY DEF Counts
  <2>1. PartOf(AllCount, o) = 0 /\ ObservedIn(admitted, AllCount) \in Nat
    BY <1>0, <1>3, AllCountIs, ObservedNat DEF Agrees
  <2>2. ObservedIn(admitted', AllCount) = ObservedIn(admitted, AllCount)
    BY <1>6, <2>1
  <2>3. \A m \in Node : dropped[m] = 0
    BY <1>6
  <2>. QED BY <1>0, <1>1, <2>2, <2>3 DEF Counts
<1>9. Losses'
  BY <1>0, <1>1 DEF Losses
<1>10. ASSUME NEW m \in Node PROVE Ending(m)' /\ Told(m)'
  <2>1. Ending(m) /\ Told(m)
    BY DEF RecorderInv
  <2>2. Told(m)'
    BY <1>1, <1>6, <2>1 DEF Told
  <2>3. Ending(m)'
    BY <1>1, <1>6, <2>1 DEF Ending
  <2>. QED BY <2>2, <2>3
<1>. QED BY <1>6, <1>7, <1>8, <1>9, <1>10 DEF RecorderInv

LEMMA EngineReturnsStep ==
    ASSUME RecorderInv, NEW n \in Node, EngineReturns(n)
    PROVE  RecorderInv'
<1>0. Shaped /\ Typed /\ Counts /\ Losses /\ Agrees(Places, admitted)
  BY DEF RecorderInv
<1>1. /\ UNCHANGED <<todo, shards, dropped, rr, flush, merged, inflight, store, made, admitted, lost, unheard>>
      /\ (\A v \in VU : Host[v] = n => todo[v] = <<>>) /\ phase' = [phase EXCEPT ![n] = "stopping"]
  BY DEF EngineReturns
<1>2. Shape(phase', Node) /\ phase'[n] = "stopping" /\ \A m \in Node : m # n => phase'[m] = phase[m]
  BY <1>0, <1>1 DEF Shaped, Shape
<1>3. Shaped' /\ Typed'
  BY <1>0, <1>1, <1>2 DEF Shaped, Typed
<1>4. Counts' /\ Losses'
  BY <1>0, <1>1 DEF Counts, Losses
<1>5. Agrees(Places, admitted)'
  <2>1. Places' = Places
    BY <1>1 DEF Places
  <2>. QED BY <1>0, <1>1, <2>1
<1>6. ASSUME NEW m \in Node PROVE Ending(m)' /\ Told(m)'
  <2>1. Ending(m) /\ Told(m)
    BY DEF RecorderInv
  <2>2. Told(m)'
    BY <1>1, <1>2, <2>1 DEF Told
  <2>3. Ending(m)'
    BY <1>1, <1>2, <2>1 DEF Ending
  <2>. QED BY <2>2, <2>3
<1>. QED BY <1>3, <1>4, <1>5, <1>6 DEF RecorderInv

LEMMA FlushShardStep ==
    ASSUME RecorderInv, NEW n \in Node, FlushShard(n)
    PROVE  RecorderInv'
<1>. DEFINE P == Places
            Q == Places'
            i == flush[n]
<1>0. Shaped /\ Typed /\ Counts /\ Losses /\ Agrees(P, admitted) /\ Placed(P) /\ Ending(n)
  BY DEF RecorderInv, Agrees
<1>1. /\ UNCHANGED <<todo, dropped, rr, inflight, store, made, admitted, lost, unheard>>
      /\ merged' = [merged EXCEPT ![n] = Collected(n)]
      /\ shards' = [shards EXCEPT ![n][i] = ResetAll(@)]
      /\ flush' = [flush EXCEPT ![n] = @ + 1] /\ flush[n] < Shards
  BY DEF FlushShard
<1>2. /\ P.shards = shards /\ P.flush = flush /\ P.merged = merged /\ P.inflight = inflight
      /\ P.cumulative = store.cumulative /\ P.lost = lost
  BY DEF Places
<1>3. /\ Q.shards = shards' /\ Q.flush = flush' /\ Q.merged = merged' /\ Q.inflight = inflight
      /\ Q.cumulative = store.cumulative /\ Q.lost = lost
  BY <1>1 DEF Places
<1>4. Shape(merged', Node) /\ merged'[n] = Collected(n) /\ \A m \in Node : m # n => merged'[m] = merged[m]
  <2>. HIDE DEF P, Q
  <2>. QED BY <1>0, <1>1 DEF Shaped, Shape
<1>5. Shape(flush', Node) /\ flush'[n] = i + 1 /\ \A m \in Node : m # n => flush'[m] = flush[m]
  <2>. HIDE DEF P, Q
  <2>. QED BY <1>0, <1>1 DEF Shaped, Shape
<1>6. /\ Shape(shards', Node) /\ shards'[n] = [shards[n] EXCEPT ![i] = ResetAll(@)]
      /\ \A m \in Node : m # n => shards'[m] = shards[m]
  <2>. DEFINE th == [shards[n] EXCEPT ![i] = ResetAll(@)]
  <2>1. shards' = [shards EXCEPT ![n] = th] /\ Shape(shards, Node)
    BY <1>0, <1>1 DEF Shaped
  <2>. HIDE DEF th
  <2>2. Shape(shards', Node) /\ shards'[n] = th /\ \A m \in Node : m # n => shards'[m] = shards[m]
    BY <2>1 DEF Shape
  <2>. QED BY <2>2 DEF th
<1>7. Collected(n) = AbsorbAll(IF i = 0 THEN ResetAll(merged[n]) ELSE merged[n],
                               {a \in shards[n][i] : a.count > 0})
  BY DEF Collected
<1>8. IsShards(shards[n]) /\ i \in 0 .. Shards - 1 /\ i \in Nat
  <2>1. NodePlaced(P, n)
    BY <1>0 DEF Placed
  <2>2. i \in 0 .. Shards /\ IsShards(shards[n])
    BY <1>2, <2>1 DEF NodePlaced
  <2>. HIDE DEF i
  <2>3. i < Shards /\ Shards \in Nat
    BY <1>1, Constants DEF i
  <2>. QED BY <2>2, <2>3
<1>9. Moves(P, Q) /\ Emptied(shards'[n][i])
  <2>. HIDE DEF P, Q
  <2>1. Elsewhere(P, Q, n)
    BY <1>2, <1>3, <1>4, <1>5, <1>6 DEF Elsewhere
  <2>2. /\ P.flush[n] < Shards /\ Q.flush[n] = P.flush[n] + 1
        /\ Q.shards[n] = [P.shards[n] EXCEPT ![P.flush[n]] = ResetAll(@)]
        /\ Q.inflight[n] = P.inflight[n] /\ Q.cumulative = P.cumulative /\ Q.lost = P.lost
    BY <1>1, <1>2, <1>3, <1>5, <1>6
  <2>3. Q.merged[n] = AbsorbAll(IF P.flush[n] = 0 THEN ResetAll(P.merged[n]) ELSE P.merged[n],
                                {a \in P.shards[n][P.flush[n]] : a.count > 0})
    BY <1>2, <1>3, <1>4, <1>7
  <2>4. Moves(P, Q) /\ \A a \in Q.shards[n][P.flush[n]] : a.count = 0
    <3>1. Visited(P, Q, n)
      BY <2>1, <2>2, <2>3 DEF Visited
    <3>. QED BY <1>0, <3>1, FlushShardMoves
  <2>. QED BY <1>2, <1>3, <2>4 DEF Emptied
<1>10. Agrees(Q, admitted)
  <2>. DEFINE A == admitted
  <2>. HIDE DEF P, Q, A
  <2>1. Agrees(Q, A)
    BY <1>0, <1>9, MovesAgrees DEF A
  <2>. QED BY <2>1 DEF A
<1>11. \A j \in 0 .. Shards - 1 : j # i => shards'[n][j] = shards[n][j]
  BY <1>6, <1>8 DEF IsShards, Shape
<1>12. /\ Shape(phase', Node) /\ \A m \in Node : m # n => phase'[m] = phase[m]
       /\ \/ phase'[n] = phase[n] /\ phase[n] # "done" /\ (i = 0 => phase[n] # "last")
          \/ phase[n] = "stopping" /\ phase'[n] = "last" /\ i = 0
  <2>1. CASE i # 0
    <3>1. phase' = phase
      BY <2>1 DEF FlushShard
    <3>2. phase[n] # "done"
      BY <1>0, <2>1 DEF Ending
    <3>. QED BY <1>0, <2>1, <3>1, <3>2 DEF Shaped
  <2>2. CASE i = 0
    <3>1. \/ phase[n] \in {"running", "stopping"} /\ phase' = phase
          \/ phase[n] = "stopping" /\ phase' = [phase EXCEPT ![n] = "last"]
      BY <2>2 DEF FlushShard, MayFlush
    <3>2. CASE phase[n] \in {"running", "stopping"} /\ phase' = phase
      BY <1>0, <2>2, <3>2 DEF Shaped
    <3>3. CASE phase[n] = "stopping" /\ phase' = [phase EXCEPT ![n] = "last"]
      <4>1. Shape(phase', Node) /\ phase'[n] = "last" /\ \A m \in Node : m # n => phase'[m] = phase[m]
        BY <1>0, <3>3 DEF Shaped, Shape
      <4>. QED BY <2>2, <3>3, <4>1
    <3>. QED BY <3>1, <3>2, <3>3
  <2>. QED BY <2>1, <2>2
<1>. HIDE DEF P, Q, i
<1>13. Shaped' /\ Typed'
  BY <1>0, <1>1, <1>4, <1>5, <1>6, <1>12 DEF Shaped, Typed
<1>14. Counts' /\ Losses'
  BY <1>0, <1>1 DEF Counts, Losses
<1>15. Ending(n)' /\ Told(n)'
  <2>1. phase'[n] # "running" => \A v \in VU : Host[v] = n => todo'[v] = <<>>
    BY <1>0, <1>1, <1>12 DEF Ending
  <2>2. phase'[n] # "done"
    BY <1>12
  <2>3. ASSUME phase'[n] = "last", NEW j \in 0 .. Shards - 1, j < flush'[n] PROVE Emptied(shards'[n][j])
    <3>1. CASE j = i
      BY <1>9, <3>1
    <3>2. CASE j # i
      <4>1. j < i /\ phase[n] = "last"
        BY <1>5, <1>8, <1>12, <2>3, <3>2
      <4>2. Emptied(shards[n][j])
        BY <1>0, <4>1 DEF Ending, i
      <4>. QED BY <1>11, <3>2, <4>2
    <3>. QED BY <3>1, <3>2
  <2>4. flush'[n] > 0
    BY <1>5, <1>8
  <2>. QED BY <2>1, <2>2, <2>3, <2>4 DEF Ending, Told
<1>16. ASSUME NEW m \in Node, m # n PROVE Ending(m)' /\ Told(m)'
  <2>1. Ending(m) /\ Told(m)
    BY DEF RecorderInv
  <2>2. flush'[m] = flush[m] /\ phase'[m] = phase[m] /\ shards'[m] = shards[m]
    BY <1>5, <1>6, <1>12, <1>16
  <2>. QED BY <1>1, <2>1, <2>2 DEF Told, Ending
<1>17. Agrees(Places, admitted)'
  BY <1>1, <1>10 DEF Q
<1>. QED BY <1>13, <1>14, <1>15, <1>16, <1>17 DEF RecorderInv

LEMMA FlushEndStep ==
    ASSUME RecorderInv, NEW n \in Node, FlushEnd(n)
    PROVE  RecorderInv'
<1>. DEFINE P == Places
            Q == Places'
            b == Batch(n)
            q == inflight[n]
<1>0. Shaped /\ Typed /\ Counts /\ Losses /\ Agrees(P, admitted) /\ Placed(P) /\ Ending(n)
  BY DEF RecorderInv, Agrees
<1>1. /\ UNCHANGED <<todo, shards, dropped, rr, merged, store, made, admitted>>
      /\ flush[n] = Shards /\ flush' = [flush EXCEPT ![n] = 0]
      /\ phase' = [phase EXCEPT ![n] = IF @ = "last" THEN "done" ELSE @]
  BY DEF FlushEnd
<1>2. \/ inflight' = [inflight EXCEPT ![n] = Append(q, b)] /\ lost' = lost /\ unheard' = unheard
      \/ inflight' = inflight /\ lost' = AbsorbAll(lost, Contents(b.series)) /\ unheard' = TRUE
  BY DEF FlushEnd, Losing
<1>3. /\ b.node = n /\ b.dropped = dropped[n] /\ dropped[n] \in Nat
      /\ b.series = {EncodeDelta(a) : a \in {c \in merged[n] : c.count > 0}}
  BY <1>0 DEF Batch, Typed
<1>4. /\ P.shards = shards /\ P.flush = flush /\ P.merged = merged /\ P.inflight = inflight
      /\ P.cumulative = store.cumulative /\ P.lost = lost
  BY DEF Places
<1>5. /\ Q.shards = shards /\ Q.flush = flush' /\ Q.merged = merged /\ Q.inflight = inflight'
      /\ Q.cumulative = store.cumulative /\ Q.lost = lost'
  BY <1>1 DEF Places
<1>. HIDE DEF P, Q, b, q
<1>6. Shape(flush', Node) /\ flush'[n] = 0 /\ \A m \in Node : m # n => flush'[m] = flush[m]
  BY <1>0, <1>1 DEF Shaped, Shape
<1>7. /\ Shape(phase', Node) /\ \A m \in Node : m # n => phase'[m] = phase[m]
      /\ phase'[n] = IF phase[n] = "last" THEN "done" ELSE phase[n]
  <2>. DEFINE e == IF phase[n] = "last" THEN "done" ELSE phase[n]
  <2>1. phase' = [phase EXCEPT ![n] = e] /\ Shape(phase, Node)
    BY <1>0, <1>1 DEF Shaped
  <2>. HIDE DEF e
  <2>2. Shape(phase', Node) /\ phase'[n] = e /\ \A m \in Node : m # n => phase'[m] = phase[m]
    BY <2>1 DEF Shape
  <2>. QED BY <2>2 DEF e
<1>8. /\ Shape(inflight', Node) /\ \A m \in Node : m # n => inflight'[m] = inflight[m]
      /\ \/ inflight'[n] = Append(q, b) /\ lost' = lost /\ unheard' = unheard
         \/ inflight'[n] = q /\ lost' = AbsorbAll(lost, Contents(b.series)) /\ unheard' = TRUE
  <2>1. CASE inflight' = [inflight EXCEPT ![n] = Append(q, b)] /\ lost' = lost /\ unheard' = unheard
    <3>. DEFINE e == Append(q, b)
    <3>. HIDE DEF e
    <3>1. inflight' = [inflight EXCEPT ![n] = e] /\ Shape(inflight, Node)
      BY <1>0, <2>1 DEF Shaped, e
    <3>2. Shape(inflight', Node) /\ inflight'[n] = e /\ \A m \in Node : m # n => inflight'[m] = inflight[m]
      BY <3>1 DEF Shape
    <3>. QED BY <2>1, <3>2 DEF e
  <2>2. CASE inflight' = inflight /\ lost' = AbsorbAll(lost, Contents(b.series)) /\ unheard' = TRUE
    BY <1>0, <2>2 DEF Shaped, q
  <2>. QED BY <1>2, <2>1, <2>2
<1>9. Moves(P, Q) /\ IsBatch(b, n)
  <2>1. Elsewhere(P, Q, n)
    BY <1>4, <1>5, <1>6, <1>8 DEF Elsewhere
  <2>2. /\ P.flush[n] = Shards /\ Q.flush[n] = 0 /\ Q.shards[n] = P.shards[n] /\ Q.merged[n] = P.merged[n]
        /\ Q.cumulative = P.cumulative /\ b.dropped \in Nat
        /\ b.series = {EncodeDelta(a) : a \in {c \in P.merged[n] : c.count > 0}}
    BY <1>1, <1>3, <1>4, <1>5, <1>6
  <2>3. \/ Q.inflight[n] = Append(P.inflight[n], b) /\ Q.lost = P.lost
        \/ Q.inflight[n] = P.inflight[n] /\ Q.lost = AbsorbAll(P.lost, Contents(b.series))
    BY <1>4, <1>5, <1>8 DEF q
  <2>. QED BY <1>0, <1>3, <2>1, <2>2, <2>3, FlushEndMoves
<1>10. Agrees(Q, admitted)
  <2>. DEFINE A == admitted
  <2>. HIDE DEF A
  <2>1. Agrees(Q, A)
    BY <1>0, <1>9, MovesAgrees DEF A
  <2>. QED BY <2>1 DEF A
<1>11. Shaped' /\ Typed'
  <2>1. unheard' \in BOOLEAN
    BY <1>0, <1>8 DEF Typed
  <2>. QED BY <1>0, <1>1, <1>6, <1>7, <1>8, <2>1 DEF Shaped, Typed
<1>12. Counts' /\ Losses'
  BY <1>0, <1>1, <1>8 DEF Counts, Losses
<1>s. Shards \in Nat \ {0}
  BY Constants
<1>13. Ending(n)'
  <2>1. phase[n] # "done"
    BY <1>0, <1>1, <1>s DEF Ending
  <2>2. phase'[n] # "running" => \A v \in VU : Host[v] = n => todo'[v] = <<>>
    BY <1>0, <1>1, <1>7 DEF Ending
  <2>3. phase'[n] # "last"
    BY <1>7
  <2>4. phase'[n] = "done" => \A i \in 0 .. Shards - 1 : Emptied(shards'[n][i])
    <3>1. \A i \in 0 .. Shards - 1 : i < Shards
      BY <1>s
    <3>. QED BY <1>0, <1>1, <1>7, <2>1, <3>1 DEF Ending
  <2>. QED BY <1>6, <2>2, <2>3, <2>4 DEF Ending
<1>14. Told(n)'
  <2>. SUFFICES ASSUME dropped'[n] > 0, ~unheard'
                PROVE  \E j \in DOMAIN inflight'[n] : inflight'[n][j].dropped > 0
    BY DEF Told
  <2>1. inflight'[n] = Append(q, b)
    BY <1>8
  <2>2. IsQueue(q, n)
    BY <1>0, <1>4 DEF Placed, NodePlaced, q
  <2>3. Len(q) + 1 \in DOMAIN Append(q, b) /\ Append(q, b)[Len(q) + 1] = b
    BY <1>9, <2>2, QueueAppend
  <2>4. b.dropped > 0
    BY <1>1, <1>3
  <2>. QED BY <2>1, <2>3, <2>4
<1>15. ASSUME NEW m \in Node, m # n PROVE Ending(m)' /\ Told(m)'
  <2>1. Ending(m) /\ Told(m)
    BY DEF RecorderInv
  <2>2. flush'[m] = flush[m] /\ phase'[m] = phase[m] /\ inflight'[m] = inflight[m] /\ (~unheard' => ~unheard)
    BY <1>6, <1>7, <1>8, <1>15
  <2>. QED BY <1>1, <2>1, <2>2 DEF Told, Ending
<1>16. Agrees(Places, admitted)'
  BY <1>1, <1>10 DEF Q
<1>. QED BY <1>11, <1>12, <1>13, <1>14, <1>15, <1>16 DEF RecorderInv

LEMMA HeardFlags ==
    ASSUME NEW s, NEW b, Flags(s.nodeDropped), b.dropped \in Nat
    PROVE  /\ Flags(HeardFrom(s, b)) /\ DOMAIN s.nodeDropped \subseteq DOMAIN HeardFrom(s, b)
           /\ b.dropped > 0 => b.node \in DOMAIN HeardFrom(s, b)
<1>. DEFINE f == s.nodeDropped
            g == HeardFrom(s, b)
<1>1. CASE b.dropped > 0
  <2>1. g = Set(f, b.node, b.dropped)
    BY <1>1 DEF HeardFrom
  <2>. HIDE DEF f, g
  <2>2. /\ DOMAIN g = DOMAIN f \cup {b.node} /\ g[b.node] = b.dropped
        /\ \A m \in DOMAIN f : m # b.node => g[m] = f[m]
    BY <2>1 DEF Set
  <2>3. Flags(f)
    BY DEF f
  <2>4. IsFiniteSet(DOMAIN g)
    BY <2>2, <2>3, FS_AddElement DEF Flags
  <2>5. Flags(g)
    BY <1>1, <2>2, <2>3, <2>4 DEF Flags
  <2>. QED BY <2>2, <2>5 DEF f, g
<1>2. CASE ~(b.dropped > 0)
  BY <1>2 DEF HeardFrom
<1>. QED BY <1>1, <1>2

(***************************************************************************)
(* A batch that reaches the store, in time or late.                        *)
(***************************************************************************)
LEMMA TakenStep ==
    ASSUME RecorderInv, NEW n \in Node, inflight[n] # <<>>,
           inflight' = [inflight EXCEPT ![n] = Tail(@)],
           UNCHANGED <<todo, shards, dropped, rr, phase, flush, merged, made, admitted, unheard>>,
           Moves(Places, Places'), Counters(store)',
           store'.nodeDropped = HeardFrom(store, Head(inflight[n])),
           Losses'
    PROVE  RecorderInv'
<1>. DEFINE q == inflight[n]
            b == Head(q)
            P == Places
            Q == Places'
<1>0. Shaped /\ Typed /\ Counts /\ Agrees(P, admitted) /\ Placed(P)
  BY DEF RecorderInv, Agrees
<1>1. IsQueue(q, n) /\ q # <<>>
  BY <1>0 DEF Placed, NodePlaced, Places
<1>2. Shape(inflight', Node) /\ inflight'[n] = Tail(q) /\ \A m \in Node : m # n => inflight'[m] = inflight[m]
  <2>. DEFINE e == Tail(q)
  <2>1. inflight' = [inflight EXCEPT ![n] = e] /\ Shape(inflight, Node)
    BY <1>0 DEF Shaped
  <2>. HIDE DEF e
  <2>2. Shape(inflight', Node) /\ inflight'[n] = e /\ \A m \in Node : m # n => inflight'[m] = inflight[m]
    BY <2>1 DEF Shape
  <2>. QED BY <2>2 DEF e
<1>3. Shaped'
  BY <1>0, <1>2 DEF Shaped
<1>4. Typed' /\ Counts'
  BY <1>0 DEF Typed, Counts
<1>5. Agrees(Places, admitted)'
  <2>. DEFINE A == admitted
  <2>0. Moves(P, Q) /\ Agrees(P, A)
    BY <1>0
  <2>. HIDE DEF P, Q, A
  <2>1. Agrees(Q, A)
    BY <2>0, MovesAgrees
  <2>. QED BY <2>1 DEF Q, A
<1>. HIDE DEF q, b, P, Q
<1>6. /\ IsBatch(b, n) /\ b = q[1]
      /\ \A j \in DOMAIN q : j # 1 => j - 1 \in DOMAIN Tail(q) /\ Tail(q)[j - 1] = q[j]
  <2>1. /\ IsBatch(b, n) /\ b = q[1] /\ (\A j \in DOMAIN q : j # 1 => j - 1 \in DOMAIN Tail(q))
        /\ \A j \in DOMAIN Tail(q) : Tail(q)[j] = q[j + 1]
    BY <1>1, QueueTail DEF b
  <2>2. \A j \in DOMAIN q : j \in Int
    BY <1>1, QueueIs
  <2>3. \A j \in DOMAIN q : (j - 1) + 1 = j
    BY <2>2
  <2>. QED BY <2>1, <2>3
<1>7. /\ DOMAIN store.nodeDropped \subseteq DOMAIN store'.nodeDropped
      /\ b.dropped > 0 => n \in DOMAIN store'.nodeDropped
  <2>1. Flags(store.nodeDropped)
    BY <1>0 DEF Typed, Counters
  <2>2. b.node = n /\ b.dropped \in Nat
    BY <1>6 DEF IsBatch
  <2>. DEFINE s == store
  <2>3. store'.nodeDropped = HeardFrom(s, b) /\ Flags(s.nodeDropped)
    BY <2>1 DEF b, q
  <2>. HIDE DEF s
  <2>4. DOMAIN s.nodeDropped \subseteq DOMAIN HeardFrom(s, b) /\ (b.dropped > 0 => b.node \in DOMAIN HeardFrom(s, b))
    BY <2>2, <2>3, HeardFlags
  <2>. QED BY <2>2, <2>3, <2>4 DEF s
<1>8. ASSUME NEW m \in Node PROVE Ending(m)'
  <2>1. Ending(m)
    BY DEF RecorderInv
  <2>. QED BY <2>1 DEF Ending
<1>9. ASSUME NEW m \in Node PROVE Told(m)'
  <2>0. Told(m)
    BY DEF RecorderInv
  <2>. SUFFICES ASSUME phase[m] = "done", dropped[m] > 0, ~unheard, m \notin DOMAIN store'.nodeDropped
                PROVE  \E j \in DOMAIN inflight'[m] : inflight'[m][j].dropped > 0
    BY DEF Told
  <2>1. PICK j \in DOMAIN inflight[m] : inflight[m][j].dropped > 0
    BY <1>7, <2>0 DEF Told
  <2>2. CASE m # n
    BY <1>2, <2>1, <2>2
  <2>3. CASE m = n
    <3>1. j \in DOMAIN q /\ q[j].dropped > 0
      BY <2>1, <2>3 DEF q
    <3>2. j # 1
      BY <1>6, <1>7, <2>3, <3>1
    <3>3. j - 1 \in DOMAIN Tail(q) /\ Tail(q)[j - 1].dropped > 0
      BY <1>6, <3>1, <3>2
    <3>. QED BY <1>2, <2>3, <3>3
  <2>. QED BY <2>2, <2>3
<1>. QED BY <1>3, <1>4, <1>5, <1>8, <1>9 DEF RecorderInv

LEMMA DeliverStep ==
    ASSUME RecorderInv, NEW n \in Node, Deliver(n)
    PROVE  RecorderInv'
<1>. DEFINE q == inflight[n]
            b == Head(q)
            P == Places
            Q == Places'
            s == store
            t == store'
<1>0. Shaped /\ Typed /\ Losses /\ Agrees(P, admitted) /\ Placed(P)
  BY DEF RecorderInv, Agrees
<1>1. /\ q # <<>> /\ inflight' = [inflight EXCEPT ![n] = Tail(@)]
      /\ UNCHANGED <<todo, shards, dropped, rr, phase, flush, merged, made, admitted, unheard>>
      /\ lost' = AbsorbAll(lost, Contents({d \in b.series : Find(t.cumulative, d.metric, d.tags) = {}}))
  BY DEF Deliver, Losing
<1>2. PICK order \in Orders(b.series, Capped(s, b)), reported \in Orders(b.failures, TRUE) :
            t = Ingest(s, b, order, reported)
  BY DEF Deliver
<1>3. /\ P.shards = shards /\ P.flush = flush /\ P.merged = merged /\ P.inflight = inflight
      /\ P.cumulative = s.cumulative /\ P.lost = lost
  BY DEF Places
<1>4. /\ Q.shards = shards /\ Q.flush = flush /\ Q.merged = merged /\ Q.inflight = inflight'
      /\ Q.cumulative = t.cumulative /\ Q.lost = lost'
  BY <1>1 DEF Places
<1>5. IsQueue(q, n)
  <2>1. NodePlaced(P, n)
    BY <1>0 DEF Placed
  <2>. QED BY <1>3, <2>1 DEF NodePlaced
<1>6. inflight'[n] = Tail(q) /\ \A m \in Node : m # n => inflight'[m] = inflight[m]
  <2>. DEFINE e == Tail(q)
  <2>1. inflight' = [inflight EXCEPT ![n] = e] /\ Shape(inflight, Node)
    BY <1>0, <1>1 DEF Shaped
  <2>. HIDE DEF e
  <2>2. inflight'[n] = e /\ \A m \in Node : m # n => inflight'[m] = inflight[m]
    BY <2>1 DEF Shape
  <2>. QED BY <2>2 DEF e
<1>7. Counters(s) /\ Table(s.cumulative)
  BY <1>0, <1>3 DEF Typed, Placed
<1>8. Dequeued(Tail(q), q, b, n)
  <2>. HIDE DEF q
  <2>. QED BY <1>1, <1>5, DequeuedIs
<1>. HIDE DEF q, b, P, Q, s, t
<1>9. Shipped(b.series) /\ b.dropped \in Nat
  BY <1>8 DEF Dequeued, IsBatch
<1>10. Lists(order, b.series)
  <2>. DEFINE S == b.series
              capped == Capped(s, b)
  <2>1. IsFiniteSet(S) /\ order \in Orders(S, capped)
    BY <1>2, <1>9 DEF Shipped
  <2>. HIDE DEF S, capped
  <2>2. Lists(order, S)
    BY <2>1, OrderLists
  <2>. QED BY <2>2 DEF S
<1>11. IngestedAs(t, s, b)
  <2>1. IngestedAs(Ingest(s, b, order, reported), s, b)
    BY <1>7, <1>9, <1>10, IngestIs DEF Counters
  <2>. QED BY <1>2, <2>1
<1>12. Moves(P, Q)
  <2>1. Elsewhere(P, Q, n)
    BY <1>3, <1>4, <1>6 DEF Elsewhere
  <2>2. /\ Q.flush[n] = P.flush[n] /\ Q.shards[n] = P.shards[n] /\ Q.merged[n] = P.merged[n]
        /\ Dequeued(Q.inflight[n], P.inflight[n], b, n) /\ P.cumulative = s.cumulative
        /\ Q.cumulative = t.cumulative
    BY <1>3, <1>4, <1>6, <1>8 DEF q
  <2>3. Q.lost = AbsorbAll(P.lost, Contents({d \in b.series : Find(t.cumulative, d.metric, d.tags) = {}}))
    BY <1>1, <1>3, <1>4
  <2>. QED BY <1>0, <1>11, <2>1, <2>2, <2>3, DeliverMoves
<1>13. Counters(t) /\ t.nodeDropped = HeardFrom(s, b)
  <2>1. Flags(HeardFrom(s, b))
    BY <1>7, <1>9, HeardFlags DEF Counters
  <2>. QED BY <1>7, <1>11, <2>1 DEF IngestedAs, Counters
<1>14. Losses'
  <2>. SUFFICES ASSUME ~unheard, t.droppedSeries = 0, t.droppedLate = 0 PROVE lost' = {}
    BY <1>1 DEF Losses, t
  <2>1. s.droppedSeries = 0 /\ s.droppedLate = 0 /\ Kept(t.cumulative, b.series) = b.series
    BY <1>11 DEF IngestedAs
  <2>2. lost = {}
    BY <1>0, <2>1 DEF Losses, s
  <2>3. {d \in b.series : Find(t.cumulative, d.metric, d.tags) = {}} = {}
    BY <2>1, NamesIs DEF Kept
  <2>4. lost' = AbsorbAll(lost, {})
    BY <1>1, <2>3, ContentsEmpty
  <2>. QED BY <2>2, <2>4, AbsorbNothing
<1>. QED BY <1>1, <1>12, <1>13, <1>14, TakenStep DEF q, b, P, Q, s, t

LEMMA DeliverLateStep ==
    ASSUME RecorderInv, NEW n \in Node, DeliverLate(n)
    PROVE  RecorderInv'
<1>. DEFINE q == inflight[n]
            b == Head(q)
            P == Places
            Q == Places'
            s == store
            t == store'
<1>0. Shaped /\ Typed /\ Losses /\ Agrees(P, admitted) /\ Placed(P)
  BY DEF RecorderInv, Agrees
<1>1. /\ q # <<>> /\ inflight' = [inflight EXCEPT ![n] = Tail(@)]
      /\ UNCHANGED <<todo, shards, dropped, rr, phase, flush, merged, made, admitted, unheard>>
      /\ lost' = AbsorbAll(lost, Contents(b.series))
      /\ t = IngestLate(s, b)
  BY DEF DeliverLate, Losing
<1>3. /\ P.shards = shards /\ P.flush = flush /\ P.merged = merged /\ P.inflight = inflight
      /\ P.cumulative = s.cumulative /\ P.lost = lost
  BY DEF Places
<1>4. /\ Q.shards = shards /\ Q.flush = flush /\ Q.merged = merged /\ Q.inflight = inflight'
      /\ Q.cumulative = t.cumulative /\ Q.lost = lost'
  BY <1>1 DEF Places
<1>5. IsQueue(q, n)
  <2>1. NodePlaced(P, n)
    BY <1>0 DEF Placed
  <2>. QED BY <1>3, <2>1 DEF NodePlaced
<1>6. inflight'[n] = Tail(q) /\ \A m \in Node : m # n => inflight'[m] = inflight[m]
  <2>. DEFINE e == Tail(q)
  <2>1. inflight' = [inflight EXCEPT ![n] = e] /\ Shape(inflight, Node)
    BY <1>0, <1>1 DEF Shaped
  <2>. HIDE DEF e
  <2>2. inflight'[n] = e /\ \A m \in Node : m # n => inflight'[m] = inflight[m]
    BY <2>1 DEF Shape
  <2>. QED BY <2>2 DEF e
<1>7. Counters(s)
  BY <1>0 DEF Typed
<1>8. Dequeued(Tail(q), q, b, n)
  <2>. HIDE DEF q
  <2>. QED BY <1>1, <1>5, DequeuedIs
<1>. HIDE DEF q, b, P, Q, s, t
<1>9. b.dropped \in Nat
  BY <1>8 DEF Dequeued, IsBatch
<1>10. /\ StoreShape(t) /\ t.cumulative = s.cumulative /\ t.droppedSeries = s.droppedSeries
       /\ t.droppedLate = s.droppedLate + 1 /\ t.nodeDropped = HeardFrom(s, b)
  <2>. DEFINE h == Heard(s, b)
              e == s.droppedLate + 1
  <2>1. /\ StoreShape(h) /\ h.cumulative = s.cumulative /\ h.droppedSeries = s.droppedSeries
        /\ h.droppedLate = s.droppedLate /\ h.nodeDropped = HeardFrom(s, b)
    BY <1>7, HeardIs DEF Counters
  <2>2. t = [h EXCEPT !.droppedLate = e]
    BY <1>1, <2>1 DEF IngestLate
  <2>. HIDE DEF h, e
  <2>3. /\ StoreShape(t) /\ t.cumulative = h.cumulative /\ t.droppedSeries = h.droppedSeries
        /\ t.droppedLate = e /\ t.nodeDropped = h.nodeDropped
    BY <2>1, <2>2 DEF StoreShape
  <2>. QED BY <2>1, <2>3 DEF e
<1>12. Moves(P, Q)
  <2>1. Elsewhere(P, Q, n)
    BY <1>3, <1>4, <1>6 DEF Elsewhere
  <2>2. /\ Q.flush[n] = P.flush[n] /\ Q.shards[n] = P.shards[n] /\ Q.merged[n] = P.merged[n]
        /\ Dequeued(Q.inflight[n], P.inflight[n], b, n) /\ Q.cumulative = P.cumulative
        /\ Q.lost = AbsorbAll(P.lost, Contents(b.series))
    BY <1>1, <1>3, <1>4, <1>6, <1>8, <1>10 DEF q
  <2>. QED BY <1>0, <2>1, <2>2, LateMoves
<1>13. Counters(t)
  <2>1. Flags(HeardFrom(s, b))
    BY <1>7, <1>9, HeardFlags DEF Counters
  <2>. QED BY <1>7, <1>10, <2>1 DEF Counters
<1>14. Losses'
  <2>1. t.droppedLate # 0
    BY <1>7, <1>10 DEF Counters
  <2>. QED BY <2>1 DEF Losses, t
<1>. QED BY <1>1, <1>10, <1>12, <1>13, <1>14, TakenStep DEF q, b, P, Q, s, t

LEMMA InitAgrees ==
    ASSUME Init
    PROVE  Agrees(Places, admitted)
<1>. DEFINE P == Places
<1>1. \A n \in Node : /\ P.shards[n] = [i \in 0 .. Shards - 1 |-> {}] /\ P.merged[n] = {} /\ P.inflight[n] = <<>>
                      /\ P.flush[n] = 0
  BY DEF Init, Places
<1>2. P.cumulative = {} /\ P.lost = {} /\ admitted = <<>>
  BY DEF Init, Places, NewStore, Empty
<1>. HIDE DEF P
<1>3. Table({})
  BY FS_EmptySet DEF Table, Aggs, Unique
<1>4. IsShards([i \in 0 .. Shards - 1 |-> {}])
  BY <1>3 DEF IsShards, Shape
<1>5. Placed(P)
  <2>1. ASSUME NEW n \in Node PROVE NodePlaced(P, n)
    <3>1. IsQueue(<<>>, n)
      BY QueueEmpty
    <3>2. 0 \in 0 .. Shards
      BY Constants
    <3>. QED BY <1>1, <1>3, <1>4, <3>1, <3>2 DEF NodePlaced
  <2>. QED BY <1>2, <1>3, <2>1 DEF Placed
<1>6. Counted(admitted)
  <2>1. DOMAIN admitted = {}
    BY <1>2
  <2>. QED BY <2>1, FS_EmptySet DEF Counted
<1>7. ASSUME NEW k, IsMeasure(k) PROVE AccountedAt(k, P) = ObservedIn(admitted, k)
  <2>. DEFINE g == [x \in DOMAIN admitted |-> admitted[x] * PartOf(k, x[2])]
              f == [n \in Node |-> NodeMassAt(k, P, n)]
              e == [i \in 0 .. Shards - 1 |-> {}]
              z == [i \in 0 .. Shards - 1 |-> Mass(k, e[i])]
  <2>1. SumFunction(g) = 0
    <3>1. DOMAIN g = {} /\ IsFiniteSet({})
      BY <1>2, FS_EmptySet
    <3>. HIDE DEF g
    <3>. QED BY <3>1, SumZero
  <2>2. ShardMass(k, e) = 0
    <3>1. \A i \in DOMAIN z : z[i] = 0
      BY MassEmpty
    <3>2. IsFiniteSet(DOMAIN z)
      <4>1. 0 \in Int /\ Shards - 1 \in Int /\ DOMAIN z = 0 .. Shards - 1
        BY Constants
      <4>. QED BY <4>1, FS_Interval
    <3>3. ShardMass(k, e) = SumFunction(z)
      BY DEF ShardMass
    <3>. HIDE DEF z, e
    <3>. QED BY <3>1, <3>2, <3>3, SumZero
  <2>3. \A n \in Node : NodeMassAt(k, P, n) = 0
    <3>1. ASSUME NEW n \in Node PROVE NodeMassAt(k, P, n) = 0
      <4>1. QueueMass(k, <<>>) = 0
        BY QueueEmpty
      <4>. HIDE DEF e
      <4>2. P.shards[n] = e /\ P.flush[n] = 0 /\ P.inflight[n] = <<>>
        BY <1>1 DEF e
      <4>. QED BY <2>2, <4>1, <4>2 DEF NodeMassAt
    <3>. QED BY <3>1
  <2>4. SumFunction(f) = 0
    <3>1. DOMAIN f = Node /\ IsFiniteSet(Node) /\ \A n \in DOMAIN f : f[n] = 0
      BY <2>3, Constants
    <3>. HIDE DEF f
    <3>. QED BY <3>1, SumZero
  <2>5. AccountedAt(k, P) = SumFunction(f) + Mass(k, {}) + Mass(k, {})
    BY <1>2 DEF AccountedAt
  <2>. HIDE DEF f, g
  <2>6. AccountedAt(k, P) = 0
    BY <2>4, <2>5, MassEmpty
  <2>. QED BY <2>1, <2>6 DEF g, ObservedIn
<1>8. HeldAt(P) = {} /\ SeenIn(admitted) = {}
  <2>1. \A n \in Node : NodeHeldAt(P, n) = {}
    <3>. SUFFICES ASSUME NEW n \in Node PROVE NodeHeldAt(P, n) = {}
      OBVIOUS
    <3>1. InShards(P.shards[n]) = {} /\ InFlush(P.flush[n], P.merged[n]) = {}
      <4>1. P.shards[n] = [i \in 0 .. Shards - 1 |-> {}] /\ P.flush[n] = 0
        BY <1>1
      <4>2. \A i \in 0 .. Shards - 1 : P.shards[n][i] = {}
        BY <4>1
      <4>3. ~(P.flush[n] > 0)
        BY <4>1
      <4>. QED BY <4>2, <4>3 DEF InShards, InFlush
    <3>2. InQueue(P.inflight[n]) = {}
      <4>1. DOMAIN <<>> = {}
        OBVIOUS
      <4>. QED BY <1>1, <4>1 DEF InQueue
    <3>. QED BY <3>1, <3>2 DEF NodeHeldAt
  <2>2. DOMAIN admitted = {}
    BY <1>2
  <2>. QED BY <1>2, <2>1, <2>2 DEF HeldAt, SeenIn
<1>9. Spans(HeldAt(P), SeenIn(admitted))
  BY <1>8 DEF Spans, Covers, Within
<1>. QED BY <1>5, <1>6, <1>7, <1>9 DEF Agrees, P

LEMMA InitInv ==
    ASSUME Init
    PROVE  RecorderInv
<1>1. PICK w \in Work : todo = [v \in VU |-> AllSamples(v, w[v])]
  BY DEF Init
<1>2. \A v \in VU : IsTodo(todo[v])
  <2>. SUFFICES ASSUME NEW v \in VU PROVE IsTodo(AllSamples(v, w[v]))
    BY <1>1
  <2>1. w[v] \in Seq(Request)
    BY RecorderAssumption DEF Request
  <2>. DEFINE reqs == w[v]
  <2>. HIDE DEF reqs
  <2>2. IsTodo(AllSamples(v, reqs))
    BY <2>1, SamplesTodo DEF reqs
  <2>. QED BY <2>2 DEF reqs
<1>3. Shape(todo, VU)
  BY <1>1 DEF Shape
<1>4. Shaped
  BY <1>3 DEF Init, Shaped, Shape
<1>5. Counters(store)
  <2>1. Flags(Empty)
    BY FS_EmptySet DEF Flags, Empty
  <2>2. store = NewStore
    BY DEF Init
  <2>. QED BY <2>1, <2>2 DEF Counters, NewStore, StoreShape
<1>6. Typed
  BY <1>2, <1>5 DEF Init, Typed
<1>7. Agrees(Places, admitted)
  BY InitAgrees
<1>8. Counts /\ Losses
  <2>1. made = 0 /\ lost = {} /\ admitted = <<>>
    BY DEF Init, Empty
  <2>. DEFINE g == [x \in DOMAIN admitted |-> admitted[x] * PartOf(AllCount, x[2])]
  <2>2. DOMAIN g = {} /\ IsFiniteSet({})
    BY <2>1, FS_EmptySet
  <2>3. ObservedIn(admitted, AllCount) = SumFunction(g)
    BY DEF ObservedIn
  <2>. HIDE DEF g
  <2>4. SumFunction(g) = 0
    BY <2>2, SumZero
  <2>. QED BY <2>1, <2>3, <2>4 DEF Counts, Losses
<1>9. \A n \in Node : Ending(n) /\ Told(n)
  BY DEF Init, Ending, Told
<1>. QED BY <1>4, <1>6, <1>7, <1>8, <1>9 DEF RecorderInv

LEMMA StutterInv ==
    ASSUME RecorderInv, UNCHANGED vars
    PROVE  RecorderInv'
<1>0. Shaped /\ Typed /\ Counts /\ Losses /\ Agrees(Places, admitted) /\ \A n \in Node : Ending(n) /\ Told(n)
  BY DEF RecorderInv
<1>1. Shaped' /\ Typed' /\ Counts' /\ Losses'
  BY <1>0 DEF vars, Shaped, Typed, Counts, Losses
<1>2. Places' = Places /\ admitted' = admitted
  BY DEF vars, Places
<1>3. \A n \in Node : Ending(n)' /\ Told(n)'
  BY <1>0 DEF vars, Ending, Told
<1>. QED BY <1>0, <1>1, <1>2, <1>3 DEF RecorderInv

(***************************************************************************)
(* RecorderInv holds throughout.                                           *)
(***************************************************************************)
THEOREM RecorderInvariant == Spec => []RecorderInv
<1>1. Init => RecorderInv
  BY InitInv
<1>2. RecorderInv /\ [Next]_vars => RecorderInv'
  <2>. SUFFICES ASSUME RecorderInv, [Next]_vars PROVE RecorderInv'
    OBVIOUS
  <2>1. CASE UNCHANGED vars
    BY <2>1, StutterInv
  <2>2. ASSUME NEW v \in VU, Record(v) PROVE RecorderInv'
    BY <2>2, RecordStep
  <2>3. ASSUME NEW n \in Node, ReportGauge(n) PROVE RecorderInv'
    BY <2>3, ReportGaugeStep
  <2>4. ASSUME NEW n \in Node, EngineReturns(n) PROVE RecorderInv'
    BY <2>4, EngineReturnsStep
  <2>5. ASSUME NEW n \in Node, FlushShard(n) PROVE RecorderInv'
    BY <2>5, FlushShardStep
  <2>6. ASSUME NEW n \in Node, FlushEnd(n) PROVE RecorderInv'
    BY <2>6, FlushEndStep
  <2>7. ASSUME NEW n \in Node, Deliver(n) PROVE RecorderInv'
    BY <2>7, DeliverStep
  <2>8. ASSUME NEW n \in Node, DeliverLate(n) PROVE RecorderInv'
    BY <2>8, DeliverLateStep
  <2>. QED BY <2>1, <2>2, <2>3, <2>4, <2>5, <2>6, <2>7, <2>8 DEF Next
<1>. QED BY <1>1, <1>2, PTL DEF Spec

LEMMA SameMin ==
    ASSUME NEW A, NEW B, A \subseteq B, B \subseteq Nat, B # {}, \A b \in B : \E a \in A : a <= b
    PROVE  Min(A) = Min(B)
<1>1. A # {} /\ A \subseteq Nat
  OBVIOUS
<1>2. PICK m \in A : \A a \in A : m <= a
  BY <1>1, LeastNat
<1>3. \A b \in B : m <= b
  <2>. SUFFICES ASSUME NEW b \in B PROVE m <= b
    OBVIOUS
  <2>1. PICK a \in A : a <= b
    OBVIOUS
  <2>2. m \in Nat /\ a \in Nat /\ b \in Nat /\ m <= a
    BY <1>2
  <2>. QED BY <2>1, <2>2
<1>4. /\ Min(A) \in A /\ \A y \in A : Min(A) <= y
  BY <1>2, Zenon DEF Min
<1>5. /\ Min(B) \in B /\ \A y \in B : Min(B) <= y
  <2>1. \E x \in B : \A y \in B : x <= y
    BY <1>2, <1>3
  <2>. QED BY <2>1, Zenon DEF Min
<1>6. Min(A) \in Nat /\ Min(B) \in Nat /\ m \in Nat /\ m \in B
  BY <1>2, <1>4, <1>5
<1>7. Min(A) = m
  BY <1>2, <1>4, <1>6
<1>8. Min(B) = m
  BY <1>2, <1>3, <1>5, <1>6
<1>. QED BY <1>7, <1>8

LEMMA SameMax ==
    ASSUME NEW n \in Nat, NEW A, NEW B, A \subseteq B, B \subseteq 0 .. n, B # {}, \A b \in B : \E a \in A : b <= a
    PROVE  Max(A) = Max(B)
<1>1. A # {} /\ A \subseteq 0 .. n
  OBVIOUS
<1>2. Max(A) \in A /\ \A a \in A : Max(A) >= a
  BY <1>1, MaxBelow
<1>3. Max(B) \in B /\ \A b \in B : Max(B) >= b
  BY MaxBelow
<1>4. PICK a \in A : Max(B) <= a
  BY <1>3
<1>5. Max(A) >= a /\ Max(B) >= Max(A)
  BY <1>2, <1>3
<1>6. Max(A) \in 0 .. n /\ Max(B) \in 0 .. n /\ a \in 0 .. n
  BY <1>1, <1>2, <1>3
<1>. DEFINE x == Max(A)
            y == Max(B)
<1>. HIDE DEF x, y
<1>7. x = y
  BY <1>4, <1>5, <1>6 DEF x, y
<1>. QED BY <1>7 DEF x, y

(***************************************************************************)
(* The extremes of what is held of a series are those of what was seen.    *)
(***************************************************************************)
Values(A, labels) ==
    {y[2].value : y \in {z \in {x \in DOMAIN A : x[2].metric = "http_req_duration"} : z[2].labels = labels}}

Holding(H, labels) == {a \in H : a.metric = "http_req_duration" /\ a.labels = labels /\ a.count > 0}

LEMMA ExtremesAgree ==
    ASSUME NEW P, NEW A, Agrees(P, A), NEW labels, Values(A, labels) # {}
    PROVE  LET held == Holding(HeldAt(P), labels)
           IN  /\ Min({a.min : a \in held}) = Min(Values(A, labels))
               /\ Max({a.max : a \in held}) = Max(Values(A, labels))
<1>. DEFINE H == HeldAt(P)
            held == Holding(H, labels)
            lows == {a.min : a \in held}
            highs == {a.max : a \in held}
            seen == Values(A, labels)
            top == Infinity - 1
<1>1. (\A a \in H : IsAgg(a)) /\ Spans(H, SeenIn(A)) /\ Counted(A)
  BY HeldAggs DEF Agrees
<1>. HIDE DEF H
<1>2. top \in Nat
  BY DEF Infinity
<1>3. ASSUME NEW x \in DOMAIN A, x[2].metric = "http_req_duration", x[2].labels = labels
      PROVE  /\ Single(x[2]) \in SeenIn(A) /\ Timed(Single(x[2]))
             /\ Single(x[2]).metric = "http_req_duration" /\ Single(x[2]).labels = labels
             /\ Single(x[2]).min = x[2].value /\ Single(x[2]).max = x[2].value
             /\ x[2].value \in 0 .. top
  <2>. DEFINE o == x[2]
  <2>1. IsObs(o) /\ o.metric = "http_req_duration" /\ o.labels = labels /\ Single(o) \in SeenIn(A)
    BY <1>1, <1>3 DEF Counted, SeenIn
  <2>. HIDE DEF o
  <2>2. o.kind = "trend" /\ o.value \in 0 .. top
    BY <2>1 DEF IsObs, Kinded
  <2>3. /\ Same(Single(o), o) /\ Single(o).kind = o.kind /\ Single(o).count = 1
        /\ Single(o).min = o.value /\ Single(o).max = o.value
    BY <2>1, <2>2, SingleIs
  <2>4. Timed(Single(o))
    BY <2>2, <2>3 DEF Timed
  <2>5. Single(o).metric = "http_req_duration" /\ Single(o).labels = labels
    BY <2>1, <2>3 DEF Same
  <2>. QED BY <2>1, <2>2, <2>3, <2>4, <2>5 DEF o
<1>4. seen \subseteq 0 .. top
  <2>. HIDE DEF top
  <2>. QED BY <1>3 DEF Values
<1>5. \A a \in held : Timed(a) /\ a.min \in Int /\ a.max \in Int
  BY <1>1 DEF Holding, Timed, IsAgg, Kinded
<1>6. \A a \in H : Timed(a) /\ a.metric = "http_req_duration" /\ a.labels = labels => a \in held
  BY DEF Holding, Timed
<1>7. ASSUME NEW s \in SeenIn(A), Timed(s), s.metric = "http_req_duration", s.labels = labels
      PROVE  s.min \in seen /\ s.max \in seen
  <2>1. PICK x \in DOMAIN A : s = Single(x[2])
    BY <1>7 DEF SeenIn
  <2>2. IsObs(x[2])
    BY <1>1 DEF Counted
  <2>. DEFINE o == x[2]
  <2>3. Same(s, o)
    <3>. HIDE DEF o
    <3>. QED BY <2>1, <2>2, SingleIs DEF o
  <2>4. x[2].metric = "http_req_duration" /\ x[2].labels = labels
    BY <1>7, <2>3 DEF Same
  <2>5. s.min = x[2].value /\ s.max = x[2].value
    BY <1>3, <2>1, <2>4
  <2>. QED BY <2>4, <2>5 DEF Values
<1>. HIDE DEF seen, held
<1>8. lows \subseteq seen /\ highs \subseteq seen
  <2>1. ASSUME NEW a \in held PROVE a.min \in seen /\ a.max \in seen
    <3>1. a \in H /\ Timed(a) /\ a.metric = "http_req_duration" /\ a.labels = labels
      BY <1>5 DEF held, Holding
    <3>2. PICK s \in SeenIn(A) : Timed(s) /\ Same(s, a) /\ s.min = a.min
      BY <1>1, <3>1 DEF Spans, Within
    <3>3. PICK t \in SeenIn(A) : Timed(t) /\ Same(t, a) /\ t.max = a.max
      BY <1>1, <3>1 DEF Spans, Within
    <3>4. s.min \in seen
      BY <1>7, <3>1, <3>2 DEF Same
    <3>5. t.max \in seen
      BY <1>7, <3>1, <3>3 DEF Same
    <3>. QED BY <3>2, <3>3, <3>4, <3>5
  <2>. QED BY <2>1
<1>9. \A b \in seen : \E a \in held : a.min <= b /\ b <= a.max
  <2>. SUFFICES ASSUME NEW b \in seen PROVE \E a \in held : a.min <= b /\ b <= a.max
    OBVIOUS
  <2>1. PICK x \in DOMAIN A : x[2].metric = "http_req_duration" /\ x[2].labels = labels /\ b = x[2].value
    BY DEF seen, Values
  <2>. DEFINE s == Single(x[2])
  <2>2. /\ s \in SeenIn(A) /\ Timed(s) /\ s.metric = "http_req_duration" /\ s.labels = labels
        /\ s.min = b /\ s.max = b
    BY <1>3, <2>1
  <2>. HIDE DEF s
  <2>3. PICK a \in H : Timed(a) /\ Same(a, s) /\ a.min <= s.min /\ s.max <= a.max
    BY <1>1, <2>2 DEF Spans, Covers
  <2>4. a \in held
    BY <1>6, <2>2, <2>3 DEF Same
  <2>. QED BY <2>2, <2>3, <2>4
<1>10. Min(lows) = Min(seen)
  <2>1. \A b \in seen : \E a \in lows : a <= b
    BY <1>9
  <2>2. seen \subseteq Nat /\ seen # {}
    BY <1>4 DEF seen
  <2>. HIDE DEF lows
  <2>. QED BY <1>8, <2>1, <2>2, SameMin
<1>11. Max(highs) = Max(seen)
  <2>1. \A b \in seen : \E a \in highs : b <= a
    BY <1>9
  <2>2. seen # {}
    BY DEF seen
  <2>. HIDE DEF highs, top
  <2>. QED BY <1>2, <1>4, <1>8, <2>1, <2>2, SameMax
<1>. QED BY <1>10, <1>11 DEF held, seen, H

LEMMA InvSamples ==
    ASSUME RecorderInv
    PROVE  SamplesConserved
<1>. DEFINE P == Places
<1>0. Agrees(P, admitted)
  BY DEF RecorderInv
<1>1. ASSUME NEW metric, NEW labels, NEW k \in Measures(metric, labels) PROVE Accounted(k) = Observed(k)
  <2>1. IsMeasure(k)
    BY DEF Measures, IsMeasure
  <2>2. Accounted(k) = AccountedAt(k, P)
    BY PlacesIs
  <2>3. AccountedAt(k, P) = ObservedIn(admitted, k)
    BY <1>0, <2>1 DEF Agrees
  <2>. QED BY <2>2, <2>3 DEF Observed, ObservedIn
<1>2. ASSUME NEW labels \in {x[2].labels : x \in Admitted("http_req_duration")}
      PROVE  LET seen == {y[2].value : y \in {z \in Admitted("http_req_duration") : z[2].labels = labels}}
                 held == {a \in Held : a.metric = "http_req_duration" /\ a.labels = labels /\ a.count > 0}
             IN  Min({a.min : a \in held}) = Min(seen) /\ Max({a.max : a \in held}) = Max(seen)
  <2>. DEFINE A == admitted
  <2>1. /\ Values(A, labels) = {y[2].value : y \in {z \in Admitted("http_req_duration") : z[2].labels = labels}}
        /\ Values(A, labels) # {}
    BY DEF Values, Admitted
  <2>2. Holding(HeldAt(P), labels) = {a \in Held : a.metric = "http_req_duration" /\ a.labels = labels /\ a.count > 0}
    <3>1. Held = HeldAt(P)
      BY PlacesIs
    <3>. QED BY <3>1 DEF Holding
  <2>. HIDE DEF P, A
  <2>3. /\ Min({a.min : a \in Holding(HeldAt(P), labels)}) = Min(Values(A, labels))
        /\ Max({a.max : a \in Holding(HeldAt(P), labels)}) = Max(Values(A, labels))
    BY <1>0, <2>1, ExtremesAgree DEF A
  <2>. QED BY <2>1, <2>2, <2>3
<1>3. Finished => \A n \in Node, i \in 0 .. Shards - 1 : \A a \in shards[n][i] : a.count = 0
  BY DEF RecorderInv, Finished, Ending, Emptied
<1>. QED BY <1>1, <1>2, <1>3 DEF SamplesConserved

(***************************************************************************)
(* Spec => []SamplesConserved: whatever the flushes, the queues and the    *)
(* store's cap do, every admitted observation is in exactly one place, and *)
(* the last flush leaves none behind.                                      *)
(***************************************************************************)
THEOREM RecorderSamplesConserved == Spec => []SamplesConserved
  BY RecorderInvariant, InvSamples, PTL

(***************************************************************************)
(* When every worker is done and nothing was lost, the store holds it all. *)
(***************************************************************************)
LEMMA AllInStore ==
    ASSUME RecorderInv, Finished, lost = {}
    PROVE  /\ Table(store.cumulative) /\ Counted(admitted)
           /\ \A k : IsMeasure(k) => Mass(k, store.cumulative) = ObservedIn(admitted, k)
           /\ Spans(store.cumulative, SeenIn(admitted))
<1>. DEFINE cum == store.cumulative
            P == Places
<1>1. Agrees(P, admitted) /\ Placed(P) /\ Counted(admitted) /\ \A n \in Node : Ending(n)
  BY DEF RecorderInv, Agrees
<1>2. \A n \in Node : phase[n] = "done" /\ inflight[n] = <<>>
  BY DEF Finished
<1>3. /\ P.shards = shards /\ P.flush = flush /\ P.inflight = inflight /\ P.merged = merged
      /\ P.cumulative = cum /\ P.lost = {}
  BY DEF Places
<1>. HIDE DEF P, cum
<1>4. \A n \in Node : /\ IsShards(shards[n]) /\ flush[n] = 0
                      /\ \A i \in 0 .. Shards - 1 : Emptied(shards[n][i])
  BY <1>1, <1>2, <1>3 DEF Placed, NodePlaced, Ending
<1>5. Table(cum)
  BY <1>1, <1>3 DEF Placed
<1>6. ASSUME NEW k, IsMeasure(k) PROVE Mass(k, cum) = ObservedIn(admitted, k)
  <2>1. ASSUME NEW n \in Node PROVE NodeMassAt(k, P, n) = 0
    <3>. DEFINE sh == shards[n]
                z == [i \in 0 .. Shards - 1 |-> Mass(k, sh[i])]
    <3>1. IsShards(sh) /\ \A i \in 0 .. Shards - 1 : Emptied(sh[i])
      BY <1>4
    <3>2. P.shards[n] = sh /\ P.flush[n] = 0 /\ P.inflight[n] = <<>>
      BY <1>2, <1>3, <1>4
    <3>. HIDE DEF sh
    <3>3. ASSUME NEW i \in 0 .. Shards - 1 PROVE Mass(k, sh[i]) = 0
      <4>. DEFINE T == sh[i]
      <4>1. Aggs(T) /\ \A a \in T : a.count = 0
        BY <3>1 DEF IsShards, Table, Emptied
      <4>. HIDE DEF T
      <4>2. \A a \in T : Part(k, a) = 0
        BY <1>6, <4>1, PartNat DEF Aggs
      <4>3. Mass(k, T) = 0
        BY <4>1, <4>2, MassZero
      <4>. QED BY <4>3 DEF T
    <3>4. IsFiniteSet(DOMAIN z) /\ \A i \in DOMAIN z : z[i] = 0
      <4>1. 0 \in Int /\ Shards - 1 \in Int /\ DOMAIN z = 0 .. Shards - 1
        BY Constants
      <4>. QED BY <3>3, <4>1, FS_Interval
    <3>5. ShardMass(k, sh) = SumFunction(z)
      BY DEF ShardMass
    <3>. HIDE DEF z
    <3>6. ShardMass(k, sh) = 0
      BY <3>4, <3>5, SumZero
    <3>7. QueueMass(k, <<>>) = 0
      BY QueueEmpty
    <3>. QED BY <3>2, <3>6, <3>7 DEF NodeMassAt
  <2>2. SumFunction([n \in Node |-> NodeMassAt(k, P, n)]) = 0
    <3>. DEFINE g == [n \in Node |-> NodeMassAt(k, P, n)]
    <3>1. DOMAIN g = Node /\ IsFiniteSet(Node) /\ \A n \in DOMAIN g : g[n] = 0
      BY <2>1, Constants
    <3>. HIDE DEF g
    <3>2. SumFunction(g) = 0
      BY <3>1, SumZero
    <3>. QED BY <3>2 DEF g
  <2>3. Mass(k, cum) \in Int /\ Mass(k, {}) = 0
    BY <1>5, <1>6, MassInt, MassEmpty DEF Table
  <2>4. AccountedAt(k, P) = Mass(k, cum)
    BY <1>3, <2>2, <2>3 DEF AccountedAt
  <2>. QED BY <1>1, <1>6, <2>4 DEF Agrees
<1>7. Spans(cum, SeenIn(admitted))
  <2>1. Spans(HeldAt(P), SeenIn(admitted))
    BY <1>1 DEF Agrees
  <2>2. cum \subseteq HeldAt(P)
    BY <1>3 DEF HeldAt
  <2>3. ASSUME NEW a \in HeldAt(P), Timed(a) PROVE a \in cum
    <3>. SUFFICES ASSUME a \notin cum PROVE FALSE
      OBVIOUS
    <3>1. PICK n \in Node : a \in NodeHeldAt(P, n)
      BY <1>3, <2>3 DEF HeldAt
    <3>2. InQueue(<<>>) = {}
      BY DEF InQueue
    <3>3. a \in InShards(shards[n])
      BY <1>2, <1>3, <1>4, <3>1, <3>2 DEF NodeHeldAt, InFlush
    <3>4. a.count = 0
      BY <1>4, <3>3 DEF InShards, Emptied
    <3>. QED BY <2>3, <3>4 DEF Timed
  <2>. QED BY <2>1, <2>2, <2>3 DEF Spans, Covers, Within
<1>. QED BY <1>1, <1>5, <1>6, <1>7 DEF cum

LEMMA InvLoss ==
    ASSUME RecorderInv
    PROVE  LossIsSurfaced
<1>. DEFINE cum == store.cumulative
            S == {b \in cum : b.kind # "gauge"}
            f == [a \in S |-> a.count]
            nd == store.nodeDropped
<1>0. Shaped /\ Typed /\ Counts /\ Losses /\ \A n \in Node : Ending(n) /\ Told(n)
  BY DEF RecorderInv, Agrees
<1>1. /\ store.droppedSeries \in Nat /\ store.droppedLate \in Nat /\ Flags(nd)
  BY <1>0 DEF Typed, Counters
<1>2. SumFunction(nd) \in Nat /\ (SumFunction(nd) = 0 => DOMAIN nd = {})
  <2>. HIDE DEF nd
  <2>1. IsFiniteSet(DOMAIN nd) /\ \A x \in DOMAIN nd : nd[x] \in Nat /\ nd[x] # 0
    BY <1>1 DEF Flags
  <2>2. SumFunction(nd) \in Nat /\ \A x \in DOMAIN nd : nd[x] <= SumFunction(nd)
    BY <2>1, SumNat
  <2>3. ASSUME SumFunction(nd) = 0, NEW x \in DOMAIN nd PROVE FALSE
    <3>1. nd[x] \in Nat /\ nd[x] # 0 /\ nd[x] <= 0
      BY <2>1, <2>2, <2>3
    <3>. QED BY <3>1
  <2>. QED BY <2>2, <2>3
<1>3. Stats(store).droppedSeries = store.droppedSeries /\ Stats(store).droppedLate = store.droppedLate
      /\ Stats(store).droppedByNode = SumFunction(nd)
  BY DEF Stats
<1>4. ASSUME Finished, ~unheard, store.droppedSeries = 0, store.droppedLate = 0, SumFunction(nd) = 0
      PROVE  SumFunction(f) = made
  <2>1. lost = {}
    BY <1>0, <1>4 DEF Losses
  <2>2. \A n \in Node : phase[n] = "done" /\ inflight[n] = <<>>
    BY <1>4 DEF Finished
  <2>3. \A n \in Node : dropped[n] = 0
    <3>. SUFFICES ASSUME NEW n \in Node, dropped[n] # 0 PROVE FALSE
      OBVIOUS
    <3>1. dropped[n] > 0
      BY <1>0 DEF Typed
    <3>2. n \notin DOMAIN nd /\ DOMAIN inflight[n] = {}
      BY <1>2, <1>4, <2>2
    <3>. QED BY <1>0, <1>4, <2>2, <3>1, <3>2 DEF Told
  <2>4. made = ObservedIn(admitted, AllCount)
    BY <1>0, <2>3 DEF Counts
  <2>5. Aggs(cum) /\ Mass(AllCount, cum) = ObservedIn(admitted, AllCount)
    BY <1>4, <2>1, AllInStore, AllCountIs DEF Table
  <2>. HIDE DEF cum, f
  <2>11. Mass(AllCount, cum) = Mass(AllCount, S)
    <3>1. S \subseteq cum /\ \A a \in cum \ S : a.metric = "vus"
      BY <2>5 DEF Aggs, IsAgg, Kinded
    <3>. HIDE DEF S
    <3>2. Aggs(S) /\ Aggs(cum \ S) /\ Mass(AllCount, cum) = Mass(AllCount, S) + Mass(AllCount, cum \ S)
      BY <2>5, <3>1, MassSplit, AllCountIs
    <3>3. Mass(AllCount, cum \ S) = 0
      <4>. DEFINE T == cum \ S
      <4>1. Aggs(T) /\ \A a \in T : Part(AllCount, a) = 0
        BY <3>1, <3>2, AllCountIs
      <4>. HIDE DEF T
      <4>2. Mass(AllCount, T) = 0
        BY <4>1, MassZero
      <4>. QED BY <4>2 DEF T
    <3>4. Mass(AllCount, S) \in Int
      BY <3>2, MassInt, AllCountIs
    <3>. QED BY <3>2, <3>3, <3>4
  <2>12. Mass(AllCount, S) = SumFunction(f)
    <3>1. \A a \in S : Part(AllCount, a) = a.count
      BY <2>5, AllCountIs DEF Aggs, IsAgg, Kinded
    <3>. HIDE DEF S
    <3>2. [a \in S |-> Part(AllCount, a)] = f
      BY <3>1 DEF f
    <3>. QED BY <3>2 DEF Mass
  <2>. QED BY <2>4, <2>5, <2>11, <2>12
<1>5. ASSUME Finished, ~unheard, SumFunction(f) < made
      PROVE  store.droppedSeries + store.droppedLate + SumFunction(nd) > 0
  <2>. HIDE DEF f, nd
  <2>1. made \in Nat
    BY <1>0 DEF Typed
  <2>2. ~(store.droppedSeries = 0 /\ store.droppedLate = 0 /\ SumFunction(nd) = 0)
    BY <1>4, <1>5, <2>1
  <2>. QED BY <1>1, <1>2, <2>2
<1>6. InTotals = SumFunction(f)
  BY DEF InTotals
<1>. QED BY <1>3, <1>5, <1>6 DEF LossIsSurfaced, Warned

(***************************************************************************)
(* Spec => []LossIsSurfaced: an observation missing from the totals of a   *)
(* finished run shows in a counter the report warns from, unless a         *)
(* worker's own queue refused the batch.                                   *)
(***************************************************************************)
THEOREM RecorderLossIsSurfaced == Spec => []LossIsSurfaced
  BY RecorderInvariant, InvLoss, PTL

-----------------------------------------------------------------------------
(***************************************************************************)
(* Aggregate: what a threshold is evaluated on.  AddSeries is a step of    *)
(* its loop, Summing the states the loop passes through.                   *)
(***************************************************************************)
Summary == [count : Nat, sum : Nat, nonZero : Nat, min : Nat, max : Nat, hist : Hist]

SumOf(count, sum, nonZero, min, max, hist) ==
    [count |-> count, sum |-> sum, nonZero |-> nonZero, min |-> min, max |-> max, hist |-> hist]

NoSummary == [count |-> 0, sum |-> 0, nonZero |-> 0, min |-> 0, max |-> 0, hist |-> NewHist]

AddSeries(t, a) ==
    [t EXCEPT !.count = @ + a.count, !.sum = @ + a.sum, !.nonZero = @ + a.nonZero,
              !.min = IF @ = 0 \/ (a.count > 0 /\ MinOf(a) < @) THEN MinOf(a) ELSE @,
              !.max = Max({@, MaxOf(a)}),
              !.hist = IF a.hist = NoHist THEN @ ELSE MergeHist(@, a.hist)]

Summing(st, q) ==
    /\ st \in [0 .. Len(q) -> Summary] /\ st[0] = NoSummary
    /\ \A i \in 1 .. Len(q) : st[i] = AddSeries(st[i - 1], q[i])

LEMMA ExtremesAre ==
    ASSUME NEW a, IsAgg(a), a.metric # "vus"
    PROVE  /\ MinOf(a) \in Nat /\ MaxOf(a) \in Nat
           /\ a.count = 0 \/ a.kind = "rate" => MinOf(a) = 0 /\ MaxOf(a) = 0
           /\ a.count > 0 /\ a.kind = "counter" => MinOf(a) = 1 /\ MaxOf(a) = 1
           /\ a.count > 0 /\ a.kind = "trend" => MinOf(a) = a.min /\ MaxOf(a) = a.max
<1>1. /\ a.count \in Nat /\ Plain(a) /\ Kinded(a)
      /\ (a.kind = "trend" /\ a.count > 0 => a.min \in 0 .. Infinity - 1 /\ a.max \in 0 .. Infinity - 1)
  BY DEF IsAgg
<1>2. Infinity \in Nat /\ Infinity > 1
  BY DEF Infinity
<1>3. CASE a.count = 0
  BY <1>3 DEF MinOf, MaxOf
<1>4. CASE a.count > 0 /\ a.kind = "rate"
  BY <1>1, <1>2, <1>4 DEF Plain, MinOf, MaxOf
<1>5. CASE a.count > 0 /\ a.kind = "counter"
  BY <1>1, <1>2, <1>5 DEF Plain, MinOf, MaxOf
<1>6. CASE a.count > 0 /\ a.kind = "trend"
  <2>1. a.min # Infinity /\ a.max # -Infinity /\ a.min \in Nat /\ a.max \in Nat
    BY <1>1, <1>6, Finite
  <2>. QED BY <1>6, <2>1 DEF MinOf, MaxOf
<1>. QED BY <1>1, <1>3, <1>4, <1>5, <1>6 DEF Kinded

LEMMA AddSeriesIs ==
    ASSUME NEW t \in Summary, NEW a, IsAgg(a), a.metric # "vus"
    PROVE  LET u == AddSeries(t, a)
           IN  /\ u \in Summary
               /\ u.count = t.count + a.count /\ u.sum = t.sum + a.sum /\ u.nonZero = t.nonZero + a.nonZero
               /\ u.min = (IF t.min = 0 \/ (a.count > 0 /\ MinOf(a) < t.min) THEN MinOf(a) ELSE t.min)
               /\ u.max = (IF t.max <= MaxOf(a) THEN MaxOf(a) ELSE t.max)
               /\ \A i \in 1 .. CountsLen :
                    u.hist[i] = t.hist[i] + (IF a.hist = NoHist THEN 0 ELSE a.hist[i])
<1>. DEFINE u == AddSeries(t, a)
            mn == IF t.min = 0 \/ (a.count > 0 /\ MinOf(a) < t.min) THEN MinOf(a) ELSE t.min
            mx == Max({t.max, MaxOf(a)})
            h == IF a.hist = NoHist THEN t.hist ELSE MergeHist(t.hist, a.hist)
<1>1. /\ t = SumOf(t.count, t.sum, t.nonZero, t.min, t.max, t.hist)
      /\ t.count \in Nat /\ t.sum \in Nat /\ t.nonZero \in Nat /\ t.min \in Nat /\ t.max \in Nat /\ t.hist \in Hist
  BY DEF Summary, SumOf
<1>2. a.count \in Nat /\ a.sum \in Nat /\ a.nonZero \in Nat /\ (a.hist = NoHist \/ a.hist \in Hist)
  BY DEF IsAgg
<1>3. MinOf(a) \in Nat /\ MaxOf(a) \in Nat
  BY ExtremesAre
<1>4. u = SumOf(t.count + a.count, t.sum + a.sum, t.nonZero + a.nonZero, mn, mx, h)
  <2>1. u = [t EXCEPT !.count = @ + a.count, !.sum = @ + a.sum, !.nonZero = @ + a.nonZero,
                      !.min = IF @ = 0 \/ (a.count > 0 /\ MinOf(a) < @) THEN MinOf(a) ELSE @,
                      !.max = Max({@, MaxOf(a)}),
                      !.hist = IF a.hist = NoHist THEN @ ELSE MergeHist(@, a.hist)]
    BY DEF AddSeries
  <2>. HIDE DEF u
  <2>. QED BY <1>1, <2>1 DEF SumOf
<1>5. mx = (IF t.max <= MaxOf(a) THEN MaxOf(a) ELSE t.max)
  <2>1. t.max \in Int /\ MaxOf(a) \in Int
    BY <1>1, <1>3
  <2>. QED BY <2>1, MinPair
<1>6. h \in Hist /\ \A i \in 1 .. CountsLen : h[i] = t.hist[i] + (IF a.hist = NoHist THEN 0 ELSE a.hist[i])
  <2>1. CASE a.hist = NoHist
    <3>1. \A i \in 1 .. CountsLen : t.hist[i] \in Nat
      BY <1>1 DEF Hist
    <3>. QED BY <1>1, <2>1, <3>1
  <2>2. CASE a.hist # NoHist
    BY <1>1, <1>2, <2>2, MergeHistIs
  <2>. QED BY <2>1, <2>2
<1>7. mn \in Nat /\ mx \in Nat
  BY <1>1, <1>3, <1>5
<1>m. mn = (IF t.min = 0 \/ (a.count > 0 /\ MinOf(a) < t.min) THEN MinOf(a) ELSE t.min)
  OBVIOUS
<1>. HIDE DEF u, mn, mx, h
<1>8. /\ u.count = t.count + a.count /\ u.sum = t.sum + a.sum /\ u.nonZero = t.nonZero + a.nonZero
      /\ u.min = mn /\ u.max = mx /\ u.hist = h
  BY <1>4 DEF SumOf
<1>9. u \in Summary
  <2>1. t.count + a.count \in Nat /\ t.sum + a.sum \in Nat /\ t.nonZero + a.nonZero \in Nat
    BY <1>1, <1>2
  <2>. QED BY <1>4, <1>6, <1>7, <2>1 DEF Summary, SumOf
<1>. QED BY <1>5, <1>6, <1>8, <1>9, <1>m DEF u

LEMMA AggregateSums ==
    ASSUME NEW metric, NEW S, NEW q \in Seq(S), \A a \in S : IsAgg(a) /\ a.metric # "vus"
    PROVE  \E st : Summing(st, q) /\ Aggregate(metric, q) = st[Len(q)]
<1>. DEFINE n == Len(q)
            A(g) == g = [s \in SUBSET DOMAIN q |-> IF s = {} THEN NoSummary ELSE AddSeries(g[s \ {Max(s)}], q[Max(s)])]
            G == CHOOSE g : A(g)
<1>0. n \in Nat /\ DOMAIN q = 1 .. n /\ \A i \in 1 .. n : q[i] \in S
  OBVIOUS
<1>1. Aggregate(metric, q) = G[DOMAIN q]
  BY DEF Aggregate, AddSeries, NoSummary, FoldLeft, MapThenFoldSet
<1>. HIDE DEF n
<1>2. \A i \in 1 .. n, t \in Summary : AddSeries(t, q[i]) \in Summary
  BY <1>0, AddSeriesIs
<1>3. NoSummary \in Summary
  BY HistFacts DEF NoSummary, Summary
<1>4. \E g \in [SUBSET (1 .. n) -> Summary] : A(g)
  <2>. DEFINE F == [p \in (1 .. n) \X Summary |-> AddSeries(p[2], q[p[1]])]
  <2>1. F \in [(1 .. n) \X Summary -> Summary]
    BY <1>2
  <2>2. \A i \in 1 .. n, v \in Summary : F[<<i, v>>] = AddSeries(v, q[i])
    OBVIOUS
  <2>. HIDE DEF F
  <2>3. PICK g \in [SUBSET (1 .. n) -> Summary] : IsFold(g, NoSummary, F, LastOf(n), 1 .. n)
    BY <1>0, <1>3, <2>1, LeftFoldExists
  <2>4. ASSUME NEW s \in SUBSET (1 .. n)
        PROVE  g[s] = IF s = {} THEN NoSummary ELSE AddSeries(g[s \ {Max(s)}], q[Max(s)])
    <3>1. CASE s # {}
      <4>1. Max(s) \in 1 .. n /\ s \ {Max(s)} \in SUBSET (1 .. n)
        BY <1>0, <3>1, MaxIn
      <4>2. g[s] = F[<<Max(s), g[s \ {Max(s)}]>>]
        BY <2>3, <3>1 DEF IsFold, LastOf
      <4>. QED BY <2>2, <2>3, <3>1, <4>1, <4>2
    <3>. QED BY <2>3, <3>1 DEF IsFold
  <2>5. g = [s \in SUBSET (1 .. n) |-> IF s = {} THEN NoSummary ELSE AddSeries(g[s \ {Max(s)}], q[Max(s)])]
    BY <2>3, <2>4
  <2>. QED BY <1>0, <2>5
<1>5. A(G)
  <2>1. \E g : A(g)
    BY <1>4
  <2>. HIDE DEF A
  <2>. QED BY <2>1, Zenon
<1>. DEFINE rhs(s) == IF s = {} THEN NoSummary ELSE AddSeries(G[s \ {Max(s)}], q[Max(s)])
<1>6. ASSUME NEW s \in SUBSET (1 .. n) PROVE G[s] = rhs(s)
  <2>1. G = [x \in SUBSET (1 .. n) |-> rhs(x)]
    BY <1>0, <1>5
  <2>. HIDE DEF G, rhs
  <2>. QED BY <2>1
<1>. HIDE DEF G
<1>. DEFINE st == [i \in 0 .. n |-> G[1 .. i]]
            K == {i \in Nat : i <= n => st[i] \in Summary}
<1>7. st[0] = NoSummary
  <2>1. 1 .. 0 = {} /\ {} \in SUBSET (1 .. n) /\ 0 \in 0 .. n
    BY <1>0
  <2>2. G[{}] = rhs({})
    BY <1>6, <2>1
  <2>. QED BY <2>1, <2>2
<1>8. \A i \in 1 .. n : st[i] = AddSeries(st[i - 1], q[i])
  <2>. SUFFICES ASSUME NEW i \in 1 .. n PROVE st[i] = AddSeries(st[i - 1], q[i])
    OBVIOUS
  <2>1. i \in Nat \ {0} /\ i - 1 \in 0 .. n /\ i \in 0 .. n /\ 1 .. i \in SUBSET (1 .. n)
    BY <1>0
  <2>2. Max(1 .. i) = i /\ (1 .. i) \ {i} = 1 .. i - 1 /\ 1 .. i # {}
    BY <2>1, MaxUpTo
  <2>3. G[1 .. i] = rhs(1 .. i)
    BY <1>6, <2>1
  <2>4. G[1 .. i] = AddSeries(G[1 .. i - 1], q[i])
    BY <2>2, <2>3
  <2>. QED BY <2>1, <2>4
<1>. HIDE DEF st
<1>9. 0 \in K
  BY <1>3, <1>7
<1>10. ASSUME NEW i \in Nat, i \in K PROVE i + 1 \in K
  <2>. SUFFICES ASSUME i + 1 <= n PROVE st[i + 1] \in Summary
    OBVIOUS
  <2>1. i + 1 \in 1 .. n /\ (i + 1) - 1 = i /\ st[i] \in Summary
    BY <1>0, <1>10
  <2>2. st[i + 1] = AddSeries(st[(i + 1) - 1], q[i + 1])
    BY <1>8, <2>1
  <2>. QED BY <1>2, <2>1, <2>2
<1>. HIDE DEF K
<1>11. \A i \in Nat : i \in K
  BY <1>9, <1>10, NumberInduction
<1>12. \A i \in 0 .. n : st[i] \in Summary
  BY <1>0, <1>11 DEF K
<1>13. st \in [0 .. n -> Summary]
  BY <1>12 DEF st
<1>14. st[n] = G[1 .. n]
  BY <1>0 DEF st
<1>. QED BY <1>0, <1>1, <1>7, <1>8, <1>13, <1>14 DEF Summing, n

(***************************************************************************)
(* What the summary of a metric's series holds of a measure.               *)
(***************************************************************************)
OfMetric(metric, part, slot) ==
    [among |-> "metric", metric |-> metric, labels |-> "", of |-> part, slot |-> slot]

Taken(t, k) ==
    CASE k.of = "count"   -> t.count
      [] k.of = "nonZero" -> t.nonZero
      [] k.of = "sum"     -> t.sum
      [] OTHER            -> t.hist[k.slot]

SeriesIn(m, metric) == {a \in m : a.metric = metric}

LEMMA SummaryTakes ==
    ASSUME NEW t \in Summary, NEW a, IsAgg(a), a.metric # "vus", NEW part, NEW slot, NEW k,
           k = OfMetric(a.metric, part, slot), IsMeasure(k)
    PROVE  /\ Taken(t, k) \in Int /\ Part(k, a) \in Int
           /\ Taken(AddSeries(t, a), k) = Taken(t, k) + Part(k, a)
<1>1. Measured(k, a.metric, a.labels)
  BY DEF Measured, OfMetric
<1>2. /\ AddSeries(t, a).count = t.count + a.count /\ AddSeries(t, a).sum = t.sum + a.sum
      /\ AddSeries(t, a).nonZero = t.nonZero + a.nonZero
      /\ \A i \in 1 .. CountsLen :
            AddSeries(t, a).hist[i] = t.hist[i] + (IF a.hist = NoHist THEN 0 ELSE a.hist[i])
  BY AddSeriesIs
<1>3. /\ t.count \in Nat /\ t.sum \in Nat /\ t.nonZero \in Nat /\ \A i \in 1 .. CountsLen : t.hist[i] \in Nat
  BY DEF Summary, Hist
<1>4. Part(k, a) \in Int
  BY PartNat
<1>5. k.of \notin {"count", "nonZero", "sum"} => k.slot \in 1 .. CountsLen
  BY DEF IsMeasure
<1>6. Taken(t, k) \in Int
  BY <1>3, <1>5 DEF Taken
<1>7. Taken(AddSeries(t, a), k) = Taken(t, k) + Part(k, a)
  BY <1>1, <1>2, <1>3, <1>4, <1>5 DEF Taken, Part
<1>. QED BY <1>4, <1>6, <1>7

LEMMA TakenNone ==
    ASSUME NEW k, IsMeasure(k)
    PROVE  Taken(NoSummary, k) = 0
<1>1. \A i \in 1 .. CountsLen : NewHist[i] = 0
  BY HistFacts
<1>. QED BY <1>1 DEF Taken, NoSummary, IsMeasure

LEMMA SummingTakes ==
    ASSUME NEW metric, metric # "vus", NEW S, NEW q \in Seq(S), \A a \in S : IsAgg(a) /\ a.metric = metric,
           NEW st, Summing(st, q), NEW part, NEW slot, NEW k, k = OfMetric(metric, part, slot), IsMeasure(k)
    PROVE  Taken(st[Len(q)], k) = SumFunction([j \in 1 .. Len(q) |-> Part(k, q[j])])
<1>. DEFINE n == Len(q)
            f(i) == [j \in 1 .. i |-> Part(k, q[j])]
            K == {i \in Nat : i <= n => Taken(st[i], k) = SumFunction(f(i))}
<1>0. n \in Nat /\ \A i \in 1 .. n : q[i] \in S
  OBVIOUS
<1>1. st \in [0 .. n -> Summary] /\ st[0] = NoSummary /\ \A i \in 1 .. n : st[i] = AddSeries(st[i - 1], q[i])
  BY DEF Summing
<1>. HIDE DEF n
<1>2. \A j \in 1 .. n : Part(k, q[j]) \in Int
  BY <1>0, PartNat
<1>3. 0 \in K
  <2>1. SumFunction(f(0)) = 0
    <3>. DEFINE z == f(0)
    <3>1. DOMAIN z = {}
      OBVIOUS
    <3>2. IsFiniteSet(DOMAIN z) /\ \A x \in DOMAIN z : z[x] = 0
      BY <3>1, FS_EmptySet
    <3>. HIDE DEF z
    <3>3. SumFunction(z) = 0
      BY <3>2, SumZero
    <3>. QED BY <3>3 DEF z
  <2>. QED BY <1>1, <2>1, TakenNone
<1>4. ASSUME NEW i \in Nat, i \in K PROVE i + 1 \in K
  <2>. SUFFICES ASSUME i + 1 <= n PROVE Taken(st[i + 1], k) = SumFunction(f(i + 1))
    OBVIOUS
  <2>1. i \in 0 .. n /\ i + 1 \in 1 .. n /\ (i + 1) - 1 = i /\ Taken(st[i], k) = SumFunction(f(i))
    BY <1>0, <1>4
  <2>2. st[i] \in Summary /\ st[i + 1] = AddSeries(st[i], q[i + 1])
    BY <1>1, <2>1
  <2>3. Taken(st[i + 1], k) = Taken(st[i], k) + Part(k, q[i + 1])
    <3>. DEFINE a == q[i + 1]
    <3>1. IsAgg(a) /\ a.metric = metric
      BY <1>0, <2>1
    <3>. HIDE DEF a
    <3>2. Taken(AddSeries(st[i], a), k) = Taken(st[i], k) + Part(k, a)
      BY <2>2, <3>1, SummaryTakes, ZenonT(60)
    <3>. QED BY <2>2, <3>2 DEF a
  <2>4. SumFunction(f(i + 1)) = SumFunction(f(i)) + Part(k, q[i + 1])
    <3>. DEFINE x == f(i)
                y == f(i + 1)
    <3>0. 1 .. i + 1 = 1 .. i \cup {i + 1} /\ i + 1 \notin 1 .. i /\ 1 .. i \subseteq 1 .. n
      BY <1>0, <2>1
    <3>1. /\ DOMAIN x = 1 .. i /\ i + 1 \notin DOMAIN x /\ DOMAIN y = DOMAIN x \cup {i + 1}
          /\ y[i + 1] = Part(k, q[i + 1])
          /\ \A j \in DOMAIN x : x[j] \in Int /\ y[j] = x[j]
      BY <1>2, <3>0
    <3>2. IsFiniteSet(DOMAIN x) /\ y[i + 1] \in Int
      BY <1>2, <2>1, <3>1, FS_Interval
    <3>. HIDE DEF x, y
    <3>3. SumFunction(y) = SumFunction(x) + y[i + 1]
      BY <3>1, <3>2, SumExtend
    <3>. QED BY <3>1, <3>3 DEF x, y
  <2>. QED BY <2>1, <2>3, <2>4
<1>. HIDE DEF K
<1>5. \A i \in Nat : i \in K
  BY <1>3, <1>4, NumberInduction
<1>6. n \in K /\ n <= n
  BY <1>0, <1>5
<1>7. Taken(st[n], k) = SumFunction(f(n))
  BY <1>6 DEF K
<1>. QED BY <1>7 DEF n

LEMMA ListedMass ==
    ASSUME NEW S, Aggs(S), NEW q, Lists(q, S), NEW k, IsMeasure(k)
    PROVE  Mass(k, S) = SumFunction([j \in 1 .. Len(q) |-> Part(k, q[j])])
<1>. DEFINE f == [a \in S |-> Part(k, a)]
            g == [j \in 1 .. Len(q) |-> Part(k, q[j])]
<1>1. /\ q \in Seq(S) /\ (\A i, j \in 1 .. Len(q) : q[i] = q[j] => i = j)
      /\ S = {q[i] : i \in 1 .. Len(q)} /\ Len(q) \in Nat
  <2>1. q \in Seq(S) /\ \A i, j \in 1 .. Len(q) : q[i] = q[j] => i = j
    BY Zenon DEF Lists
  <2>2. S = {q[i] : i \in 1 .. Len(q)}
    BY Zenon DEF Lists
  <2>3. Len(q) \in Nat
    BY <2>1, LenProperties
  <2>. QED BY <2>1, <2>2, <2>3, Zenon
<1>2. \A a \in S : Part(k, a) \in Int
  BY PartNat DEF Aggs
<1>3. IsFiniteSet(DOMAIN g) /\ DOMAIN g = 1 .. Len(q) /\ DOMAIN f = S
  BY <1>1, FS_Interval
<1>4. \A x \in DOMAIN g : g[x] \in Int /\ f[q[x]] = g[x]
  BY <1>1, <1>2
<1>5. DOMAIN f = {q[x] : x \in DOMAIN g} /\ \A x, y \in DOMAIN g : q[x] = q[y] => x = y
  BY <1>1, <1>3
<1>. HIDE DEF f, g
<1>6. SumFunction(f) = SumFunction(g)
  BY <1>3, <1>4, <1>5, SumReindex
<1>. QED BY <1>6 DEF f, g, Mass

LEMMA MetricMass ==
    ASSUME NEW m, Aggs(m), NEW metric, NEW part, NEW slot, NEW k, k = OfMetric(metric, part, slot), IsMeasure(k)
    PROVE  Aggs(SeriesIn(m, metric)) /\ Mass(k, SeriesIn(m, metric)) = Mass(k, m)
<1>. DEFINE S == SeriesIn(m, metric)
            T == m \ S
<1>1. S \subseteq m /\ \A a \in T : Part(k, a) = 0
  BY DEF SeriesIn, Part, Measured, OfMetric
<1>. HIDE DEF S
<1>2. Aggs(S) /\ Aggs(T) /\ Mass(k, m) = Mass(k, S) + Mass(k, T)
  BY <1>1, MassSplit
<1>. HIDE DEF T
<1>3. Mass(k, T) = 0
  BY <1>1, <1>2, MassZero
<1>4. Mass(k, S) \in Int
  BY <1>2, MassInt
<1>. QED BY <1>2, <1>3, <1>4 DEF S

(***************************************************************************)
(* In whatever order a map yields the series of a metric, Aggregate reads  *)
(* of every measure what they hold of it.                                  *)
(***************************************************************************)
LEMMA AggregateTakes ==
    ASSUME NEW m, Aggs(m), NEW metric, metric # "vus", NEW q, Lists(q, SeriesIn(m, metric))
    PROVE  \E st : /\ Summing(st, q) /\ Aggregate(metric, q) = st[Len(q)]
                   /\ \A part, slot : IsMeasure(OfMetric(metric, part, slot)) =>
                        Taken(st[Len(q)], OfMetric(metric, part, slot)) = Mass(OfMetric(metric, part, slot), m)
<1>. DEFINE S == SeriesIn(m, metric)
<1>1. q \in Seq(S) /\ \A a \in S : IsAgg(a) /\ a.metric = metric
  BY DEF Lists, SeriesIn, Aggs
<1>2. Aggs(S)
  <2>1. S \subseteq m
    BY DEF SeriesIn
  <2>. HIDE DEF S
  <2>. QED BY <2>1, FS_Subset DEF Aggs
<1>3. Lists(q, S)
  OBVIOUS
<1>. HIDE DEF S
<1>4. PICK st : Summing(st, q) /\ Aggregate(metric, q) = st[Len(q)]
  BY <1>1, AggregateSums
<1>5. ASSUME NEW part, NEW slot, IsMeasure(OfMetric(metric, part, slot))
      PROVE  Taken(st[Len(q)], OfMetric(metric, part, slot)) = Mass(OfMetric(metric, part, slot), m)
  <2>. DEFINE k == OfMetric(metric, part, slot)
  <2>1. IsMeasure(k) /\ k = OfMetric(metric, part, slot)
    BY <1>5
  <2>. HIDE DEF k
  <2>2. Taken(st[Len(q)], k) = SumFunction([j \in 1 .. Len(q) |-> Part(k, q[j])])
    BY <1>1, <1>4, <2>1, SummingTakes
  <2>3. Mass(k, S) = SumFunction([j \in 1 .. Len(q) |-> Part(k, q[j])])
    BY <1>2, <1>3, <2>1, ListedMass
  <2>4. Mass(k, S) = Mass(k, m)
    BY <2>1, MetricMass DEF S
  <2>. QED BY <2>2, <2>3, <2>4 DEF k
<1>. QED BY <1>4, <1>5

(***************************************************************************)
(* Sums over the observations: WeightIn is Weight with the history as a    *)
(* parameter, ObservedOf the observations of a metric, Placed in a slot.   *)
(***************************************************************************)
WeightIn(A, S) == SumFunction([x \in S |-> A[x]])

ObservedOf(A, metric) == {x \in DOMAIN A : x[2].metric = metric}

InSlots(S, i) == {x \in S : \E j \in 1 .. i : InSlot(x[2].value, j)}

LEMMA SumWhere ==
    ASSUME NEW f, NEW g, IsFiniteSet(DOMAIN f), DOMAIN g \subseteq DOMAIN f,
           \A x \in DOMAIN f : f[x] \in Int, \A x \in DOMAIN g : g[x] = f[x],
           \A x \in DOMAIN f : x \notin DOMAIN g => f[x] = 0
    PROVE  SumFunction(f) = SumFunction(g)
<1>. DEFINE r == DOMAIN f \ DOMAIN g
            h == [x \in r |-> f[x]]
<1>1. /\ IsFiniteSet(DOMAIN h) /\ IsFiniteSet(DOMAIN g) /\ DOMAIN f = DOMAIN g \cup DOMAIN h
      /\ DOMAIN g \cap DOMAIN h = {} /\ (\A x \in DOMAIN h : h[x] = f[x]) /\ \A x \in DOMAIN h : h[x] = 0
  BY FS_Subset
<1>. HIDE DEF h
<1>2. SumFunction(f) = SumFunction(g) + SumFunction(h)
  BY <1>1, SumHalves
<1>3. SumFunction(h) = 0
  BY <1>1, SumZero
<1>4. SumFunction(g) \in Int
  BY <1>1, SumInt
<1>. QED BY <1>2, <1>3, <1>4

LEMMA WeightNat ==
    ASSUME NEW A, Counted(A), NEW S, S \subseteq DOMAIN A
    PROVE  /\ WeightIn(A, S) \in Nat
           /\ S # {} => WeightIn(A, S) > 0
           /\ S = {} => WeightIn(A, S) = 0
<1>. DEFINE f == [x \in S |-> A[x]]
<1>1. DOMAIN f = S /\ IsFiniteSet(S) /\ \A x \in S : f[x] \in Nat /\ f[x] # 0
  BY FS_Subset DEF Counted
<1>. HIDE DEF f
<1>2. SumFunction(f) \in Nat /\ \A x \in S : f[x] <= SumFunction(f)
  BY <1>1, SumNat
<1>3. S = {} => SumFunction(f) = 0
  BY <1>1, SumZero
<1>4. ASSUME NEW x \in S PROVE SumFunction(f) > 0
  <2>1. f[x] \in Nat /\ f[x] # 0 /\ f[x] <= SumFunction(f)
    BY <1>1, <1>2
  <2>. QED BY <1>2, <2>1
<1>. QED BY <1>2, <1>3, <1>4 DEF f, WeightIn

LEMMA WeightSplit ==
    ASSUME NEW A, Counted(A), NEW S, S \subseteq DOMAIN A, NEW T, T \subseteq DOMAIN A, S \cap T = {}
    PROVE  WeightIn(A, S \cup T) = WeightIn(A, S) + WeightIn(A, T)
<1>. DEFINE f == [x \in S |-> A[x]]
            g == [x \in T |-> A[x]]
            h == [x \in S \cup T |-> A[x]]
<1>0. S \cup T \subseteq DOMAIN A
  OBVIOUS
<1>1. /\ IsFiniteSet(DOMAIN h) /\ DOMAIN h = DOMAIN f \cup DOMAIN g /\ DOMAIN f \cap DOMAIN g = {}
      /\ (\A x \in DOMAIN h : h[x] \in Int) /\ (\A x \in DOMAIN f : f[x] = h[x])
      /\ \A x \in DOMAIN g : g[x] = h[x]
  BY <1>0, FS_Subset DEF Counted
<1>. HIDE DEF f, g, h
<1>2. SumFunction(h) = SumFunction(f) + SumFunction(g)
  BY <1>1, SumHalves
<1>. QED BY <1>2 DEF f, g, h, WeightIn

(***************************************************************************)
(* A measure that counts observations weighs the ones it counts.           *)
(***************************************************************************)
LEMMA ObservedWeight ==
    ASSUME NEW A, Counted(A), NEW k, IsMeasure(k), NEW S, S \subseteq DOMAIN A,
           \A x \in DOMAIN A : PartOf(k, x[2]) = IF x \in S THEN 1 ELSE 0
    PROVE  ObservedIn(A, k) = WeightIn(A, S)
<1>. DEFINE f == [x \in DOMAIN A |-> A[x] * PartOf(k, x[2])]
            g == [x \in S |-> A[x]]
<1>1. \A x \in DOMAIN A : A[x] \in Nat
  BY DEF Counted
<1>2. \A x \in DOMAIN A : f[x] = IF x \in S THEN A[x] ELSE 0
  BY <1>1
<1>3. /\ IsFiniteSet(DOMAIN f) /\ DOMAIN g \subseteq DOMAIN f
      /\ (\A x \in DOMAIN f : f[x] \in Int) /\ (\A x \in DOMAIN g : g[x] = f[x])
      /\ \A x \in DOMAIN f : x \notin DOMAIN g => f[x] = 0
  <2>1. DOMAIN f = DOMAIN A /\ DOMAIN g = S /\ \A x \in S : g[x] = A[x]
    OBVIOUS
  <2>. HIDE DEF f, g
  <2>. QED BY <1>1, <1>2, <2>1 DEF Counted
<1>. HIDE DEF f, g
<1>4. SumFunction(f) = SumFunction(g)
  BY <1>3, SumWhere
<1>. QED BY <1>4 DEF f, g, ObservedIn, WeightIn

LEMMA MetricObserved ==
    ASSUME NEW A, Counted(A), NEW metric, metric # "vus"
    PROVE  LET S == ObservedOf(A, metric)
           IN  /\ ObservedIn(A, OfMetric(metric, "count", 0)) = WeightIn(A, S)
               /\ ObservedIn(A, OfMetric(metric, "nonZero", 0)) = WeightIn(A, {x \in S : x[2].truthy})
               /\ ObservedIn(A, OfMetric(metric, "sum", 0)) = SumFunction([x \in S |-> A[x] * x[2].value])
               /\ \A i \in 1 .. CountsLen :
                    ObservedIn(A, OfMetric(metric, "slot", i))
                        = WeightIn(A, {x \in S : x[2].kind = "trend" /\ InSlot(x[2].value, i)})
<1>. DEFINE S == ObservedOf(A, metric)
<1>0. S \subseteq DOMAIN A /\ \A x \in DOMAIN A : x \in S <=> x[2].metric = metric
  BY DEF ObservedOf
<1>1. ASSUME NEW o, NEW part, NEW slot
      PROVE  Measured(OfMetric(metric, part, slot), o.metric, o.labels) <=> o.metric = metric
  BY DEF Measured, OfMetric
<1>2. ASSUME NEW o
      PROVE  /\ PartOf(OfMetric(metric, "count", 0), o) = IF o.metric = metric THEN 1 ELSE 0
             /\ PartOf(OfMetric(metric, "nonZero", 0), o) = IF o.metric = metric /\ o.truthy THEN 1 ELSE 0
             /\ PartOf(OfMetric(metric, "sum", 0), o) = IF o.metric = metric THEN o.value ELSE 0
             /\ \A i : PartOf(OfMetric(metric, "slot", i), o) =
                        IF o.metric = metric /\ (o.kind = "trend" /\ InSlot(o.value, i)) THEN 1 ELSE 0
  <2>1. \A part, slot : OfMetric(metric, part, slot).of = part /\ OfMetric(metric, part, slot).slot = slot
    BY DEF OfMetric
  <2>. QED BY <1>1, <2>1 DEF PartOf
<1>3. /\ IsMeasure(OfMetric(metric, "count", 0)) /\ IsMeasure(OfMetric(metric, "nonZero", 0))
      /\ IsMeasure(OfMetric(metric, "sum", 0)) /\ \A i \in 1 .. CountsLen : IsMeasure(OfMetric(metric, "slot", i))
  BY DEF IsMeasure, OfMetric
<1>. HIDE DEF S
<1>4. ObservedIn(A, OfMetric(metric, "count", 0)) = WeightIn(A, S)
  <2>1. \A x \in DOMAIN A : PartOf(OfMetric(metric, "count", 0), x[2]) = IF x \in S THEN 1 ELSE 0
    BY <1>0, <1>2
  <2>. QED BY <1>0, <1>3, <2>1, ObservedWeight
<1>5. ObservedIn(A, OfMetric(metric, "nonZero", 0)) = WeightIn(A, {x \in S : x[2].truthy})
  <2>. DEFINE T == {x \in S : x[2].truthy}
  <2>1. T \subseteq DOMAIN A /\ \A x \in DOMAIN A : x \in T <=> x[2].metric = metric /\ x[2].truthy
    BY <1>0
  <2>. HIDE DEF T
  <2>2. \A x \in DOMAIN A : PartOf(OfMetric(metric, "nonZero", 0), x[2]) = IF x \in T THEN 1 ELSE 0
    BY <1>2, <2>1
  <2>3. ObservedIn(A, OfMetric(metric, "nonZero", 0)) = WeightIn(A, T)
    BY <1>3, <2>1, <2>2, ObservedWeight
  <2>. QED BY <2>3 DEF T
<1>6. ASSUME NEW i \in 1 .. CountsLen
      PROVE  ObservedIn(A, OfMetric(metric, "slot", i))
                = WeightIn(A, {x \in S : x[2].kind = "trend" /\ InSlot(x[2].value, i)})
  <2>. DEFINE T == {x \in S : x[2].kind = "trend" /\ InSlot(x[2].value, i)}
  <2>1. T \subseteq DOMAIN A
        /\ \A x \in DOMAIN A : x \in T <=> x[2].metric = metric /\ (x[2].kind = "trend" /\ InSlot(x[2].value, i))
    BY <1>0
  <2>. HIDE DEF T
  <2>2. \A x \in DOMAIN A : PartOf(OfMetric(metric, "slot", i), x[2]) = IF x \in T THEN 1 ELSE 0
    BY <1>2, <2>1
  <2>3. ObservedIn(A, OfMetric(metric, "slot", i)) = WeightIn(A, T)
    BY <1>3, <2>1, <2>2, ObservedWeight
  <2>. QED BY <2>3 DEF T
<1>7. ObservedIn(A, OfMetric(metric, "sum", 0)) = SumFunction([x \in S |-> A[x] * x[2].value])
  <2>. DEFINE k == OfMetric(metric, "sum", 0)
              f == [x \in DOMAIN A |-> A[x] * PartOf(k, x[2])]
              g == [x \in S |-> A[x] * x[2].value]
  <2>1. \A x \in DOMAIN A : A[x] \in Nat /\ x[2].value \in Nat
    BY DEF Counted, IsObs
  <2>2. \A x \in DOMAIN A : PartOf(k, x[2]) = IF x \in S THEN x[2].value ELSE 0
    BY <1>0, <1>2
  <2>3. DOMAIN f = DOMAIN A /\ DOMAIN g = S
    OBVIOUS
  <2>4. \A x \in DOMAIN A : f[x] \in Int /\ (x \notin S => f[x] = 0)
    <3>. SUFFICES ASSUME NEW x \in DOMAIN A PROVE f[x] \in Int /\ (x \notin S => f[x] = 0)
      OBVIOUS
    <3>1. f[x] = A[x] * PartOf(k, x[2])
      OBVIOUS
    <3>. HIDE DEF f, k
    <3>2. CASE x \in S
      <4>1. PartOf(k, x[2]) \in Nat /\ A[x] \in Nat
        BY <2>1, <2>2, <3>2
      <4>. QED BY <3>1, <3>2, <4>1
    <3>3. CASE x \notin S
      <4>1. PartOf(k, x[2]) = 0 /\ A[x] \in Nat
        BY <2>1, <2>2, <3>3
      <4>. QED BY <3>1, <4>1
    <3>. QED BY <3>2, <3>3
  <2>5. \A x \in S : g[x] = f[x]
    BY <1>0, <2>2
  <2>6. IsFiniteSet(DOMAIN A)
    BY DEF Counted
  <2>7. ObservedIn(A, k) = SumFunction(f)
    BY DEF ObservedIn
  <2>. HIDE DEF f, g, k
  <2>8. SumFunction(f) = SumFunction(g)
    BY <1>0, <2>3, <2>4, <2>5, <2>6, SumWhere
  <2>. QED BY <2>7, <2>8 DEF g, k
<1>. QED BY <1>4, <1>5, <1>6, <1>7 DEF S

(***************************************************************************)
(* The running count of a distribution, as the observations in its slots.  *)
(***************************************************************************)
LEMMA UpToIs ==
    ASSUME NEW h \in Hist, NEW i \in 0 .. CountsLen
    PROVE  UpTo(h, i) = SumFunction([j \in 1 .. i |-> h[j]])
<1>. DEFINE n == CountsLen
            s == SubSeq(h, 1, i)
            f == [j \in 1 .. i |-> h[j]]
<1>1. n \in Nat /\ h \in [1 .. n -> Nat] /\ i \in Nat /\ i <= n
  BY HistFacts DEF Hist
<1>. HIDE DEF n
<1>2. h \in Seq(Nat) /\ Len(h) = n
  BY <1>1
<1>3. s \in Seq(Nat) /\ Len(s) = i /\ \A j \in 1 .. i : s[j] = h[j]
  <2>1. 1 \in 1 .. Len(h) + 1 /\ i \in 1 - 1 .. Len(h)
    BY <1>1, <1>2
  <2>. QED BY <1>1, <1>2, <2>1, SubSeqProperties
<1>4. s = f
  BY <1>1, <1>3
<1>5. f \in [1 .. i -> Nat]
  BY <1>1
<1>. HIDE DEF s, f
<1>6. TotalCount(f) = SumFunction(f)
  BY <1>1, <1>5, TotalCountIs
<1>. QED BY <1>4, <1>6 DEF s, f, UpTo

Slotted(h, A, S) ==
    \A i \in 1 .. CountsLen : h[i] = WeightIn(A, {x \in S : InSlot(x[2].value, i)})

LEMMA UpToWeighs ==
    ASSUME NEW h \in Hist, NEW A, Counted(A), NEW S, S \subseteq DOMAIN A, Slotted(h, A, S)
    PROVE  /\ \A i \in 0 .. CountsLen : UpTo(h, i) = WeightIn(A, InSlots(S, i))
           /\ TotalCount(h) = WeightIn(A, S)
<1>. DEFINE n == CountsLen
            f(i) == [j \in 1 .. i |-> h[j]]
            at(i) == {x \in S : InSlot(x[2].value, i)}
            K == {i \in Nat : i <= n => SumFunction(f(i)) = WeightIn(A, InSlots(S, i))}
<1>1. n \in Nat /\ h \in [1 .. n -> Nat]
  BY HistFacts DEF Hist
<1>2. \A x \in S : x[2].value \in Nat
  BY DEF Counted, IsObs
<1>h. \A i \in 1 .. n : h[i] = WeightIn(A, at(i))
  BY DEF Slotted
<1>o. /\ \A x \in S : \E i \in 1 .. n : InSlot(x[2].value, i)
      /\ \A x \in S : \A i, j \in 1 .. n : InSlot(x[2].value, i) /\ InSlot(x[2].value, j) => i = j
  <2>1. ASSUME NEW x \in S
        PROVE  /\ SlotOf(x[2].value) \in 1 .. n
               /\ \A i \in 1 .. n : InSlot(x[2].value, i) <=> i = SlotOf(x[2].value)
    BY <1>2, OneSlot
  <2>. QED BY <2>1
<1>. HIDE DEF n
<1>3. 0 \in K
  <2>1. InSlots(S, 0) = {}
    BY DEF InSlots
  <2>2. WeightIn(A, {}) = 0
    BY WeightNat
  <2>3. SumFunction(f(0)) = 0
    <3>. DEFINE z == f(0)
    <3>1. DOMAIN z = {}
      OBVIOUS
    <3>2. IsFiniteSet(DOMAIN z) /\ \A x \in DOMAIN z : z[x] = 0
      BY <3>1, FS_EmptySet
    <3>. HIDE DEF z
    <3>3. SumFunction(z) = 0
      BY <3>2, SumZero
    <3>. QED BY <3>3 DEF z
  <2>. QED BY <2>1, <2>2, <2>3
<1>4. ASSUME NEW i \in Nat, i \in K PROVE i + 1 \in K
  <2>. SUFFICES ASSUME i + 1 <= n PROVE SumFunction(f(i + 1)) = WeightIn(A, InSlots(S, i + 1))
    OBVIOUS
  <2>1. i + 1 \in 1 .. n /\ SumFunction(f(i)) = WeightIn(A, InSlots(S, i))
    BY <1>1, <1>4
  <2>2. 1 .. i + 1 = 1 .. i \cup {i + 1} /\ i + 1 \notin 1 .. i /\ 1 .. i \subseteq 1 .. n
    BY <1>1, <2>1
  <2>3. SumFunction(f(i + 1)) = SumFunction(f(i)) + h[i + 1]
    <3>. DEFINE x == f(i)
                y == f(i + 1)
    <3>1. /\ DOMAIN x = 1 .. i /\ i + 1 \notin DOMAIN x /\ DOMAIN y = DOMAIN x \cup {i + 1}
          /\ y[i + 1] = h[i + 1]
          /\ \A j \in DOMAIN x : x[j] \in Int /\ y[j] = x[j]
      BY <1>1, <2>2
    <3>2. IsFiniteSet(DOMAIN x) /\ y[i + 1] \in Int
      BY <1>1, <2>1, <3>1, FS_Interval
    <3>. HIDE DEF x, y
    <3>3. SumFunction(y) = SumFunction(x) + y[i + 1]
      BY <3>1, <3>2, SumExtend
    <3>. QED BY <3>1, <3>3 DEF x, y
  <2>4. InSlots(S, i + 1) = InSlots(S, i) \cup at(i + 1) /\ InSlots(S, i) \cap at(i + 1) = {}
    <3>1. InSlots(S, i + 1) = InSlots(S, i) \cup at(i + 1)
      BY <2>2 DEF InSlots
    <3>2. ASSUME NEW x \in InSlots(S, i) \cap at(i + 1) PROVE FALSE
      <4>1. PICK j \in 1 .. i : InSlot(x[2].value, j)
        BY <3>2 DEF InSlots
      <4>2. x \in S /\ InSlot(x[2].value, i + 1)
        BY <3>2
      <4>3. j = i + 1
        BY <1>o, <2>1, <2>2, <4>1, <4>2
      <4>. QED BY <2>2, <4>1, <4>3
    <3>. QED BY <3>1, <3>2
  <2>5. InSlots(S, i) \subseteq DOMAIN A /\ at(i + 1) \subseteq DOMAIN A
    BY DEF InSlots
  <2>6. h[i + 1] = WeightIn(A, at(i + 1))
    BY <1>h, <2>1
  <2>. DEFINE T == at(i + 1)
              L == InSlots(S, i)
  <2>. HIDE DEF T, L
  <2>7. WeightIn(A, L \cup T) = WeightIn(A, L) + WeightIn(A, T)
    BY <2>4, <2>5, WeightSplit DEF T, L
  <2>. QED BY <2>1, <2>3, <2>4, <2>6, <2>7 DEF T, L
<1>. HIDE DEF K
<1>5. \A i \in Nat : i \in K
  BY <1>3, <1>4, NumberInduction
<1>6. ASSUME NEW i \in 0 .. n PROVE SumFunction(f(i)) = WeightIn(A, InSlots(S, i))
  BY <1>1, <1>5 DEF K
<1>7. ASSUME NEW i \in 0 .. CountsLen PROVE UpTo(h, i) = WeightIn(A, InSlots(S, i))
  BY <1>6, UpToIs DEF n
<1>8. TotalCount(h) = WeightIn(A, S)
  <2>1. TotalCount(h) = SumFunction(h)
    BY <1>1, TotalCountIs
  <2>2. h = f(n)
    BY <1>1
  <2>3. InSlots(S, n) = S
    BY <1>o DEF InSlots
  <2>. QED BY <1>1, <1>6, <2>1, <2>2, <2>3
<1>. QED BY <1>7, <1>8

(***************************************************************************)
(* A percentile of the distribution is that of the observations in it.     *)
(***************************************************************************)
RankOf(A, S, q) ==
    LET total == WeightIn(A, S)
        below(i) == WeightIn(A, InSlots(S, i))
        rank == (q * total + 50) \div 100
    IN  Bounds[Min({i \in 1 .. CountsLen : below(i) > 0 /\ below(i) >= rank})]

LEMMA QuantileIs ==
    ASSUME NEW h \in Hist, NEW A, Counted(A), NEW S, S \subseteq DOMAIN A, Slotted(h, A, S), NEW q
    PROVE  ValueAtQuantile(h, q) = RankOf(A, S, q)
<1>1. DOMAIN h = 1 .. CountsLen /\ CountsLen \in Nat
  BY HistFacts
<1>2. TotalCount(h) = WeightIn(A, S) /\ \A i \in 1 .. CountsLen : UpTo(h, i) = WeightIn(A, InSlots(S, i))
  BY <1>1, UpToWeighs
<1>. DEFINE r == (q * WeightIn(A, S) + 50) \div 100
<1>3. {i \in DOMAIN h : UpTo(h, i) > 0 /\ UpTo(h, i) >= r}
        = {i \in 1 .. CountsLen : WeightIn(A, InSlots(S, i)) > 0 /\ WeightIn(A, InSlots(S, i)) >= r}
  <2>. HIDE DEF r
  <2>. QED BY <1>1, <1>2
<1>4. ValueAtQuantile(h, q) = Bounds[Min({i \in DOMAIN h : UpTo(h, i) > 0 /\ UpTo(h, i) >= r})]
  BY <1>2 DEF ValueAtQuantile
<1>. QED BY <1>3, <1>4 DEF RankOf

(***************************************************************************)
(* The extremes of a summary.                                              *)
(***************************************************************************)
LEMMA LeastIs ==
    ASSUME NEW X, X \subseteq Nat, NEW x \in X, \A y \in X : x <= y
    PROVE  Min(X) = x
<1>. DEFINE m == CHOOSE z \in X : \A y \in X : z <= y
<1>1. m \in X /\ \A y \in X : m <= y
  OBVIOUS
<1>. HIDE DEF m
<1>2. m <= x /\ x <= m /\ m \in Nat /\ x \in Nat
  BY <1>1
<1>3. m = x
  BY <1>2
<1>. QED BY <1>3 DEF m, Min

LEMMA GreatestIs ==
    ASSUME NEW X, X \subseteq Nat, NEW x \in X, \A y \in X : y <= x
    PROVE  Max(X) = x
<1>. DEFINE m == CHOOSE z \in X : \A y \in X : z >= y
<1>1. m \in X /\ \A y \in X : m >= y
  <2>1. \A y \in X : x >= y
    OBVIOUS
  <2>. QED BY <2>1
<1>. HIDE DEF m
<1>2. m <= x /\ x <= m /\ m \in Nat /\ x \in Nat
  BY <1>1
<1>3. m = x
  BY <1>2
<1>. QED BY <1>3 DEF m, Max

ValuesIn(O) == {x[2].value : x \in O}

(***************************************************************************)
(* It is also the upper bound of the bucket of the exact percentile.       *)
(***************************************************************************)
ExactOf(A, S, q) ==
    LET rank == (q * WeightIn(A, S) + 50) \div 100
    IN  Min({v \in ValuesIn(S) : WeightIn(A, {x \in S : x[2].value <= v}) >= rank})

LEMMA WeightGrows ==
    ASSUME NEW A, Counted(A), NEW S, NEW T, S \subseteq T, T \subseteq DOMAIN A
    PROVE  WeightIn(A, S) <= WeightIn(A, T)
<1>. DEFINE R == T \ S
<1>1. S \subseteq DOMAIN A /\ R \subseteq DOMAIN A /\ S \cap R = {} /\ S \cup R = T
  OBVIOUS
<1>. HIDE DEF R
<1>2. WeightIn(A, T) = WeightIn(A, S) + WeightIn(A, R)
  BY <1>1, WeightSplit
<1>3. WeightIn(A, S) \in Nat /\ WeightIn(A, R) \in Nat
  BY <1>1, WeightNat
<1>. QED BY <1>2, <1>3

LEMMA SlotGrows ==
    ASSUME NEW v \in Nat, NEW w \in Nat, v <= w
    PROVE  SlotOf(v) <= SlotOf(w)
<1>1. SlotOf(w) \in 1 .. CountsLen /\ ScaleValue(w) <= Bounds[SlotOf(w)]
  <2>1. SlotOf(w) \in 1 .. CountsLen /\ (ScaleValue(w) <= Bounds[SlotOf(w)] <=> SlotOf(w) <= SlotOf(w))
    BY SlotIs
  <2>. QED BY <2>1
<1>2. ScaleValue(v) <= ScaleValue(w)
  BY ScaleGrows
<1>3. ScaleValue(v) \in Nat /\ ScaleValue(w) \in Nat /\ Bounds[SlotOf(w)] \in Nat
  BY <1>1, ScaledIs, LayoutFacts
<1>4. ScaleValue(v) <= Bounds[SlotOf(w)]
  BY <1>1, <1>2, <1>3
<1>. QED BY <1>1, <1>4, SlotIs

LEMMA RankIsExact ==
    ASSUME NEW A, Counted(A), NEW S, S \subseteq DOMAIN A, S # {},
           \A x \in S : x[2].value \in 0 .. Infinity - 1, NEW q \in {50, 90, 95, 99}
    PROVE  RankOf(A, S, q) = Bounds[SlotOf(ExactOf(A, S, q))]
<1>. DEFINE V == ValuesIn(S)
            total == WeightIn(A, S)
            r == (q * total + 50) \div 100
            low(v) == {x \in S : x[2].value <= v}
            X == {v \in V : WeightIn(A, low(v)) >= r}
            below(i) == WeightIn(A, InSlots(S, i))
            I == {i \in 1 .. CountsLen : below(i) > 0 /\ below(i) >= r}
            e == Min(X)
            s == SlotOf(e)
            top == Infinity - 1
<1>0. top \in Nat /\ \A x \in S : x[2].value \in 0 .. top
  BY DEF Infinity
<1>. HIDE DEF top
<1>1. top \in Nat /\ V \subseteq 0 .. top /\ V \subseteq Nat /\ V # {} /\ \A x \in S : x[2].value \in V
  <2>1. V \subseteq 0 .. top /\ V # {} /\ \A x \in S : x[2].value \in V
    BY <1>0 DEF ValuesIn
  <2>. HIDE DEF V
  <2>. QED BY <1>0, <2>1
<1>. HIDE DEF V
<1>2. total \in Nat /\ total > 0 /\ r \in Nat /\ r <= total
  <2>1. total \in Nat /\ total > 0
    BY WeightNat
  <2>. HIDE DEF total
  <2>. QED BY <2>1
<1>. HIDE DEF r
<1>3. \A v : low(v) \subseteq DOMAIN A /\ WeightIn(A, low(v)) \in Nat
  <2>. SUFFICES ASSUME NEW v PROVE low(v) \subseteq DOMAIN A /\ WeightIn(A, low(v)) \in Nat
    OBVIOUS
  <2>1. low(v) \subseteq DOMAIN A
    OBVIOUS
  <2>. HIDE DEF low
  <2>. QED BY <2>1, WeightNat
<1>4. X # {} /\ X \subseteq Nat
  <2>1. Max(V) \in V /\ \A y \in V : Max(V) >= y
    BY <1>1, MaxBelow
  <2>2. \A x \in S : x[2].value <= Max(V)
    <3>1. ASSUME NEW x \in S PROVE x[2].value <= Max(V)
      <4>1. x[2].value \in V /\ Max(V) >= x[2].value /\ x[2].value \in Nat /\ Max(V) \in Nat
        BY <1>1, <2>1
      <4>. QED BY <4>1
    <3>. QED BY <3>1
  <2>3. low(Max(V)) = S
    BY <2>2
  <2>4. WeightIn(A, low(Max(V))) >= r
    BY <1>2, <2>3
  <2>5. Max(V) \in X
    BY <2>1, <2>4
  <2>. QED BY <1>1, <2>5
<1>5. e \in X /\ \A v \in X : e <= v
  <2>1. PICK m \in X : \A y \in X : m <= y
    BY <1>4, LeastNat
  <2>. HIDE DEF X
  <2>. QED BY <2>1, Zenon DEF Min
<1>6. e \in V /\ e \in Nat /\ WeightIn(A, low(e)) >= r
  BY <1>1, <1>5
<1>. HIDE DEF e
<1>7. s \in 1 .. CountsLen
  BY <1>6, SlotIs
<1>8. ASSUME NEW i \in 1 .. CountsLen, NEW x \in S PROVE x \in InSlots(S, i) <=> SlotOf(x[2].value) <= i
  <2>. DEFINE v == x[2].value
  <2>1. v \in Nat
    BY <1>1
  <2>. HIDE DEF v
  <2>2. SlotOf(v) \in 1 .. CountsLen /\ \A j \in 1 .. CountsLen : InSlot(v, j) <=> j = SlotOf(v)
    BY <2>1, OneSlot
  <2>3. CountsLen \in Nat
    BY LayoutFacts
  <2>4. (\E j \in 1 .. i : InSlot(v, j)) <=> SlotOf(v) <= i
    BY <2>2, <2>3
  <2>. QED BY <2>4 DEF v, InSlots
<1>9. \A i : InSlots(S, i) \subseteq S /\ InSlots(S, i) \subseteq DOMAIN A
  BY DEF InSlots
<1>10. s \in I
  <2>1. ASSUME NEW x \in low(e) PROVE x \in InSlots(S, s)
    <3>1. x \in S /\ x[2].value <= e /\ x[2].value \in Nat
      BY <1>1
    <3>2. SlotOf(x[2].value) <= s
      BY <1>6, <3>1, SlotGrows
    <3>. QED BY <1>7, <1>8, <3>1, <3>2
  <2>2. low(e) # {}
    <3>1. PICK x \in S : x[2].value = e
      BY <1>6 DEF V, ValuesIn
    <3>2. x[2].value <= e
      BY <1>6, <3>1
    <3>. QED BY <3>2
  <2>3. low(e) \subseteq InSlots(S, s) /\ InSlots(S, s) # {} /\ InSlots(S, s) \subseteq DOMAIN A
    BY <1>9, <2>1, <2>2
  <2>. DEFINE a == low(e)
              b == InSlots(S, s)
  <2>. HIDE DEF a, b
  <2>4. WeightIn(A, a) <= WeightIn(A, b) /\ WeightIn(A, b) > 0 /\ WeightIn(A, b) \in Nat
    BY <2>3, WeightGrows, WeightNat DEF a, b
  <2>5. WeightIn(A, a) >= r /\ WeightIn(A, a) \in Nat
    BY <1>3, <1>6 DEF a
  <2>6. WeightIn(A, b) >= r
    BY <1>2, <2>4, <2>5
  <2>. QED BY <1>7, <2>4, <2>6 DEF b
<1>11. ASSUME NEW i \in I PROVE s <= i
  <2>. DEFINE L == InSlots(S, i)
              W == ValuesIn(L)
              g == Max(W)
  <2>1. i \in 1 .. CountsLen /\ WeightIn(A, L) > 0 /\ WeightIn(A, L) >= r
    OBVIOUS
  <2>2. L \subseteq S /\ L \subseteq DOMAIN A /\ L # {} /\ WeightIn(A, L) \in Nat
    <3>1. L \subseteq S /\ L \subseteq DOMAIN A
      BY <1>9
    <3>. HIDE DEF L
    <3>2. WeightIn(A, L) \in Nat /\ (L = {} => WeightIn(A, L) = 0)
      BY <3>1, WeightNat
    <3>. QED BY <2>1, <3>1, <3>2
  <2>. HIDE DEF L
  <2>3. W \subseteq V /\ W # {} /\ \A x \in L : x[2].value \in W
    BY <2>2 DEF V, ValuesIn
  <2>. HIDE DEF W
  <2>4. g \in W /\ \A y \in W : g >= y
    <3>1. W \subseteq 0 .. top
      BY <1>1, <2>3
    <3>. QED BY <1>1, <2>3, <3>1, MaxBelow
  <2>5. g \in V /\ g \in Nat
    BY <1>1, <2>3, <2>4
  <2>. HIDE DEF g
  <2>6. L \subseteq low(g)
    <3>1. ASSUME NEW x \in L PROVE x \in S /\ x[2].value <= g
      <4>1. x \in S /\ x[2].value \in W /\ x[2].value \in Nat
        BY <1>1, <2>2, <2>3
      <4>. QED BY <2>4, <2>5, <4>1
    <3>. QED BY <3>1
  <2>7. WeightIn(A, low(g)) >= r
    <3>. DEFINE b == low(g)
    <3>1. L \subseteq b /\ b \subseteq DOMAIN A /\ WeightIn(A, b) \in Nat
      BY <1>3, <2>6
    <3>. HIDE DEF b
    <3>2. WeightIn(A, L) <= WeightIn(A, b)
      BY <3>1, WeightGrows
    <3>3. WeightIn(A, b) >= r
      BY <1>2, <2>1, <2>2, <3>1, <3>2
    <3>. QED BY <3>3 DEF b
  <2>8. e <= g
    BY <1>5, <2>5, <2>7
  <2>9. s <= SlotOf(g)
    BY <1>6, <2>5, <2>8, SlotGrows
  <2>10. PICK x \in L : x[2].value = g
    BY <2>4 DEF W, ValuesIn
  <2>11. SlotOf(g) <= i
    BY <1>8, <2>1, <2>2, <2>10 DEF L
  <2>12. SlotOf(g) \in 1 .. CountsLen
    BY <2>5, SlotIs
  <2>. QED BY <1>7, <2>1, <2>9, <2>11, <2>12
<1>12. Min(I) = s
  <2>1. I \subseteq Nat
    OBVIOUS
  <2>. HIDE DEF I, s
  <2>. QED BY <1>10, <1>11, <2>1, LeastIs
<1>13. RankOf(A, S, q) = Bounds[Min(I)]
  BY DEF RankOf, r
<1>14. ExactOf(A, S, q) = e
  BY DEF ExactOf, e, V, r
<1>. QED BY <1>12, <1>13, <1>14

Lows(S) == {MinOf(a) : a \in {b \in S : b.count > 0}}

Highs(S) == {MaxOf(a) : a \in {b \in S : b.count > 0}}

Listed(q, i) == {q[j] : j \in 1 .. i}

(***************************************************************************)
(* A minimum of zero stands for none yet, which is no harm where the       *)
(* observations are positive, or all zero.                                 *)
(***************************************************************************)
LowOf(t, S) ==
    \/ t.min = 0 /\ \A a \in S : MinOf(a) = 0
    \/ t.min > 0 /\ t.min \in Lows(S) /\ \A y \in Lows(S) : t.min <= y

HighOf(t, S) ==
    /\ t.max = 0 \/ t.max \in Highs(S)
    /\ \A y \in Highs(S) : y <= t.max

Positive(S) == \A a \in S : a.count > 0 => MinOf(a) > 0

LEMMA LowStep ==
    ASSUME NEW t \in Summary, NEW S, \A b \in S : IsAgg(b) /\ b.metric # "vus", NEW a, IsAgg(a), a.metric # "vus",
           LowOf(t, S), Positive(S \cup {a})
    PROVE  LowOf(AddSeries(t, a), S \cup {a})
<1>. DEFINE u == AddSeries(t, a)
            T == S \cup {a}
<1>1. u.min = (IF t.min = 0 \/ (a.count > 0 /\ MinOf(a) < t.min) THEN MinOf(a) ELSE t.min)
  BY AddSeriesIs
<1>2. t.min \in Nat
  BY DEF Summary
<1>3. /\ \A b \in T : MinOf(b) \in Nat /\ b.count \in Nat
      /\ \A b \in T : b.count = 0 => MinOf(b) = 0
      /\ \A b \in T : b.count > 0 => MinOf(b) > 0
  BY ExtremesAre DEF Positive, IsAgg
<1>4. Lows(T) = Lows(S) \cup (IF a.count > 0 THEN {MinOf(a)} ELSE {})
  BY DEF Lows
<1>5. Lows(S) \subseteq Nat /\ Lows(T) \subseteq Nat
  BY <1>3 DEF Lows
<1>. HIDE DEF u
<1>6. CASE t.min = 0
  <2>1. u.min = MinOf(a) /\ \A b \in S : MinOf(b) = 0
    BY <1>1, <1>6 DEF LowOf
  <2>2. Lows(S) = {}
    BY <1>3, <2>1 DEF Lows
  <2>3. CASE a.count = 0
    BY <1>3, <2>1, <2>3 DEF LowOf, u
  <2>4. CASE a.count > 0
    <3>1. Lows(T) = {MinOf(a)} /\ MinOf(a) > 0 /\ MinOf(a) \in Nat
      BY <1>3, <1>4, <2>2, <2>4
    <3>. QED BY <2>1, <3>1 DEF LowOf, u
  <2>. QED BY <1>3, <2>3, <2>4
<1>7. CASE t.min > 0
  <2>1. t.min \in Lows(S) /\ \A y \in Lows(S) : t.min <= y
    BY <1>2, <1>7 DEF LowOf
  <2>2. CASE a.count > 0 /\ MinOf(a) < t.min
    <3>1. u.min = MinOf(a) /\ MinOf(a) > 0 /\ MinOf(a) \in Nat /\ Lows(T) = Lows(S) \cup {MinOf(a)}
      BY <1>1, <1>3, <1>4, <2>2
    <3>2. ASSUME NEW y \in Lows(T) PROVE MinOf(a) <= y
      <4>1. CASE y = MinOf(a)
        BY <3>1, <4>1
      <4>2. CASE y \in Lows(S)
        <5>1. y \in Nat /\ t.min <= y /\ MinOf(a) < t.min
          BY <1>5, <2>1, <2>2, <4>2
        <5>. QED BY <1>2, <3>1, <5>1
      <4>. QED BY <3>1, <4>1, <4>2
    <3>. QED BY <3>1, <3>2 DEF LowOf, u
  <2>3. CASE ~(a.count > 0 /\ MinOf(a) < t.min)
    <3>1. u.min = t.min
      BY <1>1, <1>2, <1>7, <2>3
    <3>2. \A y \in Lows(T) : t.min <= y
      BY <1>2, <1>3, <1>4, <2>1, <2>3
    <3>. QED BY <1>4, <1>7, <2>1, <3>1, <3>2 DEF LowOf, u
  <2>. QED BY <2>2, <2>3
<1>. QED BY <1>2, <1>6, <1>7

LEMMA HighStep ==
    ASSUME NEW t \in Summary, NEW S, \A b \in S : IsAgg(b) /\ b.metric # "vus", NEW a, IsAgg(a), a.metric # "vus",
           HighOf(t, S)
    PROVE  HighOf(AddSeries(t, a), S \cup {a})
<1>. DEFINE u == AddSeries(t, a)
            T == S \cup {a}
<1>1. u.max = (IF t.max <= MaxOf(a) THEN MaxOf(a) ELSE t.max)
  BY AddSeriesIs
<1>2. t.max \in Nat
  BY DEF Summary
<1>3. /\ \A b \in T : MaxOf(b) \in Nat /\ b.count \in Nat
      /\ \A b \in T : b.count = 0 => MaxOf(b) = 0
  BY ExtremesAre DEF IsAgg
<1>4. Highs(T) = Highs(S) \cup (IF a.count > 0 THEN {MaxOf(a)} ELSE {})
  BY DEF Highs
<1>5. Highs(S) \subseteq Nat
  BY <1>3 DEF Highs
<1>. HIDE DEF u
<1>6. (t.max = 0 \/ t.max \in Highs(S)) /\ \A y \in Highs(S) : y <= t.max
  BY DEF HighOf
<1>7. u.max \in Nat /\ t.max <= u.max /\ MaxOf(a) <= u.max /\ (u.max = t.max \/ u.max = MaxOf(a))
  BY <1>1, <1>2, <1>3
<1>8. \A y \in Highs(T) : y <= u.max
  BY <1>2, <1>3, <1>4, <1>5, <1>6, <1>7
<1>9. u.max = 0 \/ u.max \in Highs(T)
  BY <1>2, <1>3, <1>4, <1>6, <1>7
<1>. QED BY <1>8, <1>9 DEF HighOf, u

LEMMA SummingExtremes ==
    ASSUME NEW S, \A a \in S : IsAgg(a) /\ a.metric # "vus", NEW q, Lists(q, S), NEW st, Summing(st, q)
    PROVE  /\ Positive(S) => LowOf(st[Len(q)], S)
           /\ HighOf(st[Len(q)], S)
           /\ st[Len(q)] \in Summary
<1>. DEFINE n == Len(q)
            K == {i \in Nat : i <= n => HighOf(st[i], Listed(q, i)) /\ (Positive(S) => LowOf(st[i], Listed(q, i)))}
<1>0. n \in Nat /\ (\A i \in 1 .. n : q[i] \in S) /\ S = Listed(q, n)
  BY DEF Lists, Listed
<1>1. st \in [0 .. n -> Summary] /\ st[0] = NoSummary /\ \A i \in 1 .. n : st[i] = AddSeries(st[i - 1], q[i])
  BY DEF Summing
<1>. HIDE DEF n
<1>2. 0 \in K
  <2>1. Listed(q, 0) = {}
    BY DEF Listed
  <2>2. NoSummary.min = 0 /\ NoSummary.max = 0
    BY DEF NoSummary
  <2>3. Highs({}) = {}
    BY DEF Highs
  <2>4. HighOf(NoSummary, {}) /\ LowOf(NoSummary, {})
    BY <2>2, <2>3 DEF HighOf, LowOf
  <2>. QED BY <1>1, <2>1, <2>4
<1>3. ASSUME NEW i \in Nat, i \in K PROVE i + 1 \in K
  <2>. SUFFICES ASSUME i + 1 <= n
                PROVE  HighOf(st[i + 1], Listed(q, i + 1)) /\ (Positive(S) => LowOf(st[i + 1], Listed(q, i + 1)))
    OBVIOUS
  <2>. DEFINE t == st[i]
              a == q[i + 1]
              L == Listed(q, i)
  <2>1. i \in 0 .. n /\ i + 1 \in 1 .. n /\ (i + 1) - 1 = i /\ 1 .. i + 1 = 1 .. i \cup {i + 1} /\ 1 .. i \subseteq 1 .. n
    BY <1>0
  <2>2. t \in Summary /\ st[i + 1] = AddSeries(t, a)
    BY <1>1, <2>1
  <2>3. Listed(q, i + 1) = L \cup {a}
    BY <2>1 DEF Listed
  <2>4. L \cup {a} \subseteq S
    BY <1>0, <2>1 DEF Listed
  <2>5. HighOf(t, L) /\ (Positive(S) => LowOf(t, L))
    BY <1>0, <1>3, <2>1
  <2>. HIDE DEF t, a, L
  <2>6. (\A b \in L : IsAgg(b) /\ b.metric # "vus") /\ IsAgg(a) /\ a.metric # "vus"
    BY <2>4
  <2>7. HighOf(AddSeries(t, a), L \cup {a})
    BY <2>2, <2>5, <2>6, HighStep
  <2>8. ASSUME Positive(S) PROVE LowOf(AddSeries(t, a), L \cup {a})
    <3>1. Positive(L \cup {a})
      BY <2>4, <2>8 DEF Positive
    <3>. QED BY <2>2, <2>5, <2>6, <2>8, <3>1, LowStep
  <2>. QED BY <2>2, <2>3, <2>7, <2>8
<1>. HIDE DEF K
<1>4. \A i \in Nat : i \in K
  BY <1>2, <1>3, NumberInduction
<1>5. n <= n /\ n \in 0 .. n
  BY <1>0
<1>6. HighOf(st[n], S) /\ (Positive(S) => LowOf(st[n], S))
  BY <1>0, <1>4, <1>5 DEF K
<1>7. st[n] \in Summary
  BY <1>1, <1>5
<1>. QED BY <1>6, <1>7 DEF n

LEMMA SummingZero ==
    ASSUME NEW S, \A a \in S : IsAgg(a) /\ a.metric # "vus" /\ MinOf(a) = 0,
           NEW q, Lists(q, S), NEW st, Summing(st, q)
    PROVE  st[Len(q)].min = 0
<1>. DEFINE n == Len(q)
            K == {i \in Nat : i <= n => st[i].min = 0}
<1>0. n \in Nat /\ (\A i \in 1 .. n : q[i] \in S)
  BY DEF Lists
<1>1. st \in [0 .. n -> Summary] /\ st[0] = NoSummary /\ \A i \in 1 .. n : st[i] = AddSeries(st[i - 1], q[i])
  BY DEF Summing
<1>. HIDE DEF n
<1>2. 0 \in K
  BY <1>1 DEF NoSummary
<1>3. ASSUME NEW i \in Nat, i \in K PROVE i + 1 \in K
  <2>. SUFFICES ASSUME i + 1 <= n PROVE st[i + 1].min = 0
    OBVIOUS
  <2>. DEFINE t == st[i]
              a == q[i + 1]
  <2>1. i \in 0 .. n /\ i + 1 \in 1 .. n /\ (i + 1) - 1 = i
    BY <1>0
  <2>2. t \in Summary /\ st[i + 1] = AddSeries(t, a) /\ t.min = 0 /\ IsAgg(a) /\ a.metric # "vus" /\ MinOf(a) = 0
    BY <1>0, <1>1, <1>3, <2>1
  <2>. HIDE DEF t, a
  <2>. QED BY <2>2, AddSeriesIs
<1>. HIDE DEF K
<1>4. \A i \in Nat : i \in K
  BY <1>2, <1>3, NumberInduction
<1>5. n \in K /\ n <= n
  BY <1>0, <1>4
<1>6. st[n].min = 0
  BY <1>5 DEF K
<1>. QED BY <1>6 DEF n

(***************************************************************************)
(* The extremes of a metric's series are those of its observations.        *)
(***************************************************************************)
LEMMA Bracketed ==
    ASSUME NEW m, Aggs(m), NEW A, Counted(A), Spans(m, SeenIn(A)), NEW metric, metric # "vus",
           NEW S, S = SeriesIn(m, metric), NEW O, O = ObservedOf(A, metric), O # {}, \E a \in S : a.count > 0
    PROVE  /\ Lows(S) \subseteq ValuesIn(O) /\ Highs(S) \subseteq ValuesIn(O)
           /\ \A v \in ValuesIn(O) : (\E y \in Lows(S) : y <= v) /\ (\E y \in Highs(S) : v <= y)
<1>. DEFINE V == ValuesIn(O)
<1>1. /\ \A a \in S : a \in m /\ IsAgg(a) /\ Kinded(a) /\ a.metric = metric /\ a.count \in Nat
      /\ \A a \in m : a.metric = metric => a \in S
  BY DEF SeriesIn, Aggs, IsAgg
<1>2. \A x \in O : x \in DOMAIN A /\ IsObs(x[2]) /\ Kinded(x[2]) /\ x[2].metric = metric
  BY DEF ObservedOf, Counted, IsObs
<1>3. PICK c \in S : c.count > 0
  OBVIOUS
<1>4. metric \in {"http_reqs", "http_req_duration", "http_req_failed"}
  BY <1>1, <1>3 DEF Kinded
<1>5. CASE metric = "http_req_duration"
  <2>1. \A a \in S : a.kind = "trend"
    BY <1>1, <1>5 DEF Kinded
  <2>2. \A a \in S : a.count > 0 => Timed(a) /\ MinOf(a) = a.min /\ MaxOf(a) = a.max
    BY <1>1, <2>1, ExtremesAre DEF Timed
  <2>3. ASSUME NEW x \in O
        PROVE  /\ Single(x[2]) \in SeenIn(A) /\ Timed(Single(x[2])) /\ Same(Single(x[2]), x[2])
               /\ Single(x[2]).min = x[2].value /\ Single(x[2]).max = x[2].value
    <3>. DEFINE o == x[2]
    <3>1. IsObs(o) /\ o.kind = "trend" /\ Single(o) \in SeenIn(A)
      BY <1>2, <1>5 DEF Kinded, SeenIn
    <3>. HIDE DEF o
    <3>2. Timed(Single(o)) /\ Same(Single(o), o) /\ Single(o).min = o.value /\ Single(o).max = o.value
      BY <3>1, SingleIs DEF Timed
    <3>. QED BY <3>1, <3>2 DEF o
  <2>4. ASSUME NEW s \in SeenIn(A), s.metric = metric
        PROVE  s.min \in V /\ s.max \in V
    <3>1. PICK x \in DOMAIN A : s = Single(x[2])
      BY DEF SeenIn
    <3>. DEFINE o == x[2]
    <3>2. IsObs(o)
      BY DEF Counted
    <3>. HIDE DEF o
    <3>3. Same(Single(o), o)
      BY <3>2, SingleIs
    <3>4. x[2].metric = metric
      BY <2>4, <3>1, <3>3 DEF Same, o
    <3>5. x \in O
      BY <3>4 DEF ObservedOf
    <3>. QED BY <2>3, <3>1, <3>5 DEF ValuesIn
  <2>5. ASSUME NEW a \in S, a.count > 0 PROVE MinOf(a) \in V /\ MaxOf(a) \in V
    <3>1. a \in m /\ Timed(a) /\ a.metric = metric /\ MinOf(a) = a.min /\ MaxOf(a) = a.max
      BY <1>1, <2>2, <2>5
    <3>2. PICK s \in SeenIn(A) : Same(s, a) /\ s.min = a.min
      BY <3>1 DEF Spans, Within
    <3>3. PICK r \in SeenIn(A) : Same(r, a) /\ r.max = a.max
      BY <3>1 DEF Spans, Within
    <3>. QED BY <2>4, <3>1, <3>2, <3>3 DEF Same
  <2>6. ASSUME NEW x \in O
        PROVE  (\E y \in Lows(S) : y <= x[2].value) /\ (\E y \in Highs(S) : x[2].value <= y)
    <3>. DEFINE s == Single(x[2])
    <3>1. s \in SeenIn(A) /\ Timed(s) /\ Same(s, x[2]) /\ s.min = x[2].value /\ s.max = x[2].value
      BY <2>3
    <3>. HIDE DEF s
    <3>2. PICK a \in m : Timed(a) /\ Same(a, s) /\ a.min <= s.min /\ s.max <= a.max
      BY <3>1 DEF Spans, Covers
    <3>3. a \in S /\ a.count > 0
      BY <1>1, <1>2, <3>1, <3>2 DEF Same, Timed
    <3>4. MinOf(a) \in Lows(S) /\ MaxOf(a) \in Highs(S)
      BY <3>3 DEF Lows, Highs
    <3>. QED BY <2>2, <3>1, <3>2, <3>3, <3>4
  <2>. QED BY <2>5, <2>6, ZenonT(60) DEF ValuesIn, Lows, Highs
<1>6. CASE metric # "http_req_duration"
  <2>. DEFINE w == IF metric = "http_reqs" THEN 1 ELSE 0
  <2>1. w \in Nat
    OBVIOUS
  <2>2. \A x \in O : x[2].value = w
    BY <1>2, <1>4, <1>6 DEF Kinded, IsObs
  <2>3. \A a \in S : a.count > 0 => MinOf(a) = w /\ MaxOf(a) = w
    <3>1. \A a \in S : a.kind = IF metric = "http_reqs" THEN "counter" ELSE "rate"
      BY <1>1, <1>4, <1>6 DEF Kinded
    <3>. QED BY <1>1, <3>1, ExtremesAre
  <2>. HIDE DEF w
  <2>4. V = {w}
    BY <2>2 DEF ValuesIn
  <2>5. Lows(S) = {w} /\ Highs(S) = {w}
    BY <1>3, <2>3 DEF Lows, Highs
  <2>. QED BY <2>1, <2>4, <2>5
<1>. QED BY <1>5, <1>6

LEMMA ExtremesOfMetric ==
    ASSUME NEW m, Aggs(m), NEW A, Counted(A), Spans(m, SeenIn(A)), NEW metric, metric # "vus",
           NEW S, S = SeriesIn(m, metric), NEW O, O = ObservedOf(A, metric), O # {}, \E a \in S : a.count > 0,
           NEW q, Lists(q, S), NEW st, Summing(st, q)
    PROVE  /\ ~ZeroBesideOthers(O) => st[Len(q)].min = Min(ValuesIn(O))
           /\ st[Len(q)].max = Max(ValuesIn(O))
<1>. DEFINE V == ValuesIn(O)
            t == st[Len(q)]
<1>1. /\ Lows(S) \subseteq V /\ Highs(S) \subseteq V
      /\ \A v \in V : (\E y \in Lows(S) : y <= v) /\ (\E y \in Highs(S) : v <= y)
  BY Bracketed
<1>2. V \subseteq Nat
  BY DEF ValuesIn, ObservedOf, Counted, IsObs
<1>3. \A a \in S : IsAgg(a) /\ Kinded(a) /\ a.metric = metric /\ a.metric # "vus" /\ a.count \in Nat
  BY DEF SeriesIn, Aggs, IsAgg
<1>4. PICK c \in S : c.count > 0
  OBVIOUS
<1>5. MinOf(c) \in Lows(S) /\ MaxOf(c) \in Highs(S)
  BY <1>4 DEF Lows, Highs
<1>6. HighOf(t, S) /\ (Positive(S) => LowOf(t, S)) /\ t \in Summary
  BY <1>3, SummingExtremes
<1>7. V = {0} => t.min = 0 /\ Lows(S) = {0}
  <2>. SUFFICES ASSUME V = {0} PROVE t.min = 0 /\ Lows(S) = {0}
    OBVIOUS
  <2>1. Lows(S) = {0}
    BY <1>1, <1>5
  <2>2. ASSUME NEW a \in S PROVE MinOf(a) = 0
    <3>1. a.count > 0 => MinOf(a) \in Lows(S)
      BY DEF Lows
    <3>2. a.count = 0 => MinOf(a) = 0
      BY <1>3, ExtremesAre
    <3>. QED BY <1>3, <2>1, <3>1, <3>2
  <2>. QED BY <1>3, <2>1, <2>2, SummingZero
<1>z. ~ZeroBesideOthers(O) => V = {0} \/ 0 \notin V
  BY DEF ZeroBesideOthers, ValuesIn
<1>. HIDE DEF t, V
<1>8. ASSUME ~ZeroBesideOthers(O) PROVE t.min \in Lows(S) /\ \A y \in Lows(S) : t.min <= y
  <2>1. CASE V = {0}
    BY <1>7, <2>1
  <2>2. CASE 0 \notin V
    <3>1. ASSUME NEW a \in S, a.count > 0 PROVE MinOf(a) > 0
      <4>1. MinOf(a) \in Lows(S)
        BY <3>1 DEF Lows
      <4>2. MinOf(a) \in Nat /\ MinOf(a) # 0
        BY <1>1, <1>2, <2>2, <4>1
      <4>. QED BY <4>2
    <3>2. Positive(S) /\ MinOf(c) > 0
      BY <1>4, <3>1 DEF Positive
    <3>. QED BY <1>6, <3>2 DEF LowOf
  <2>. QED BY <1>8, <1>z, <2>1, <2>2
<1>9. t.max \in Highs(S) /\ \A y \in Highs(S) : y <= t.max
  <2>1. (t.max = 0 \/ t.max \in Highs(S)) /\ \A y \in Highs(S) : y <= t.max
    BY <1>6 DEF HighOf
  <2>2. t.max = 0 => MaxOf(c) = 0
    <3>1. MaxOf(c) \in Nat
      BY <1>1, <1>2, <1>5
    <3>2. MaxOf(c) <= t.max
      BY <1>5, <2>1
    <3>. QED BY <3>1, <3>2
  <2>. QED BY <1>5, <2>1, <2>2
<1>10. ASSUME ~ZeroBesideOthers(O) PROVE t.min = Min(V)
  <2>1. t.min \in V
    BY <1>1, <1>8, <1>10
  <2>2. ASSUME NEW v \in V PROVE t.min <= v
    <3>1. PICK y \in Lows(S) : y <= v
      BY <1>1
    <3>2. t.min <= y /\ y \in Nat /\ v \in Nat /\ t.min \in Nat
      BY <1>1, <1>2, <1>8, <1>10, <2>1
    <3>. QED BY <3>1, <3>2
  <2>. DEFINE z == t.min
  <2>3. z \in V /\ \A v \in V : z <= v
    BY <2>1, <2>2
  <2>. HIDE DEF z
  <2>4. Min(V) = z
    BY <1>2, <2>3, LeastIs
  <2>. QED BY <2>4 DEF z
<1>11. t.max = Max(V)
  <2>1. t.max \in V
    BY <1>1, <1>9
  <2>2. ASSUME NEW v \in V PROVE v <= t.max
    <3>1. PICK y \in Highs(S) : v <= y
      BY <1>1
    <3>2. y <= t.max /\ y \in Nat /\ v \in Nat /\ t.max \in Nat
      BY <1>1, <1>2, <1>9, <2>1
    <3>. QED BY <3>1, <3>2
  <2>. DEFINE z == t.max
  <2>3. z \in V /\ \A v \in V : v <= z
    BY <2>1, <2>2
  <2>. HIDE DEF z
  <2>4. Max(V) = z
    BY <1>2, <2>3, GreatestIs
  <2>. QED BY <2>4 DEF z
<1>. QED BY <1>10, <1>11 DEF t, V

(***************************************************************************)
(* The summary of a finished run that lost nothing.                        *)
(***************************************************************************)
Summarises(t, A, metric) ==
    LET O == ObservedOf(A, metric)
    IN  /\ t \in Summary
        /\ t.count = WeightIn(A, O)
        /\ t.nonZero = WeightIn(A, {x \in O : x[2].truthy})
        /\ t.sum = SumFunction([x \in O |-> A[x] * x[2].value])
        /\ O # {} => /\ ~ZeroBesideOthers(O) => t.min = Min(ValuesIn(O))
                     /\ t.max = Max(ValuesIn(O))
        /\ \A i \in 1 .. CountsLen :
            t.hist[i] = WeightIn(A, {x \in O : x[2].kind = "trend" /\ InSlot(x[2].value, i)})

LEMMA SummaryIs ==
    ASSUME NEW m, Aggs(m), NEW A, Counted(A), Spans(m, SeenIn(A)),
           \A k : IsMeasure(k) => Mass(k, m) = ObservedIn(A, k),
           NEW metric, metric # "vus", NEW q, Lists(q, SeriesIn(m, metric))
    PROVE  Summarises(Aggregate(metric, q), A, metric)
<1>. DEFINE S == SeriesIn(m, metric)
            O == ObservedOf(A, metric)
            M(part, slot) == OfMetric(metric, part, slot)
<1>1. PICK st : /\ Summing(st, q) /\ Aggregate(metric, q) = st[Len(q)]
                /\ \A part, slot : IsMeasure(M(part, slot)) => Taken(st[Len(q)], M(part, slot)) = Mass(M(part, slot), m)
  BY AggregateTakes
<1>. DEFINE t == st[Len(q)]
<1>2. /\ IsMeasure(M("count", 0)) /\ IsMeasure(M("nonZero", 0)) /\ IsMeasure(M("sum", 0))
      /\ \A i \in 1 .. CountsLen : IsMeasure(M("slot", i))
  BY DEF IsMeasure, OfMetric
<1>3. /\ Taken(t, M("count", 0)) = t.count /\ Taken(t, M("nonZero", 0)) = t.nonZero /\ Taken(t, M("sum", 0)) = t.sum
      /\ \A i : Taken(t, M("slot", i)) = t.hist[i]
  BY DEF Taken, OfMetric
<1>4. /\ t.count = ObservedIn(A, M("count", 0)) /\ t.nonZero = ObservedIn(A, M("nonZero", 0))
      /\ t.sum = ObservedIn(A, M("sum", 0))
      /\ \A i \in 1 .. CountsLen : t.hist[i] = ObservedIn(A, M("slot", i))
  <2>. HIDE DEF M, t
  <2>1. \A part, slot : IsMeasure(M(part, slot)) => Taken(t, M(part, slot)) = ObservedIn(A, M(part, slot))
    BY <1>1 DEF t
  <2>. QED BY <1>2, <1>3, <2>1
<1>5. /\ t.count = WeightIn(A, O)
      /\ t.nonZero = WeightIn(A, {x \in O : x[2].truthy})
      /\ t.sum = SumFunction([x \in O |-> A[x] * x[2].value])
      /\ \A i \in 1 .. CountsLen :
            t.hist[i] = WeightIn(A, {x \in O : x[2].kind = "trend" /\ InSlot(x[2].value, i)})
  <2>1. /\ ObservedIn(A, M("count", 0)) = WeightIn(A, O)
        /\ ObservedIn(A, M("nonZero", 0)) = WeightIn(A, {x \in O : x[2].truthy})
        /\ ObservedIn(A, M("sum", 0)) = SumFunction([x \in O |-> A[x] * x[2].value])
        /\ \A i \in 1 .. CountsLen :
                ObservedIn(A, M("slot", i))
                    = WeightIn(A, {x \in O : x[2].kind = "trend" /\ InSlot(x[2].value, i)})
    BY MetricObserved
  <2>. HIDE DEF t, M, O
  <2>. QED BY <1>4, <2>1
<1>6. \A a \in S : IsAgg(a) /\ a.metric # "vus" /\ a.metric = metric
  BY DEF SeriesIn, Aggs
<1>7. t \in Summary
  <2>. HIDE DEF S
  <2>. QED BY <1>1, <1>6, SummingExtremes DEF S
<1>8. ASSUME O # {}
      PROVE  /\ ~ZeroBesideOthers(O) => t.min = Min(ValuesIn(O))
             /\ t.max = Max(ValuesIn(O))
  <2>1. \E a \in S : a.count > 0
    <3>. SUFFICES ASSUME \A a \in S : ~(a.count > 0) PROVE FALSE
      OBVIOUS
    <3>. DEFINE k == M("count", 0)
    <3>1. IsMeasure(k) /\ k = OfMetric(metric, "count", 0)
      BY <1>2
    <3>2. \A a \in S : a.count = 0
      BY <1>6 DEF IsAgg
    <3>. HIDE DEF k, S
    <3>3. \A a \in S : Part(k, a) = 0
      BY <1>6, <3>1, <3>2, PartNat
    <3>4. Aggs(S) /\ Mass(k, S) = Mass(k, m)
      BY <3>1, MetricMass DEF S
    <3>5. Mass(k, S) = 0
      BY <3>3, <3>4, MassZero
    <3>6. WeightIn(A, O) = 0
      BY <1>4, <1>5, <3>1, <3>4, <3>5 DEF k
    <3>7. O \subseteq DOMAIN A
      BY DEF ObservedOf
    <3>. QED BY <1>8, <3>6, <3>7, WeightNat
  <2>. HIDE DEF S, O
  <2>. QED BY <1>1, <1>8, <2>1, ExtremesOfMetric DEF S, O
<1>. HIDE DEF t
<1>9. Aggregate(metric, q) = t
  BY <1>1 DEF t
<1>. QED BY <1>5, <1>7, <1>8, <1>9 DEF Summarises

(***************************************************************************)
(* A statistic of the summary is that statistic of the observations.       *)
(***************************************************************************)
LEMMA StatisticIs ==
    ASSUME Counted(admitted), NEW metric, NEW t, Summarises(t, admitted, metric), NEW stat,
           Admitted(metric) # {}, stat = "min" => ~ZeroBesideOthers(Admitted(metric))
    PROVE  /\ t.count \in Nat /\ t.count > 0
           /\ HasStat(metric, stat) => /\ StatValue(t, stat) = RefStat(Admitted(metric), stat)
                                       /\ StatValue(t, stat) # Unknown
           /\ ~HasStat(metric, stat) => StatValue(t, stat) = Unknown
<1>. DEFINE A == admitted
            O == ObservedOf(A, metric)
<1>0. O = Admitted(metric) /\ O \subseteq DOMAIN A /\ O # {} /\ Counted(A)
  BY DEF ObservedOf, Admitted
<1>1. \A S : Weight(S) = WeightIn(A, S)
  BY DEF Weight, WeightIn
<1>2. /\ t \in Summary
      /\ t.count = WeightIn(A, O)
      /\ t.nonZero = WeightIn(A, {x \in O : x[2].truthy})
      /\ t.sum = SumFunction([x \in O |-> A[x] * x[2].value])
      /\ (stat = "min" => t.min = Min(ValuesIn(O))) /\ t.max = Max(ValuesIn(O))
      /\ \A i \in 1 .. CountsLen :
            t.hist[i] = WeightIn(A, {x \in O : x[2].kind = "trend" /\ InSlot(x[2].value, i)})
  BY <1>0 DEF Summarises
<1>. HIDE DEF A, O
<1>3. t.count \in Nat /\ t.count > 0
  BY <1>0, <1>2, WeightNat
<1>4. t.hist \in Hist
  BY <1>2 DEF Summary
<1>p. DOMAIN ReportedPercentile = {"p50", "p90", "p95", "p99"}
  BY DEF ReportedPercentile
<1>5. CASE stat \in {"count", "rate", "avg", "min", "max"}
  <2>1. HasStat(metric, stat)
    BY <1>5 DEF HasStat
  <2>2. CASE stat = "count"
    <3>1. StatValue(t, stat) = <<t.count, 1>>
      BY <1>p, <2>2 DEF StatValue
    <3>2. RefStat(O, stat) = <<WeightIn(A, O), 1>>
      BY <1>1, <2>2 DEF RefStat
    <3>. QED BY <1>0, <1>2, <1>3, <2>1, <3>1, <3>2 DEF Unknown
  <2>3. CASE stat = "rate"
    <3>1. StatValue(t, stat) = <<t.nonZero, t.count>>
      BY <1>p, <2>3 DEF StatValue
    <3>2. RefStat(O, stat) = <<WeightIn(A, {x \in O : x[2].truthy}), WeightIn(A, O)>>
      BY <1>1, <2>3 DEF RefStat
    <3>. QED BY <1>0, <1>2, <1>3, <2>1, <3>1, <3>2 DEF Unknown
  <2>4. CASE stat = "avg"
    <3>1. StatValue(t, stat) = <<t.sum, t.count>>
      BY <1>p, <2>4 DEF StatValue
    <3>2. RefStat(O, stat) = <<SumFunction([x \in O |-> A[x] * x[2].value]), WeightIn(A, O)>>
      BY <1>1, <2>4 DEF RefStat, A
    <3>. QED BY <1>0, <1>2, <1>3, <2>1, <3>1, <3>2 DEF Unknown
  <2>5. CASE stat = "min"
    <3>1. StatValue(t, stat) = <<t.min, 1>>
      BY <1>p, <2>5 DEF StatValue
    <3>2. RefStat(O, stat) = <<Min(ValuesIn(O)), 1>>
      BY <2>5 DEF RefStat, ValuesIn
    <3>. QED BY <1>0, <1>2, <1>3, <2>1, <2>5, <3>1, <3>2 DEF Unknown
  <2>6. CASE stat = "max"
    <3>1. StatValue(t, stat) = <<t.max, 1>>
      BY <1>p, <2>6 DEF StatValue
    <3>2. RefStat(O, stat) = <<Max(ValuesIn(O)), 1>>
      BY <2>6 DEF RefStat, ValuesIn
    <3>. QED BY <1>0, <1>2, <1>3, <2>1, <3>1, <3>2 DEF Unknown
  <2>. QED BY <1>5, <2>2, <2>3, <2>4, <2>5, <2>6
<1>6. CASE stat \notin {"count", "rate", "avg", "min", "max"}
  <2>1. HasStat(metric, stat) <=> stat \in DOMAIN ReportedPercentile /\ metric = "http_req_duration"
    BY <1>6 DEF HasStat
  <2>2. StatValue(t, stat) = IF stat \in DOMAIN ReportedPercentile /\ TotalCount(t.hist) > 0
                             THEN <<UnscaleValue(ValueAtQuantile(t.hist, ReportedPercentile[stat])), 1>>
                             ELSE Unknown
    BY <1>6 DEF StatValue
  <2>3. \A x \in O : x[2].kind = "trend" <=> metric = "http_req_duration"
    BY <1>0 DEF Counted, IsObs, Kinded, ObservedOf, O
  <2>4. CASE metric = "http_req_duration"
    <3>1. \A x \in O : x[2].kind = "trend"
      BY <2>3, <2>4
    <3>2. \A i \in 1 .. CountsLen : {x \in O : x[2].kind = "trend" /\ InSlot(x[2].value, i)}
                                        = {x \in O : InSlot(x[2].value, i)}
      BY <3>1
    <3>3. Slotted(t.hist, A, O)
      BY <1>2, <3>2 DEF Slotted
    <3>4. TotalCount(t.hist) = WeightIn(A, O)
      BY <1>0, <1>4, <3>3, UpToWeighs
    <3>5. TotalCount(t.hist) > 0
      BY <1>2, <1>3, <3>4
    <3>. DEFINE q == ReportedPercentile[stat]
                exact == ExactOf(A, O, q)
    <3>6. ASSUME stat \in DOMAIN ReportedPercentile
          PROVE  RefStat(O, stat) = <<UnscaleValue(ValueAtQuantile(t.hist, q)), 1>>
      <4>1. q \in {50, 90, 95, 99}
        BY <1>p, <3>6 DEF ReportedPercentile
      <4>2. \A x \in O : x[2].value \in 0 .. Infinity - 1
        BY <1>0, <3>1 DEF Counted, IsObs
      <4>3. RefStat(O, stat) = <<UnscaleValue(Bounds[SlotOf(exact)]), 1>>
        <5>1. Weight(O) = WeightIn(A, O) /\ \A v : Weight({x \in O : x[2].value <= v}) = WeightIn(A, {x \in O : x[2].value <= v})
          BY <1>1
        <5>. QED BY <1>6, <5>1 DEF RefStat, ExactOf, ValuesIn, SlotOf
      <4>. HIDE DEF q, exact
      <4>4. ValueAtQuantile(t.hist, q) = RankOf(A, O, q)
        BY <1>0, <1>4, <3>3, QuantileIs
      <4>5. RankOf(A, O, q) = Bounds[SlotOf(exact)]
        BY <1>0, <4>1, <4>2, RankIsExact DEF exact
      <4>. QED BY <4>3, <4>4, <4>5
    <3>7. <<UnscaleValue(ValueAtQuantile(t.hist, q)), 1>> # Unknown
      BY DEF Unknown
    <3>. QED BY <1>0, <1>3, <2>1, <2>2, <2>4, <3>5, <3>6, <3>7
  <2>5. CASE metric # "http_req_duration"
    <3>1. \A i \in 1 .. CountsLen : {x \in O : x[2].kind = "trend" /\ InSlot(x[2].value, i)} = {}
      BY <2>3, <2>5
    <3>2. WeightIn(A, {}) = 0
      BY <1>0, WeightNat
    <3>. DEFINE h == t.hist
    <3>3. h \in [1 .. CountsLen -> Nat] /\ CountsLen \in Nat /\ IsFiniteSet(DOMAIN h) /\ \A i \in DOMAIN h : h[i] = 0
      BY <1>2, <1>4, <3>1, <3>2, HistFacts DEF Hist
    <3>. HIDE DEF h
    <3>4. TotalCount(h) = SumFunction(h) /\ SumFunction(h) = 0
      BY <3>3, TotalCountIs, SumZero
    <3>5. ~(TotalCount(t.hist) > 0)
      BY <3>4 DEF h
    <3>. QED BY <1>3, <2>1, <2>2, <2>5, <3>5
  <2>. QED BY <2>4, <2>5
<1>. QED BY <1>5, <1>6

LEMMA InvVerdict ==
    ASSUME RecorderInv
    PROVE  VerdictOfAllSamples
<1>. SUFFICES ASSUME Finished, Lossless, NEW t \in Thresholds, t.metric # "vus",
                     t.stat = "min" => ~ZeroBesideOthers(Admitted(t.metric)),
                     NEW order \in Orders(SeriesOf(store, t.metric), TRUE)
              PROVE  EvaluateThreshold(t, order) =
                        IF Admitted(t.metric) # {} /\ HasStat(t.metric, t.stat)
                        THEN [evaluated |-> TRUE,
                              passed |-> Compare(RefStat(Admitted(t.metric), t.stat), t.op, t.value)]
                        ELSE [evaluated |-> FALSE, passed |-> FALSE]
  BY DEF VerdictOfAllSamples, RefVerdict
<1>1. lost = {}
  BY DEF RecorderInv, Losses, Lossless
<1>. DEFINE m == store.cumulative
            A == admitted
            s == Aggregate(t.metric, order)
            O == Admitted(t.metric)
<1>2. /\ Aggs(m) /\ Counted(A) /\ Spans(m, SeenIn(A))
      /\ \A k : IsMeasure(k) => Mass(k, m) = ObservedIn(A, k)
  BY <1>1, AllInStore DEF Table
<1>3. SeriesOf(store, t.metric) = SeriesIn(m, t.metric)
  BY DEF SeriesOf, SeriesIn
<1>4. Lists(order, SeriesIn(m, t.metric))
  <2>1. IsFiniteSet(SeriesIn(m, t.metric))
    BY <1>2, FS_Subset DEF Aggs, SeriesIn
  <2>. HIDE DEF m
  <2>. QED BY <1>3, <2>1, OrderLists
<1>. HIDE DEF m
<1>5. Summarises(s, A, t.metric)
  BY <1>2, <1>4, SummaryIs
<1>6. CASE O = {}
  <2>1. s.count = WeightIn(A, ObservedOf(A, t.metric))
    BY <1>5 DEF Summarises
  <2>2. ObservedOf(A, t.metric) = {}
    BY <1>6 DEF ObservedOf, Admitted
  <2>3. s.count = 0
    BY <1>2, <2>1, <2>2, WeightNat
  <2>. QED BY <1>6, <2>3 DEF EvaluateThreshold
<1>7. CASE O # {}
  <2>1. /\ s.count \in Nat /\ s.count > 0
        /\ HasStat(t.metric, t.stat) => /\ StatValue(s, t.stat) = RefStat(O, t.stat)
                                        /\ StatValue(s, t.stat) # Unknown
        /\ ~HasStat(t.metric, t.stat) => StatValue(s, t.stat) = Unknown
    <3>. HIDE DEF s
    <3>. QED BY <1>2, <1>5, <1>7, StatisticIs
  <2>2. s.count # 0
    BY <2>1
  <2>3. EvaluateThreshold(t, order) =
            IF s.count = 0 \/ StatValue(s, t.stat) = Unknown THEN [evaluated |-> FALSE, passed |-> FALSE]
            ELSE [evaluated |-> TRUE, passed |-> Compare(StatValue(s, t.stat), t.op, t.value)]
    BY DEF EvaluateThreshold
  <2>. HIDE DEF s, O
  <2>4. CASE HasStat(t.metric, t.stat)
    <3>1. EvaluateThreshold(t, order) = [evaluated |-> TRUE, passed |-> Compare(RefStat(O, t.stat), t.op, t.value)]
      BY <2>1, <2>2, <2>3, <2>4
    <3>. QED BY <1>7, <2>4, <3>1 DEF O
  <2>5. CASE ~HasStat(t.metric, t.stat)
    <3>1. EvaluateThreshold(t, order) = [evaluated |-> FALSE, passed |-> FALSE]
      BY <2>1, <2>3, <2>5
    <3>. QED BY <2>5, <3>1 DEF O
  <2>. QED BY <2>4, <2>5
<1>. QED BY <1>6, <1>7

(***************************************************************************)
(* Spec => []VerdictOfAllSamples: the last evaluation of a finished run    *)
(* that lost nothing is that of all the observations, whichever shard,     *)
(* flush and batch each went through and in whatever order the series are  *)
(* folded, a percentile being the upper bound of the bucket of the exact   *)
(* one; a minimum with a zero beside other values is left out.             *)
(***************************************************************************)
THEOREM RecorderVerdictOfAllSamples == Spec => []VerdictOfAllSamples
  BY RecorderInvariant, InvVerdict, PTL
=============================================================================
