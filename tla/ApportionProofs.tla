-------------------------- MODULE ApportionProofs --------------------------
(***************************************************************************)
(* Sums over finite sets, and what the largest remainder method does with  *)
(* every total and every list of weights.                                  *)
(*                                                                         *)
(* The sums of the community modules are recursive functions on the        *)
(* subsets of a finite set.  Induction is over those subsets, and is       *)
(* stated with a set of good subsets in place of a predicate, which the    *)
(* provers can instantiate.                                                *)
(***************************************************************************)
EXTENDS Apportion, FiniteSetTheorems, WellFoundedInduction, TLAPS

(***************************************************************************)
(* Induction over the subsets of a finite set.                             *)
(***************************************************************************)
LEMMA SubsetInduction ==
    ASSUME NEW S, IsFiniteSet(S), NEW Good,
           \A T \in SUBSET S : (\A U \in SUBSET T : U # T => U \in Good) => T \in Good
    PROVE  SUBSET S \subseteq Good
<1> DEFINE Bad == (SUBSET S) \ Good
<1> SUFFICES ASSUME Bad # {} PROVE FALSE
  OBVIOUS
<1>1. IsWellFoundedOn(StrictSubsetOrdering(S), SUBSET S)
  <2>1. FiniteSubsetsOf(S) = SUBSET S
    BY FS_FiniteSubsetsOfFinite
  <2>2. IsWellFoundedOn(StrictSubsetOrdering(S), FiniteSubsetsOf(S))
    BY FS_StrictSubsetOrderingWellFounded, Zenon
  <2> QED BY <2>1, <2>2, Zenon
<1>2. Bad \subseteq SUBSET S
  OBVIOUS
<1>3. PICK T \in Bad : \A U \in Bad : <<U, T>> \notin StrictSubsetOrdering(S)
  <2> DEFINE W == SUBSET S
             R == StrictSubsetOrdering(S)
  <2>1. IsWellFoundedOn(R, W) /\ Bad \subseteq W /\ Bad # {}
    BY <1>1
  <2> HIDE DEF Bad, W, R
  <2>2. \E T \in Bad : \A U \in Bad : ~(<<U, T>> \in R)
    BY <2>1, WFMin
  <2> QED BY <2>2 DEF R
<1>4. ASSUME NEW U \in SUBSET T, U # T, U \notin Good PROVE FALSE
  <2>1. U \in Bad
    BY <1>4
  <2>2. <<U, T>> \in StrictSubsetOrdering(S)
    BY <1>4 DEF StrictSubsetOrdering
  <2> QED BY <1>3, <2>1, <2>2
<1> QED BY <1>4

-----------------------------------------------------------------------------
(***************************************************************************)
(* The function behind a sum of f: Pick(s) is the element its fold takes   *)
(* off s.                                                                  *)
(***************************************************************************)
Pick(s) == CHOOSE x \in s : TRUE

IsSums(g, f, S) ==
    g = [s \in SUBSET S |-> IF s = {} THEN 0 ELSE f[Pick(s)] + g[s \ {Pick(s)}]]

Sums(f, S) == CHOOSE g : IsSums(g, f, S)

LEMMA PickIn == ASSUME NEW s, s # {} PROVE Pick(s) \in s
  BY DEF Pick

LEMMA SumUnfolds ==
    ASSUME NEW f, NEW S PROVE SumFunctionOnSet(f, S) = Sums(f, S)[S]
  BY DEF SumFunctionOnSet, FoldFunctionOnSet, MapThenFoldSet, Sums, IsSums, Pick

LEMMA SumsEquation ==
    ASSUME NEW f, NEW g, NEW S, IsSums(g, f, S)
    PROVE  \A s \in SUBSET S : g[s] = IF s = {} THEN 0 ELSE f[Pick(s)] + g[s \ {Pick(s)}]
<1> DEFINE rhs(x) == IF x = {} THEN 0 ELSE f[Pick(x)] + g[x \ {Pick(x)}]
<1>1. g = [x \in SUBSET S |-> rhs(x)]
  BY DEF IsSums
<1> HIDE DEF rhs
<1>2. \A s \in SUBSET S : g[s] = rhs(s)
  BY <1>1
<1> QED BY <1>2 DEF rhs

(***************************************************************************)
(* Two such functions agree where both are defined.                        *)
(***************************************************************************)
LEMMA SumsUnique ==
    ASSUME NEW f, NEW S, IsFiniteSet(S), NEW R, NEW g, NEW h,
           S \subseteq R, IsSums(g, f, R), IsSums(h, f, S)
    PROVE  \A s \in SUBSET S : g[s] = h[s]
<1>0. \A s \in SUBSET S :
        /\ g[s] = IF s = {} THEN 0 ELSE f[Pick(s)] + g[s \ {Pick(s)}]
        /\ h[s] = IF s = {} THEN 0 ELSE f[Pick(s)] + h[s \ {Pick(s)}]
  <2>1. \A s \in SUBSET R : g[s] = IF s = {} THEN 0 ELSE f[Pick(s)] + g[s \ {Pick(s)}]
    BY SumsEquation
  <2>2. \A s \in SUBSET S : h[s] = IF s = {} THEN 0 ELSE f[Pick(s)] + h[s \ {Pick(s)}]
    BY SumsEquation
  <2> QED BY <2>1, <2>2
<1> DEFINE Good == {s \in SUBSET S : g[s] = h[s]}
<1>1. ASSUME NEW T \in SUBSET S, \A U \in SUBSET T : U # T => U \in Good
      PROVE  T \in Good
  <2>1. CASE T = {}
    BY <1>0, <2>1
  <2>2. CASE T # {}
    <3>1. Pick(T) \in T
      BY <2>2, PickIn
    <3>2. g[T \ {Pick(T)}] = h[T \ {Pick(T)}]
      BY <1>1, <3>1
    <3> QED BY <1>0, <2>2, <3>2
  <2> QED BY <2>1, <2>2
<1> HIDE DEF Good
<1>2. SUBSET S \subseteq Good
  BY <1>1, SubsetInduction
<1> QED BY <1>2 DEF Good

(***************************************************************************)
(* There is one for every finite set, built from the ones of its proper    *)
(* subsets.                                                                *)
(***************************************************************************)
LEMMA SumsExist ==
    ASSUME NEW f, NEW S, IsFiniteSet(S)
    PROVE  IsSums(Sums(f, S), f, S)
<1> DEFINE Good == {s \in SUBSET S : \E g : IsSums(g, f, s)}
<1>1. ASSUME NEW T \in SUBSET S, \A U \in SUBSET T : U # T => U \in Good
      PROVE  T \in Good
  <2> DEFINE below(s) == IF s = {} THEN 0
                         ELSE f[Pick(s)] + Sums(f, s \ {Pick(s)})[s \ {Pick(s)}]
             g == [s \in SUBSET T |-> below(s)]
  <2>1. \A s \in SUBSET T : s # T => IsSums(Sums(f, s), f, s)
    BY <1>1 DEF Sums
  <2>2. ASSUME NEW s \in SUBSET T, s # {} PROVE g[s \ {Pick(s)}] = Sums(f, s \ {Pick(s)})[s \ {Pick(s)}]
    <3> DEFINE u == s \ {Pick(s)}
    <3>1. u \in SUBSET T /\ u # T /\ IsFiniteSet(u)
      BY <2>2, PickIn, FS_Subset
    <3>2. IsSums(Sums(f, u), f, u)
      BY <2>1, <3>1
    <3> HIDE DEF u
    <3>3. CASE u = {}
      <4>1. Sums(f, u)[u] = 0
        BY <3>2, <3>3, SumsEquation, Zenon
      <4>2. g[u] = 0
        BY <3>1, <3>3
      <4> QED BY <4>1, <4>2 DEF u
    <3>4. CASE u # {}
      <4> DEFINE v == u \ {Pick(u)}
      <4>1. v \in SUBSET T /\ v # T /\ v \subseteq u /\ IsFiniteSet(v)
        BY <3>1, <3>4, PickIn, FS_Subset
      <4>2. IsSums(Sums(f, v), f, v)
        BY <2>1, <4>1
      <4>3. Sums(f, u)[v] = Sums(f, v)[v]
        <5> HIDE DEF v, g
        <5>1. v \in SUBSET v
          OBVIOUS
        <5>2. \A x \in SUBSET v : Sums(f, u)[x] = Sums(f, v)[x]
          BY <3>2, <4>1, <4>2, SumsUnique
        <5> QED BY <5>1, <5>2
      <4>4. Sums(f, u)[u] = f[Pick(u)] + Sums(f, u)[v]
        BY <3>2, <3>4, SumsEquation
      <4>5. g[u] = f[Pick(u)] + Sums(f, v)[v]
        BY <3>1, <3>4
      <4> HIDE DEF v, g
      <4> QED BY <4>3, <4>4, <4>5, Zenon DEF u
    <3> QED BY <3>3, <3>4
  <2>3. \A s \in SUBSET T : below(s) = IF s = {} THEN 0 ELSE f[Pick(s)] + g[s \ {Pick(s)}]
    BY <2>2
  <2>4. IsSums(g, f, T)
    <3> HIDE DEF below
    <3>1. g = [s \in SUBSET T |-> IF s = {} THEN 0 ELSE f[Pick(s)] + g[s \ {Pick(s)}]]
      BY <2>3
    <3> QED BY <3>1 DEF IsSums
  <2> QED BY <2>4
<1> HIDE DEF Good
<1>2. SUBSET S \subseteq Good
  BY <1>1, SubsetInduction
<1>3. S \in Good
  BY <1>2
<1> QED BY <1>3 DEF Good, Sums

(***************************************************************************)
(* The sum over the empty set, and over any other one.                     *)
(***************************************************************************)
LEMMA SumEmpty == ASSUME NEW f PROVE SumFunctionOnSet(f, {}) = 0
  BY SumsExist, SumsEquation, SumUnfolds, FS_EmptySet

LEMMA SumPick ==
    ASSUME NEW f, NEW S, IsFiniteSet(S), S # {}
    PROVE  SumFunctionOnSet(f, S) = f[Pick(S)] + SumFunctionOnSet(f, S \ {Pick(S)})
<1> DEFINE u == S \ {Pick(S)}
<1>1. IsSums(Sums(f, S), f, S) /\ IsFiniteSet(u) /\ u \subseteq S
  BY SumsExist, FS_Subset
<1>2. IsSums(Sums(f, u), f, u)
  BY <1>1, SumsExist
<1>3. Sums(f, S)[S] = f[Pick(S)] + Sums(f, S)[u]
  BY <1>1, SumsEquation
<1>4. Sums(f, S)[u] = Sums(f, u)[u]
  BY <1>1, <1>2, SumsUnique
<1> QED BY <1>3, <1>4, SumUnfolds

-----------------------------------------------------------------------------
(***************************************************************************)
(* Induction that takes one element off at a time.                         *)
(***************************************************************************)
LEMMA ElementInduction ==
    ASSUME NEW S, IsFiniteSet(S), NEW Good, {} \in Good,
           \A T \in SUBSET S, x \in S : x \in T /\ T \ {x} \in Good => T \in Good
    PROVE  S \in Good
<1>1. ASSUME NEW T \in SUBSET S, \A U \in SUBSET T : U # T => U \in Good
      PROVE  T \in Good
  <2>1. CASE T # {}
    <3>1. PICK x \in T : TRUE
      BY <2>1
    <3>2. T \ {x} \in Good
      BY <1>1
    <3> QED BY <3>2
  <2> QED BY <2>1
<1>2. SUBSET S \subseteq Good
  BY <1>1, SubsetInduction
<1> QED BY <1>2

(***************************************************************************)
(* A sum of integers is an integer, and may take its elements in any       *)
(* order.                                                                  *)
(***************************************************************************)
LEMMA SumsInt ==
    ASSUME NEW S, IsFiniteSet(S), NEW f, \A x \in S : f[x] \in Int
    PROVE  \A T \in SUBSET S : SumFunctionOnSet(f, T) \in Int
<1> DEFINE Good == {T \in SUBSET S : SumFunctionOnSet(f, T) \in Int}
<1>1. ASSUME NEW T \in SUBSET S, \A U \in SUBSET T : U # T => U \in Good
      PROVE  T \in Good
  <2>1. CASE T = {}
    BY <2>1, SumEmpty
  <2>2. CASE T # {}
    <3>1. Pick(T) \in T /\ IsFiniteSet(T)
      BY <2>2, PickIn, FS_Subset
    <3>2. SumFunctionOnSet(f, T) = f[Pick(T)] + SumFunctionOnSet(f, T \ {Pick(T)})
      BY <2>2, <3>1, SumPick
    <3>3. T \ {Pick(T)} \in Good
      BY <1>1, <3>1
    <3> QED BY <3>1, <3>2, <3>3
  <2> QED BY <2>1, <2>2
<1> HIDE DEF Good
<1>2. SUBSET S \subseteq Good
  BY <1>1, SubsetInduction
<1> QED BY <1>2 DEF Good

LEMMA SumsRemove ==
    ASSUME NEW S, IsFiniteSet(S), NEW f, \A x \in S : f[x] \in Int
    PROVE  \A T \in SUBSET S : \A x \in T :
             SumFunctionOnSet(f, T) = f[x] + SumFunctionOnSet(f, T \ {x})
<1> DEFINE Good == {T \in SUBSET S : \A x \in T :
                       SumFunctionOnSet(f, T) = f[x] + SumFunctionOnSet(f, T \ {x})}
<1>1. ASSUME NEW T \in SUBSET S, \A U \in SUBSET T : U # T => U \in Good
      PROVE  T \in Good
  <2> SUFFICES ASSUME NEW x \in T
               PROVE  SumFunctionOnSet(f, T) = f[x] + SumFunctionOnSet(f, T \ {x})
    OBVIOUS
  <2> DEFINE p == Pick(T)
  <2>1. p \in T /\ IsFiniteSet(T)
    BY PickIn, FS_Subset
  <2>2. SumFunctionOnSet(f, T) = f[p] + SumFunctionOnSet(f, T \ {p})
    BY <2>1, SumPick
  <2> HIDE DEF p
  <2>3. CASE x = p
    BY <2>2, <2>3
  <2>4. CASE x # p
    <3>1. T \ {p} \in Good /\ T \ {x} \in Good
      BY <1>1, <2>1
    <3>2. (T \ {p}) \ {x} = (T \ {x}) \ {p}
      OBVIOUS
    <3>3. SumFunctionOnSet(f, T \ {p}) = f[x] + SumFunctionOnSet(f, (T \ {p}) \ {x})
      BY <2>4, <3>1
    <3>4. SumFunctionOnSet(f, T \ {x}) = f[p] + SumFunctionOnSet(f, (T \ {x}) \ {p})
      BY <2>1, <2>4, <3>1
    <3>5. f[x] \in Int /\ f[p] \in Int /\ SumFunctionOnSet(f, (T \ {x}) \ {p}) \in Int
      BY <2>1, SumsInt
    <3> DEFINE rest == SumFunctionOnSet(f, (T \ {x}) \ {p})
    <3>6. SumFunctionOnSet(f, T) = f[p] + (f[x] + rest)
      BY <2>2, <3>2, <3>3
    <3>7. f[p] + (f[x] + rest) = f[x] + (f[p] + rest)
      BY <3>5
    <3> QED BY <3>4, <3>6, <3>7
  <2> QED BY <2>3, <2>4
<1> HIDE DEF Good
<1>2. SUBSET S \subseteq Good
  BY <1>1, SubsetInduction
<1> QED BY <1>2 DEF Good

LEMMA SumRemove ==
    ASSUME NEW S, IsFiniteSet(S), NEW f, \A x \in S : f[x] \in Int, NEW x \in S
    PROVE  SumFunctionOnSet(f, S) = f[x] + SumFunctionOnSet(f, S \ {x})
  BY SumsRemove

(***************************************************************************)
(* Sums are linear and monotone.                                           *)
(***************************************************************************)
LEMMA SumAdd ==
    ASSUME NEW S, IsFiniteSet(S), NEW f, NEW g, NEW h,
           \A x \in S : f[x] \in Int /\ g[x] \in Int /\ h[x] = f[x] + g[x]
    PROVE  SumFunctionOnSet(h, S) = SumFunctionOnSet(f, S) + SumFunctionOnSet(g, S)
<1> DEFINE Good == {T \in SUBSET S :
                      SumFunctionOnSet(h, T) = SumFunctionOnSet(f, T) + SumFunctionOnSet(g, T)}
<1>0. \A x \in S : h[x] \in Int
  OBVIOUS
<1>1. {} \in Good
  BY SumEmpty
<1>2. ASSUME NEW T \in SUBSET S, NEW x \in S, x \in T, T \ {x} \in Good PROVE T \in Good
  <2>1. SumFunctionOnSet(f, T) = f[x] + SumFunctionOnSet(f, T \ {x})
    BY <1>2, SumsRemove
  <2>2. SumFunctionOnSet(g, T) = g[x] + SumFunctionOnSet(g, T \ {x})
    BY <1>2, SumsRemove
  <2>3. SumFunctionOnSet(h, T) = h[x] + SumFunctionOnSet(h, T \ {x})
    BY <1>0, <1>2, SumsRemove
  <2>4. SumFunctionOnSet(f, T \ {x}) \in Int /\ SumFunctionOnSet(g, T \ {x}) \in Int
    BY <1>2, SumsInt
  <2> QED BY <1>2, <2>1, <2>2, <2>3, <2>4
<1> HIDE DEF Good
<1>3. S \in Good
  BY <1>1, <1>2, ElementInduction
<1> QED BY <1>3 DEF Good

LEMMA SumScale ==
    ASSUME NEW S, IsFiniteSet(S), NEW f, NEW h, NEW c \in Int,
           \A x \in S : f[x] \in Int /\ h[x] = c * f[x]
    PROVE  SumFunctionOnSet(h, S) = c * SumFunctionOnSet(f, S)
<1> DEFINE Good == {T \in SUBSET S : SumFunctionOnSet(h, T) = c * SumFunctionOnSet(f, T)}
<1>0. \A x \in S : h[x] \in Int
  OBVIOUS
<1>1. {} \in Good
  BY SumEmpty
<1>2. ASSUME NEW T \in SUBSET S, NEW x \in S, x \in T, T \ {x} \in Good PROVE T \in Good
  <2>1. SumFunctionOnSet(f, T) = f[x] + SumFunctionOnSet(f, T \ {x})
    BY <1>2, SumsRemove
  <2>3. SumFunctionOnSet(h, T) = h[x] + SumFunctionOnSet(h, T \ {x})
    BY <1>0, <1>2, SumsRemove
  <2>4. SumFunctionOnSet(f, T \ {x}) \in Int
    BY <1>2, SumsInt
  <2>5. \A a, b \in Int : c * (a + b) = c * a + c * b
    OBVIOUS
  <2>6. c * (f[x] + SumFunctionOnSet(f, T \ {x})) = c * f[x] + c * SumFunctionOnSet(f, T \ {x})
    BY <2>4, <2>5
  <2> QED BY <1>2, <2>1, <2>3, <2>6
<1> HIDE DEF Good
<1>3. S \in Good
  BY <1>1, <1>2, ElementInduction
<1> QED BY <1>3 DEF Good

LEMMA SumMonotone ==
    ASSUME NEW S, IsFiniteSet(S), NEW f, NEW g,
           \A x \in S : f[x] \in Int /\ g[x] \in Int /\ f[x] <= g[x]
    PROVE  SumFunctionOnSet(f, S) <= SumFunctionOnSet(g, S)
<1> DEFINE Good == {T \in SUBSET S : SumFunctionOnSet(f, T) <= SumFunctionOnSet(g, T)}
<1>1. {} \in Good
  BY SumEmpty
<1>2. ASSUME NEW T \in SUBSET S, NEW x \in S, x \in T, T \ {x} \in Good PROVE T \in Good
  <2>1. SumFunctionOnSet(f, T) = f[x] + SumFunctionOnSet(f, T \ {x})
    BY <1>2, SumsRemove
  <2>2. SumFunctionOnSet(g, T) = g[x] + SumFunctionOnSet(g, T \ {x})
    BY <1>2, SumsRemove
  <2>4. SumFunctionOnSet(f, T \ {x}) \in Int /\ SumFunctionOnSet(g, T \ {x}) \in Int
    BY <1>2, SumsInt
  <2> QED BY <1>2, <2>1, <2>2, <2>4
<1> HIDE DEF Good
<1>3. S \in Good
  BY <1>1, <1>2, ElementInduction
<1> QED BY <1>3 DEF Good

LEMMA SumSame ==
    ASSUME NEW S, IsFiniteSet(S), NEW f, NEW g, \A x \in S : f[x] \in Int /\ f[x] = g[x]
    PROVE  SumFunctionOnSet(f, S) = SumFunctionOnSet(g, S)
<1>1. SumFunctionOnSet(f, S) <= SumFunctionOnSet(g, S)
  BY SumMonotone
<1>2. SumFunctionOnSet(g, S) <= SumFunctionOnSet(f, S)
  BY SumMonotone
<1>3. SumFunctionOnSet(f, S) \in Int /\ SumFunctionOnSet(g, S) \in Int
  BY SumsInt
<1> QED BY <1>1, <1>2, <1>3

(***************************************************************************)
(* What is zero outside a subset has the subset's sum.                     *)
(***************************************************************************)
LEMMA SumSupport ==
    ASSUME NEW S, IsFiniteSet(S), NEW Q, NEW f,
           \A x \in S : f[x] \in Int /\ (x \notin Q => f[x] = 0)
    PROVE  SumFunctionOnSet(f, S) = SumFunctionOnSet(f, S \cap Q)
<1> DEFINE Good == {T \in SUBSET S : SumFunctionOnSet(f, T) = SumFunctionOnSet(f, T \cap Q)}
<1>1. {} \in Good
  <2>1. {} \cap Q = {}
    OBVIOUS
  <2> QED BY <2>1
<1>2. ASSUME NEW T \in SUBSET S, NEW x \in S, x \in T, T \ {x} \in Good PROVE T \in Good
  <2>1. SumFunctionOnSet(f, T) = f[x] + SumFunctionOnSet(f, T \ {x})
    BY <1>2, SumsRemove
  <2>2. SumFunctionOnSet(f, T \ {x}) \in Int
    BY <1>2, SumsInt
  <2>3. CASE x \in Q
    <3>1. SumFunctionOnSet(f, T \cap Q) = f[x] + SumFunctionOnSet(f, (T \cap Q) \ {x})
      BY <1>2, <2>3, SumsRemove
    <3>2. (T \cap Q) \ {x} = (T \ {x}) \cap Q
      OBVIOUS
    <3> QED BY <1>2, <2>1, <3>1, <3>2
  <2>4. CASE x \notin Q
    <3>1. T \cap Q = (T \ {x}) \cap Q
      BY <2>4
    <3>2. SumFunctionOnSet(f, T) = SumFunctionOnSet(f, T \ {x})
      BY <2>1, <2>2, <2>4
    <3>3. SumFunctionOnSet(f, T \ {x}) = SumFunctionOnSet(f, (T \ {x}) \cap Q)
      BY <1>2
    <3>4. SumFunctionOnSet(f, T) = SumFunctionOnSet(f, T \cap Q)
      BY <3>1, <3>2, <3>3, Zenon
    <3> QED BY <3>4
  <2> QED BY <2>3, <2>4
<1> HIDE DEF Good
<1>3. S \in Good
  BY <1>1, <1>2, ElementInduction
<1> QED BY <1>3 DEF Good

(***************************************************************************)
(* Counting is summing ones.                                               *)
(***************************************************************************)
LEMMA SumCount ==
    ASSUME NEW S, IsFiniteSet(S), NEW f, NEW c \in Int, \A x \in S : f[x] = c
    PROVE  SumFunctionOnSet(f, S) = c * Cardinality(S)
<1> DEFINE Good == {T \in SUBSET S : SumFunctionOnSet(f, T) = c * Cardinality(T)}
<1>1. {} \in Good
  BY SumEmpty, FS_EmptySet
<1>2. ASSUME NEW T \in SUBSET S, NEW x \in S, x \in T, T \ {x} \in Good PROVE T \in Good
  <2>1. SumFunctionOnSet(f, T) = f[x] + SumFunctionOnSet(f, T \ {x})
    BY <1>2, SumsRemove
  <2>2. IsFiniteSet(T)
    BY FS_Subset
  <2>3. Cardinality(T \ {x}) = Cardinality(T) - 1 /\ Cardinality(T) \in Nat
    BY <1>2, <2>2, FS_RemoveElement, FS_CardinalityType
  <2>4. \A n \in Nat : c + c * (n - 1) = c * n
    OBVIOUS
  <2> QED BY <1>2, <2>1, <2>3, <2>4
<1> HIDE DEF Good
<1>3. S \in Good
  BY <1>1, <1>2, ElementInduction
<1> QED BY <1>3 DEF Good

(***************************************************************************)
(* The sum over two disjoint sets.                                         *)
(***************************************************************************)
LEMMA SumUnion ==
    ASSUME NEW S, IsFiniteSet(S), NEW X, NEW Y, S = X \cup Y, X \cap Y = {}, NEW f,
           \A x \in S : f[x] \in Int
    PROVE  SumFunctionOnSet(f, S) = SumFunctionOnSet(f, X) + SumFunctionOnSet(f, Y)
<1> DEFINE g == [x \in S |-> IF x \in X THEN f[x] ELSE 0]
           h == [x \in S |-> IF x \in Y THEN f[x] ELSE 0]
<1>1. /\ \A x \in S : g[x] \in Int /\ h[x] \in Int /\ f[x] = g[x] + h[x]
      /\ \A x \in S : (x \notin X => g[x] = 0) /\ (x \notin Y => h[x] = 0)
      /\ \A x \in X : g[x] \in Int /\ g[x] = f[x]
      /\ \A x \in Y : h[x] \in Int /\ h[x] = f[x]
  OBVIOUS
<1>2. S \cap X = X /\ S \cap Y = Y /\ IsFiniteSet(X) /\ IsFiniteSet(Y)
  BY FS_Subset
<1> HIDE DEF g, h
<1>3. SumFunctionOnSet(f, S) = SumFunctionOnSet(g, S) + SumFunctionOnSet(h, S)
  BY <1>1, SumAdd
<1>4. SumFunctionOnSet(g, S) = SumFunctionOnSet(g, S \cap X)
  <2>1. \A x \in S : g[x] \in Int /\ (x \notin X => g[x] = 0)
    BY <1>1
  <2> QED BY <2>1, SumSupport, Zenon
<1>5. SumFunctionOnSet(h, S) = SumFunctionOnSet(h, S \cap Y)
  <2>1. \A x \in S : h[x] \in Int /\ (x \notin Y => h[x] = 0)
    BY <1>1
  <2> QED BY <2>1, SumSupport, Zenon
<1>6. SumFunctionOnSet(g, X) = SumFunctionOnSet(f, X)
  BY <1>1, <1>2, SumSame
<1>7. SumFunctionOnSet(h, Y) = SumFunctionOnSet(f, Y)
  BY <1>1, <1>2, SumSame
<1> QED BY <1>2, <1>3, <1>4, <1>5, <1>6, <1>7, Zenon

(***************************************************************************)
(* A sum over a set of pairs may be taken one first component at a time:   *)
(* K[a] is the set of second components that go with a.                    *)
(***************************************************************************)
Row(a, Q) == {a} \X Q

Pairs(A, K) == UNION {Row(a, K[a]) : a \in A}

LEMMA SumRow ==
    ASSUME NEW a, NEW Q, IsFiniteSet(Q), NEW f, NEW g,
           \A i \in Q : g[i] \in Int /\ f[<<a, i>>] = g[i]
    PROVE  SumFunctionOnSet(f, Row(a, Q)) = SumFunctionOnSet(g, Q)
<1> DEFINE Good == {T \in SUBSET Q : SumFunctionOnSet(f, Row(a, T)) = SumFunctionOnSet(g, T)}
<1>1. {} \in Good
  <2>1. Row(a, {}) = {}
    BY DEF Row
  <2> QED BY <2>1, SumEmpty
<1>2. ASSUME NEW T \in SUBSET Q, NEW i \in Q, i \in T, T \ {i} \in Good PROVE T \in Good
  <2> DEFINE R == Row(a, T)
  <2>1. IsFiniteSet(R)
    <3>1. IsFiniteSet(T) /\ IsFiniteSet({a})
      BY FS_Subset, FS_Singleton
    <3> QED BY <3>1, FS_Product DEF Row
  <2>2. \A x \in R : f[x] \in Int
    BY DEF Row
  <2>3. <<a, i>> \in R /\ R \ {<<a, i>>} = Row(a, T \ {i})
    BY <1>2 DEF Row
  <2>4. SumFunctionOnSet(f, R) = f[<<a, i>>] + SumFunctionOnSet(f, R \ {<<a, i>>})
    <3> HIDE DEF R
    <3> QED BY <2>1, <2>2, <2>3, SumRemove
  <2>5. SumFunctionOnSet(g, T) = g[i] + SumFunctionOnSet(g, T \ {i})
    <3>1. IsFiniteSet(T) /\ \A x \in T : g[x] \in Int
      BY FS_Subset
    <3> QED BY <1>2, <3>1, SumRemove
  <2>6. SumFunctionOnSet(f, Row(a, T \ {i})) = SumFunctionOnSet(g, T \ {i})
    BY <1>2
  <2>7. SumFunctionOnSet(f, R \ {<<a, i>>}) = SumFunctionOnSet(g, T \ {i})
    BY <2>3, <2>6, Zenon
  <2> QED BY <2>4, <2>5, <2>7
<1> HIDE DEF Good
<1>3. Q \in Good
  BY <1>1, <1>2, ElementInduction
<1> QED BY <1>3 DEF Good

LEMMA SumRows ==
    ASSUME NEW A, IsFiniteSet(A), NEW K, IsFiniteSet(Pairs(A, K)), NEW f, NEW row,
           \A a \in A : IsFiniteSet(K[a]) /\ row[a] \in Int,
           \A a \in A : \A i \in K[a] : f[<<a, i>>] \in Int,
           \A a \in A : SumFunctionOnSet(f, Row(a, K[a])) = row[a]
    PROVE  SumFunctionOnSet(f, Pairs(A, K)) = SumFunctionOnSet(row, A)
<1> DEFINE Good == {B \in SUBSET A : SumFunctionOnSet(f, Pairs(B, K)) = SumFunctionOnSet(row, B)}
<1>1. {} \in Good
  <2>1. Pairs({}, K) = {}
    BY DEF Pairs
  <2> QED BY <2>1, SumEmpty
<1>2. ASSUME NEW B \in SUBSET A, NEW a \in A, a \in B, B \ {a} \in Good PROVE B \in Good
  <2> DEFINE X == Row(a, K[a])
             Y == Pairs(B \ {a}, K)
             S == Pairs(B, K)
  <2>1. S = X \cup Y
    BY <1>2 DEF Pairs
  <2>2. X \cap Y = {}
    BY DEF Pairs, Row
  <2>3. S \in SUBSET Pairs(A, K)
    BY DEF Pairs
  <2>4. IsFiniteSet(S)
    BY <2>3, FS_Subset
  <2>5. \A x \in S : f[x] \in Int
    BY DEF Pairs, Row
  <2> HIDE DEF X, Y, S
  <2>6. SumFunctionOnSet(f, S) = SumFunctionOnSet(f, X) + SumFunctionOnSet(f, Y)
    BY <2>1, <2>2, <2>4, <2>5, SumUnion
  <2>7. SumFunctionOnSet(row, B) = row[a] + SumFunctionOnSet(row, B \ {a})
    BY <1>2, SumsRemove
  <2>8. SumFunctionOnSet(f, X) = row[a] /\ SumFunctionOnSet(f, Y) = SumFunctionOnSet(row, B \ {a})
    BY <1>2 DEF X, Y
  <2> QED BY <2>6, <2>7, <2>8 DEF S
<1> HIDE DEF Good
<1>3. A \in Good
  BY <1>1, <1>2, ElementInduction
<1> QED BY <1>3 DEF Good

-----------------------------------------------------------------------------
(***************************************************************************)
(* Of the elements of a finite set in a strict total order, k have fewer   *)
(* than k before them.                                                     *)
(***************************************************************************)
Rank(R, C, i) == Cardinality({j \in C : <<j, i>> \in R})

LEMMA Ranking ==
    ASSUME NEW C, IsFiniteSet(C), NEW R,
           \A i \in C : <<i, i>> \notin R,
           \A i, j \in C : i # j => <<i, j>> \in R \/ <<j, i>> \in R,
           \A i, j, l \in C : <<i, j>> \in R /\ <<j, l>> \in R => <<i, l>> \in R,
           NEW k \in 0 .. Cardinality(C)
    PROVE  Cardinality({i \in C : Rank(R, C, i) < k}) = k
<1> DEFINE n == Cardinality(C)
           before(i) == {j \in C : <<j, i>> \in R}
           low == {i \in C : Rank(R, C, i) < k}
           high == C \ low
<1>1. n \in Nat /\ k \in 0 .. n
  BY FS_CardinalityType
<1>2. ASSUME NEW i \in C PROVE Rank(R, C, i) \in 0 .. n - 1
  <2>1. before(i) \in SUBSET (C \ {i})
    OBVIOUS
  <2>2. IsFiniteSet(C \ {i}) /\ Cardinality(C \ {i}) = n - 1
    BY FS_RemoveElement
  <2>3. IsFiniteSet(before(i)) /\ Cardinality(before(i)) <= n - 1
    <3> HIDE DEF before
    <3>1. IsFiniteSet(before(i)) /\ Cardinality(before(i)) <= Cardinality(C \ {i})
      BY <2>1, <2>2, FS_Subset
    <3> QED BY <2>2, <3>1
  <2>4. Cardinality(before(i)) \in Nat
    BY <2>3, FS_CardinalityType
  <2> QED BY <1>1, <2>3, <2>4 DEF Rank
<1>3. ASSUME NEW i \in C, NEW j \in C, <<i, j>> \in R PROVE Rank(R, C, i) < Rank(R, C, j)
  <2>1. before(i) \cup {i} \subseteq before(j) /\ i \notin before(i)
    BY <1>3
  <2>2. IsFiniteSet(before(i)) /\ IsFiniteSet(before(j))
    BY FS_Subset
  <2>3. Cardinality(before(i) \cup {i}) = Cardinality(before(i)) + 1
    BY <2>1, <2>2, FS_AddElement
  <2>4. Cardinality(before(i) \cup {i}) <= Cardinality(before(j))
    BY <2>1, <2>2, FS_Subset
  <2>5. Cardinality(before(i)) \in Nat /\ Cardinality(before(j)) \in Nat
    BY <2>2, FS_CardinalityType
  <2> QED BY <2>3, <2>4, <2>5 DEF Rank
<1>4. \A i, j \in C : Rank(R, C, i) = Rank(R, C, j) => i = j
  <2> SUFFICES ASSUME NEW i \in C, NEW j \in C, i # j, Rank(R, C, i) = Rank(R, C, j)
               PROVE  FALSE
    OBVIOUS
  <2>1. Rank(R, C, i) < Rank(R, C, j) \/ Rank(R, C, j) < Rank(R, C, i)
    BY <1>3
  <2>2. Rank(R, C, i) \in Int
    BY <1>2
  <2> QED BY <2>1, <2>2
<1>5. IsFiniteSet(low) /\ IsFiniteSet(high)
  BY FS_Subset
<1>6. Cardinality(low) <= k
  <2> DEFINE f == [i \in low |-> Rank(R, C, i)]
  <2>1. \A i \in low : f[i] \in 0 .. k - 1
    BY <1>2
  <2>2. \A i, j \in low : f[i] = f[j] => i = j
    BY <1>4
  <2>3. f \in Injection(low, 0 .. k - 1)
    <3> HIDE DEF low
    <3> QED BY <2>1, <2>2 DEF Injection, IsInjective
  <2>4. IsFiniteSet(0 .. k - 1) /\ Cardinality(0 .. k - 1) = k
    BY FS_Interval
  <2> HIDE DEF f, low
  <2> QED BY <2>3, <2>4, FS_Injection
<1>7. Cardinality(high) <= n - k
  <2> DEFINE f == [i \in high |-> Rank(R, C, i)]
  <2>1. \A i \in high : f[i] \in k .. n - 1
    BY <1>2
  <2>2. \A i, j \in high : f[i] = f[j] => i = j
    BY <1>4
  <2>3. f \in Injection(high, k .. n - 1)
    <3> HIDE DEF high, n
    <3> QED BY <2>1, <2>2 DEF Injection, IsInjective
  <2>4. IsFiniteSet(k .. n - 1) /\ Cardinality(k .. n - 1) = n - k
    <3> HIDE DEF n
    <3>1. k \in Int /\ n - 1 \in Int
      BY <1>1
    <3>2. IsFiniteSet(k .. n - 1) /\ Cardinality(k .. n - 1) = IF k > n - 1 THEN 0 ELSE n - 1 - k + 1
      BY <3>1, FS_Interval
    <3> QED BY <1>1, <3>2
  <2> HIDE DEF f, high, n
  <2> QED BY <2>3, <2>4, FS_Injection
<1>8. n = Cardinality(low) + Cardinality(high)
  <2>1. low \cup high = C /\ low \cap high = {}
    OBVIOUS
  <2>2. Cardinality(low \cup high) = Cardinality(low) + Cardinality(high) - Cardinality(low \cap high)
    BY <1>5, FS_Union
  <2>3. Cardinality(low) \in Nat /\ Cardinality(high) \in Nat /\ Cardinality({}) = 0
    BY <1>5, FS_CardinalityType, FS_EmptySet
  <2> HIDE DEF low, high, n
  <2>4. n = Cardinality(low \cup high) /\ Cardinality(low \cap high) = 0
    BY <2>1, <2>3 DEF n
  <2> QED BY <2>2, <2>3, <2>4
<1>9. Cardinality(low) \in Nat /\ Cardinality(high) \in Nat
  BY <1>5, FS_CardinalityType
<1> HIDE DEF n, high
<1> QED BY <1>1, <1>6, <1>7, <1>8, <1>9

-----------------------------------------------------------------------------
(***************************************************************************)
(* Integer division.                                                       *)
(***************************************************************************)
LEMMA Division ==
    ASSUME NEW a \in Nat, NEW b \in Nat, b > 0
    PROVE  /\ a \div b \in Nat
           /\ a % b \in 0 .. b - 1
           /\ a = b * (a \div b) + (a % b)
  OBVIOUS

(***************************************************************************)
(* A total to divide, and weights of which one is positive.                *)
(***************************************************************************)
Divisible(total, w) ==
    /\ total \in Nat
    /\ IsFiniteSet(DOMAIN w) /\ DOMAIN w \subseteq Int
    /\ w \in [DOMAIN w -> Int]
    /\ Claimants(w) # {}

LEMMA ClaimantsFinite ==
    ASSUME NEW total, NEW w, Divisible(total, w)
    PROVE  /\ Claimants(w) \subseteq DOMAIN w /\ IsFiniteSet(Claimants(w))
           /\ Cardinality(Claimants(w)) \in Nat \ {0}
           /\ \A i \in Claimants(w) : w[i] \in Nat \ {0}
<1>1. Claimants(w) \in SUBSET DOMAIN w /\ Claimants(w) # {}
  BY DEF Divisible, Claimants
<1>2. IsFiniteSet(Claimants(w))
  BY <1>1, FS_Subset DEF Divisible
<1>3. Cardinality(Claimants(w)) \in Nat \ {0}
  BY <1>1, <1>2, FS_CardinalityType, FS_EmptySet
<1>4. \A i \in Claimants(w) : w[i] \in Nat \ {0}
  BY DEF Divisible, Claimants
<1> QED BY <1>1, <1>2, <1>3, <1>4

LEMMA TotalWeightPositive ==
    ASSUME NEW total, NEW w, Divisible(total, w)
    PROVE  TotalWeight(w) \in Nat /\ TotalWeight(w) > 0
<1> DEFINE C == Claimants(w)
           one == [i \in C |-> 1]
<1>1. IsFiniteSet(C) /\ Cardinality(C) \in Nat \ {0} /\ \A i \in C : w[i] \in Nat \ {0}
  BY ClaimantsFinite
<1> HIDE DEF C
<1>2. SumFunctionOnSet(one, C) = 1 * Cardinality(C)
  BY <1>1, SumCount
<1>3. \A i \in C : one[i] \in Int /\ w[i] \in Int /\ one[i] <= w[i]
  BY <1>1
<1> HIDE DEF one
<1>4. SumFunctionOnSet(one, C) <= SumFunctionOnSet(w, C)
  BY <1>1, <1>3, SumMonotone
<1>5. SumFunctionOnSet(w, C) \in Int
  BY <1>1, <1>3, SumsInt
<1> QED BY <1>1, <1>2, <1>4, <1>5 DEF TotalWeight, C

(***************************************************************************)
(* The floor of a share and the remainder it leaves.                       *)
(***************************************************************************)
LEMMA FloorRemainder ==
    ASSUME NEW total, NEW w, Divisible(total, w), NEW i \in Claimants(w)
    PROVE  /\ Floor(total, w, i) \in Nat
           /\ Remainder(total, w, i) \in 0 .. TotalWeight(w) - 1
           /\ total * w[i] = TotalWeight(w) * Floor(total, w, i) + Remainder(total, w, i)
<1>1. TotalWeight(w) \in Nat /\ TotalWeight(w) > 0
  BY TotalWeightPositive
<1>2. total \in Nat /\ w[i] \in Nat
  BY ClaimantsFinite DEF Divisible
<1>3. total * w[i] \in Nat
  BY <1>2
<1> QED BY <1>1, <1>3, Division DEF Floor, Remainder

(***************************************************************************)
(* Leftover sums a function as well as an operator.                        *)
(***************************************************************************)
Floors(total, w) == [i \in Claimants(w) |-> Floor(total, w, i)]

Remainders(total, w) == [i \in Claimants(w) |-> Remainder(total, w, i)]

LEMMA LeftoverSums ==
    ASSUME NEW total, NEW w
    PROVE  Leftover(total, w) = total - SumFunctionOnSet(Floors(total, w), Claimants(w))
<1> DEFINE S == Claimants(w)
           f == Floors(total, w)
           A(g) == g = [s \in SUBSET S |->
                          IF s = {} THEN 0 ELSE Floor(total, w, Pick(s)) + g[s \ {Pick(s)}]]
<1>1. Leftover(total, w) = total - (CHOOSE g : A(g))[S]
  BY DEF Leftover, MapThenSumSet, MapThenFoldSet, Pick
<1>2. ASSUME NEW g PROVE A(g) <=> IsSums(g, f, S)
  <2>1. \A s \in SUBSET S : s # {} => f[Pick(s)] = Floor(total, w, Pick(s))
    BY PickIn DEF Floors
  <2> HIDE DEF f, S
  <2>2. [s \in SUBSET S |-> IF s = {} THEN 0 ELSE Floor(total, w, Pick(s)) + g[s \ {Pick(s)}]]
          = [s \in SUBSET S |-> IF s = {} THEN 0 ELSE f[Pick(s)] + g[s \ {Pick(s)}]]
    BY <2>1
  <2> QED BY <2>2 DEF IsSums
<1> HIDE DEF A, f, S
<1>3. (CHOOSE g : A(g)) = Sums(f, S)
  BY <1>2, Zenon DEF Sums
<1> QED BY <1>1, <1>3, SumUnfolds DEF S, f

(***************************************************************************)
(* What rounding down leaves over is less than one unit per claimant.      *)
(***************************************************************************)
LEMMA LeftoverBounds ==
    ASSUME NEW total, NEW w, Divisible(total, w)
    PROVE  Leftover(total, w) \in 0 .. Cardinality(Claimants(w))
<1> DEFINE C == Claimants(w)
           T == TotalWeight(w)
           n == Cardinality(C)
           fl == Floors(total, w)
           rem == Remainders(total, w)
           scaled == [i \in C |-> T * fl[i]]
           exact == [i \in C |-> total * w[i]]
           zero == [i \in C |-> 0]
           most == [i \in C |-> T - 1]
           left == Leftover(total, w)
<1>1. /\ IsFiniteSet(C) /\ n \in Nat \ {0} /\ total \in Nat
      /\ T \in Nat /\ T > 0
      /\ \A i \in C : w[i] \in Nat
  BY ClaimantsFinite, TotalWeightPositive DEF Divisible
<1>2. \A i \in C : fl[i] \in Nat /\ rem[i] \in 0 .. T - 1 /\ total * w[i] = T * fl[i] + rem[i]
  BY FloorRemainder DEF Floors, Remainders
<1>3. left = total - SumFunctionOnSet(fl, C) /\ T = SumFunctionOnSet(w, C)
  BY LeftoverSums DEF TotalWeight
<1> HIDE DEF C, T, n, fl, rem, left
<1>4. SumFunctionOnSet(exact, C) = total * SumFunctionOnSet(w, C)
  BY <1>1, SumScale
<1>5. SumFunctionOnSet(scaled, C) = T * SumFunctionOnSet(fl, C)
  BY <1>1, <1>2, SumScale
<1>6. \A i \in C : scaled[i] \in Int /\ rem[i] \in Int /\ exact[i] = scaled[i] + rem[i]
  BY <1>1, <1>2
<1>7. \A i \in C : /\ zero[i] \in Int /\ rem[i] \in Int /\ most[i] \in Int
                  /\ zero[i] <= rem[i] /\ rem[i] <= most[i]
  BY <1>1, <1>2
<1>8. SumFunctionOnSet(zero, C) = 0 * n
  BY <1>1, SumCount DEF n
<1>9. SumFunctionOnSet(most, C) = (T - 1) * n
  <2>1. T - 1 \in Int /\ \A i \in C : most[i] = T - 1
    BY <1>1
  <2> QED BY <1>1, <2>1, SumCount DEF n
<1> HIDE DEF exact, scaled, zero, most
<1>10. SumFunctionOnSet(exact, C) = SumFunctionOnSet(scaled, C) + SumFunctionOnSet(rem, C)
  BY <1>1, <1>6, SumAdd
<1>11. SumFunctionOnSet(zero, C) <= SumFunctionOnSet(rem, C)
  BY <1>1, <1>7, SumMonotone
<1>12. SumFunctionOnSet(rem, C) <= SumFunctionOnSet(most, C)
  BY <1>1, <1>7, SumMonotone
<1>13. SumFunctionOnSet(rem, C) \in Int /\ SumFunctionOnSet(fl, C) \in Int
  BY <1>1, <1>2, <1>7, SumsInt
<1>14. total * T = T * SumFunctionOnSet(fl, C) + SumFunctionOnSet(rem, C)
  BY <1>3, <1>4, <1>5, <1>10
<1>15. left \in Int /\ T * left = SumFunctionOnSet(rem, C)
  <2>1. \A a, b, c \in Int : c * T = T * a + b => T * (c - a) = b
    BY <1>1
  <2> QED BY <1>1, <1>3, <1>13, <1>14, <2>1
<1>16. 0 <= T * left /\ T * left <= (T - 1) * n
  BY <1>1, <1>8, <1>9, <1>11, <1>12, <1>15
<1>17. \A t, m, l \in Int : t > 0 /\ 0 <= t * l => l >= 0
  OBVIOUS
<1>18. \A t, m, l \in Int : t > 0 /\ m >= 0 /\ t * l <= (t - 1) * m => l <= m
  <2> SUFFICES ASSUME NEW t \in Int, NEW m \in Int, NEW l \in Int, t > 0, m >= 0, l > m,
                      t * l <= (t - 1) * m
               PROVE  FALSE
    OBVIOUS
  <2>1. t * l > t * m
    OBVIOUS
  <2>2. (t - 1) * m = t * m - m
    OBVIOUS
  <2> QED BY <2>1, <2>2
<1> QED BY <1>1, <1>15, <1>16, <1>17, <1>18 DEF left, n, C

-----------------------------------------------------------------------------
(***************************************************************************)
(* The order of the claims is a strict total order, and as many of them    *)
(* are rounded up as there are units left over.                            *)
(***************************************************************************)
Before(total, w) ==
    {p \in Claimants(w) \X Claimants(w) : Precedes(total, w, p[1], p[2])}

RoundedUp(total, w) ==
    {i \in Claimants(w) : Rank(Before(total, w), Claimants(w), i) < Leftover(total, w)}

LEMMA ClaimOrder ==
    ASSUME NEW total, NEW w, Divisible(total, w)
    PROVE  LET C == Claimants(w)
               R == Before(total, w)
           IN  /\ \A i \in C : <<i, i>> \notin R
               /\ \A i, j \in C : i # j => <<i, j>> \in R \/ <<j, i>> \in R
               /\ \A i, j, l \in C : <<i, j>> \in R /\ <<j, l>> \in R => <<i, l>> \in R
<1> DEFINE C == Claimants(w)
           rem(i) == Remainder(total, w, i)
<1>1. \A i \in C : i \in Int /\ rem(i) \in Int
  BY ClaimantsFinite, TotalWeightPositive, FloorRemainder DEF Divisible
<1>2. \A i, j \in C : <<i, j>> \in Before(total, w) <=>
        IF rem(i) # rem(j) THEN rem(i) > rem(j) ELSE i < j
  BY DEF Before, Precedes
<1> HIDE DEF rem, C
<1>3. \A i \in C : <<i, i>> \notin Before(total, w)
  BY <1>1, <1>2
<1>4. \A i, j \in C : i # j => <<i, j>> \in Before(total, w) \/ <<j, i>> \in Before(total, w)
  BY <1>1, <1>2
<1>5. \A i, j, l \in C : <<i, j>> \in Before(total, w) /\ <<j, l>> \in Before(total, w)
        => <<i, l>> \in Before(total, w)
  BY <1>1, <1>2
<1> QED BY <1>3, <1>4, <1>5 DEF C

LEMMA RoundedUpCount ==
    ASSUME NEW total, NEW w, Divisible(total, w)
    PROVE  Cardinality(RoundedUp(total, w)) = Leftover(total, w)
<1> DEFINE C == Claimants(w)
           R == Before(total, w)
           k == Leftover(total, w)
<1>1. /\ \A i \in C : <<i, i>> \notin R
      /\ \A i, j \in C : i # j => <<i, j>> \in R \/ <<j, i>> \in R
      /\ \A i, j, l \in C : <<i, j>> \in R /\ <<j, l>> \in R => <<i, l>> \in R
  BY ClaimOrder
<1>2. IsFiniteSet(C) /\ k \in 0 .. Cardinality(C)
  BY ClaimantsFinite, LeftoverBounds
<1> HIDE DEF C, R, k
<1>3. Cardinality({i \in C : Rank(R, C, i) < k}) = k
  BY <1>1, <1>2, Ranking
<1> QED BY <1>3 DEF RoundedUp, C, R, k

(***************************************************************************)
(* Largest in those terms.                                                 *)
(***************************************************************************)
LEMMA LargestIs ==
    ASSUME NEW total, NEW w, Divisible(total, w)
    PROVE  Largest(total, w) =
             [i \in DOMAIN w |->
                IF i \notin Claimants(w) THEN 0
                ELSE Floor(total, w, i) + (IF i \in RoundedUp(total, w) THEN 1 ELSE 0)]
<1>1. ASSUME NEW i \in DOMAIN w PROVE i \notin Claimants(w) <=> w[i] <= 0
  BY DEF Claimants, Divisible
<1>2. ASSUME NEW i \in Claimants(w)
      PROVE  Cardinality({j \in Claimants(w) : Precedes(total, w, j, i)})
               = Rank(Before(total, w), Claimants(w), i)
  <2>1. {j \in Claimants(w) : Precedes(total, w, j, i)}
          = {j \in Claimants(w) : <<j, i>> \in Before(total, w)}
    BY DEF Before
  <2> QED BY <2>1 DEF Rank
<1>3. CASE total <= 0
  <2>1. total = 0 /\ Largest(total, w) = [i \in DOMAIN w |-> 0]
    BY <1>3 DEF Divisible, Largest
  <2>2. ASSUME NEW i \in Claimants(w) PROVE Floor(total, w, i) = 0
    <3>1. TotalWeight(w) \in Nat /\ TotalWeight(w) > 0 /\ w[i] \in Int
      BY TotalWeightPositive, ClaimantsFinite
    <3>2. total * w[i] = 0
      BY <2>1, <3>1
    <3> QED BY <3>1, <3>2 DEF Floor
  <2>3. Leftover(total, w) = 0
    <3> DEFINE C == Claimants(w)
               fl == Floors(total, w)
    <3>1. IsFiniteSet(C) /\ \A i \in C : fl[i] = 0
      BY <2>2, ClaimantsFinite DEF Floors
    <3>2. Cardinality(C) \in Nat
      BY ClaimantsFinite
    <3> HIDE DEF fl, C
    <3>3. SumFunctionOnSet(fl, C) = 0 * Cardinality(C)
      <4>1. 0 \in Int
        OBVIOUS
      <4> QED BY <3>1, <4>1, SumCount
    <3> QED BY <2>1, <3>2, <3>3, LeftoverSums DEF fl, C
  <2>4. RoundedUp(total, w) = {}
    <3> SUFFICES ASSUME NEW i \in Claimants(w), Rank(Before(total, w), Claimants(w), i) < 0
                 PROVE  FALSE
      BY <2>3 DEF RoundedUp
    <3>1. {j \in Claimants(w) : <<j, i>> \in Before(total, w)} \in SUBSET Claimants(w)
      OBVIOUS
    <3>2. Rank(Before(total, w), Claimants(w), i) \in Nat
      BY <3>1, ClaimantsFinite, FS_Subset, FS_CardinalityType DEF Rank
    <3> QED BY <3>2
  <2> QED BY <2>1, <2>2, <2>4
<1>4. CASE ~(total <= 0)
  <2>1. Largest(total, w) =
          [i \in DOMAIN w |->
             IF w[i] <= 0 THEN 0
             ELSE Floor(total, w, i)
                  + (IF Cardinality({j \in Claimants(w) : Precedes(total, w, j, i)})
                         < Leftover(total, w) THEN 1 ELSE 0)]
    BY <1>4 DEF Largest, Divisible
  <2>2. ASSUME NEW i \in DOMAIN w
        PROVE  (IF w[i] <= 0 THEN 0
                ELSE Floor(total, w, i)
                     + (IF Cardinality({j \in Claimants(w) : Precedes(total, w, j, i)})
                            < Leftover(total, w) THEN 1 ELSE 0))
                 = IF i \notin Claimants(w) THEN 0
                   ELSE Floor(total, w, i) + (IF i \in RoundedUp(total, w) THEN 1 ELSE 0)
    BY <1>1, <1>2 DEF RoundedUp
  <2> QED BY <2>1, <2>2
<1> QED BY <1>3, <1>4

(***************************************************************************)
(* Largest gives every claimant its exact share, rounded down or up, and   *)
(* nobody else anything.                                                   *)
(***************************************************************************)
THEOREM LargestIsProportional ==
    ASSUME NEW total, NEW w, Divisible(total, w)
    PROVE  /\ Largest(total, w) \in [DOMAIN w -> Nat]
           /\ \A i \in DOMAIN w \ Claimants(w) : Largest(total, w)[i] = 0
           /\ \A i \in Claimants(w) :
                Largest(total, w)[i] \in {Floor(total, w, i), Floor(total, w, i) + 1}
<1>1. \A i \in Claimants(w) : i \in DOMAIN w /\ Floor(total, w, i) \in Nat
  BY ClaimantsFinite, FloorRemainder
<1> QED BY <1>1, LargestIs

(***************************************************************************)
(* Largest loses and invents nothing: the shares of any total, by any      *)
(* weights, add up to the total.                                           *)
(***************************************************************************)
THEOREM LargestIsExact ==
    ASSUME NEW total, NEW w, Divisible(total, w)
    PROVE  SumFunction(Largest(total, w)) = total
<1> DEFINE D == DOMAIN w
           C == Claimants(w)
           L == Largest(total, w)
           fl == Floors(total, w)
           up == [i \in C |-> IF i \in RoundedUp(total, w) THEN 1 ELSE 0]
           U == RoundedUp(total, w)
           left == Leftover(total, w)
<1>1. /\ IsFiniteSet(D) /\ IsFiniteSet(C) /\ C \subseteq D /\ total \in Nat
      /\ U \subseteq C
  BY ClaimantsFinite DEF Divisible, RoundedUp
<1>2. \A i \in C : fl[i] \in Int /\ up[i] \in Int /\ L[i] = fl[i] + up[i]
  BY <1>1, LargestIs, FloorRemainder DEF Floors
<1>3. DOMAIN L = D /\ \A i \in D : L[i] \in Int /\ (i \notin C => L[i] = 0)
  BY LargestIsProportional
<1>4. Cardinality(U) = left /\ left = total - SumFunctionOnSet(fl, C) /\ left \in Int
  BY RoundedUpCount, LeftoverSums, LeftoverBounds
<1>5. \A i \in C : up[i] \in Int /\ (i \notin U => up[i] = 0)
  OBVIOUS
<1>6. \A i \in C \cap U : up[i] = 1
  OBVIOUS
<1> HIDE DEF D, C, L, fl, up, U, left
<1>7. SumFunctionOnSet(up, C) = SumFunctionOnSet(up, C \cap U)
  BY <1>1, <1>5, SumSupport
<1>8. IsFiniteSet(U) /\ C \cap U = U
  BY <1>1, FS_Subset
<1>9. SumFunctionOnSet(up, U) = 1 * Cardinality(U)
  BY <1>6, <1>8, SumCount
<1>10. SumFunctionOnSet(up, C) = left
  <2>1. SumFunctionOnSet(up, C) = SumFunctionOnSet(up, U)
    BY <1>7, <1>8, Zenon
  <2> QED BY <1>4, <1>9, <2>1
<1>11. SumFunctionOnSet(L, C) = SumFunctionOnSet(fl, C) + SumFunctionOnSet(up, C)
  BY <1>1, <1>2, SumAdd
<1>12. SumFunctionOnSet(L, D) = SumFunctionOnSet(L, D \cap C)
  BY <1>1, <1>3, SumSupport
<1>13. D \cap C = C
  BY <1>1
<1>14. SumFunctionOnSet(fl, C) \in Int
  BY <1>1, <1>2, SumsInt
<1>15. SumFunctionOnSet(L, D) = total
  <2>1. SumFunctionOnSet(L, D) = SumFunctionOnSet(L, C)
    BY <1>12, <1>13, Zenon
  <2> QED BY <1>1, <1>4, <1>10, <1>11, <1>14, <2>1
<1> QED BY <1>3, <1>15 DEF SumFunction, L

-----------------------------------------------------------------------------
(***************************************************************************)
(* A nonempty set of naturals has a least element.                         *)
(***************************************************************************)
LEMMA LeastNat ==
    ASSUME NEW S, S \subseteq Nat, S # {}
    PROVE  \E m \in S : \A n \in S : m <= n
<1>1. PICK m \in S : \A n \in S : <<n, m>> \notin OpToRel(<, Nat)
  BY NatLessThanWellFounded, WFMin, Zenon
<1>2. \A n \in S : ~(n < m)
  <2>. SUFFICES ASSUME NEW n \in S, n < m PROVE FALSE
    OBVIOUS
  <2>1. <<n, m>> \in OpToRel(<, Nat)
    BY DEF OpToRel
  <2>. QED BY <1>1, <2>1
<1>. QED BY <1>2

(***************************************************************************)
(* The remainders that are rounded up are the large ones: a threshold      *)
(* tells them from the others.                                             *)
(***************************************************************************)
LEMMA Threshold ==
    ASSUME NEW total, NEW w, Divisible(total, w)
    PROVE  \E t \in 0 .. TotalWeight(w) : \A i \in Claimants(w) :
             IF i \in RoundedUp(total, w) THEN Remainder(total, w, i) >= t
             ELSE Remainder(total, w, i) <= t
<1> DEFINE C == Claimants(w)
           U == RoundedUp(total, w)
           rem(i) == Remainder(total, w, i)
           R == Before(total, w)
           T == TotalWeight(w)
<1>1. T \in Nat /\ T > 0 /\ U \subseteq C /\ \A i \in C : rem(i) \in 0 .. T - 1
  BY TotalWeightPositive, FloorRemainder DEF RoundedUp
<1>2. ASSUME NEW i \in U, NEW j \in C \ U PROVE rem(j) <= rem(i)
  <2>0. i \in C /\ j \in C /\ i # j
    BY <1>1
  <2>1. Rank(R, C, i) < Leftover(total, w) /\ ~(Rank(R, C, j) < Leftover(total, w))
    BY DEF RoundedUp
  <2>2. IsFiniteSet(C) /\ Leftover(total, w) \in Int
    BY ClaimantsFinite, LeftoverBounds
  <2> DEFINE before(x) == {l \in C : <<l, x>> \in R}
  <2>3. IsFiniteSet(before(i)) /\ IsFiniteSet(before(j))
    BY <2>2, FS_Subset
  <2>4. Cardinality(before(i)) \in Nat /\ Cardinality(before(j)) \in Nat
    BY <2>3, FS_CardinalityType
  <2>5. Cardinality(before(i)) < Cardinality(before(j))
    BY <2>1, <2>2, <2>4 DEF Rank
  <2>6. <<j, i>> \notin R
    <3> SUFFICES ASSUME <<j, i>> \in R PROVE FALSE
      OBVIOUS
    <3>1. before(j) \in SUBSET before(i)
      BY <2>0, ClaimOrder
    <3>2. Cardinality(before(j)) <= Cardinality(before(i))
      <4> HIDE DEF before
      <4> QED BY <2>3, <3>1, FS_Subset
    <3> QED BY <2>4, <2>5, <3>2
  <2>7. Precedes(total, w, i, j)
    <3>1. <<i, j>> \in R
      BY <2>0, <2>6, ClaimOrder
    <3> QED BY <3>1 DEF Before
  <2>8. rem(i) # rem(j) => rem(i) > rem(j)
    BY <2>7 DEF Precedes
  <2> QED BY <1>1, <2>0, <2>8
<1>3. CASE U = {}
  <2>1. T \in 0 .. T /\ \A i \in C : i \notin U /\ rem(i) <= T
    BY <1>1, <1>3
  <2> QED BY <2>1
<1>4. CASE U # {}
  <2> DEFINE Rs == {rem(i) : i \in U}
  <2>1. Rs \subseteq Nat /\ Rs # {}
    BY <1>1, <1>4
  <2>2. PICK t \in Rs : \A r \in Rs : t <= r
    <3> HIDE DEF Rs
    <3> QED BY <2>1, LeastNat
  <2>3. PICK m \in U : t = rem(m)
    OBVIOUS
  <2>4. t \in 0 .. T /\ \A i \in U : rem(i) >= t
    BY <1>1, <2>2, <2>3
  <2>5. \A i \in C \ U : rem(i) <= t
    BY <1>2, <2>3
  <2> QED BY <2>4, <2>5
<1> QED BY <1>3, <1>4

(***************************************************************************)
(* One claimant, with u = 1 if it is rounded up: moving its share by any   *)
(* number of units, each at the price 2 * t - T, does not pay.             *)
(***************************************************************************)
Abs(n) == IF n < 0 THEN -n ELSE n

LEMMA NoBargain ==
    ASSUME NEW T \in Nat, NEW t \in 0 .. T, NEW r \in 0 .. T, NEW u \in {0, 1},
           u = 1 => r >= t, u = 0 => r <= t, NEW k \in Int
    PROVE  Abs(T * u - r) + (2 * t - T) * u <= Abs(T * k - r) + (2 * t - T) * k
<1>1. CASE k >= 1
  <2>1. T * k >= T
    BY <1>1
  <2>2. Abs(T * k - r) = T * k - r
    BY <2>1 DEF Abs
  <2>3. (2 * t - T) * k = 2 * (t * k) - T * k
    OBVIOUS
  <2>4. t * k >= t
    BY <1>1
  <2>5. CASE u = 0
    BY <2>2, <2>3, <2>4, <2>5 DEF Abs
  <2>6. CASE u = 1
    BY <2>2, <2>3, <2>4, <2>6 DEF Abs
  <2> QED BY <2>5, <2>6
<1>2. CASE k <= 0
  <2>1. T * k <= 0
    BY <1>2
  <2>2. Abs(T * k - r) = r - T * k
    BY <2>1 DEF Abs
  <2>3. (2 * t - T) * k = 2 * (t * k) - T * k
    OBVIOUS
  <2>4. t * k >= T * k
    BY <1>2
  <2>5. CASE u = 0
    BY <2>2, <2>3, <2>4, <2>5 DEF Abs
  <2>6. CASE u = 1
    BY <2>2, <2>3, <2>4, <2>6 DEF Abs
  <2> QED BY <2>5, <2>6
<1> QED BY <1>1, <1>2

(***************************************************************************)
(* No exact division is nearer to the proportional one than Largest, by    *)
(* the sum of the gaps: at a common price per unit every claimant's share  *)
(* is its best, and the price of all units is that of the total.           *)
(***************************************************************************)
Gaps(d, total, w) ==
    [i \in DOMAIN w |-> Abs(d[i] * TotalWeight(w) - total * w[i])]

THEOREM LargestIsNearest ==
    ASSUME NEW total, NEW w, Divisible(total, w), Claimants(w) = DOMAIN w,
           NEW d \in [DOMAIN w -> Int], SumFunction(d) = total
    PROVE  SumFunctionOnSet(Gaps(Largest(total, w), total, w), DOMAIN w)
             <= SumFunctionOnSet(Gaps(d, total, w), DOMAIN w)
<1> DEFINE D == DOMAIN w
           T == TotalWeight(w)
           L == Largest(total, w)
           fl(i) == Floor(total, w, i)
           rem(i) == Remainder(total, w, i)
           u(i) == IF i \in RoundedUp(total, w) THEN 1 ELSE 0
<1>1. /\ T \in Nat /\ T > 0 /\ IsFiniteSet(D) /\ total \in Nat
      /\ \A i \in D : w[i] \in Int /\ d[i] \in Int
  BY TotalWeightPositive DEF Divisible
<1>2. \A i \in D : /\ fl(i) \in Nat /\ rem(i) \in 0 .. T /\ total * w[i] = T * fl(i) + rem(i)
                  /\ L[i] = fl(i) + u(i) /\ L[i] \in Nat
  BY <1>1, FloorRemainder, LargestIs
<1>3. PICK t \in 0 .. T : \A i \in D : IF u(i) = 1 THEN rem(i) >= t ELSE rem(i) <= t
  BY Threshold
<1> DEFINE price == 2 * t - T
           gL == Gaps(L, total, w)
           gd == Gaps(d, total, w)
           pL == [i \in D |-> price * L[i]]
           pd == [i \in D |-> price * d[i]]
           sL == [i \in D |-> gL[i] + pL[i]]
           sd == [i \in D |-> gd[i] + pd[i]]
<1>4. price \in Int
  BY <1>1
<1>5. ASSUME NEW i \in D
      PROVE  /\ gL[i] \in Int /\ gd[i] \in Int
             /\ gL[i] + price * L[i] <= gd[i] + price * d[i]
  <2> DEFINE k == d[i] - fl(i)
  <2>1. k \in Int /\ u(i) \in {0, 1} /\ fl(i) \in Int /\ rem(i) \in Int /\ d[i] = fl(i) + k
    BY <1>1, <1>2
  <2>2. \A a \in Int : (fl(i) + a) * T - total * w[i] = T * a - rem(i)
    <3>1. \A a, f \in Int : (f + a) * T = T * f + T * a
      BY <1>1
    <3>2. \A a \in Int : (fl(i) + a) * T = T * fl(i) + T * a
      BY <2>1, <3>1
    <3>3. T * fl(i) \in Int /\ \A a \in Int : T * a \in Int
      BY <1>1, <2>1
    <3> HIDE DEF fl, rem, T
    <3> QED BY <1>2, <2>1, <3>2, <3>3
  <2>3. gd[i] = Abs(T * k - rem(i)) /\ gL[i] = Abs(T * u(i) - rem(i))
    <3> HIDE DEF fl, rem, T, k, u, L
    <3>1. d[i] * T - total * w[i] = T * k - rem(i)
      BY <2>1, <2>2
    <3>2. L[i] * T - total * w[i] = T * u(i) - rem(i)
      BY <1>2, <2>1, <2>2
    <3> QED BY <3>1, <3>2 DEF Gaps, T
  <2>4. Abs(T * u(i) - rem(i)) + price * u(i) <= Abs(T * k - rem(i)) + price * k
    <3>1. /\ T \in Nat /\ rem(i) \in 0 .. T /\ u(i) \in {0, 1} /\ k \in Int
          /\ u(i) = 1 => rem(i) >= t
          /\ u(i) = 0 => rem(i) <= t
      BY <1>1, <1>2, <1>3, <2>1
    <3> HIDE DEF fl, rem, T, k, u
    <3> QED BY <3>1, NoBargain
  <2>5. price * L[i] = price * fl(i) + price * u(i) /\ price * d[i] = price * fl(i) + price * k
    <3>1. \A a, b \in Int : price * (a + b) = price * a + price * b
      BY <1>4
    <3> HIDE DEF fl, rem, T, k, u, L, price
    <3> QED BY <1>2, <2>1, <3>1
  <2>6. gL[i] \in Int /\ gd[i] \in Int
    <3>1. T * k - rem(i) \in Int /\ T * u(i) - rem(i) \in Int
      BY <1>1, <2>1
    <3> HIDE DEF fl, rem, T, k, u, L, gL, gd
    <3> QED BY <2>3, <3>1 DEF Abs
  <2>7. price * fl(i) \in Int /\ price * u(i) \in Int /\ price * k \in Int
    BY <1>4, <2>1
  <2> HIDE DEF fl, rem, T, k, u, L, gL, gd, price
  <2> QED BY <2>3, <2>4, <2>5, <2>6, <2>7
<1>6. \A i \in D : L[i] \in Int /\ pL[i] \in Int /\ pd[i] \in Int
  BY <1>1, <1>2, <1>4
<1> HIDE DEF fl, rem, T, u, L, gL, gd, price, D
<1>7. SumFunctionOnSet(pL, D) = price * SumFunctionOnSet(L, D)
  BY <1>1, <1>4, <1>6, SumScale
<1>8. SumFunctionOnSet(pd, D) = price * SumFunctionOnSet(d, D)
  BY <1>1, <1>4, SumScale
<1>9. \A i \in D : /\ sL[i] = gL[i] + pL[i] /\ sd[i] = gd[i] + pd[i]
                  /\ sL[i] \in Int /\ sd[i] \in Int /\ sL[i] <= sd[i]
  BY <1>5, <1>6
<1> HIDE DEF pL, pd, sL, sd
<1>10. SumFunctionOnSet(sL, D) = SumFunctionOnSet(gL, D) + SumFunctionOnSet(pL, D)
  BY <1>1, <1>5, <1>6, <1>9, SumAdd
<1>11. SumFunctionOnSet(sd, D) = SumFunctionOnSet(gd, D) + SumFunctionOnSet(pd, D)
  BY <1>1, <1>5, <1>6, <1>9, SumAdd
<1>12. SumFunctionOnSet(sL, D) <= SumFunctionOnSet(sd, D)
  BY <1>1, <1>9, SumMonotone
<1>13. SumFunctionOnSet(L, D) = SumFunctionOnSet(d, D)
  <2>1. DOMAIN L = D /\ DOMAIN d = D
    BY LargestIsProportional DEF L, D
  <2> QED BY <2>1, LargestIsExact DEF SumFunction, L
<1>14. /\ SumFunctionOnSet(gL, D) \in Int /\ SumFunctionOnSet(gd, D) \in Int
       /\ SumFunctionOnSet(pd, D) \in Int
  BY <1>1, <1>5, <1>6, SumsInt
<1>15. SumFunctionOnSet(pL, D) = SumFunctionOnSet(pd, D)
  BY <1>7, <1>8, <1>13
<1>16. SumFunctionOnSet(gL, D) <= SumFunctionOnSet(gd, D)
  BY <1>10, <1>11, <1>12, <1>14, <1>15
<1> QED BY <1>16 DEF gL, gd, D, L
=============================================================================
