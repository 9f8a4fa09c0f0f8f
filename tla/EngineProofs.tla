---------------------------- MODULE EngineProofs ----------------------------
(***************************************************************************)
(* What holds of one node's engine for every profile, every quota, every   *)
(* mix of scenarios and every bound on time and on virtual users.          *)
(***************************************************************************)
EXTENDS Engine, ApportionProofs

-----------------------------------------------------------------------------
(***************************************************************************)
(* Extrema of finite sets.                                                 *)
(***************************************************************************)
LEMMA MaxIs ==
    ASSUME NEW S, IsFiniteSet(S), S \subseteq Int, S # {}
    PROVE  Max(S) \in S /\ \A x \in S : x <= Max(S)
<1> DEFINE Good == {T \in SUBSET S : T # {} => \E m \in T : \A x \in T : m >= x}
<1>1. {} \in Good
  OBVIOUS
<1>2. ASSUME NEW T \in SUBSET S, NEW x \in S, x \in T, T \ {x} \in Good PROVE T \in Good
  <2>1. CASE T \ {x} = {}
    <3>1. x >= x /\ \A y \in T : y = x
      BY <2>1
    <3> QED BY <1>2, <3>1
  <2>2. CASE T \ {x} # {}
    <3>1. PICK m \in T \ {x} : \A y \in T \ {x} : m >= y
      BY <1>2, <2>2
    <3>2. CASE m >= x
      BY <3>1, <3>2
    <3>3. CASE ~(m >= x)
      <4>1. \A y \in T : x >= y
        BY <3>1, <3>3
      <4> QED BY <1>2, <4>1
    <3> QED BY <3>2, <3>3
  <2> QED BY <2>1, <2>2
<1> HIDE DEF Good
<1>3. S \in Good
  BY <1>1, <1>2, ElementInduction
<1>4. \E m \in S : \A x \in S : m >= x
  BY <1>3 DEF Good
<1>5. Max(S) \in S /\ \A x \in S : Max(S) >= x
  BY <1>4 DEF Max
<1> QED BY <1>5

LEMMA MinIs ==
    ASSUME NEW S, S \subseteq Nat, S # {}
    PROVE  Min(S) \in S /\ \A x \in S : Min(S) <= x
  BY LeastNat DEF Min

(***************************************************************************)
(* The elements of a sequence, and the image of a finite set.              *)
(***************************************************************************)
LEMMA SeqElements ==
    ASSUME NEW R, NEW s \in Seq(R)
    PROVE  Len(s) \in Nat /\ DOMAIN s = 1 .. Len(s) /\ \A i \in 1 .. Len(s) : s[i] \in R
  OBVIOUS

LEMMA SeqOf ==
    ASSUME NEW R, NEW n \in Nat, NEW s \in [1 .. n -> R]
    PROVE  s \in Seq(R) /\ Len(s) = n
  OBVIOUS

LEMMA ImageFinite ==
    ASSUME NEW f, IsFiniteSet(DOMAIN f)
    PROVE  IsFiniteSet(Range(f)) /\ Cardinality(Range(f)) <= Cardinality(DOMAIN f)
<1> DEFINE g == [x \in DOMAIN f |-> f[x]]
<1>1. g \in Surjection(DOMAIN f, Range(f))
  BY DEF Surjection, Range
<1> QED BY <1>1, FS_Surjection

(***************************************************************************)
(* Sums of the first i values of f, which is how the legs of a ramp and    *)
(* the ids of new virtual users are laid end to end: every number up to    *)
(* the whole sum falls to one of the values.                               *)
(***************************************************************************)
LEMMA PrefixSums ==
    ASSUME NEW n \in Nat, NEW f, \A i \in 1 .. n : f[i] \in Int
    PROVE  /\ SumFunctionOnSet(f, 1 .. 0) = 0
           /\ \A i \in 1 .. n :
                /\ SumFunctionOnSet(f, 1 .. i) \in Int
                /\ SumFunctionOnSet(f, 1 .. i - 1) \in Int
                /\ SumFunctionOnSet(f, 1 .. i) = f[i] + SumFunctionOnSet(f, 1 .. i - 1)
<1>1. SumFunctionOnSet(f, 1 .. 0) = 0
  <2>1. 1 .. 0 = {}
    OBVIOUS
  <2> QED BY <2>1, SumEmpty, Zenon
<1>2. ASSUME NEW i \in 1 .. n
      PROVE  /\ SumFunctionOnSet(f, 1 .. i) \in Int
             /\ SumFunctionOnSet(f, 1 .. i - 1) \in Int
             /\ SumFunctionOnSet(f, 1 .. i) = f[i] + SumFunctionOnSet(f, 1 .. i - 1)
  <2> DEFINE S == 1 .. i
             T == 1 .. i - 1
  <2>1. IsFiniteSet(S)
    BY FS_Interval
  <2>2. i \in S /\ S \ {i} = T /\ T \in SUBSET S /\ S \in SUBSET S
    OBVIOUS
  <2>3. \A x \in S : f[x] \in Int
    OBVIOUS
  <2> HIDE DEF S, T
  <2>4. SumFunctionOnSet(f, S) = f[i] + SumFunctionOnSet(f, S \ {i})
    BY <2>1, <2>2, <2>3, SumRemove
  <2>5. SumFunctionOnSet(f, S) \in Int /\ SumFunctionOnSet(f, T) \in Int
    BY <2>1, <2>2, <2>3, SumsInt
  <2>6. SumFunctionOnSet(f, S) = f[i] + SumFunctionOnSet(f, T)
    BY <2>2, <2>4, Zenon
  <2> QED BY <2>5, <2>6 DEF S, T
<1> QED BY <1>1, <1>2

LEMMA PartialSum ==
    ASSUME NEW S, IsFiniteSet(S), NEW f, \A x \in S : f[x] \in Nat, NEW T \in SUBSET S
    PROVE  SumFunctionOnSet(f, T) \in Nat /\ SumFunctionOnSet(f, T) <= SumFunctionOnSet(f, S)
<1> DEFINE zero == [x \in S |-> 0]
           part == [x \in S |-> IF x \in T THEN f[x] ELSE 0]
<1>1. /\ \A x \in S : part[x] \in Int /\ f[x] \in Int /\ part[x] <= f[x]
      /\ \A x \in S : part[x] \in Int /\ (x \notin T => part[x] = 0)
      /\ \A x \in T : part[x] \in Int /\ part[x] = f[x]
      /\ \A x \in T : zero[x] \in Int /\ f[x] \in Int /\ zero[x] <= f[x]
  OBVIOUS
<1>2. IsFiniteSet(T) /\ S \cap T = T /\ Cardinality(T) \in Nat
  BY FS_Subset, FS_CardinalityType
<1>3. SumFunctionOnSet(zero, T) = 0 * Cardinality(T)
  BY <1>2, SumCount
<1> HIDE DEF zero, part
<1>4. SumFunctionOnSet(part, S) <= SumFunctionOnSet(f, S)
  BY <1>1, SumMonotone
<1>5. SumFunctionOnSet(part, S) = SumFunctionOnSet(part, S \cap T)
  BY <1>1, SumSupport, Zenon
<1>6. SumFunctionOnSet(part, T) = SumFunctionOnSet(f, T)
  BY <1>1, <1>2, SumSame
<1>7. SumFunctionOnSet(zero, T) <= SumFunctionOnSet(f, T)
  BY <1>1, <1>2, SumMonotone
<1>8. SumFunctionOnSet(f, T) \in Int
  BY <1>1, SumsInt
<1>9. SumFunctionOnSet(part, S) = SumFunctionOnSet(f, T)
  BY <1>2, <1>5, <1>6, Zenon
<1> QED BY <1>2, <1>3, <1>4, <1>7, <1>8, <1>9

LEMMA PrefixCover ==
    ASSUME NEW n \in Nat, NEW f, \A i \in 1 .. n : f[i] \in Nat,
           NEW x \in 1 .. SumFunctionOnSet(f, 1 .. n)
    PROVE  \E i \in 1 .. n : /\ SumFunctionOnSet(f, 1 .. i - 1) < x
                             /\ x <= SumFunctionOnSet(f, 1 .. i)
<1> DEFINE J == {i \in 0 .. n : x <= SumFunctionOnSet(f, 1 .. i)}
<1>1. SumFunctionOnSet(f, 1 .. n) \in Int
  <2>1. IsFiniteSet(1 .. n)
    BY FS_Interval
  <2> QED BY <2>1, PartialSum
<1>2. J \subseteq Nat /\ n \in J
  BY <1>1
<1>3. PICK i \in J : \A j \in J : i <= j
  BY <1>2, LeastNat
<1>4. \A k \in 1 .. n : SumFunctionOnSet(f, 1 .. k - 1) \in Int
  BY PrefixSums
<1>5. i # 0
  <2> SUFFICES ASSUME i = 0 PROVE FALSE
    OBVIOUS
  <2>1. SumFunctionOnSet(f, 1 .. 0) = 0
    BY PrefixSums
  <2> QED BY <1>1, <1>3, <2>1
<1>6. i \in 1 .. n /\ i - 1 \in 0 .. n /\ i - 1 \notin J
  BY <1>3, <1>5
<1> QED BY <1>1, <1>3, <1>4, <1>6

-----------------------------------------------------------------------------
(***************************************************************************)
(* Rounding a quotient stays between two integers the quotient is between, *)
(* and so does a straight line between two of them.                        *)
(***************************************************************************)
LEMMA RoundedBetween ==
    ASSUME NEW a \in Int, NEW b \in Int, NEW n \in Int, NEW d \in Nat \ {0},
           a * d <= n, n <= b * d
    PROVE  RoundedQuotient(n, d) \in a .. b
<1> DEFINE q == (2 * n + d) \div (2 * d)
<1>1. 2 * n + d \in Int /\ 2 * d \in Nat \ {0}
  OBVIOUS
<1>2. /\ q \in Int
      /\ (2 * d) * q <= 2 * n + d
      /\ 2 * n + d < (2 * d) * q + 2 * d
  <2>1. \A x \in Int, y \in Nat \ {0} :
           x \div y \in Int /\ y * (x \div y) <= x /\ x < y * (x \div y) + y
    OBVIOUS
  <2> QED BY <1>1, <2>1
<1> HIDE DEF q
<1>3. (2 * d) * q = 2 * (d * q) /\ d * q \in Int /\ a * d = d * a /\ b * d = d * b
  BY <1>2
<1>4. d * q <= n + d /\ n < d * q + d /\ 2 * (d * q) <= 2 * n + d /\ 2 * n < 2 * (d * q) + d
  BY <1>2, <1>3
<1>5. a <= q
  <2> SUFFICES ASSUME q + 1 <= a PROVE FALSE
    BY <1>2
  <2>1. d * (q + 1) <= d * a
    BY <1>2
  <2>2. d * (q + 1) = d * q + d
    BY <1>2
  <2> QED BY <1>3, <1>4, <2>1, <2>2
<1>6. q <= b
  <2> SUFFICES ASSUME b + 1 <= q PROVE FALSE
    BY <1>2
  <2>1. d * (b + 1) <= d * q
    BY <1>2
  <2>2. d * (b + 1) = d * b + d
    BY <1>2
  <2> QED BY <1>3, <1>4, <2>1, <2>2
<1> QED BY <1>2, <1>5, <1>6 DEF RoundedQuotient, q

LEMMA InterpolatedBetween ==
    ASSUME NEW lo \in Int, NEW hi \in Int, NEW from \in lo .. hi, NEW to \in lo .. hi,
           NEW span \in Nat \ {0}, NEW offset \in 0 .. span
    PROVE  Interpolated(from, to, offset, span) \in lo .. hi
<1> DEFINE n == from * span + offset * (to - from)
           rest == span - offset
<1>1. rest \in Nat /\ offset \in Nat /\ span = rest + offset
  OBVIOUS
<1>2. n = from * rest + to * offset
  <2>1. \A f, t, o, r \in Int : f * (r + o) + o * (t - f) = f * r + t * o
    OBVIOUS
  <2>2. n = from * (rest + offset) + offset * (to - from)
    BY <1>1
  <2> HIDE DEF rest
  <2> QED BY <1>1, <2>1, <2>2
<1> HIDE DEF n, rest
<1>3. lo * rest <= from * rest /\ lo * offset <= to * offset
  BY <1>1
<1>4. from * rest <= hi * rest /\ to * offset <= hi * offset
  BY <1>1
<1>5. lo * span = lo * rest + lo * offset /\ hi * span = hi * rest + hi * offset
  <2>1. \A x, r, o \in Int : x * (r + o) = x * r + x * o
    OBVIOUS
  <2> QED BY <1>1, <2>1
<1>6. n \in Int /\ lo * span <= n /\ n <= hi * span
  <2>1. /\ from * rest \in Int /\ to * offset \in Int /\ lo * rest \in Int
        /\ lo * offset \in Int /\ hi * rest \in Int /\ hi * offset \in Int
    BY <1>1
  <2> QED BY <1>2, <1>3, <1>4, <1>5, <2>1
<1>7. RoundedQuotient(n, span) \in lo .. hi
  BY <1>6, RoundedBetween
<1> QED BY <1>7 DEF Interpolated, n

-----------------------------------------------------------------------------
(***************************************************************************)
(* The legs of a ramp: every one ends after the one before it, the last    *)
(* one at the end of the profile, and the targets are at most the peak.    *)
(***************************************************************************)
Ends(stages, i) == SumFunctionOnSet(Durations(stages), 1 .. i)

LEMMA EndsRise ==
    ASSUME NEW stages \in Seq([duration : Int, target : Nat]),
           \A i \in DOMAIN stages : stages[i].duration > 0
    PROVE  /\ Ends(stages, 0) = 0
           /\ \A i \in DOMAIN stages : /\ Ends(stages, i) \in Int
                                       /\ Ends(stages, i - 1) \in Int
                                       /\ Ends(stages, i - 1) < Ends(stages, i)
<1> DEFINE f == Durations(stages)
<1>1. \A i \in DOMAIN stages : f[i] \in Int /\ f[i] > 0
  <2>1. \A i \in DOMAIN stages : stages[i] \in [duration : Int, target : Nat]
    BY SeqElements
  <2>2. \A i \in DOMAIN stages : stages[i].duration \in Int
    BY <2>1
  <2> QED BY <2>2 DEF Durations, f
<1> HIDE DEF f
<1>2. DOMAIN stages = 1 .. Len(stages) /\ Len(stages) \in Nat
  BY SeqElements
<1>3. /\ SumFunctionOnSet(f, 1 .. 0) = 0
      /\ \A i \in 1 .. Len(stages) :
           /\ SumFunctionOnSet(f, 1 .. i) \in Int
           /\ SumFunctionOnSet(f, 1 .. i - 1) \in Int
           /\ SumFunctionOnSet(f, 1 .. i) = f[i] + SumFunctionOnSet(f, 1 .. i - 1)
  BY <1>1, <1>2, PrefixSums
<1>4. \A i \in 1 .. Len(stages) : SumFunctionOnSet(f, 1 .. i - 1) < SumFunctionOnSet(f, 1 .. i)
  <2> SUFFICES ASSUME NEW i \in 1 .. Len(stages)
               PROVE  SumFunctionOnSet(f, 1 .. i - 1) < SumFunctionOnSet(f, 1 .. i)
    OBVIOUS
  <2> DEFINE below == SumFunctionOnSet(f, 1 .. i - 1)
             upto == SumFunctionOnSet(f, 1 .. i)
  <2>1. below \in Int /\ upto \in Int /\ upto = f[i] + below /\ f[i] \in Int /\ f[i] > 0
    BY <1>1, <1>2, <1>3
  <2> HIDE DEF below, upto
  <2>2. below < upto
    BY <2>1
  <2> QED BY <2>2 DEF below, upto
<1> QED BY <1>2, <1>3, <1>4 DEF Ends, f

(***************************************************************************)
(* The peak of a ramp is the highest of its targets.                       *)
(***************************************************************************)
LEMMA RampPeak ==
    ASSUME NEW p, ProfileTyped(p), RampingAccepted(p), p.executor = "ramping-vus"
    PROVE  LET st == p.stages
               e == NewExecutor(p)
           IN  /\ Len(st) \in Nat \ {0} /\ DOMAIN st = 1 .. Len(st)
               /\ DOMAIN e.legs = 1 .. Len(st)
               /\ \A i \in 1 .. Len(st) : /\ e.legs[i].end = Ends(st, i)
                                         /\ e.legs[i].target = st[i].target
               /\ e.duration = Ends(st, Len(st))
               /\ e.peak \in Nat \ {0}
               /\ \A i \in 1 .. Len(st) : st[i].target \in 0 .. e.peak
<1> DEFINE st == p.stages
           n == Len(st)
           legs == Legs(st)
           targets == [i \in 1 .. n |-> st[i].target]
           S == {legs[i].target : i \in DOMAIN legs}
<1>1. /\ n \in Nat \ {0} /\ DOMAIN st = 1 .. n
      /\ \A i \in 1 .. n : st[i] \in [duration : Int, target : Nat]
  <2>1. st \in Seq([duration : Int, target : Nat]) /\ st # <<>>
    BY DEF ProfileTyped, RampingAccepted
  <2> HIDE DEF st
  <2>2. /\ n \in Nat /\ DOMAIN st = 1 .. n
        /\ \A i \in 1 .. n : st[i] \in [duration : Int, target : Nat]
    BY <2>1, SeqElements
  <2>3. n # 0
    BY <2>1
  <2> QED BY <2>2, <2>3
<1>2. \A i \in 1 .. n : targets[i] \in Nat
  <2>1. \A i \in 1 .. n : st[i].target \in Nat
    BY <1>1
  <2> QED BY <2>1
<1>3. /\ DOMAIN legs = 1 .. n
      /\ \A i \in 1 .. n : legs[i].end = Ends(st, i) /\ legs[i].target = st[i].target
  BY <1>1 DEF Legs, Ends
<1>4. S = Range(targets)
  <2> HIDE DEF legs
  <2> QED BY <1>3 DEF Range
<1>5. IsFiniteSet(S) /\ S \subseteq Nat /\ S # {}
  <2>1. IsFiniteSet(1 .. n) /\ DOMAIN targets = 1 .. n
    BY <1>1, FS_Interval
  <2>2. 1 \in 1 .. n
    BY <1>1
  <2> HIDE DEF targets, S
  <2>3. IsFiniteSet(Range(targets))
    BY <2>1, ImageFinite
  <2> QED BY <1>2, <1>4, <2>1, <2>2, <2>3 DEF Range
<1>6. \A i \in 1 .. n : st[i].target \in S
  <2> HIDE DEF legs
  <2> QED BY <1>3
<1>7. NewExecutor(p) = [legs |-> legs, vus |-> 0, duration |-> legs[Len(legs)].end,
                        peak |-> Max(S)]
  BY DEF NewExecutor
<1>8. Len(legs) = n
  BY <1>1 DEF Legs
<1> HIDE DEF S, legs, targets
<1>9. Max(S) \in Nat /\ \A x \in S : x <= Max(S)
  <2>1. S \subseteq Int
    BY <1>5
  <2> QED BY <1>5, <2>1, MaxIs
<1>10. PICK k \in 1 .. n : st[k].target > 0
  BY <1>1 DEF RampingAccepted
<1>11. Max(S) \in Nat \ {0} /\ \A i \in 1 .. n : st[i].target \in 0 .. Max(S)
  <2>1. \A i \in 1 .. n : st[i].target \in Nat /\ st[i].target <= Max(S)
    BY <1>5, <1>6, <1>9
  <2> QED BY <1>9, <1>10, <2>1
<1>12. legs[Len(legs)].end = Ends(st, n)
  BY <1>1, <1>3, <1>8
<1> HIDE DEF n
<1> QED BY <1>1, <1>3, <1>7, <1>11, <1>12 DEF n

(***************************************************************************)
(* TargetAt of either executor asks for a whole number of virtual users,   *)
(* never more than the profile's peak, which is above zero.                *)
(***************************************************************************)
LEMMA PeakPositive ==
    ASSUME NEW p, ProfileTyped(p), ProfileAccepted(p)
    PROVE  NewExecutor(p).peak \in Nat \ {0}
<1>1. CASE p.executor = "ramping-vus"
  <2>1. RampingAccepted(p)
    BY <1>1 DEF ProfileAccepted
  <2> QED BY <1>1, <2>1, RampPeak
<1>2. CASE p.executor # "ramping-vus"
  <2>1. ConstantAccepted(p)
    BY <1>2 DEF ProfileAccepted
  <2> QED BY <1>2, <2>1 DEF NewExecutor, ConstantAccepted, ProfileTyped
<1> QED BY <1>1, <1>2

LEMMA RampingWithinPeak ==
    ASSUME NEW p, ProfileTyped(p), RampingAccepted(p), p.executor = "ramping-vus",
           ProfileAccepted(p), NEW t \in Int
    PROVE  RampingTarget(NewExecutor(p), t) \in 0 .. NewExecutor(p).peak
<1> DEFINE e == NewExecutor(p)
           st == p.stages
           n == Len(st)
           peak == e.peak
<1>1. /\ n \in Nat \ {0} /\ DOMAIN st = 1 .. n /\ DOMAIN e.legs = 1 .. n
      /\ e.duration = Ends(st, n) /\ peak \in Nat
  BY RampPeak
<1>2. \A i \in 1 .. n : /\ e.legs[i].end = Ends(st, i) /\ e.legs[i].target = st[i].target
                        /\ st[i].target \in 0 .. peak
  BY RampPeak
<1>3. /\ Ends(st, 0) = 0
      /\ \A i \in 1 .. n : /\ Ends(st, i) \in Int /\ Ends(st, i - 1) \in Int
                           /\ Ends(st, i - 1) < Ends(st, i)
  <2>1. /\ st \in Seq([duration : Int, target : Nat])
        /\ \A i \in DOMAIN st : st[i].duration > 0
    BY DEF ProfileTyped, RampingAccepted
  <2> QED BY <1>1, <2>1, EndsRise
<1>4. CASE t < 0 \/ t >= e.duration
  BY <1>1, <1>4 DEF RampingTarget
<1>5. CASE ~(t < 0 \/ t >= e.duration)
  <2> DEFINE J == {j \in DOMAIN e.legs : t < e.legs[j].end}
             i == Min(J)
             start == IF i = 1 THEN 0 ELSE e.legs[i - 1].end
             from == IF i = 1 THEN 0 ELSE e.legs[i - 1].target
  <2>1. J \subseteq Nat /\ n \in J
    <3> HIDE DEF e
    <3>1. n \in 1 .. n
      BY <1>1
    <3>2. t < Ends(st, n)
      BY <1>1, <1>3, <1>5, <3>1, SMTT(30)
    <3>3. e.legs[n].end = Ends(st, n)
      BY <1>2, <3>1
    <3> QED BY <1>1, <1>2, <3>1, <3>2, <3>3
  <2>2. i \in J /\ \A j \in J : i <= j
    BY <2>1, MinIs
  <2>3. i \in 1 .. n /\ t < Ends(st, i)
    <3> HIDE DEF i, e
    <3>1. i \in 1 .. n /\ t < e.legs[i].end
      BY <1>1, <2>2
    <3> QED BY <1>2, <3>1
  <2> HIDE DEF i, e
  <2>4. start = Ends(st, i - 1) /\ start <= t
    <3>1. CASE i = 1
      <4>1. 0 \in Int /\ t >= 0
        BY <1>1, <1>3, <1>5
      <4> QED BY <1>3, <3>1, <4>1
    <3>2. CASE i # 1
      <4>1. i - 1 \in 1 .. n /\ i - 1 \notin J
        BY <2>2, <2>3, <3>2
      <4>2. e.legs[i - 1].end = Ends(st, i - 1) /\ Ends(st, i - 1) \in Int
        BY <1>2, <1>3, <4>1
      <4>3. ~(t < e.legs[i - 1].end)
        BY <1>1, <4>1
      <4>4. start = e.legs[i - 1].end
        BY <3>2
      <4> HIDE DEF start
      <4> QED BY <4>2, <4>3, <4>4
    <3> QED BY <3>1, <3>2
  <2>5. from \in 0 .. peak /\ e.legs[i].target \in 0 .. peak
    <3>1. i # 1 => i - 1 \in 1 .. n
      BY <2>3
    <3>2. 0 \in 0 .. peak
      BY <1>1
    <3> QED BY <1>1, <1>2, <2>3, <3>1, <3>2
  <2> DEFINE span == e.legs[i].end - start
             to == e.legs[i].target
             offset == t - start
  <2>6. span \in Nat \ {0} /\ offset \in 0 .. span
    <3>1. e.legs[i].end = Ends(st, i)
      BY <1>2, <2>3
    <3>2. Ends(st, i) \in Int /\ Ends(st, i - 1) \in Int
      BY <1>3, <2>3
    <3> HIDE DEF start
    <3> QED BY <2>3, <2>4, <3>1, <3>2
  <2> HIDE DEF start, from, peak, span, to, offset
  <2>7. Interpolated(from, to, offset, span) \in 0 .. peak
    <3>1. 0 \in Int /\ peak \in Int /\ from \in 0 .. peak /\ to \in 0 .. peak
      BY <1>1, <2>5 DEF to
    <3> QED BY <2>6, <3>1, InterpolatedBetween
  <2>8. RampingTarget(e, t) = Interpolated(from, to, offset, span)
    BY <1>5 DEF RampingTarget, i, start, from, span, to, offset
  <2> QED BY <2>7, <2>8 DEF e, peak
<1> QED BY <1>4, <1>5

LEMMA InnerWithinPeak ==
    ASSUME NEW p, ProfileTyped(p), ProfileAccepted(p), NEW t \in Int
    PROVE  InnerTarget(NewExecutor(p), t) \in 0 .. NewExecutor(p).peak
<1>1. CASE p.executor = "ramping-vus"
  <2>1. RampingAccepted(p)
    BY <1>1 DEF ProfileAccepted
  <2>2. NewExecutor(p).legs # <<>>
    <3>1. Len(p.stages) \in Nat \ {0} /\ DOMAIN p.stages = 1 .. Len(p.stages)
      BY <2>1 DEF RampingAccepted, ProfileTyped
    <3>2. NewExecutor(p).legs = Legs(p.stages) /\ DOMAIN Legs(p.stages) = DOMAIN p.stages
      BY <1>1 DEF NewExecutor, Legs
    <3>3. DOMAIN <<>> = {} /\ 1 \in DOMAIN Legs(p.stages)
      BY <3>1, <3>2
    <3> QED BY <3>2, <3>3
  <2> QED BY <1>1, <2>1, <2>2, RampingWithinPeak DEF InnerTarget
<1>2. CASE p.executor # "ramping-vus"
  <2>1. NewExecutor(p) = [legs |-> <<>>, vus |-> p.vus, duration |-> p.duration, peak |-> p.vus]
    BY <1>2 DEF NewExecutor
  <2> QED BY <2>1 DEF InnerTarget, ConstantTarget, ProfileTyped
<1> QED BY <1>1, <1>2

(***************************************************************************)
(* A scaled executor as NewScaled and Rescale leave it: quotas from zero   *)
(* to top, and a curve of an accepted profile.                             *)
(***************************************************************************)
Scaled(p, top) ==
    [inner : {NewExecutor(p)}, from : 0 .. top, to : 0 .. top, rampFrom : Int, rampTo : Int]

LEMMA QuotaWithinTop ==
    ASSUME NEW p, NEW top \in Nat, NEW s \in Scaled(p, top), NEW t \in Int
    PROVE  QuotaAt(s, t) \in 0 .. top
<1>1. /\ s.from \in 0 .. top /\ s.to \in 0 .. top
      /\ s.rampFrom \in Int /\ s.rampTo \in Int
  BY DEF Scaled
<1>2. CASE s.rampTo <= s.rampFrom \/ t >= s.rampTo
  BY <1>1, <1>2 DEF QuotaAt
<1>3. CASE ~(s.rampTo <= s.rampFrom \/ t >= s.rampTo) /\ t <= s.rampFrom
  BY <1>1, <1>3 DEF QuotaAt
<1>4. CASE ~(s.rampTo <= s.rampFrom \/ t >= s.rampTo) /\ ~(t <= s.rampFrom)
  <2>1. /\ s.rampTo - s.rampFrom \in Nat \ {0}
        /\ t - s.rampFrom \in 0 .. s.rampTo - s.rampFrom
    BY <1>1, <1>4
  <2> DEFINE span == s.rampTo - s.rampFrom
             offset == t - s.rampFrom
  <2>2. 0 \in Int /\ top \in Int /\ span \in Nat \ {0} /\ offset \in 0 .. span
    BY <2>1
  <2> HIDE DEF span, offset
  <2>3. Interpolated(s.from, s.to, offset, span) \in 0 .. top
    BY <1>1, <2>2, InterpolatedBetween
  <2> QED BY <1>4, <2>3 DEF QuotaAt, span, offset
<1> QED BY <1>2, <1>3, <1>4

(***************************************************************************)
(* A node's share of the curve never exceeds the quota the node has at     *)
(* that moment, rounding and the floor of one virtual user included.       *)
(***************************************************************************)
THEOREM TargetWithinQuota ==
    ASSUME NEW p, ProfileTyped(p), ProfileAccepted(p),
           NEW top \in Nat, NEW s \in Scaled(p, top), NEW t \in Int
    PROVE  TargetAt(s, t) \in 0 .. QuotaAt(s, t)
<1> DEFINE quota == QuotaAt(s, t)
           global == InnerTarget(s.inner, t)
           peak == s.inner.peak
           share == RoundedQuotient(quota * global, peak)
<1>1. quota \in Nat
  BY QuotaWithinTop
<1>2. peak \in Nat \ {0} /\ global \in 0 .. peak
  <2>1. s.inner = NewExecutor(p)
    BY DEF Scaled
  <2> QED BY <2>1, PeakPositive, InnerWithinPeak
<1> HIDE DEF quota, global, peak
<1>3. share \in 0 .. quota
  <2>1. quota * global \in Int /\ 0 * peak <= quota * global /\ quota * global <= quota * peak
    BY <1>1, <1>2
  <2> QED BY <1>1, <1>2, <2>1, RoundedBetween
<1> HIDE DEF share
<1>4. TargetAt(s, t) = CASE quota = 0 \/ global <= 0 -> 0
                         [] quota > 0 /\ global >= peak -> quota
                         [] OTHER -> IF share = 0 THEN 1 ELSE share
  BY DEF TargetAt, quota, global, peak, share
<1>5. TargetAt(s, t) \in 0 .. quota
  <2>1. CASE quota = 0 \/ global <= 0
    BY <1>1, <1>2, <1>4, <2>1
  <2>2. CASE quota > 0 /\ global >= peak
    BY <1>1, <1>2, <1>4, <2>2
  <2>3. CASE ~(quota = 0 \/ global <= 0) /\ ~(quota > 0 /\ global >= peak)
    BY <1>1, <1>2, <1>3, <1>4, <2>3
  <2> QED BY <2>1, <2>2, <2>3
<1> QED BY <1>5 DEF quota

-----------------------------------------------------------------------------
(***************************************************************************)
(* The largest quota the node is ever given.                               *)
(***************************************************************************)
Most == Max({VUQuota} \cup Requotas)

(***************************************************************************)
(* TypeOK as an induction carries it: with the executor, whose ramps stay  *)
(* between quotas the node was given, and the hooks counted up to the      *)
(* number of scenarios, which the phases bound.                            *)
(***************************************************************************)
Types ==
    /\ now \in -Lead .. MaxTime
    /\ phase \in {"setup", "await", "control", "drain", "teardown", "returned", "failed"}
    /\ hooks \in [up : 0 .. Cardinality(Group), down : 0 .. Cardinality(Group)]
    /\ phase = "setup" => hooks.up < Cardinality(Group)
    /\ hooks.down > 0 => phase \in {"teardown", "returned"}
    /\ phase = "teardown" => hooks.down < Cardinality(Group)
    /\ executor \in Scaled(Profile, Most)
    /\ pool \in [Group -> Seq(VU)]
    /\ vu \in [VU -> [at : Places, soft : BOOLEAN, hardAt : Int]]
    /\ started \in 0 .. MaxVUs /\ iterations \in Nat /\ drainBy \in Int
    /\ stop \in {"none", "graceful", "hard"}
    /\ stopped \in BOOLEAN /\ cancelled \in BOOLEAN /\ aborted \in BOOLEAN
    /\ requotas \in 0 .. MaxRequotas

(***************************************************************************)
(* The pool's size, all groups together, is within the largest quota.      *)
(***************************************************************************)
Lens == [g \in Group |-> Len(pool[g])]

SizeInv == SumFunctionOnSet(Lens, Group) <= Most

(***************************************************************************)
(* Virtual users exist from Resize on, and none is left when teardown      *)
(* starts.                                                                 *)
(***************************************************************************)
LifeInv ==
    /\ \A v \in VU : v > started => vu[v].at = "absent"
    /\ phase \in {"setup", "await", "failed"} => started = 0
    /\ phase \in {"teardown", "returned"} => \A v \in VU : ~Live(v)

(***************************************************************************)
(* Who has left the pool has been asked to stop and has a deadline.        *)
(***************************************************************************)
DeadlineInv ==
    \A v \in VU : Live(v) /\ v \notin Handles =>
        /\ vu[v].soft
        /\ \/ vu[v].hardAt <= now + Graceful
           \/ phase = "drain" /\ drainBy <= now + Graceful

(***************************************************************************)
(* The iterations done and the ones under way: who has one under way found *)
(* the budget not yet spent.                                               *)
(***************************************************************************)
InFlight == {v \in VU : vu[v].at \in {"limited", "running"}}

BudgetInv ==
    IterationQuota > 0 => iterations + Cardinality(InFlight) < IterationQuota + started

-----------------------------------------------------------------------------
(***************************************************************************)
(* The constants that are numbers.                                         *)
(***************************************************************************)
LEMMA Bounds ==
    /\ Graceful \in Nat \ {0} /\ Lead \in Nat /\ MaxVUs \in Nat /\ LastTick \in Nat
    /\ MaxRequotas \in Nat /\ IterationQuota \in Nat /\ VUQuota \in Nat
    /\ Requotas \subseteq Nat /\ Ramps \subseteq Nat
  BY EngineAssumption DEF EngineAssumption

(***************************************************************************)
(* resolveScenarios: one group or more, each with a positive weight.       *)
(***************************************************************************)
LEMMA GroupsWeighted ==
    /\ Cardinality(Group) \in Nat \ {0} /\ IsFiniteSet(Group)
    /\ Group = 1 .. Cardinality(Group)
    /\ weights \in [Group -> Nat \ {0}]
<1> DEFINE n == Len(Resolved)
<1>1. /\ n \in Nat \ {0} /\ DOMAIN Resolved = 1 .. n
      /\ \A g \in 1 .. n : Resolved[g].name \in DOMAIN Registered /\ Resolved[g].weight \in Nat
  <2>1. /\ Len(Registered) \in Nat \ {0} /\ DOMAIN Registered = 1 .. Len(Registered)
    <3>1. Registered \in Seq(Int) /\ Registered # <<>>
      BY EngineAssumption DEF EngineAssumption
    <3> QED BY <3>1
  <2>2. CASE Refs = <<>>
    <3>1. Resolved = [i \in 1 .. Len(Registered) |-> [name |-> i, weight |-> 1]]
      BY <2>1, <2>2 DEF Resolved
    <3> QED BY <2>1, <3>1
  <2>3. CASE Refs # <<>>
    <3>1. Resolved = Refs /\ Refs \in Seq([name : DOMAIN Registered, weight : Nat])
      BY <2>3, EngineAssumption DEF EngineAssumption, Resolved
    <3>2. /\ n \in Nat /\ DOMAIN Resolved = 1 .. n
          /\ \A g \in 1 .. n : Resolved[g] \in [name : DOMAIN Registered, weight : Nat]
      BY <3>1, SeqElements
    <3>3. n # 0
      BY <2>3, <3>1
    <3>4. \A g \in 1 .. n : Resolved[g].name \in DOMAIN Registered /\ Resolved[g].weight \in Nat
      BY <3>2
    <3> QED BY <3>2, <3>3, <3>4
  <2> QED BY <2>2, <2>3
<1> HIDE DEF n
<1>2. \A s \in DOMAIN Registered : EffectiveWeight(s) \in Nat \ {0}
  <2>1. \A s \in DOMAIN Registered : Registered[s] \in Int
    BY EngineAssumption, SeqElements DEF EngineAssumption
  <2> QED BY <2>1 DEF EffectiveWeight
<1>3. Group = 1 .. n /\ weights \in [1 .. n -> Nat \ {0}]
  BY <1>1, <1>2 DEF Group, weights
<1>4. Cardinality(1 .. n) = n /\ IsFiniteSet(1 .. n)
  BY <1>1, FS_Interval
<1> QED BY <1>1, <1>3, <1>4

LEMMA MostIs ==
    Most \in Nat /\ VUQuota <= Most /\ \A quota \in Requotas : quota <= Most
<1> DEFINE S == {VUQuota} \cup Requotas
<1>1. IsFiniteSet(S) /\ S \subseteq Nat /\ S # {}
  BY EngineAssumption, FS_Singleton, FS_Union DEF EngineAssumption
<1>2. VUQuota \in S /\ \A quota \in Requotas : quota \in S
  OBVIOUS
<1> HIDE DEF S
<1>3. Max(S) \in S /\ \A x \in S : x <= Max(S)
  <2>1. S \subseteq Int
    BY <1>1
  <2> QED BY <1>1, <2>1, MaxIs
<1> QED BY <1>1, <1>2, <1>3 DEF Most, S

(***************************************************************************)
(* Resize: what it wants of every group adds up to the target; the new     *)
(* ids are the next ones, each in one group's pool; who leaves the pool is *)
(* retired.                                                                *)
(***************************************************************************)
LEMMA WantIs ==
    ASSUME NEW total \in Nat
    PROVE  /\ Largest(total, weights) \in [Group -> Nat]
           /\ SumFunctionOnSet(Largest(total, weights), Group) = total
<1>1. weights \in [Group -> Nat \ {0}] /\ Group = DOMAIN weights /\ Group \subseteq Int
  BY GroupsWeighted DEF Group
<1>2. 1 \in Claimants(weights)
  <2>1. 1 \in Group
    BY GroupsWeighted
  <2> QED BY <1>1, <2>1 DEF Claimants
<1>3. weights \in [DOMAIN weights -> Int]
  BY <1>1
<1>4. Divisible(total, weights)
  BY <1>1, <1>2, <1>3, GroupsWeighted DEF Divisible
<1>5. Largest(total, weights) \in [Group -> Nat]
  BY <1>1, <1>4, LargestIsProportional
<1>6. SumFunction(Largest(total, weights)) = total
  BY <1>4, LargestIsExact
<1> QED BY <1>5, <1>6 DEF SumFunction

LEMMA ResizeIs ==
    ASSUME Types, NEW total \in Nat, Resize(total)
    PROVE  /\ started' \in started .. MaxVUs
           /\ pool' \in [Group -> Seq(VU)]
           /\ SumFunctionOnSet(Lens', Group) = total
           /\ \A v \in started + 1 .. started' : v \in Handles'
           /\ \A v \in VU :
                \/ vu'[v] = Retired(v)
                \/ v \in started + 1 .. started' /\ vu'[v] = [Absent EXCEPT !.at = "starting"]
                \/ (v \in Handles => v \in Handles') /\ vu'[v] = vu[v]
<1> DEFINE want == Largest(total, weights)
           missing == [g \in Group |-> NonNegative(want[g] - Len(pool[g]))]
           first(g) == started + SumFunctionOnSet(missing, 1 .. g - 1)
           all == SumFunctionOnSet(missing, Group)
           shed == UNION {{pool[g][i] : i \in want[g] + 1 .. Len(pool[g])} : g \in Group}
           n == Cardinality(Group)
<1>1. /\ started + all <= MaxVUs
      /\ started' = started + all
      /\ pool' = [g \in Group |->
                    [i \in 1 .. want[g] |->
                       IF i <= Len(pool[g]) THEN pool[g][i] ELSE first(g) + i - Len(pool[g])]]
      /\ vu' = [v \in VU |->
                  CASE v \in shed -> Retired(v)
                    [] v \in started + 1 .. started + all -> [Absent EXCEPT !.at = "starting"]
                    [] OTHER -> vu[v]]
  BY DEF Resize
<1>2. /\ want \in [Group -> Nat] /\ SumFunctionOnSet(want, Group) = total
      /\ n \in Nat /\ Group = 1 .. n /\ IsFiniteSet(Group)
  BY WantIs, GroupsWeighted
<1>3. \A g \in Group : /\ pool[g] \in Seq(VU) /\ Len(pool[g]) \in Nat
                       /\ \A i \in 1 .. Len(pool[g]) : pool[g][i] \in VU
  BY SeqElements DEF Types
<1> HIDE DEF want, n
<1>4. \A g \in Group : /\ missing[g] \in Nat
                       /\ want[g] - Len(pool[g]) <= missing[g]
                       /\ want[g] >= Len(pool[g]) => missing[g] = want[g] - Len(pool[g])
                       /\ missing[g] > 0 => missing[g] = want[g] - Len(pool[g])
  BY <1>2, <1>3 DEF NonNegative
<1> HIDE DEF missing
<1>5. /\ \A g \in Group : /\ SumFunctionOnSet(missing, 1 .. g - 1) \in Nat
                          /\ SumFunctionOnSet(missing, 1 .. g) \in Nat
                          /\ SumFunctionOnSet(missing, 1 .. g) <= all
                          /\ SumFunctionOnSet(missing, 1 .. g)
                               = missing[g] + SumFunctionOnSet(missing, 1 .. g - 1)
      /\ all \in Nat
  <2>1. ASSUME NEW g \in Group
        PROVE  /\ SumFunctionOnSet(missing, 1 .. g - 1) \in Nat
               /\ SumFunctionOnSet(missing, 1 .. g) \in Nat
               /\ SumFunctionOnSet(missing, 1 .. g) <= all
    <3>1. 1 .. g - 1 \in SUBSET Group /\ 1 .. g \in SUBSET Group
      BY <1>2
    <3> QED BY <1>2, <1>4, <3>1, PartialSum
  <2>2. \A g \in 1 .. n : SumFunctionOnSet(missing, 1 .. g)
                            = missing[g] + SumFunctionOnSet(missing, 1 .. g - 1)
    <3>1. \A g \in 1 .. n : missing[g] \in Int
      BY <1>2, <1>4
    <3>2. \A g \in 1 .. n : /\ SumFunctionOnSet(missing, 1 .. g) \in Int
                            /\ SumFunctionOnSet(missing, 1 .. g - 1) \in Int
                            /\ SumFunctionOnSet(missing, 1 .. g)
                                 = missing[g] + SumFunctionOnSet(missing, 1 .. g - 1)
      BY <1>2, <3>1, PrefixSums
    <3> QED BY <3>2
  <2>3. all \in Nat
    BY <1>2, <1>4, PartialSum
  <2> QED BY <1>2, <2>1, <2>2, <2>3
<1> HIDE DEF all
<1>6. started \in Nat /\ MaxVUs \in Nat
  BY Bounds DEF Types
<1>7. started' \in started .. MaxVUs
  BY <1>1, <1>5, <1>6
<1>8. ASSUME NEW g \in Group, NEW i \in 1 .. want[g]
      PROVE  /\ i <= Len(pool[g]) => pool[g][i] \in VU
             /\ i > Len(pool[g]) => first(g) + i - Len(pool[g]) \in VU
  <2>1. i <= Len(pool[g]) => pool[g][i] \in VU
    BY <1>2, <1>3
  <2>2. ASSUME i > Len(pool[g]) PROVE first(g) + i - Len(pool[g]) \in VU
    <3>1. want[g] \in Nat /\ Len(pool[g]) \in Nat /\ missing[g] = want[g] - Len(pool[g])
      BY <1>2, <1>3, <1>4, <2>2
    <3> DEFINE below == SumFunctionOnSet(missing, 1 .. g - 1)
               upto == SumFunctionOnSet(missing, 1 .. g)
               len == Len(pool[g])
    <3>2. below \in Nat /\ upto \in Nat /\ upto <= all /\ upto = missing[g] + below
      BY <1>5
    <3>3. i \in Nat /\ len \in Nat /\ i > len /\ i <= missing[g] + len /\ missing[g] \in Nat
      BY <1>4, <2>2, <3>1
    <3> HIDE DEF below, upto, len
    <3>4. started + below + i - len \in 1 .. MaxVUs
      <4>1. all \in Nat /\ started + all <= MaxVUs
        BY <1>1, <1>5
      <4> QED BY <1>6, <3>2, <3>3, <4>1
    <3> QED BY <3>4 DEF below, len, VU
  <2> QED BY <2>1, <2>2
<1> HIDE DEF first
<1>9. ASSUME NEW g \in Group
      PROVE  /\ pool'[g] \in Seq(VU) /\ Len(pool'[g]) = want[g]
             /\ \A i \in 1 .. want[g] :
                  pool'[g][i] = IF i <= Len(pool[g]) THEN pool[g][i]
                                ELSE first(g) + i - Len(pool[g])
  <2> DEFINE s == [i \in 1 .. want[g] |->
                     IF i <= Len(pool[g]) THEN pool[g][i] ELSE first(g) + i - Len(pool[g])]
  <2>1. pool'[g] = s
    BY <1>1
  <2>2. want[g] \in Nat /\ Len(pool[g]) \in Nat
    BY <1>2, <1>3
  <2>3. \A i \in 1 .. want[g] : s[i] \in VU
    BY <1>8, <2>2
  <2>4. s \in Seq(VU) /\ Len(s) = want[g]
    <3>1. s \in [1 .. want[g] -> VU]
      BY <2>3
    <3> HIDE DEF s
    <3> QED BY <2>2, <3>1, SeqOf
  <2> QED BY <2>1, <2>4
<1>10. pool' \in [Group -> Seq(VU)]
  <2>1. pool' = [g \in Group |-> pool'[g]]
    BY <1>1
  <2> QED BY <1>9, <2>1
<1>11. SumFunctionOnSet(Lens', Group) = total
  <2>1. Lens' = [g \in Group |-> Len(pool'[g])]
    BY DEF Lens, Group, weights, Resolved, EffectiveWeight
  <2>2. Lens' = want
    BY <1>2, <1>9, <2>1
  <2> QED BY <1>2, <2>2
<1>12. ASSUME NEW g \in Group, NEW i \in 1 .. want[g] PROVE pool'[g][i] \in Handles'
  <2>1. i \in DOMAIN pool'[g]
    BY <1>2, <1>9
  <2> QED BY <2>1 DEF Handles, Range, Group, weights, Resolved, EffectiveWeight
<1>13. ASSUME NEW v \in started + 1 .. started' PROVE v \in Handles'
  <2> DEFINE x == v - started
  <2>1. x \in 1 .. SumFunctionOnSet(missing, 1 .. n)
    <3>1. x \in 1 .. all
      BY <1>1, <1>5, <1>6
    <3>2. all = SumFunctionOnSet(missing, 1 .. n)
      BY <1>2, Zenon DEF all
    <3> QED BY <3>1, <3>2
  <2>2. PICK g \in 1 .. n : /\ SumFunctionOnSet(missing, 1 .. g - 1) < x
                            /\ x <= SumFunctionOnSet(missing, 1 .. g)
    <3>1. \A g \in 1 .. n : missing[g] \in Nat
      BY <1>2, <1>4
    <3> HIDE DEF x
    <3> QED BY <1>2, <2>1, <3>1, PrefixCover
  <2> DEFINE below == SumFunctionOnSet(missing, 1 .. g - 1)
             len == Len(pool[g])
             i == x - below + len
  <2>3. g \in Group /\ below \in Nat /\ below < x /\ x <= missing[g] + below /\ x \in Int
    BY <1>2, <1>5, <1>6, <2>1, <2>2
  <2> HIDE DEF below
  <2>4. /\ missing[g] \in Nat /\ missing[g] = want[g] - Len(pool[g])
        /\ want[g] \in Nat /\ Len(pool[g]) \in Nat
    <3>1. missing[g] \in Nat /\ want[g] \in Nat /\ Len(pool[g]) \in Nat
      BY <1>2, <1>3, <1>4, <2>3
    <3>2. missing[g] > 0
      BY <2>3, <3>1
    <3> QED BY <1>4, <2>3, <3>1, <3>2
  <2> HIDE DEF x
  <2>5. i \in 1 .. want[g] /\ ~(i <= len) /\ started + below + i - len = started + x
    <3>1. len \in Nat /\ missing[g] = want[g] - len
      BY <2>4
    <3> HIDE DEF len
    <3> QED BY <1>6, <2>3, <2>4, <3>1
  <2> HIDE DEF i
  <2>6. pool'[g][i] = first(g) + i - len
    BY <1>9, <2>3, <2>5
  <2>7. pool'[g][i] = v
    BY <1>6, <2>5, <2>6 DEF first, below, x
  <2> QED BY <1>12, <2>3, <2>5, <2>7
<1>14. ASSUME NEW v \in Handles, v \notin shed PROVE v \in Handles'
  <2>1. PICK g \in Group : v \in Range(pool[g])
    BY DEF Handles
  <2>2. PICK i \in 1 .. Len(pool[g]) : v = pool[g][i]
    BY <1>3, <2>1, SeqElements DEF Range
  <2>3. want[g] \in Nat /\ Len(pool[g]) \in Nat
    BY <1>2, <1>3
  <2>4. ~(i \in want[g] + 1 .. Len(pool[g]))
    <3> SUFFICES ASSUME i \in want[g] + 1 .. Len(pool[g]) PROVE FALSE
      OBVIOUS
    <3>1. v \in {pool[g][j] : j \in want[g] + 1 .. Len(pool[g])}
      BY <2>2
    <3> QED BY <1>14, <3>1
  <2>5. i \in 1 .. want[g] /\ i <= Len(pool[g])
    BY <2>3, <2>4
  <2>6. pool'[g][i] = v
    BY <1>9, <2>2, <2>5
  <2> QED BY <1>12, <2>5, <2>6
<1> HIDE DEF shed
<1>15. ASSUME NEW v \in VU
       PROVE  \/ vu'[v] = Retired(v)
              \/ v \in started + 1 .. started' /\ vu'[v] = [Absent EXCEPT !.at = "starting"]
              \/ (v \in Handles => v \in Handles') /\ vu'[v] = vu[v]
  <2>1. CASE v \in shed
    BY <1>1, <2>1
  <2>2. CASE v \notin shed /\ v \in started + 1 .. started + all
    BY <1>1, <2>2
  <2>3. CASE v \notin shed /\ v \notin started + 1 .. started + all
    BY <1>1, <1>14, <2>3
  <2> QED BY <2>1, <2>2, <2>3
<1> QED BY <1>7, <1>10, <1>11, <1>13, <1>15

-----------------------------------------------------------------------------
(***************************************************************************)
(* Types is inductive.                                                     *)
(***************************************************************************)
LEMMA TargetIs ==
    ASSUME Types PROVE TargetAt(executor, now) \in 0 .. Most
<1>1. now \in Int /\ executor \in Scaled(Profile, Most)
  BY Bounds DEF Types, MaxTime
<1>2. QuotaAt(executor, now) \in 0 .. Most
  BY <1>1, MostIs, QuotaWithinTop
<1>3. TargetAt(executor, now) \in 0 .. QuotaAt(executor, now)
  BY <1>1, MostIs, EngineAssumption, TargetWithinQuota DEF EngineAssumption
<1> QED BY <1>2, <1>3, MostIs

LEMMA RescaleIs ==
    ASSUME Types, NEW quota \in Requotas, NEW ramp \in Ramps
    PROVE  Rescale(executor, quota, now, ramp) \in Scaled(Profile, Most)
<1>1. now \in Int /\ executor \in Scaled(Profile, Most)
  BY Bounds DEF Types, MaxTime
<1>2. QuotaAt(executor, now) \in 0 .. Most
  BY <1>1, MostIs, QuotaWithinTop
<1>3. quota \in 0 .. Most /\ ramp \in Nat /\ NonNegative(quota) = quota
  BY MostIs, Bounds DEF NonNegative
<1>4. /\ executor.inner = NewExecutor(Profile) /\ now + ramp \in Int /\ 0 \in 0 .. Most
      /\ DOMAIN executor = {"inner", "from", "to", "rampFrom", "rampTo"}
  BY <1>1, <1>3, MostIs DEF Scaled
<1>5. CASE ramp <= 0
  <2>1. Rescale(executor, quota, now, ramp)
          = [executor EXCEPT !.from = quota, !.to = quota, !.rampFrom = 0, !.rampTo = 0]
    BY <1>3, <1>5 DEF Rescale
  <2>2. Rescale(executor, quota, now, ramp)
          = [inner |-> executor.inner, from |-> quota, to |-> quota, rampFrom |-> 0, rampTo |-> 0]
    BY <1>1, <2>1 DEF Scaled
  <2> QED BY <1>3, <1>4, <2>2 DEF Scaled
<1>6. CASE ~(ramp <= 0)
  BY <1>1, <1>2, <1>3, <1>4, <1>6 DEF Rescale, Scaled
<1> QED BY <1>5, <1>6

LEMMA TypesInvariant == Spec => []Types
<1>1. Init => Types
  <2> SUFFICES ASSUME Init PROVE Types
    OBVIOUS
  <2>1. NewScaled(NewExecutor(Profile), VUQuota) \in Scaled(Profile, Most)
    BY MostIs, Bounds DEF NewScaled, NonNegative, Scaled
  <2>2. Cardinality(Group) \in Nat \ {0}
    BY GroupsWeighted
  <2>3. -Lead \in -Lead .. MaxTime /\ Never \in Int
    BY Bounds DEF MaxTime, Never
  <2>4. [g \in Group |-> <<>>] \in [Group -> Seq(VU)]
    OBVIOUS
  <2>5. Absent \in [at : Places, soft : BOOLEAN, hardAt : Int]
    BY <2>3 DEF Absent, Places
  <2>6. hooks \in [up : 0 .. Cardinality(Group), down : 0 .. Cardinality(Group)]
        /\ hooks.up = 0 /\ hooks.down = 0
    BY <2>2 DEF Init
  <2>7. vu \in [VU -> [at : Places, soft : BOOLEAN, hardAt : Int]]
    BY <2>5 DEF Init
  <2>8. started \in 0 .. MaxVUs /\ requotas \in 0 .. MaxRequotas
    BY Bounds DEF Init
  <2>9. executor \in Scaled(Profile, Most) /\ pool \in [Group -> Seq(VU)] /\ drainBy \in Int
    BY <2>1, <2>3, <2>4 DEF Init
  <2>10. now \in -Lead .. MaxTime /\ iterations \in Nat
    BY <2>3 DEF Init
  <2>11. hooks.up < Cardinality(Group)
    BY <2>2, <2>6
  <2>12. phase = "setup" /\ stop = "none"
    BY DEF Init
  <2>13. stopped \in BOOLEAN /\ cancelled \in BOOLEAN /\ aborted \in BOOLEAN
    BY DEF Init
  <2> QED BY <2>6, <2>7, <2>8, <2>9, <2>10, <2>11, <2>12, <2>13 DEF Types
<1>2. Types /\ [Next]_vars => Types'
  <2> SUFFICES ASSUME Types, [Next]_vars PROVE Types'
    OBVIOUS
  <2>0. Cardinality(Group) \in Nat \ {0}
    BY GroupsWeighted
  <2>1. ASSUME NEW ok \in BOOLEAN, SetupHook(ok) PROVE Types'
    BY <2>0, <2>1 DEF Types, SetupHook, vuVars, requestVars
  <2>2. CASE AwaitStart
    BY <2>0, <2>2 DEF Types, AwaitStart, vuVars
  <2>3. ASSUME NEW graceful, Shutdown(graceful), phase = "control", hooks' = hooks
        PROVE  /\ phase' = "drain" /\ hooks' = hooks
               /\ vu' \in [VU -> [at : Places, soft : BOOLEAN, hardAt : Int]]
               /\ pool' \in [Group -> Seq(VU)]
               /\ aborted' \in BOOLEAN /\ drainBy' \in Int
    <3>1. \A v \in VU : vu[v] \in [at : Places, soft : BOOLEAN, hardAt : Int]
      BY DEF Types
    <3>2. now \in Int /\ Graceful \in Int
      BY Bounds DEF Types, MaxTime
    <3>3. vu' \in [VU -> [at : Places, soft : BOOLEAN, hardAt : Int]]
      BY <2>3, <3>1 DEF Shutdown
    <3>4. aborted' \in BOOLEAN
      BY <2>3, Zenon DEF Shutdown
    <3>5. pool' \in [Group -> Seq(VU)] /\ drainBy' \in Int
      BY <2>3, <3>2 DEF Shutdown
    <3> QED BY <2>3, <3>3, <3>4, <3>5 DEF Shutdown
  <2>4. CASE Tick
    <3>1. CASE ProfileOver /\ Shutdown(TRUE) /\ UNCHANGED started
      BY <2>3, <2>4, <3>1 DEF Types, Tick, requestVars
    <3>2. CASE Resize(TargetAt(executor, now)) /\ UNCHANGED <<phase, aborted, drainBy>>
      <4>1. TargetAt(executor, now) \in Nat
        BY TargetIs, MostIs
      <4>2. started' \in 0 .. MaxVUs /\ pool' \in [Group -> Seq(VU)]
        BY <3>2, <4>1, ResizeIs DEF Types
      <4>3. vu' \in [VU -> [at : Places, soft : BOOLEAN, hardAt : Int]]
        <5>1. vu' = [v \in VU |-> vu'[v]]
          BY <3>2 DEF Resize
        <5>2. ASSUME NEW v \in VU PROVE vu'[v] \in [at : Places, soft : BOOLEAN, hardAt : Int]
          <6>1. vu[v] \in [at : Places, soft : BOOLEAN, hardAt : Int]
            BY DEF Types
          <6>2. now + Graceful \in Int /\ Never \in Int
            BY Bounds DEF Types, MaxTime, Never
          <6>3. /\ Retired(v) \in [at : Places, soft : BOOLEAN, hardAt : Int]
                /\ [Absent EXCEPT !.at = "starting"] \in [at : Places, soft : BOOLEAN, hardAt : Int]
            BY <6>1, <6>2 DEF Retired, Absent, Places
          <6> QED BY <3>2, <4>1, <6>1, <6>3, ResizeIs
        <5> QED BY <5>1, <5>2
      <4> QED BY <2>4, <3>2, <4>2, <4>3 DEF Types, Tick, requestVars
    <3> QED BY <2>4, <3>1, <3>2 DEF Tick
  <2>5. CASE StopReceived
    <3>1. PICK graceful : Shutdown(graceful)
      BY <2>5 DEF StopReceived
    <3> QED BY <2>3, <2>5, <3>1 DEF Types, StopReceived
  <2>6. CASE DrainTimeout
    BY <2>6 DEF Types, DrainTimeout, vuVars, requestVars
  <2>7. CASE Drained
    BY <2>0, <2>7 DEF Types, Drained, vuVars, requestVars
  <2>8. CASE TeardownHook
    BY <2>0, <2>8 DEF Types, TeardownHook, vuVars, requestVars
  <2>9. ASSUME NEW v \in VU, NEW place \in Places, Move(v, place), iterations' \in Nat PROVE Types'
    <3>1. vu' \in [VU -> [at : Places, soft : BOOLEAN, hardAt : Int]]
      BY <2>9 DEF Types, Move
    <3> QED BY <2>9, <3>1 DEF Types, Move, runVars, requestVars
  <2>10. ASSUME NEW v \in VU,
                OnVUStart(v) \/ BeforeIteration(v) \/ LimiterWait(v) \/ EndIteration(v)
                  \/ OnVUStop(v)
         PROVE  Types'
    <3>1. \E place \in Places : Move(v, place)
      BY <2>10 DEF OnVUStart, BeforeIteration, LimiterWait, EndIteration, OnVUStop, Places
    <3>2. iterations' \in Nat
      BY <2>10 DEF OnVUStart, BeforeIteration, LimiterWait, EndIteration, OnVUStop, Types
    <3> QED BY <2>9, <3>1, <3>2
  <2>11. ASSUME NEW request \in {"graceful", "hard"}, Stop(request) PROVE Types'
    BY <2>11 DEF Types, Stop, vuVars, runVars
  <2>12. ASSUME NEW quota \in Requotas, NEW ramp \in Ramps, SetQuota(quota, ramp) PROVE Types'
    <3>1. requotas' \in 0 .. MaxRequotas
      BY <2>12, Bounds DEF Types, SetQuota
    <3> QED BY <2>12, <3>1, RescaleIs DEF Types, SetQuota, vuVars, runVars
  <2>13. CASE Cancel
    BY <2>13 DEF Types, Cancel, vuVars, runVars
  <2>14. CASE Advance
    <3>1. now' \in -Lead .. MaxTime
      BY <2>14, Bounds DEF Types, Advance, MaxTime
    <3> QED BY <2>14, <3>1 DEF Types, Advance, vuVars, runVars, requestVars
  <2>15. CASE UNCHANGED vars
    BY <2>15 DEF Types, vars
  <2> QED BY <2>1, <2>2, <2>4, <2>5, <2>6, <2>7, <2>8, <2>10, <2>11, <2>12, <2>13, <2>14, <2>15
          DEF Next
<1> QED BY <1>1, <1>2, PTL DEF Spec

(***************************************************************************)
(* The engine's state is well typed; in particular every handle in the     *)
(* pool is a virtual user that was numbered within the bound, and hooks    *)
(* are never counted past the number of scenarios.                         *)
(***************************************************************************)
THEOREM EngineTypes == Spec => []TypeOK
<1>1. Types => TypeOK
  BY DEF Types, TypeOK
<1> QED BY <1>1, TypesInvariant, PTL

-----------------------------------------------------------------------------
(***************************************************************************)
(* There are at most as many handles as the groups' pools are long.        *)
(***************************************************************************)
LEMMA HandlesCounted ==
    ASSUME Types PROVE Cardinality(Handles) <= SumFunctionOnSet(Lens, Group)
<1> DEFINE in(T) == UNION {Range(pool[g]) : g \in T}
           Good == {T \in SUBSET Group : Cardinality(in(T)) <= SumFunctionOnSet(Lens, T)}
<1>1. IsFiniteSet(Group) /\ IsFiniteSet(VU)
  BY GroupsWeighted, Bounds, FS_Interval DEF VU
<1>2. ASSUME NEW g \in Group
      PROVE  /\ Lens[g] \in Nat /\ Range(pool[g]) \in SUBSET VU
             /\ Cardinality(Range(pool[g])) <= Lens[g]
  <2> DEFINE s == pool[g]
  <2>1. s \in Seq(VU) /\ Lens[g] = Len(s)
    BY DEF Types, Lens
  <2> HIDE DEF s
  <2>2. Len(s) \in Nat /\ DOMAIN s = 1 .. Len(s) /\ \A i \in 1 .. Len(s) : s[i] \in VU
    BY <2>1, SeqElements
  <2>3. IsFiniteSet(1 .. Len(s)) /\ Cardinality(1 .. Len(s)) = Len(s)
    BY <2>2, FS_Interval, SMTT(30)
  <2>4. Cardinality(Range(s)) <= Len(s)
    BY <2>2, <2>3, ImageFinite
  <2>5. Range(s) \in SUBSET VU
    BY <2>2 DEF Range
  <2> QED BY <2>1, <2>2, <2>4, <2>5 DEF s
<1>3. {} \in Good
  <2>1. in({}) = {}
    OBVIOUS
  <2>2. Cardinality({}) = 0 /\ SumFunctionOnSet(Lens, {}) = 0
    BY FS_EmptySet, SumEmpty
  <2> QED BY <2>1, <2>2, 0 <= 0
<1>4. ASSUME NEW T \in SUBSET Group, NEW g \in Group, g \in T, T \ {g} \in Good PROVE T \in Good
  <2> DEFINE a == in(T \ {g})
             b == Range(pool[g])
  <2>1. in(T) = a \cup b
    BY <1>4
  <2>2. a \in SUBSET VU /\ b \in SUBSET VU
    BY <1>2
  <2>3. Cardinality(a) <= SumFunctionOnSet(Lens, T \ {g}) /\ Cardinality(b) <= Lens[g]
    BY <1>2, <1>4
  <2>4. /\ SumFunctionOnSet(Lens, T) = Lens[g] + SumFunctionOnSet(Lens, T \ {g})
        /\ SumFunctionOnSet(Lens, T \ {g}) \in Int /\ Lens[g] \in Nat
    <3>1. \A x \in Group : Lens[x] \in Int
      BY <1>2
    <3> QED BY <1>1, <1>2, <1>4, <3>1, SumsRemove, SumsInt
  <2> HIDE DEF a, b, in
  <2>5. IsFiniteSet(a) /\ IsFiniteSet(b) /\ IsFiniteSet(a \cap b)
    <3>1. a \cap b \in SUBSET VU
      BY <2>2
    <3> QED BY <1>1, <2>2, <3>1, FS_Subset
  <2>6. /\ Cardinality(a \cup b) = Cardinality(a) + Cardinality(b) - Cardinality(a \cap b)
        /\ Cardinality(a) \in Nat /\ Cardinality(b) \in Nat /\ Cardinality(a \cap b) \in Nat
    BY <2>5, FS_Union, FS_CardinalityType
  <2>7. Cardinality(in(T)) <= SumFunctionOnSet(Lens, T)
    BY <2>1, <2>3, <2>4, <2>6
  <2> QED BY <2>7
<1> HIDE DEF Good
<1>5. Group \in Good
  BY <1>1, <1>3, <1>4, ElementInduction
<1> QED BY <1>5 DEF Good, Handles

LEMMA SizeStep ==
    ASSUME Types, SizeInv, [Next]_vars PROVE SizeInv'
<1>1. CASE pool' = pool
  BY <1>1 DEF SizeInv, Lens
<1>2. CASE \E graceful : Shutdown(graceful)
  <2>1. \A g \in Group : pool'[g] = <<>>
    BY <1>2 DEF Shutdown
  <2>2. \A g \in Group : Lens'[g] = 0
    BY <2>1 DEF Lens
  <2>3. IsFiniteSet(Group) /\ Cardinality(Group) \in Nat /\ 0 \in Int
    BY GroupsWeighted
  <2>4. SumFunctionOnSet(Lens', Group) = 0 * Cardinality(Group)
    BY <2>2, <2>3, SumCount
  <2> QED BY <2>3, <2>4, MostIs DEF SizeInv
<1>3. CASE Resize(TargetAt(executor, now))
  <2>1. TargetAt(executor, now) \in 0 .. Most /\ Most \in Nat
    BY TargetIs, MostIs
  <2>2. TargetAt(executor, now) \in Nat
    BY <2>1
  <2>3. SumFunctionOnSet(Lens', Group) = TargetAt(executor, now)
    BY <1>3, <2>2, ResizeIs
  <2> QED BY <2>1, <2>3 DEF SizeInv
<1>4. pool' = pool \/ (\E graceful : Shutdown(graceful)) \/ Resize(TargetAt(executor, now))
  BY DEF Next, vars, SetupHook, AwaitStart, Tick, StopReceived, DrainTimeout, Drained, TeardownHook,
         OnVUStart, BeforeIteration, LimiterWait, EndIteration, OnVUStop, Move, Stop, SetQuota,
         Cancel, Advance, runVars
<1> QED BY <1>1, <1>2, <1>3, <1>4

(***************************************************************************)
(* The pool holds no more virtual users than the largest quota the node    *)
(* was given, whatever ramps cross and however the weights round: what the *)
(* groups want adds up to the target, and the target is within the quota.  *)
(***************************************************************************)
THEOREM ThePoolStaysWithinQuota == Spec => []PoolWithinQuota
<1>1. Init => SizeInv
  <2> SUFFICES ASSUME Init PROVE SizeInv
    OBVIOUS
  <2>1. \A g \in Group : Lens[g] = 0
    BY DEF Init, Lens
  <2>2. IsFiniteSet(Group) /\ Cardinality(Group) \in Nat /\ 0 \in Int
    BY GroupsWeighted
  <2>3. SumFunctionOnSet(Lens, Group) = 0 * Cardinality(Group)
    BY <2>1, <2>2, SumCount
  <2> QED BY <2>2, <2>3, MostIs DEF SizeInv
<1>2. Types /\ SizeInv => PoolWithinQuota
  <2> SUFFICES ASSUME Types, SizeInv PROVE PoolWithinQuota
    OBVIOUS
  <2>1. Handles \in SUBSET VU
    <3>1. \A g \in Group : Range(pool[g]) \subseteq VU
      BY SeqElements DEF Types, Range
    <3> QED BY <3>1 DEF Handles
  <2>2. Cardinality(Handles) \in Nat
    <3>1. IsFiniteSet(VU)
      BY Bounds, FS_Interval DEF VU
    <3> QED BY <2>1, <3>1, FS_Subset, FS_CardinalityType
  <2>3. SumFunctionOnSet(Lens, Group) \in Int
    <3>1. \A g \in Group : Lens[g] \in Int
      BY SeqElements DEF Types, Lens
    <3> QED BY <3>1, GroupsWeighted, SumsInt
  <2> QED BY <2>2, <2>3, HandlesCounted, MostIs DEF SizeInv, PoolWithinQuota, Most
<1> QED BY <1>1, <1>2, SizeStep, TypesInvariant, PTL DEF Spec

-----------------------------------------------------------------------------
(***************************************************************************)
(* What one step may do to the virtual users: nothing, the move of one     *)
(* that is live, the retirement of the handles, or a new pool.             *)
(***************************************************************************)
Moves == \E v \in VU, place \in Places : Live(v) /\ place # "absent" /\ Move(v, place)

LEMMA MovesAre ==
    ASSUME NEW v \in VU,
           OnVUStart(v) \/ BeforeIteration(v) \/ LimiterWait(v) \/ EndIteration(v) \/ OnVUStop(v)
    PROVE  Moves
<1>1. Live(v)
  BY DEF OnVUStart, BeforeIteration, LimiterWait, EndIteration, OnVUStop, Live
<1>2. \E place \in Places : place # "absent" /\ Move(v, place)
  BY DEF OnVUStart, BeforeIteration, LimiterWait, EndIteration, OnVUStop, Places
<1> QED BY <1>1, <1>2 DEF Moves

LEMMA MoveIs ==
    ASSUME Types, NEW v \in VU, NEW place \in Places, Move(v, place)
    PROVE  /\ vu'[v].at = place /\ vu'[v].soft = vu[v].soft /\ vu'[v].hardAt = vu[v].hardAt
           /\ \A w \in VU : w # v => vu'[w] = vu[w]
           /\ UNCHANGED <<now, runVars, requestVars>>
  BY DEF Types, Move

LEMMA LifeStep ==
    ASSUME Types, LifeInv, [Next]_vars PROVE LifeInv'
<1>0. started \in Nat /\ MaxVUs \in Nat
  BY Bounds DEF Types
<1>1. CASE vu' = vu /\ started' = started
           /\ (phase' = phase \/ phase' \in {"control", "drain"}
               \/ phase \in {"setup", "await"} \/ Drained \/ TeardownHook)
  <2>1. \A v \in VU : v > started' => vu'[v].at = "absent"
    BY <1>1 DEF LifeInv
  <2>2. phase' \in {"setup", "await", "failed"} => started' = 0
    <3>1. CASE phase' = phase \/ phase' \in {"control", "drain"} \/ phase \in {"setup", "await"}
      BY <1>1, <3>1 DEF LifeInv
    <3>2. CASE Drained
      BY <3>2 DEF Drained
    <3>3. CASE TeardownHook
      BY <3>3 DEF TeardownHook
    <3> QED BY <1>1, <3>1, <3>2, <3>3
  <2>3. ASSUME phase' \in {"teardown", "returned"}, NEW v \in VU PROVE ~Live(v)'
    <3>1. CASE phase' = phase \/ TeardownHook
      BY <1>1, <2>3, <3>1 DEF LifeInv, Live, TeardownHook
    <3>2. CASE phase \in {"setup", "await"}
      <4>1. vu[v].at = "absent"
        BY <1>0, <3>2 DEF LifeInv, VU
      <4> QED BY <1>1, <4>1 DEF Live
    <3>3. CASE Drained
      BY <1>1, <3>3 DEF Drained, Live
    <3> QED BY <1>1, <2>3, <3>1, <3>2, <3>3
  <2> QED BY <2>1, <2>2, <2>3 DEF LifeInv
<1>2. CASE \E graceful : Shutdown(graceful) /\ started' = started
  <2>1. \A v \in VU : vu'[v].at = vu[v].at
    BY <1>2 DEF Shutdown, Types
  <2>2. phase' = "drain"
    BY <1>2 DEF Shutdown
  <2> QED BY <1>2, <2>1, <2>2 DEF LifeInv
<1>3. CASE phase = "control" /\ phase' = phase /\ Resize(TargetAt(executor, now))
  <2>1. TargetAt(executor, now) \in Nat
    BY TargetIs, MostIs
  <2>2. /\ started' \in started .. MaxVUs
        /\ \A v \in VU :
             \/ vu'[v] = Retired(v)
             \/ v \in started + 1 .. started' /\ vu'[v] = [Absent EXCEPT !.at = "starting"]
             \/ vu'[v] = vu[v]
    BY <1>3, <2>1, ResizeIs
  <2>3. ASSUME NEW v \in VU, v > started' PROVE vu'[v].at = "absent"
    <3>1. v > started /\ v \notin started + 1 .. started'
      BY <1>0, <2>2, <2>3, Bounds DEF VU
    <3>2. vu[v].at = "absent" /\ Retired(v).at = vu[v].at
      BY <3>1 DEF LifeInv, Retired, Types
    <3> QED BY <2>2, <3>1, <3>2
  <2> QED BY <1>3, <2>3 DEF LifeInv
<1>4. CASE Moves
  <2>1. PICK v \in VU, place \in Places : Live(v) /\ place # "absent" /\ Move(v, place)
    BY <1>4 DEF Moves
  <2>2. /\ vu'[v].at = place /\ \A w \in VU : w # v => vu'[w] = vu[w]
        /\ phase' = phase /\ started' = started
    BY <2>1, MoveIs DEF runVars
  <2>3. ~(v > started) /\ phase \notin {"teardown", "returned"}
    BY <2>1 DEF LifeInv, Live
  <2> QED BY <2>2, <2>3 DEF LifeInv
<1>5. \/ vu' = vu /\ started' = started
         /\ (phase' = phase \/ phase' \in {"control", "drain"}
             \/ phase \in {"setup", "await"} \/ Drained \/ TeardownHook)
      \/ \E graceful : Shutdown(graceful) /\ started' = started
      \/ phase = "control" /\ phase' = phase /\ Resize(TargetAt(executor, now))
      \/ Moves
  <2>1. CASE UNCHANGED vars
    BY <2>1 DEF vars
  <2>2. CASE (\E ok \in BOOLEAN : SetupHook(ok)) \/ AwaitStart \/ DrainTimeout \/ Drained
             \/ TeardownHook
    BY <2>2 DEF SetupHook, AwaitStart, DrainTimeout, Drained, TeardownHook, vuVars
  <2>3. CASE Tick \/ StopReceived
    BY <2>3 DEF Tick, StopReceived
  <2>4. CASE \E v \in VU : OnVUStart(v) \/ BeforeIteration(v) \/ LimiterWait(v) \/ EndIteration(v)
                           \/ OnVUStop(v)
    BY <2>4, MovesAre
  <2>5. CASE (\E request \in {"graceful", "hard"} : Stop(request)) \/ Cancel \/ Advance
             \/ (\E quota \in Requotas, ramp \in Ramps : SetQuota(quota, ramp))
    BY <2>5 DEF Stop, Cancel, Advance, SetQuota, vuVars, runVars
  <2> QED BY <2>1, <2>2, <2>3, <2>4, <2>5 DEF Next
<1> QED BY <1>1, <1>2, <1>3, <1>4, <1>5

LEMMA LifeInvariant == Spec => []LifeInv
<1>1. Init => LifeInv
  BY DEF Init, LifeInv, Absent
<1> QED BY <1>1, LifeStep, TypesInvariant, PTL DEF Spec

(***************************************************************************)
(* Teardown runs after all virtual users have stopped, the ones that the   *)
(* pool has forgotten included.                                            *)
(***************************************************************************)
THEOREM TeardownIsLast == Spec => []TeardownLast
<1>1. Types /\ LifeInv => TeardownLast
  BY DEF Types, LifeInv, TeardownLast
<1> QED BY <1>1, TypesInvariant, LifeInvariant, PTL

-----------------------------------------------------------------------------
(***************************************************************************)
(* A virtual user that leaves the pool has been retired, or is drained by  *)
(* shutdown; either sets its deadline.                                     *)
(***************************************************************************)
LEMMA DeadlineStep ==
    ASSUME Types, LifeInv, DeadlineInv, [Next]_vars PROVE DeadlineInv'
<1>0. now \in Int /\ Graceful \in Nat /\ drainBy \in Int /\ \A v \in VU : vu[v].hardAt \in Int
  BY Bounds DEF Types, MaxTime
<1>1. CASE vu' = vu /\ pool' = pool /\ drainBy' = drainBy /\ now' \in {now, now + 1}
           /\ (phase' = phase \/ phase # "drain" \/ Drained)
  <2> SUFFICES ASSUME NEW v \in VU, Live(v)', v \notin Handles'
               PROVE  /\ vu[v].soft
                      /\ \/ vu[v].hardAt <= now' + Graceful
                         \/ phase' = "drain" /\ drainBy <= now' + Graceful
    BY <1>1 DEF DeadlineInv
  <2>1. Live(v) /\ v \notin Handles
    BY <1>1 DEF Live, Handles
  <2>2. phase = "drain" => phase' = "drain"
    BY <1>1, <2>1 DEF Drained
  <2>3. /\ vu[v].soft
        /\ \/ vu[v].hardAt <= now + Graceful
           \/ phase = "drain" /\ drainBy <= now + Graceful
    BY <2>1 DEF DeadlineInv
  <2>4. now + Graceful <= now' + Graceful /\ now + Graceful \in Int /\ now' + Graceful \in Int
    <3>1. now' = now \/ now' = now + 1
      BY <1>1
    <3> QED BY <1>0, <3>1
  <2>5. CASE vu[v].hardAt <= now + Graceful
    <3>1. vu[v].hardAt <= now' + Graceful
      BY <1>0, <2>4, <2>5
    <3> QED BY <2>3, <3>1
  <2>6. CASE phase = "drain" /\ drainBy <= now + Graceful
    <3>1. drainBy <= now' + Graceful
      BY <1>0, <2>4, <2>6
    <3> QED BY <2>2, <2>3, <2>6, <3>1
  <2> QED BY <2>3, <2>5, <2>6
<1>2. CASE phase = "control" /\ now' = now /\ \E graceful : Shutdown(graceful)
  <2> SUFFICES ASSUME NEW v \in VU, Live(v)', v \notin Handles'
               PROVE  vu'[v].soft /\ phase' = "drain" /\ drainBy' <= now' + Graceful
    BY DEF DeadlineInv
  <2>1. phase' = "drain" /\ drainBy' = now + Graceful
    BY <1>2 DEF Shutdown
  <2>2. /\ v \in Handles => vu'[v].soft
        /\ v \notin Handles => vu'[v] = vu[v]
    BY <1>2 DEF Shutdown, Types
  <2>3. v \notin Handles => vu[v].soft
    BY <2>2 DEF DeadlineInv, Live
  <2> QED BY <1>0, <1>2, <2>1, <2>2, <2>3
<1>3. CASE /\ phase = "control" /\ UNCHANGED <<phase, now, drainBy>>
           /\ Resize(TargetAt(executor, now))
  <2>1. TargetAt(executor, now) \in Nat
    BY TargetIs, MostIs
  <2>2. /\ \A v \in started + 1 .. started' : v \in Handles'
        /\ \A v \in VU :
             \/ vu'[v] = Retired(v)
             \/ v \in started + 1 .. started' /\ vu'[v] = [Absent EXCEPT !.at = "starting"]
             \/ (v \in Handles => v \in Handles') /\ vu'[v] = vu[v]
    BY <1>3, <2>1, ResizeIs
  <2> SUFFICES ASSUME NEW v \in VU, Live(v)', v \notin Handles'
               PROVE  vu'[v].soft /\ vu'[v].hardAt <= now' + Graceful
    BY DEF DeadlineInv
  <2>3. CASE vu'[v] = Retired(v)
    <3>1. Retired(v).soft /\ Retired(v).hardAt = now + Graceful
      BY DEF Retired, Types
    <3> QED BY <1>0, <1>3, <2>3, <3>1
  <2>4. CASE (v \in Handles => v \in Handles') /\ vu'[v] = vu[v]
    BY <1>3, <2>4 DEF DeadlineInv, Live
  <2> QED BY <2>2, <2>3, <2>4
<1>4. CASE Moves
  <2>1. PICK v \in VU, place \in Places : Live(v) /\ place # "absent" /\ Move(v, place)
    BY <1>4 DEF Moves
  <2>2. /\ vu'[v].soft = vu[v].soft /\ vu'[v].hardAt = vu[v].hardAt
        /\ \A w \in VU : w # v => vu'[w] = vu[w]
        /\ UNCHANGED <<now, phase, pool, drainBy>>
    BY <2>1, MoveIs DEF runVars
  <2>3. Handles' = Handles
    BY <2>2 DEF Handles
  <2> QED BY <2>1, <2>2, <2>3 DEF DeadlineInv, Live
<1>5. \/ vu' = vu /\ pool' = pool /\ drainBy' = drainBy /\ now' \in {now, now + 1}
         /\ (phase' = phase \/ phase # "drain" \/ Drained)
      \/ phase = "control" /\ now' = now /\ \E graceful : Shutdown(graceful)
      \/ /\ phase = "control" /\ UNCHANGED <<phase, now, drainBy>>
         /\ Resize(TargetAt(executor, now))
      \/ Moves
  <2>1. CASE UNCHANGED vars
    BY <2>1 DEF vars
  <2>2. CASE (\E ok \in BOOLEAN : SetupHook(ok)) \/ AwaitStart \/ DrainTimeout \/ Drained
             \/ TeardownHook
    BY <2>2 DEF SetupHook, AwaitStart, DrainTimeout, Drained, TeardownHook, vuVars
  <2>3. CASE Tick \/ StopReceived
    BY <2>3 DEF Tick, StopReceived
  <2>4. CASE \E v \in VU : OnVUStart(v) \/ BeforeIteration(v) \/ LimiterWait(v) \/ EndIteration(v)
                           \/ OnVUStop(v)
    BY <2>4, MovesAre
  <2>5. CASE (\E request \in {"graceful", "hard"} : Stop(request)) \/ Cancel \/ Advance
             \/ (\E quota \in Requotas, ramp \in Ramps : SetQuota(quota, ramp))
    BY <2>5 DEF Stop, Cancel, Advance, SetQuota, vuVars, runVars
  <2> QED BY <2>1, <2>2, <2>3, <2>4, <2>5 DEF Next
<1> QED BY <1>1, <1>2, <1>3, <1>4, <1>5

(***************************************************************************)
(* Nobody outside the pool can hold a run open: whoever has been dropped   *)
(* from it was asked to stop and is aborted within the grace period.       *)
(***************************************************************************)
THEOREM EveryStopHasADeadline == Spec => []StopsHaveDeadlines
<1>1. Init => DeadlineInv
  BY DEF Init, DeadlineInv, Live, Absent
<1>2. DeadlineInv => StopsHaveDeadlines
  BY DEF DeadlineInv, StopsHaveDeadlines, Soft
<1> QED BY <1>1, <1>2, DeadlineStep, TypesInvariant, LifeInvariant, PTL DEF Spec

-----------------------------------------------------------------------------
(***************************************************************************)
(* The iteration budget.  An iteration begins only while the count is      *)
(* below the budget, and one that is under way is somebody's who was       *)
(* started: the sum of the two never reaches the budget plus the virtual   *)
(* users started.                                                          *)
(***************************************************************************)
LEMMA InFlightCounted ==
    ASSUME Types, LifeInv
    PROVE  /\ IsFiniteSet(InFlight) /\ Cardinality(InFlight) \in Nat
           /\ Cardinality(InFlight) <= started
<1>1. started \in Nat /\ MaxVUs \in Nat
  BY Bounds DEF Types
<1>2. InFlight \in SUBSET (1 .. started)
  <2>1. ASSUME NEW v \in InFlight PROVE v \in 1 .. started
    <3>1. v \in VU /\ ~(v > started)
      BY <2>1 DEF InFlight, LifeInv
    <3> QED BY <1>1, <3>1 DEF VU
  <2> QED BY <2>1
<1>3. IsFiniteSet(1 .. started) /\ Cardinality(1 .. started) = started
  BY <1>1, FS_Interval
<1> QED BY <1>2, <1>3, FS_Subset, FS_CardinalityType

LEMMA BudgetStep ==
    ASSUME Types, LifeInv, Types', LifeInv', BudgetInv, [Next]_vars PROVE BudgetInv'
<1> SUFFICES ASSUME IterationQuota > 0
             PROVE  iterations' + Cardinality(InFlight') < IterationQuota + started'
  BY DEF BudgetInv
<1>0. /\ started \in Nat /\ started' \in Nat /\ iterations \in Nat /\ iterations' \in Nat
      /\ IterationQuota \in Nat
      /\ iterations + Cardinality(InFlight) < IterationQuota + started
  BY Bounds DEF Types, BudgetInv
<1>1. /\ IsFiniteSet(InFlight) /\ Cardinality(InFlight) \in Nat
  BY InFlightCounted
<1>2. Cardinality(InFlight') \in Nat /\ Cardinality(InFlight') <= started'
  <2>1. InFlight' \in SUBSET (1 .. started')
    <3>1. ASSUME NEW v \in InFlight' PROVE v \in 1 .. started'
      <4>1. v \in VU /\ ~(v > started')
        BY <3>1 DEF InFlight, LifeInv
      <4> QED BY <1>0, <4>1, Bounds DEF VU
    <3> QED BY <3>1
  <2>2. IsFiniteSet(1 .. started') /\ Cardinality(1 .. started') = started'
    BY <1>0, FS_Interval
  <2> QED BY <2>1, <2>2, FS_Subset, FS_CardinalityType
<1>3. CASE InFlight' \subseteq InFlight /\ iterations' = iterations /\ started <= started'
  <2>1. Cardinality(InFlight') <= Cardinality(InFlight)
    BY <1>1, <1>3, FS_Subset
  <2> QED BY <1>0, <1>1, <1>2, <1>3, <2>1
<1>4. CASE iterations' = iterations /\ iterations < IterationQuota
  BY <1>0, <1>2, <1>4
<1>5. CASE \E v \in VU : EndIteration(v)
  <2>1. PICK v \in VU : EndIteration(v)
    BY <1>5
  <2>2. v \in InFlight /\ InFlight' \subseteq InFlight \ {v} /\ started' = started
        /\ iterations' = iterations + 1
    <3>1. vu'[v].at = "check" /\ \A w \in VU : w # v => vu'[w] = vu[w]
      BY <2>1, MoveIs DEF EndIteration, Places
    <3> QED BY <2>1, <3>1 DEF EndIteration, InFlight, Move, runVars
  <2>3. Cardinality(InFlight \ {v}) = Cardinality(InFlight) - 1 /\ IsFiniteSet(InFlight \ {v})
    BY <1>1, <2>2, FS_RemoveElement
  <2>4. Cardinality(InFlight') <= Cardinality(InFlight) - 1
    BY <2>2, <2>3, FS_Subset
  <2> QED BY <1>0, <1>1, <1>2, <2>2, <2>4
<1>6. CASE \E v \in VU : OnVUStart(v) \/ BeforeIteration(v) \/ LimiterWait(v) \/ OnVUStop(v)
  <2>1. PICK v \in VU : OnVUStart(v) \/ BeforeIteration(v) \/ LimiterWait(v) \/ OnVUStop(v)
    BY <1>6
  <2>2. PICK place \in Places : Move(v, place)
    BY <2>1 DEF OnVUStart, BeforeIteration, LimiterWait, OnVUStop, Places
  <2>3. /\ vu'[v].at = place /\ \A w \in VU : w # v => vu'[w] = vu[w]
        /\ started' = started /\ iterations' = iterations
    BY <2>1, <2>2, MoveIs DEF runVars, OnVUStart, BeforeIteration, LimiterWait, OnVUStop
  <2>4. CASE place \notin {"limited", "running"} \/ v \in InFlight
    <3>1. InFlight' \subseteq InFlight
      BY <2>3, <2>4 DEF InFlight
    <3> QED BY <1>0, <1>3, <2>3, <3>1
  <2>5. CASE place \in {"limited", "running"} /\ v \notin InFlight
    <3>1. BeforeIteration(v)
      BY <2>1, <2>3, <2>5, MoveIs
         DEF OnVUStart, LimiterWait, OnVUStop, InFlight, Places
    <3>2. ~(iterations >= IterationQuota)
      BY <2>3, <2>5, <3>1, MoveIs DEF BeforeIteration, Places
    <3> QED BY <1>0, <1>4, <2>3, <3>2
  <2> QED BY <2>4, <2>5
<1>7. CASE (\A v \in VU : vu'[v].at = vu[v].at) /\ iterations' = iterations /\ started' = started
  <2>1. InFlight' \subseteq InFlight
    BY <1>7 DEF InFlight
  <2> QED BY <1>0, <1>3, <1>7, <2>1
<1>8. CASE Resize(TargetAt(executor, now)) /\ iterations' = iterations
  <2>1. TargetAt(executor, now) \in Nat
    BY TargetIs, MostIs
  <2>2. /\ started' \in started .. MaxVUs
        /\ \A v \in VU :
             \/ vu'[v] = Retired(v)
             \/ v \in started + 1 .. started' /\ vu'[v] = [Absent EXCEPT !.at = "starting"]
             \/ vu'[v] = vu[v]
    BY <1>8, <2>1, ResizeIs
  <2>3. \A v \in VU : Retired(v).at = vu[v].at
    BY DEF Retired, Types
  <2>4. [Absent EXCEPT !.at = "starting"].at = "starting"
    BY DEF Absent
  <2>5. InFlight' \subseteq InFlight
    BY <2>2, <2>3, <2>4 DEF InFlight
  <2> QED BY <1>0, <1>3, <1>8, <2>2, <2>5, Bounds
<1>9. \/ \E v \in VU : EndIteration(v)
      \/ \E v \in VU : OnVUStart(v) \/ BeforeIteration(v) \/ LimiterWait(v) \/ OnVUStop(v)
      \/ (\A v \in VU : vu'[v].at = vu[v].at) /\ iterations' = iterations /\ started' = started
      \/ Resize(TargetAt(executor, now)) /\ iterations' = iterations
  <2>1. CASE UNCHANGED vars
    BY <2>1 DEF vars
  <2>2. CASE (\E ok \in BOOLEAN : SetupHook(ok)) \/ AwaitStart \/ DrainTimeout \/ Drained
             \/ TeardownHook
    BY <2>2 DEF SetupHook, AwaitStart, DrainTimeout, Drained, TeardownHook, vuVars
  <2>3. ASSUME NEW graceful, Shutdown(graceful) PROVE \A v \in VU : vu'[v].at = vu[v].at
    BY <2>3 DEF Shutdown, Types
  <2>4. CASE Tick \/ StopReceived
    BY <2>3, <2>4 DEF Tick, StopReceived
  <2>5. CASE (\E request \in {"graceful", "hard"} : Stop(request)) \/ Cancel \/ Advance
             \/ (\E quota \in Requotas, ramp \in Ramps : SetQuota(quota, ramp))
    BY <2>5 DEF Stop, Cancel, Advance, SetQuota, vuVars, runVars
  <2> QED BY <2>1, <2>2, <2>4, <2>5 DEF Next
<1> QED BY <1>5, <1>6, <1>7, <1>8, <1>9

(***************************************************************************)
(* The iteration budget is overshot by less than one iteration for every   *)
(* virtual user ever started, however their iterations interleave.         *)
(***************************************************************************)
THEOREM TheOvershootIsBounded == Spec => []BudgetOvershootBounded
<1>1. Init => BudgetInv
  <2> SUFFICES ASSUME Init PROVE BudgetInv
    OBVIOUS
  <2>1. InFlight = {}
    BY DEF Init, InFlight, Absent
  <2> QED BY <2>1, FS_EmptySet, Bounds DEF Init, BudgetInv
<1>2. Types /\ LifeInv /\ BudgetInv => BudgetOvershootBounded
  <2> SUFFICES ASSUME Types, LifeInv, BudgetInv PROVE BudgetOvershootBounded
    OBVIOUS
  <2> QED BY InFlightCounted, Bounds DEF BudgetInv, BudgetOvershootBounded, Types
<1> QED BY <1>1, <1>2, BudgetStep, TypesInvariant, LifeInvariant, PTL DEF Spec

-----------------------------------------------------------------------------
(***************************************************************************)
(* A ramped change of the quota starts where the quota is at that moment,  *)
(* in the middle of an earlier ramp too.                                   *)
(***************************************************************************)
THEOREM RampsEaseFromCurrent == Spec => EasesFromCurrent
<1>1. ASSUME Types, [Next]_vars, executor' # executor, executor'.rampTo > executor'.rampFrom
      PROVE  QuotaAt(executor', now) = QuotaAt(executor, now)
  <2>1. PICK quota \in Requotas, ramp \in Ramps : SetQuota(quota, ramp)
    BY <1>1 DEF Next, vars, SetupHook, AwaitStart, Tick, StopReceived, DrainTimeout, Drained,
                TeardownHook, OnVUStart, BeforeIteration, LimiterWait, EndIteration, OnVUStop, Move,
                Stop, Cancel, Advance, requestVars
  <2>2. executor' = Rescale(executor, quota, now, ramp)
    BY <2>1 DEF SetQuota
  <2>3. now \in Int /\ executor \in Scaled(Profile, Most) /\ ramp \in Nat
    BY <1>1, Bounds DEF Types, MaxTime
  <2>4. ramp > 0
    <3> SUFFICES ASSUME ramp <= 0 PROVE FALSE
      BY <2>3
    <3>1. executor'.rampTo = 0 /\ executor'.rampFrom = 0
      BY <2>2, <2>3 DEF Rescale, Scaled
    <3> QED BY <1>1, <3>1
  <2>5. /\ executor'.from = QuotaAt(executor, now)
        /\ executor'.rampFrom = now /\ executor'.rampTo = now + ramp
    BY <2>2, <2>3, <2>4 DEF Rescale, Scaled
  <2> QED BY <2>3, <2>4, <2>5 DEF QuotaAt
<1>2. Types /\ [Next]_vars =>
        [executor' # executor /\ executor'.rampTo > executor'.rampFrom
           => QuotaAt(executor', now) = QuotaAt(executor, now)]_vars
  BY <1>1
<1> QED BY <1>2, TypesInvariant, PTL DEF Spec, EasesFromCurrent
=============================================================================
