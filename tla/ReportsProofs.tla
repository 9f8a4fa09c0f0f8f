--------------------------- MODULE ReportsProofs ---------------------------
(***************************************************************************)
(* The tables of a finished run agree with each other, for every number of *)
(* workers, virtual users, shards, series and batches.  Two parts of the   *)
(* store need an invariant of their own beside that of RecorderProofs: the *)
(* buckets of the chart, which sum to the totals, and the failures, of     *)
(* which each endpoint lists what its series counted.  The order is that   *)
(* of the argument: what a bucket reads from an aggregate, what ingesting  *)
(* one aggregate and then a batch adds to a bucket, the chart's invariant; *)
(* the same for the failures; then ReportsAgree from all three.            *)
(***************************************************************************)
EXTENDS RecorderProofs

-----------------------------------------------------------------------------
(***************************************************************************)
(* The chart.  A quantity it shows is a part of a metric; PointPart and    *)
(* EndpointPart read it from the point of a scenario and of an endpoint.   *)
(***************************************************************************)
LEMMA SumPut ==
    ASSUME NEW f, NEW g, NEW x, NEW e \in Int, IsFiniteSet(DOMAIN f), DOMAIN g = DOMAIN f \cup {x},
           \A y \in DOMAIN f : f[y] \in Int, \A y \in DOMAIN f : y # x => g[y] = f[y],
           g[x] = (IF x \in DOMAIN f THEN f[x] ELSE 0) + e
    PROVE  SumFunction(g) = SumFunction(f) + e
<1>0. SumFunction(f) \in Int
  BY SumInt
<1>1. CASE x \in DOMAIN f
  <2>1. DOMAIN g = DOMAIN f /\ g[x] = f[x] + e /\ f[x] \in Int
    BY <1>1
  <2>2. \A y \in DOMAIN f : f[y] \in Int /\ g[y] \in Int
    BY <2>1
  <2>3. SumFunction(g) = SumFunction(f) + (g[x] - f[x])
    BY <1>1, <2>1, <2>2, SumChange
  <2>. QED BY <1>0, <2>1, <2>3
<1>2. CASE x \notin DOMAIN f
  <2>1. g[x] = e /\ \A y \in DOMAIN f : f[y] \in Int /\ g[y] = f[y]
    BY <1>2
  <2>. QED BY <1>2, <2>1, SumExtend
<1>. QED BY <1>1, <1>2

IsChart(metric, of) ==
    \/ metric = "http_reqs" /\ of = "count"
    \/ metric = "http_req_failed" /\ of = "nonZero"
    \/ metric = "http_req_duration" /\ of \in {"count", "sum"}

PointPart(p, of) == IF of = "count" THEN p.count ELSE IF of = "nonZero" THEN p.nonZero ELSE p.sum

EndpointPart(p, metric, of) ==
    IF metric = "http_reqs" THEN p.requests
    ELSE IF metric = "http_req_failed" THEN p.failures
    ELSE IF of = "sum" THEN p.sum ELSE p.observed

PointOf(count, sum, min, max, nonZero, hist) ==
    [count |-> count, sum |-> sum, min |-> min, max |-> max, nonZero |-> nonZero, hist |-> hist]

IsPoint(p) ==
    /\ p = PointOf(p.count, p.sum, p.min, p.max, p.nonZero, p.hist)
    /\ p.count \in Nat /\ p.sum \in Nat /\ p.nonZero \in Nat

Points(ps) ==
    IsFiniteSet(DOMAIN ps) /\ \A key \in DOMAIN ps : key = <<key[1], key[2]>> /\ IsPoint(ps[key])

PartAt(ps, metric, sc, of) == PointPart(At(ps, <<metric, sc>>, NewPoint), of)

RollupAt(ps, metric, of) == PartAt(ps, metric, "", of)

ScenariosIn(ps) == {key[2] : key \in DOMAIN ps} \ {""}

ScenarioSum(ps, metric, of) == SumFunction([sc \in ScenariosIn(ps) |-> PartAt(ps, metric, sc, of)])

Amount(metric, of, inc) == Part(OfMetric(metric, of, 0), inc)

LEMMA AmountIs ==
    ASSUME NEW inc, IsAgg(inc), NEW metric, NEW of, IsChart(metric, of)
    PROVE  /\ Amount(metric, of, inc) \in Nat /\ IsMeasure(OfMetric(metric, of, 0))
           /\ metric # inc.metric => Amount(metric, of, inc) = 0
           /\ metric = inc.metric => inc.kind # "gauge" /\ Amount(metric, of, inc) = PointPart(inc, of)
<1>1. inc.count \in Nat /\ inc.sum \in Nat /\ inc.nonZero \in Nat /\ (inc.kind = "gauge" => inc.metric = "vus")
  BY DEF IsAgg, Kinded
<1>2. metric # "vus" /\ of \in {"count", "nonZero", "sum"}
  BY DEF IsChart
<1>3. IsMeasure(OfMetric(metric, of, 0))
  BY <1>2 DEF IsMeasure, OfMetric
<1>4. Amount(metric, of, inc) = IF metric = inc.metric THEN PointPart(inc, of) ELSE 0
  BY <1>2 DEF Amount, Part, Measured, OfMetric, PointPart
<1>5. PointPart(inc, of) \in Nat
  BY <1>1 DEF PointPart
<1>. QED BY <1>1, <1>2, <1>3, <1>4, <1>5

LEMMA NewPointIs ==
    IsPoint(NewPoint) /\ \A of : PointPart(NewPoint, of) = 0
<1>1. NewPoint = PointOf(0, 0, 0, 0, 0, NoHist)
  BY DEF NewPoint, PointOf
<1>. QED BY <1>1 DEF IsPoint, PointPart, PointOf

LEMMA PartAtNat ==
    ASSUME NEW ps, Points(ps), NEW metric, NEW sc, NEW of
    PROVE  PartAt(ps, metric, sc, of) \in Nat /\ IsPoint(At(ps, <<metric, sc>>, NewPoint))
<1>1. IsPoint(At(ps, <<metric, sc>>, NewPoint))
  BY NewPointIs DEF At, Points
<1>. QED BY <1>1 DEF PartAt, PointPart, IsPoint

(***************************************************************************)
(* addToBucket, whatever it makes of the extremes and the distribution.    *)
(***************************************************************************)
LEMMA AddToBucketIs ==
    ASSUME NEW ps, Points(ps), NEW inc, IsAgg(inc), NEW sc, NEW qs,
           qs = AddToBucket(ps, <<inc.metric, sc>>, inc)
    PROVE  /\ Points(qs) /\ DOMAIN qs = DOMAIN ps \cup {<<inc.metric, sc>>}
           /\ \A metric, of, x : IsChart(metric, of) =>
                PartAt(qs, metric, x, of)
                    = PartAt(ps, metric, x, of) + (IF x = sc THEN Amount(metric, of, inc) ELSE 0)
<1>. DEFINE key == <<inc.metric, sc>>
            p == At(ps, key, NewPoint)
            counted == [p EXCEPT !.count = @ + inc.count, !.nonZero = @ + inc.nonZero]
            r == IF inc.kind = "gauge" THEN [counted EXCEPT !.sum = @ + inc.gauge]
                 ELSE [counted EXCEPT
                    !.sum = @ + inc.sum,
                    !.min = IF inc.count > 0 /\ (@ = 0 \/ inc.min < @) THEN inc.min ELSE @,
                    !.max = IF inc.count > 0 THEN Max({@, inc.max}) ELSE @,
                    !.hist = CASE inc.hist = NoHist -> @
                               [] @ = NoHist        -> inc.hist
                               [] OTHER             -> MergeHist(@, inc.hist)]
<1>1. qs = Set(ps, key, r)
  BY DEF AddToBucket
<1>2. IsPoint(p)
  BY PartAtNat
<1>3. inc.count \in Nat /\ inc.sum \in Nat /\ inc.nonZero \in Nat /\ inc.gauge \in Nat
  BY DEF IsAgg
<1>4. /\ IsPoint(r) /\ r.count = p.count + inc.count /\ r.nonZero = p.nonZero + inc.nonZero
      /\ inc.kind # "gauge" => r.sum = p.sum + inc.sum
  <2>. HIDE DEF p
  <2>1. counted = PointOf(p.count + inc.count, p.sum, p.min, p.max, p.nonZero + inc.nonZero, p.hist)
    <3>. DEFINE c == p.count + inc.count
                z == p.nonZero + inc.nonZero
    <3>1. counted = [p EXCEPT !.count = c, !.nonZero = z]
      OBVIOUS
    <3>. HIDE DEF counted, c, z
    <3>2. counted = PointOf(c, p.sum, p.min, p.max, z, p.hist)
      BY <1>2, <3>1 DEF IsPoint, PointOf
    <3>. QED BY <3>2 DEF c, z
  <2>. HIDE DEF counted
  <2>2. CASE inc.kind = "gauge"
    <3>1. r = PointOf(p.count + inc.count, p.sum + inc.gauge, p.min, p.max, p.nonZero + inc.nonZero, p.hist)
      BY <2>1, <2>2 DEF PointOf
    <3>. HIDE DEF r
    <3>. QED BY <1>2, <1>3, <2>2, <3>1 DEF PointOf, IsPoint
  <2>3. CASE inc.kind # "gauge"
    <3>. DEFINE mn == IF inc.count > 0 /\ (p.min = 0 \/ inc.min < p.min) THEN inc.min ELSE p.min
                mx == IF inc.count > 0 THEN Max({p.max, inc.max}) ELSE p.max
                h == CASE inc.hist = NoHist -> p.hist
                       [] p.hist = NoHist        -> inc.hist
                       [] OTHER             -> MergeHist(p.hist, inc.hist)
                sm == p.sum + inc.sum
    <3>0. counted.min = p.min /\ counted.max = p.max /\ counted.hist = p.hist /\ counted.sum = p.sum
      BY <2>1 DEF PointOf
    <3>1. r = [counted EXCEPT !.sum = sm, !.min = mn, !.max = mx, !.hist = h]
      BY <2>3, <3>0
    <3>. HIDE DEF r, mn, mx, h, sm
    <3>2. r = PointOf(p.count + inc.count, sm, mn, mx, p.nonZero + inc.nonZero, h)
      BY <2>1, <3>1 DEF PointOf
    <3>3. /\ r.count = p.count + inc.count /\ r.nonZero = p.nonZero + inc.nonZero /\ r.sum = sm
          /\ r = PointOf(r.count, r.sum, r.min, r.max, r.nonZero, r.hist)
      BY <3>2 DEF PointOf
    <3>. QED BY <1>2, <1>3, <2>3, <3>3 DEF IsPoint, sm
  <2>. QED BY <2>2, <2>3
<1>5. key[1] = inc.metric /\ key[2] = sc /\ key = <<key[1], key[2]>>
  OBVIOUS
<1>6. \A metric, x : <<metric, x>> = key <=> metric = inc.metric /\ x = sc
  OBVIOUS
<1>. HIDE DEF r
<1>7. /\ DOMAIN qs = DOMAIN ps \cup {key} /\ qs[key] = r /\ \A y \in DOMAIN ps : y # key => qs[y] = ps[y]
  BY <1>1 DEF Set
<1>p. p = At(ps, key, NewPoint)
  OBVIOUS
<1>. HIDE DEF key, p
<1>8. Points(qs)
  <2>1. IsFiniteSet(DOMAIN qs)
    BY <1>7, FS_AddElement DEF Points
  <2>. QED BY <1>4, <1>5, <1>7, <2>1 DEF Points
<1>9. ASSUME NEW metric, NEW of, NEW x, IsChart(metric, of)
      PROVE  PartAt(qs, metric, x, of)
                = PartAt(ps, metric, x, of) + (IF x = sc THEN Amount(metric, of, inc) ELSE 0)
  <2>. DEFINE a == Amount(metric, of, inc)
  <2>1. a \in Nat /\ (metric # inc.metric => a = 0) /\ (metric = inc.metric => inc.kind # "gauge" /\ a = PointPart(inc, of))
    BY <1>9, AmountIs
  <2>2. PartAt(ps, metric, x, of) \in Nat
    BY PartAtNat
  <2>. HIDE DEF a
  <2>3. CASE <<metric, x>> = key
    <3>1. metric = inc.metric /\ x = sc
      BY <1>6, <2>3
    <3>2. PartAt(qs, metric, x, of) = PointPart(r, of) /\ PartAt(ps, metric, x, of) = PointPart(p, of)
      BY <1>7, <1>p, <2>3 DEF PartAt, At
    <3>3. PointPart(r, of) = PointPart(p, of) + PointPart(inc, of)
      BY <1>4, <2>1, <3>1 DEF PointPart
    <3>. QED BY <2>1, <3>1, <3>2, <3>3 DEF a
  <2>4. CASE <<metric, x>> # key
    <3>1. PartAt(qs, metric, x, of) = PartAt(ps, metric, x, of)
      <4>. DEFINE z == <<metric, x>>
      <4>1. z # key
        BY <2>4
      <4>. HIDE DEF z
      <4>2. At(qs, z, NewPoint) = At(ps, z, NewPoint)
        BY <1>7, <4>1 DEF At
      <4>. QED BY <4>2 DEF z, PartAt
    <3>2. metric # inc.metric \/ x # sc
      BY <1>6, <2>4
    <3>. QED BY <2>1, <2>2, <3>1, <3>2 DEF a
  <2>. QED BY <2>3, <2>4
<1>. QED BY <1>7, <1>8, <1>9 DEF key

LEMMA ScenariosFinite ==
    ASSUME NEW ps, Points(ps)
    PROVE  IsFiniteSet(ScenariosIn(ps))
<1>. DEFINE f == [key \in DOMAIN ps |-> key[2]]
            T == {f[key] : key \in DOMAIN ps}
<1>2. ScenariosIn(ps) \subseteq T
  BY DEF ScenariosIn
<1>. HIDE DEF f
<1>1. IsFiniteSet(T)
  BY ImageFinite DEF Points
<1>. QED BY <1>1, <1>2, FS_Subset

(***************************************************************************)
(* Of every quantity an increment adds as much to the rollup as to the     *)
(* points of the scenarios.                                                *)
(***************************************************************************)
LEMMA PointsOfIs ==
    ASSUME NEW ps, Points(ps), NEW inc, IsAgg(inc), NEW qs, qs = PointsOf(ps, inc)
    PROVE  /\ Points(qs)
           /\ \A metric, of : IsChart(metric, of) =>
                /\ RollupAt(qs, metric, of) = RollupAt(ps, metric, of) + Amount(metric, of, inc)
                /\ ScenarioSum(qs, metric, of) = ScenarioSum(ps, metric, of) + Amount(metric, of, inc)
<1>. DEFINE sc == Get(inc.labels, "scenario")
            own == AddToBucket(ps, <<inc.metric, sc>>, inc)
            r == ""
<1>0. sc # r
  BY DEF IsAgg, Kinded, Labelled
<1>1. qs = AddToBucket(own, <<inc.metric, r>>, inc)
  BY <1>0 DEF PointsOf
<1>o. own = AddToBucket(ps, <<inc.metric, sc>>, inc)
  OBVIOUS
<1>r. /\ ScenariosIn(ps) = {key[2] : key \in DOMAIN ps} \ {r}
      /\ ScenariosIn(qs) = {key[2] : key \in DOMAIN qs} \ {r}
  BY DEF ScenariosIn
<1>. HIDE DEF sc, own, r
<1>2. /\ Points(own) /\ DOMAIN own = DOMAIN ps \cup {<<inc.metric, sc>>}
      /\ \A metric, of, x : IsChart(metric, of) =>
            PartAt(own, metric, x, of)
                = PartAt(ps, metric, x, of) + (IF x = sc THEN Amount(metric, of, inc) ELSE 0)
  BY <1>o, AddToBucketIs
<1>3. /\ Points(qs) /\ DOMAIN qs = DOMAIN own \cup {<<inc.metric, r>>}
      /\ \A metric, of, x : IsChart(metric, of) =>
            PartAt(qs, metric, x, of)
                = PartAt(own, metric, x, of) + (IF x = r THEN Amount(metric, of, inc) ELSE 0)
  BY <1>1, <1>2, AddToBucketIs
<1>4. ScenariosIn(qs) = ScenariosIn(ps) \cup {sc}
  <2>1. DOMAIN qs = (DOMAIN ps \cup {<<inc.metric, sc>>}) \cup {<<inc.metric, r>>}
    BY <1>2, <1>3
  <2>2. <<inc.metric, sc>>[2] = sc /\ <<inc.metric, r>>[2] = r
    OBVIOUS
  <2>3. {key[2] : key \in DOMAIN qs} = {key[2] : key \in DOMAIN ps} \cup {sc, r}
    BY <2>1, <2>2
  <2>. QED BY <1>0, <1>r, <2>3
<1>5. ASSUME NEW metric, NEW of, IsChart(metric, of)
      PROVE  /\ PartAt(qs, metric, r, of) = PartAt(ps, metric, r, of) + Amount(metric, of, inc)
             /\ ScenarioSum(qs, metric, of) = ScenarioSum(ps, metric, of) + Amount(metric, of, inc)
  <2>. DEFINE e == Amount(metric, of, inc)
              f == [x \in ScenariosIn(ps) |-> PartAt(ps, metric, x, of)]
              g == [x \in ScenariosIn(qs) |-> PartAt(qs, metric, x, of)]
  <2>1. e \in Nat
    BY <1>5, AmountIs
  <2>2. \A x : PartAt(ps, metric, x, of) \in Nat /\ PartAt(own, metric, x, of) \in Nat
    BY <1>2, PartAtNat
  <2>3. \A x : x # r => PartAt(qs, metric, x, of) = PartAt(ps, metric, x, of) + (IF x = sc THEN e ELSE 0)
    <3>. HIDE DEF e
    <3>1. ASSUME NEW x, x # r
          PROVE  PartAt(qs, metric, x, of) = PartAt(ps, metric, x, of) + (IF x = sc THEN e ELSE 0)
      <4>1. PartAt(qs, metric, x, of) = PartAt(own, metric, x, of) + 0
        BY <1>3, <1>5, <3>1
      <4>2. PartAt(own, metric, x, of) = PartAt(ps, metric, x, of) + (IF x = sc THEN e ELSE 0)
        BY <1>2, <1>5 DEF e
      <4>. QED BY <2>2, <4>1, <4>2
    <3>. QED BY <3>1
  <2>4. PartAt(qs, metric, r, of) = PartAt(ps, metric, r, of) + e
    <3>. HIDE DEF e
    <3>1. PartAt(qs, metric, r, of) = PartAt(own, metric, r, of) + e
      BY <1>3, <1>5 DEF e
    <3>2. PartAt(own, metric, r, of) = PartAt(ps, metric, r, of) + 0
      BY <1>0, <1>2, <1>5
    <3>. QED BY <2>2, <3>1, <3>2
  <2>. HIDE DEF e
  <2>5. IsFiniteSet(DOMAIN f) /\ DOMAIN g = DOMAIN f \cup {sc} /\ \A y \in DOMAIN f : f[y] \in Int
    BY <1>4, <2>2, ScenariosFinite
  <2>6. \A y \in DOMAIN f : y # sc => g[y] = f[y]
    <3>. SUFFICES ASSUME NEW y \in DOMAIN f, y # sc PROVE g[y] = f[y]
      OBVIOUS
    <3>1. y # r /\ y \in ScenariosIn(ps) /\ y \in ScenariosIn(qs)
      BY <1>4, <1>r
    <3>. QED BY <2>2, <2>3, <3>1
  <2>7. g[sc] = (IF sc \in DOMAIN f THEN f[sc] ELSE 0) + e
    <3>1. g[sc] = PartAt(ps, metric, sc, of) + e
      BY <1>0, <1>4, <2>3
    <3>2. CASE sc \in DOMAIN f
      BY <3>1, <3>2
    <3>3. CASE sc \notin DOMAIN f
      <4>1. <<metric, sc>> \notin DOMAIN ps
        <5>1. <<metric, sc>>[2] = sc
          OBVIOUS
        <5>. QED BY <1>0, <1>r, <3>3, <5>1
      <4>2. PartAt(ps, metric, sc, of) = 0
        BY <4>1, NewPointIs DEF PartAt, At
      <4>. QED BY <3>1, <3>3, <4>2
    <3>. QED BY <3>2, <3>3
  <2>. HIDE DEF f, g
  <2>8. SumFunction(g) = SumFunction(f) + e
    BY <2>1, <2>5, <2>6, <2>7, SumPut
  <2>. QED BY <2>4, <2>8 DEF e, f, g, ScenarioSum
<1>. QED BY <1>3, <1>5 DEF r, RollupAt

(***************************************************************************)
(* The points of the endpoints.                                            *)
(***************************************************************************)
EndpointOf(requests, failures_, sum, observed) ==
    [requests |-> requests, failures |-> failures_, sum |-> sum, observed |-> observed]

IsEndpoint(p) ==
    /\ p = EndpointOf(p.requests, p.failures, p.sum, p.observed)
    /\ p.requests \in Nat /\ p.failures \in Nat /\ p.sum \in Nat /\ p.observed \in Nat

EndpointTable(es) == IsFiniteSet(DOMAIN es) /\ \A name \in DOMAIN es : IsEndpoint(es[name])

EndpointAt(es, name, metric, of) == EndpointPart(At(es, name, NewEndpointPoint), metric, of)

EndpointSum(es, metric, of) == SumFunction([name \in DOMAIN es |-> EndpointPart(es[name], metric, of)])

OfEndpoint(metric, of, name) ==
    [among |-> "endpoint", metric |-> metric, name |-> name, labels |-> "", of |-> of, slot |-> 0]

LEMMA EndpointAmount ==
    ASSUME NEW inc, IsAgg(inc), NEW metric, NEW of, IsChart(metric, of), NEW name
    PROVE  /\ IsMeasure(OfEndpoint(metric, of, name))
           /\ Part(OfEndpoint(metric, of, name), inc)
                = IF name = Get(inc.labels, "name") THEN Amount(metric, of, inc) ELSE 0
<1>1. metric # "vus" /\ of \in {"count", "nonZero", "sum"}
  BY DEF IsChart
<1>2. IsMeasure(OfEndpoint(metric, of, name))
  BY <1>1 DEF IsMeasure, OfEndpoint
<1>. DEFINE k == OfEndpoint(metric, of, name)
            l == OfMetric(metric, of, 0)
<1>3. /\ k.among = "endpoint" /\ k.metric = metric /\ k.name = name /\ k.of = of /\ k.slot = 0
      /\ l.among = "metric" /\ l.metric = metric /\ l.of = of /\ l.slot = 0
  BY DEF OfEndpoint, OfMetric
<1>. HIDE DEF k, l
<1>4. Measured(k, inc.metric, inc.labels) <=> Measured(l, inc.metric, inc.labels) /\ name = Get(inc.labels, "name")
  BY <1>3 DEF Measured
<1>5. Part(k, inc) = IF name = Get(inc.labels, "name") THEN Part(l, inc) ELSE 0
  BY <1>3, <1>4 DEF Part
<1>. QED BY <1>2, <1>5 DEF k, l, Amount

LEMMA NewEndpointIs ==
    IsEndpoint(NewEndpointPoint) /\ \A metric, of : EndpointPart(NewEndpointPoint, metric, of) = 0
<1>1. NewEndpointPoint = EndpointOf(0, 0, 0, 0)
  BY DEF NewEndpointPoint, EndpointOf
<1>. QED BY <1>1 DEF IsEndpoint, EndpointPart, EndpointOf

LEMMA EndpointNat ==
    ASSUME NEW p, IsEndpoint(p), NEW metric, NEW of
    PROVE  EndpointPart(p, metric, of) \in Nat
  BY DEF EndpointPart, IsEndpoint

(***************************************************************************)
(* addEndpointPoint, where it refuses nothing.                             *)
(***************************************************************************)
Pointed(p, inc) ==
    CASE inc.metric = "http_reqs" -> [p EXCEPT !.requests = @ + inc.count]
      [] inc.metric = "http_req_duration" -> [p EXCEPT !.sum = @ + inc.sum, !.observed = @ + inc.count]
      [] inc.metric = "http_req_failed" -> [p EXCEPT !.failures = @ + inc.nonZero]

LEMMA PointedIs ==
    ASSUME NEW p, IsEndpoint(p), NEW inc, IsAgg(inc), inc.metric \in ChartedMetrics
    PROVE  /\ IsEndpoint(Pointed(p, inc))
           /\ \A metric, of : IsChart(metric, of) =>
                EndpointPart(Pointed(p, inc), metric, of) = EndpointPart(p, metric, of) + Amount(metric, of, inc)
<1>. DEFINE q == Pointed(p, inc)
<1>0. inc.count \in Nat /\ inc.sum \in Nat /\ inc.nonZero \in Nat
  BY DEF IsAgg
<1>1. \/ /\ inc.metric = "http_reqs" /\ q = EndpointOf(p.requests + inc.count, p.failures, p.sum, p.observed)
      \/ /\ inc.metric = "http_req_duration"
         /\ q = EndpointOf(p.requests, p.failures, p.sum + inc.sum, p.observed + inc.count)
      \/ /\ inc.metric = "http_req_failed"
         /\ q = EndpointOf(p.requests, p.failures + inc.nonZero, p.sum, p.observed)
  <2>1. CASE inc.metric = "http_reqs"
    <3>. DEFINE e == p.requests + inc.count
    <3>1. q = [p EXCEPT !.requests = e]
      BY <2>1 DEF Pointed
    <3>. HIDE DEF e, q
    <3>2. q = EndpointOf(e, p.failures, p.sum, p.observed)
      BY <3>1 DEF EndpointOf, IsEndpoint
    <3>. QED BY <2>1, <3>2 DEF e
  <2>2. CASE inc.metric = "http_req_duration"
    <3>. DEFINE e == p.sum + inc.sum
                c == p.observed + inc.count
    <3>1. q = [p EXCEPT !.sum = e, !.observed = c]
      BY <2>2 DEF Pointed
    <3>. HIDE DEF e, c, q
    <3>2. q = EndpointOf(p.requests, p.failures, e, c)
      BY <3>1 DEF EndpointOf, IsEndpoint
    <3>. QED BY <2>2, <3>2 DEF e, c
  <2>3. CASE inc.metric = "http_req_failed"
    <3>. DEFINE e == p.failures + inc.nonZero
    <3>1. q = [p EXCEPT !.failures = e]
      BY <2>3 DEF Pointed
    <3>. HIDE DEF e, q
    <3>2. q = EndpointOf(p.requests, e, p.sum, p.observed)
      BY <3>1 DEF EndpointOf, IsEndpoint
    <3>. QED BY <2>3, <3>2 DEF e
  <2>. QED BY <2>1, <2>2, <2>3 DEF ChartedMetrics
<1>. HIDE DEF q
<1>2. IsEndpoint(q)
  BY <1>0, <1>1 DEF EndpointOf, IsEndpoint
<1>3. ASSUME NEW metric, NEW of, IsChart(metric, of)
      PROVE EndpointPart(q, metric, of) = EndpointPart(p, metric, of) + Amount(metric, of, inc)
  <2>1. /\ metric # inc.metric => Amount(metric, of, inc) = 0
        /\ metric = inc.metric => Amount(metric, of, inc) = PointPart(inc, of)
    BY <1>3, AmountIs
  <2>2. /\ p.requests \in Nat /\ p.failures \in Nat /\ p.sum \in Nat /\ p.observed \in Nat
    BY DEF IsEndpoint
  <2>3. CASE inc.metric = "http_reqs" /\ q = EndpointOf(p.requests + inc.count, p.failures, p.sum, p.observed)
    BY <1>0, <1>3, <2>1, <2>2, <2>3 DEF EndpointPart, PointPart, EndpointOf, IsChart
  <2>4. CASE inc.metric = "http_req_duration" /\ q = EndpointOf(p.requests, p.failures, p.sum + inc.sum, p.observed + inc.count)
    BY <1>0, <1>3, <2>1, <2>2, <2>4 DEF EndpointPart, PointPart, EndpointOf, IsChart
  <2>5. CASE inc.metric = "http_req_failed" /\ q = EndpointOf(p.requests, p.failures + inc.nonZero, p.sum, p.observed)
    BY <1>0, <1>3, <2>1, <2>2, <2>5 DEF EndpointPart, PointPart, EndpointOf, IsChart
  <2>. QED BY <1>1, <2>3, <2>4, <2>5
<1>. QED BY <1>2, <1>3 DEF q

LEMMA EndpointPut ==
    ASSUME NEW es, EndpointTable(es), NEW inc, IsAgg(inc), inc.metric \in ChartedMetrics, NEW name,
           name = Get(inc.labels, "name"),
           NEW fs, fs = Set(es, name, Pointed(At(es, name, NewEndpointPoint), inc))
    PROVE  /\ EndpointTable(fs)
           /\ \A metric, of : IsChart(metric, of) =>
                /\ EndpointSum(fs, metric, of) = EndpointSum(es, metric, of) + Amount(metric, of, inc)
                /\ \A x : EndpointAt(fs, x, metric, of)
                            = EndpointAt(es, x, metric, of) + Part(OfEndpoint(metric, of, x), inc)
<1>. DEFINE p == At(es, name, NewEndpointPoint)
            q == Pointed(p, inc)
<1>1. IsEndpoint(p) /\ (name \in DOMAIN es => p = es[name]) /\ (name \notin DOMAIN es => p = NewEndpointPoint)
  BY NewEndpointIs DEF At, EndpointTable
<1>2. fs = Set(es, name, q)
  OBVIOUS
<1>. HIDE DEF p
<1>3. /\ IsEndpoint(q)
      /\ \A metric, of : IsChart(metric, of) =>
            EndpointPart(q, metric, of) = EndpointPart(p, metric, of) + Amount(metric, of, inc)
  BY <1>1, PointedIs
<1>. HIDE DEF q
<1>4. DOMAIN fs = DOMAIN es \cup {name} /\ fs[name] = q /\ \A y \in DOMAIN es : y # name => fs[y] = es[y]
  BY <1>2 DEF Set
<1>5. EndpointTable(fs)
  <2>1. IsFiniteSet(DOMAIN fs)
    BY <1>4, FS_AddElement DEF EndpointTable
  <2>. QED BY <1>3, <1>4, <2>1 DEF EndpointTable
<1>6. ASSUME NEW metric, NEW of, IsChart(metric, of)
      PROVE EndpointSum(fs, metric, of) = EndpointSum(es, metric, of) + Amount(metric, of, inc)
  <2>. DEFINE f == [x \in DOMAIN es |-> EndpointPart(es[x], metric, of)]
              g == [x \in DOMAIN fs |-> EndpointPart(fs[x], metric, of)]
              e == Amount(metric, of, inc)
  <2>1. e \in Int
    BY <1>6, AmountIs
  <2>2. IsFiniteSet(DOMAIN f) /\ DOMAIN g = DOMAIN f \cup {name} /\ \A y \in DOMAIN f : f[y] \in Int
    BY <1>4, EndpointNat DEF EndpointTable
  <2>3. \A y \in DOMAIN f : y # name => g[y] = f[y]
    BY <1>4
  <2>4. g[name] = EndpointPart(p, metric, of) + e
    BY <1>3, <1>4, <1>6
  <2>5. EndpointPart(p, metric, of) = IF name \in DOMAIN f THEN f[name] ELSE 0
    BY <1>1, NewEndpointIs
  <2>. HIDE DEF f, g, e
  <2>6. SumFunction(g) = SumFunction(f) + e
    BY <2>1, <2>2, <2>3, <2>4, <2>5, SumPut
  <2>. QED BY <2>6 DEF f, g, e, EndpointSum
<1>7. ASSUME NEW metric, NEW of, IsChart(metric, of), NEW x
      PROVE  EndpointAt(fs, x, metric, of) = EndpointAt(es, x, metric, of) + Part(OfEndpoint(metric, of, x), inc)
  <2>1. Part(OfEndpoint(metric, of, x), inc) = IF x = name THEN Amount(metric, of, inc) ELSE 0
    BY <1>7, EndpointAmount
  <2>2. EndpointAt(es, x, metric, of) \in Nat
    BY EndpointNat, NewEndpointIs DEF EndpointAt, At, EndpointTable
  <2>3. CASE x = name
    <3>1. EndpointAt(fs, x, metric, of) = EndpointPart(q, metric, of)
      BY <1>4, <2>3 DEF EndpointAt, At
    <3>2. EndpointAt(es, x, metric, of) = EndpointPart(p, metric, of)
      BY <2>3 DEF EndpointAt, p
    <3>. QED BY <1>3, <1>7, <2>1, <2>3, <3>1, <3>2
  <2>4. CASE x # name
    <3>1. EndpointAt(fs, x, metric, of) = EndpointAt(es, x, metric, of)
      BY <1>4, <2>4 DEF EndpointAt, At
    <3>. QED BY <2>1, <2>2, <2>4, <3>1
  <2>. QED BY <2>3, <2>4
<1>. QED BY <1>5, <1>6, <1>7

(***************************************************************************)
(* A bucket, and what mergeBucket does to it and to the rest of the store. *)
(***************************************************************************)
BucketOf(vusByNode, points, status, endpoints) ==
    [vusByNode |-> vusByNode, points |-> points, status |-> status, endpoints |-> endpoints]

Tally(f) == IsFiniteSet(DOMAIN f) /\ \A x \in DOMAIN f : f[x] \in Nat

IsBucket(b) ==
    /\ b = BucketOf(b.vusByNode, b.points, b.status, b.endpoints)
    /\ Points(b.points) /\ Tally(b.status) /\ EndpointTable(b.endpoints)

AddsPoints(c, b, inc) ==
    /\ \A metric, of : IsChart(metric, of) =>
        /\ RollupAt(c.points, metric, of) = RollupAt(b.points, metric, of) + Amount(metric, of, inc)
        /\ ScenarioSum(c.points, metric, of) = ScenarioSum(b.points, metric, of) + Amount(metric, of, inc)
    /\ SumFunction(c.status) = SumFunction(b.status) + Amount("http_reqs", "count", inc)

AddsEndpoints(c, b, inc) ==
    \A metric, of : IsChart(metric, of) =>
        /\ EndpointSum(c.endpoints, metric, of) = EndpointSum(b.endpoints, metric, of) + Amount(metric, of, inc)
        /\ \A x : EndpointAt(c.endpoints, x, metric, of)
                    = EndpointAt(b.endpoints, x, metric, of) + Part(OfEndpoint(metric, of, x), inc)

Rebucketed(t, s, idx, c) ==
    /\ Keeps(t, s) /\ DOMAIN t.buckets = DOMAIN s.buckets /\ t.buckets[idx] = c
    /\ \A i \in DOMAIN s.buckets : i # idx => t.buckets[i] = s.buckets[i]

LEMMA ChangeBucket ==
    ASSUME NEW s, StoreShape(s), NEW idx, idx \in DOMAIN s.buckets, NEW c, NEW t,
           t = [s EXCEPT !.buckets[idx] = c]
    PROVE  Rebucketed(t, s, idx, c) /\ t.droppedEndpoints = s.droppedEndpoints
<1>. DEFINE x == [s.buckets EXCEPT ![idx] = c]
<1>1. t = [s EXCEPT !.buckets = x]
  OBVIOUS
<1>2. DOMAIN x = DOMAIN s.buckets /\ x[idx] = c /\ \A i \in DOMAIN s.buckets : i # idx => x[i] = s.buckets[i]
  OBVIOUS
<1>. HIDE DEF x
<1>3. Keeps(t, s) /\ t.buckets = x
  BY <1>1 DEF StoreShape, Keeps
<1>4. t.droppedEndpoints = s.droppedEndpoints
  BY <1>1 DEF StoreShape
<1>. QED BY <1>2, <1>3, <1>4 DEF Rebucketed

LEMMA TallyPut ==
    ASSUME NEW f, Tally(f), NEW x, NEW e \in Nat, NEW g, g = Set(f, x, At(f, x, 0) + e)
    PROVE  Tally(g) /\ SumFunction(g) = SumFunction(f) + e
<1>. DEFINE p == At(f, x, 0)
<1>1. p \in Nat /\ p = IF x \in DOMAIN f THEN f[x] ELSE 0
  BY DEF At, Tally
<1>. HIDE DEF p
<1>2. DOMAIN g = DOMAIN f \cup {x} /\ g[x] = p + e /\ \A y \in DOMAIN f : y # x => g[y] = f[y]
  BY DEF Set, p
<1>3. Tally(g)
  <2>1. IsFiniteSet(DOMAIN g)
    BY <1>2, FS_AddElement DEF Tally
  <2>. QED BY <1>1, <1>2, <2>1 DEF Tally
<1>4. IsFiniteSet(DOMAIN f) /\ \A y \in DOMAIN f : f[y] \in Int
  BY DEF Tally
<1>5. SumFunction(g) = SumFunction(f) + e
  BY <1>1, <1>2, <1>4, SumPut, SMTT(60)
<1>. QED BY <1>3, <1>5

Charted(s, idx, inc) == [s EXCEPT !.buckets[idx].points = PointsOf(@, inc)]

Classed(s, idx, inc) ==
    LET class == StatusClass(inc.labels["status"])
    IN  IF inc.metric = "http_reqs" /\ "status" \in DOMAIN inc.labels
        THEN [s EXCEPT !.buckets[idx].status = Set(@, class, At(@, class, 0) + inc.count)]
        ELSE s

LEMMA ClassedIs ==
    ASSUME NEW s, StoreShape(s), NEW idx, idx \in DOMAIN s.buckets, NEW b, b = s.buckets[idx], IsBucket(b),
           NEW inc, IsAgg(inc), NEW t, t = Classed(Charted(s, idx, inc), idx, inc)
    PROVE  /\ t.droppedEndpoints = s.droppedEndpoints
           /\ \E c : Rebucketed(t, s, idx, c) /\ IsBucket(c) /\ AddsPoints(c, b, inc) /\ c.endpoints = b.endpoints
<1>. DEFINE ps == PointsOf(b.points, inc)
            c1 == BucketOf(b.vusByNode, ps, b.status, b.endpoints)
            r == Charted(s, idx, inc)
<1>p. /\ Points(ps)
      /\ \A metric, of : IsChart(metric, of) =>
            /\ RollupAt(ps, metric, of) = RollupAt(b.points, metric, of) + Amount(metric, of, inc)
            /\ ScenarioSum(ps, metric, of) = ScenarioSum(b.points, metric, of) + Amount(metric, of, inc)
  <2>1. Points(b.points) /\ ps = PointsOf(b.points, inc)
    BY DEF IsBucket
  <2>. HIDE DEF ps
  <2>. QED BY <2>1, PointsOfIs
<1>1. r = [s EXCEPT !.buckets[idx] = c1]
  <2>1. r = [s EXCEPT !.buckets[idx] = [b EXCEPT !.points = ps]]
    BY DEF Charted
  <2>2. [b EXCEPT !.points = ps] = c1
    <3>. HIDE DEF ps
    <3>. QED BY DEF IsBucket, BucketOf
  <2>. QED BY <2>1, <2>2
<1>. HIDE DEF ps, r
<1>2. /\ c1.vusByNode = b.vusByNode /\ c1.points = ps /\ c1.status = b.status /\ c1.endpoints = b.endpoints
      /\ c1 = BucketOf(c1.vusByNode, c1.points, c1.status, c1.endpoints)
  BY DEF BucketOf
<1>. HIDE DEF c1
<1>3. Rebucketed(r, s, idx, c1) /\ r.droppedEndpoints = s.droppedEndpoints /\ IsBucket(c1)
  <2>1. Rebucketed(r, s, idx, c1) /\ r.droppedEndpoints = s.droppedEndpoints
    BY <1>1, ChangeBucket
  <2>2. IsBucket(c1)
    BY <1>2, <1>p DEF IsBucket
  <2>. QED BY <2>1, <2>2
<1>4. StoreShape(r) /\ idx \in DOMAIN r.buckets /\ r.buckets[idx] = c1
  BY <1>3 DEF Rebucketed, Keeps
<1>c. "status" \in DOMAIN inc.labels \/ inc.metric = "vus"
  BY DEF IsAgg, Kinded, Labelled
<1>k. inc.count \in Nat /\ IsChart("http_reqs", "count") /\ Tally(b.status) /\ SumFunction(b.status) \in Int
  <2>1. Tally(b.status)
    BY DEF IsBucket
  <2>2. SumFunction(b.status) \in Int
    BY <2>1, SumInt DEF Tally
  <2>. QED BY <2>1, <2>2 DEF IsAgg, IsChart
<1>5. CASE inc.metric = "http_reqs"
  <2>. DEFINE class == StatusClass(inc.labels["status"])
              f == Set(b.status, class, At(b.status, class, 0) + inc.count)
              c2 == BucketOf(b.vusByNode, ps, f, b.endpoints)
  <2>1. t = [r EXCEPT !.buckets[idx].status = Set(@, class, At(@, class, 0) + inc.count)]
    BY <1>5, <1>c DEF Classed, r
  <2>2. t = [r EXCEPT !.buckets[idx] = [c1 EXCEPT !.status = f]]
    <3>. HIDE DEF class
    <3>. QED BY <1>2, <1>4, <2>1
  <2>3. [c1 EXCEPT !.status = f] = c2
    <3>. HIDE DEF f
    <3>. QED BY <1>2 DEF BucketOf
  <2>4. Tally(f) /\ SumFunction(f) = SumFunction(b.status) + inc.count
    <3>. HIDE DEF class
    <3>. QED BY <1>k, TallyPut
  <2>. HIDE DEF f
  <2>5. /\ c2.vusByNode = b.vusByNode /\ c2.points = ps /\ c2.status = f /\ c2.endpoints = b.endpoints
        /\ c2 = BucketOf(c2.vusByNode, c2.points, c2.status, c2.endpoints)
    BY DEF BucketOf
  <2>. HIDE DEF c2
  <2>6. Rebucketed(t, r, idx, c2) /\ t.droppedEndpoints = r.droppedEndpoints
    BY <1>4, <2>2, <2>3, ChangeBucket
  <2>7. Rebucketed(t, s, idx, c2)
    BY <1>3, <2>6, KeepsOn DEF Rebucketed
  <2>8. Amount("http_reqs", "count", inc) = inc.count
    BY <1>5, <1>k, AmountIs DEF PointPart
  <2>9. IsBucket(c2) /\ AddsPoints(c2, b, inc)
    BY <1>p, <2>4, <2>5, <2>8 DEF IsBucket, AddsPoints
  <2>. QED BY <1>3, <2>5, <2>6, <2>7, <2>9
<1>6. CASE inc.metric # "http_reqs"
  <2>1. t = r
    BY <1>6 DEF Classed, r
  <2>2. Amount("http_reqs", "count", inc) = 0
    BY <1>6, <1>k, AmountIs
  <2>3. AddsPoints(c1, b, inc)
    <3>1. SumFunction(c1.status) = SumFunction(b.status) + Amount("http_reqs", "count", inc)
      BY <1>2, <1>k, <2>2
    <3>. QED BY <1>2, <1>p, <3>1 DEF AddsPoints
  <2>. QED BY <1>2, <1>3, <2>1, <2>3
<1>. QED BY <1>5, <1>6

LEMMA MergeBucketIs ==
    ASSUME NEW s, StoreShape(s), NEW idx, idx \in DOMAIN s.buckets, NEW b, b = s.buckets[idx], IsBucket(b),
           s.droppedEndpoints \in Nat, NEW inc, IsAgg(inc), NEW t, t = MergeBucket(s, idx, inc)
    PROVE  \E c : /\ Rebucketed(t, s, idx, c) /\ IsBucket(c) /\ AddsPoints(c, b, inc)
                  /\ \/ t.droppedEndpoints = s.droppedEndpoints + 1
                     \/ t.droppedEndpoints = s.droppedEndpoints /\ AddsEndpoints(c, b, inc)
<1>. DEFINE r == Classed(Charted(s, idx, inc), idx, inc)
            name == Get(inc.labels, "name")
<1>1. r.droppedEndpoints = s.droppedEndpoints
  BY ClassedIs
<1>2. PICK d : Rebucketed(r, s, idx, d) /\ IsBucket(d) /\ AddsPoints(d, b, inc) /\ d.endpoints = b.endpoints
  BY ClassedIs
<1>3. t = IF name = "" THEN r ELSE AddEndpointPoint(r, idx, name, inc)
  BY DEF MergeBucket, Classed, Charted
<1>n. name = Get(inc.labels, "name")
  OBVIOUS
<1>. HIDE DEF r, name
<1>4. StoreShape(r) /\ idx \in DOMAIN r.buckets /\ r.buckets[idx] = d
  BY <1>2 DEF Rebucketed, Keeps
<1>5. EndpointTable(b.endpoints)
  BY DEF IsBucket
<1>6. (name = "" <=> inc.metric = "vus") /\ (inc.metric # "vus" => inc.metric \in ChartedMetrics)
  BY <1>n DEF IsAgg, Kinded, Labelled, ChartedMetrics
<1>7. CASE name = ""
  <2>1. \A metric, of : IsChart(metric, of) => Amount(metric, of, inc) = 0
    BY <1>6, <1>7, AmountIs DEF IsChart
  <2>2. ASSUME NEW metric, NEW of, IsChart(metric, of)
        PROVE  /\ EndpointSum(d.endpoints, metric, of) = EndpointSum(b.endpoints, metric, of) + Amount(metric, of, inc)
               /\ \A x : EndpointAt(d.endpoints, x, metric, of)
                            = EndpointAt(b.endpoints, x, metric, of) + Part(OfEndpoint(metric, of, x), inc)
    <3>. DEFINE f == [x \in DOMAIN b.endpoints |-> EndpointPart(b.endpoints[x], metric, of)]
    <3>1. IsFiniteSet(DOMAIN f) /\ \A y \in DOMAIN f : f[y] \in Int
      BY <1>5, EndpointNat DEF EndpointTable
    <3>. HIDE DEF f
    <3>2. SumFunction(f) \in Int
      BY <3>1, SumInt
    <3>3. EndpointSum(b.endpoints, metric, of) \in Int
      BY <3>2 DEF f, EndpointSum
    <3>4. \A x : EndpointAt(b.endpoints, x, metric, of) \in Int
      BY <1>5, EndpointNat, NewEndpointIs DEF EndpointAt, At, EndpointTable
    <3>5. \A x : Part(OfEndpoint(metric, of, x), inc) = 0
      BY <2>1, <2>2, EndpointAmount
    <3>. QED BY <1>2, <2>1, <2>2, <3>3, <3>4, <3>5
  <2>3. AddsEndpoints(d, b, inc)
    BY <2>2 DEF AddsEndpoints
  <2>. QED BY <1>1, <1>2, <1>3, <1>7, <2>3
<1>8. CASE name # ""
  <2>. DEFINE all == r.buckets[idx].endpoints
              p == At(all, name, NewEndpointPoint)
              q == Pointed(p, inc)
              full == name \notin DOMAIN all /\ Cardinality(DOMAIN all) >= MaxChartedEndpoints
  <2>1. inc.metric \in ChartedMetrics /\ all = b.endpoints
    BY <1>2, <1>4, <1>6, <1>8
  <2>2. t = IF full THEN [r EXCEPT !.droppedEndpoints = @ + 1]
            ELSE [r EXCEPT !.buckets[idx].endpoints = Set(@, name, q)]
    <3>1. t = AddEndpointPoint(r, idx, name, inc)
      BY <1>3, <1>8
    <3>2. AddEndpointPoint(r, idx, name, inc) =
            CASE inc.metric \notin ChartedMetrics -> r
              [] full -> [r EXCEPT !.droppedEndpoints = @ + 1]
              [] OTHER -> [r EXCEPT !.buckets[idx].endpoints = Set(@, name, q)]
      BY DEF AddEndpointPoint, Pointed
    <3>. HIDE DEF full, q
    <3>. QED BY <2>1, <3>1, <3>2
  <2>3. CASE full
    <3>1. t = [r EXCEPT !.droppedEndpoints = s.droppedEndpoints + 1]
      BY <1>1, <2>2, <2>3
    <3>2. Keeps(t, r) /\ t.buckets = r.buckets /\ t.droppedEndpoints = s.droppedEndpoints + 1
      BY <1>4, <3>1, KeepsBuckets DEF StoreShape
    <3>3. Rebucketed(t, s, idx, d)
      BY <1>2, <3>2, KeepsOn DEF Rebucketed
    <3>. QED BY <1>2, <3>2, <3>3
  <2>4. CASE ~full
    <3>. DEFINE fs == Set(b.endpoints, name, q)
                c == BucketOf(d.vusByNode, d.points, d.status, fs)
    <3>1. t = [r EXCEPT !.buckets[idx] = [d EXCEPT !.endpoints = fs]]
      <4>. HIDE DEF q, full
      <4>. QED BY <1>4, <2>1, <2>2, <2>4
    <3>2. [d EXCEPT !.endpoints = fs] = c
      <4>. HIDE DEF fs
      <4>. QED BY <1>2 DEF IsBucket, BucketOf
    <3>3. /\ EndpointTable(fs)
          /\ \A metric, of : IsChart(metric, of) =>
                /\ EndpointSum(fs, metric, of) = EndpointSum(b.endpoints, metric, of) + Amount(metric, of, inc)
                /\ \A x : EndpointAt(fs, x, metric, of)
                            = EndpointAt(b.endpoints, x, metric, of) + Part(OfEndpoint(metric, of, x), inc)
      <4>1. fs = Set(b.endpoints, name, Pointed(At(b.endpoints, name, NewEndpointPoint), inc))
        BY <2>1
      <4>. HIDE DEF fs
      <4>. QED BY <1>5, <1>n, <2>1, <4>1, EndpointPut
    <3>. HIDE DEF fs
    <3>4. /\ c.vusByNode = d.vusByNode /\ c.points = d.points /\ c.status = d.status /\ c.endpoints = fs
          /\ c = BucketOf(c.vusByNode, c.points, c.status, c.endpoints)
      BY DEF BucketOf
    <3>. HIDE DEF c
    <3>5. Rebucketed(t, r, idx, c) /\ t.droppedEndpoints = r.droppedEndpoints
      BY <1>4, <3>1, <3>2, ChangeBucket
    <3>6. Rebucketed(t, s, idx, c)
      BY <1>2, <3>5, KeepsOn DEF Rebucketed
    <3>7. IsBucket(c) /\ AddsPoints(c, b, inc)
      BY <1>2, <3>3, <3>4 DEF IsBucket, AddsPoints
    <3>8. AddsEndpoints(c, b, inc)
      BY <3>3, <3>4 DEF AddsEndpoints
    <3>. QED BY <1>1, <3>5, <3>6, <3>7, <3>8
  <2>. QED BY <2>3, <2>4
<1>. QED BY <1>7, <1>8

(***************************************************************************)
(* The charts of a store: in each bucket the rollup is the sum of the      *)
(* scenarios, of the status classes and, unless some were left out, of the *)
(* endpoints, and over the buckets it adds up to the totals.               *)
(***************************************************************************)
BucketAgrees(b, whole) ==
    /\ \A metric, of : IsChart(metric, of) =>
        /\ RollupAt(b.points, metric, of) = ScenarioSum(b.points, metric, of)
        /\ whole => RollupAt(b.points, metric, of) = EndpointSum(b.endpoints, metric, of)
    /\ RollupAt(b.points, "http_reqs", "count") = SumFunction(b.status)

OverRollups(bs, metric, of) == SumFunction([i \in DOMAIN bs |-> RollupAt(bs[i].points, metric, of)])

OverEndpoints(bs, metric, of, x) == SumFunction([i \in DOMAIN bs |-> EndpointAt(bs[i].endpoints, x, metric, of)])

Totalled(s) ==
    /\ s.droppedSeries = 0 =>
        \A metric, of : IsChart(metric, of) =>
            Mass(OfMetric(metric, of, 0), s.cumulative) = OverRollups(s.buckets, metric, of)
    /\ s.droppedSeries = 0 /\ s.droppedEndpoints = 0 =>
        \A metric, of, x : IsChart(metric, of) =>
            Mass(OfEndpoint(metric, of, x), s.cumulative) = OverEndpoints(s.buckets, metric, of, x)

Buckets(s) ==
    /\ IsFiniteSet(DOMAIN s.buckets) /\ s.droppedEndpoints \in Nat
    /\ \A i \in DOMAIN s.buckets : IsBucket(s.buckets[i])

Charts(s) ==
    /\ Buckets(s) /\ Totalled(s)
    /\ \A i \in DOMAIN s.buckets : BucketAgrees(s.buckets[i], s.droppedEndpoints = 0)

LEMMA MergeCumulativeApart ==
    ASSUME NEW s, StoreShape(s), NEW inc, NEW r, r = MergeCumulative(s, inc)
    PROVE  r.buckets = s.buckets /\ r.droppedEndpoints = s.droppedEndpoints
<1>. DEFINE full == Find(s.cumulative, inc.metric, inc.labels) = {} /\ Cardinality(s.cumulative) >= StoreSeries
            target == GetOrCreate(s.cumulative, inc.metric, inc.labels, inc.kind)
            x == Put(s.cumulative, IF inc.kind = "gauge"
                       THEN [target EXCEPT !.count = @ + 1, !.gauge = inc.gauge]
                       ELSE MergeFrom(target, inc))
<1>1. r = IF full THEN [s EXCEPT !.droppedSeries = @ + 1] ELSE [s EXCEPT !.cumulative = x]
  BY DEF MergeCumulative
<1>. HIDE DEF full, x
<1>. QED BY <1>1 DEF StoreShape

LEMMA RollupsNat ==
    ASSUME NEW s, Buckets(s), NEW metric, NEW of, NEW x
    PROVE  \A i \in DOMAIN s.buckets : /\ RollupAt(s.buckets[i].points, metric, of) \in Nat
                                       /\ EndpointAt(s.buckets[i].endpoints, x, metric, of) \in Nat
<1>. SUFFICES ASSUME NEW i \in DOMAIN s.buckets
              PROVE  /\ RollupAt(s.buckets[i].points, metric, of) \in Nat
                     /\ EndpointAt(s.buckets[i].endpoints, x, metric, of) \in Nat
  OBVIOUS
<1>1. Points(s.buckets[i].points) /\ EndpointTable(s.buckets[i].endpoints)
  BY DEF Buckets, IsBucket
<1>2. RollupAt(s.buckets[i].points, metric, of) \in Nat
  BY <1>1, PartAtNat DEF RollupAt
<1>3. EndpointAt(s.buckets[i].endpoints, x, metric, of) \in Nat
  BY <1>1, EndpointNat, NewEndpointIs DEF EndpointAt, At, EndpointTable
<1>. QED BY <1>2, <1>3

(***************************************************************************)
(* What an increment of one bucket adds over all of them.                  *)
(***************************************************************************)
LEMMA OverChange ==
    ASSUME NEW s, Buckets(s), NEW idx, idx \in DOMAIN s.buckets, NEW t, NEW c, Rebucketed(t, s, idx, c),
           IsBucket(c), NEW inc, IsAgg(inc), AddsPoints(c, s.buckets[idx], inc), t.droppedEndpoints \in Nat
    PROVE  /\ Buckets(t)
           /\ \A metric, of : IsChart(metric, of) =>
                OverRollups(t.buckets, metric, of) = OverRollups(s.buckets, metric, of) + Amount(metric, of, inc)
           /\ AddsEndpoints(c, s.buckets[idx], inc) => \A metric, of, x : IsChart(metric, of) =>
                OverEndpoints(t.buckets, metric, of, x)
                    = OverEndpoints(s.buckets, metric, of, x) + Part(OfEndpoint(metric, of, x), inc)
<1>1. /\ DOMAIN t.buckets = DOMAIN s.buckets /\ t.buckets[idx] = c
      /\ \A i \in DOMAIN s.buckets : i # idx => t.buckets[i] = s.buckets[i]
  BY DEF Rebucketed
<1>2. Buckets(t) /\ IsFiniteSet(DOMAIN s.buckets)
  BY <1>1 DEF Buckets
<1>3. ASSUME NEW metric, NEW of, IsChart(metric, of)
      PROVE OverRollups(t.buckets, metric, of) = OverRollups(s.buckets, metric, of) + Amount(metric, of, inc)
  <2>. DEFINE f == [i \in DOMAIN s.buckets |-> RollupAt(s.buckets[i].points, metric, of)]
              g == [i \in DOMAIN t.buckets |-> RollupAt(t.buckets[i].points, metric, of)]
              e == Amount(metric, of, inc)
  <2>1. e \in Int
    BY <1>3, AmountIs
  <2>2. IsFiniteSet(DOMAIN f) /\ DOMAIN g = DOMAIN f \cup {idx} /\ idx \in DOMAIN f /\ \A y \in DOMAIN f : f[y] \in Int
    BY <1>1, <1>2, RollupsNat, SMTT(60)
  <2>3. \A y \in DOMAIN f : y # idx => g[y] = f[y]
    BY <1>1
  <2>4. g[idx] = f[idx] + e
    BY <1>1, <1>3 DEF AddsPoints
  <2>. HIDE DEF f, g, e
  <2>5. SumFunction(g) = SumFunction(f) + e
    BY <2>1, <2>2, <2>3, <2>4, SumPut
  <2>. QED BY <2>5 DEF f, g, e, OverRollups
<1>4. ASSUME AddsEndpoints(c, s.buckets[idx], inc), NEW metric, NEW of, NEW x, IsChart(metric, of)
      PROVE OverEndpoints(t.buckets, metric, of, x)
                = OverEndpoints(s.buckets, metric, of, x) + Part(OfEndpoint(metric, of, x), inc)
  <2>. DEFINE f == [i \in DOMAIN s.buckets |-> EndpointAt(s.buckets[i].endpoints, x, metric, of)]
              g == [i \in DOMAIN t.buckets |-> EndpointAt(t.buckets[i].endpoints, x, metric, of)]
              e == Part(OfEndpoint(metric, of, x), inc)
  <2>1. e \in Int
    BY <1>4, EndpointAmount, PartNat
  <2>2. IsFiniteSet(DOMAIN f) /\ DOMAIN g = DOMAIN f \cup {idx} /\ idx \in DOMAIN f /\ \A y \in DOMAIN f : f[y] \in Int
    BY <1>1, <1>2, RollupsNat, SMTT(60)
  <2>3. \A y \in DOMAIN f : y # idx => g[y] = f[y]
    BY <1>1
  <2>4. g[idx] = f[idx] + e
    BY <1>1, <1>4 DEF AddsEndpoints
  <2>. HIDE DEF f, g, e
  <2>5. SumFunction(g) = SumFunction(f) + e
    BY <2>1, <2>2, <2>3, <2>4, SumPut
  <2>. QED BY <2>5 DEF f, g, e, OverEndpoints
<1>. QED BY <1>2, <1>3, <1>4

LEMMA ChartsMore ==
    ASSUME NEW s, StoreShape(s), Table(s.cumulative), s.droppedSeries \in Nat, Charts(s),
           NEW idx, idx \in DOMAIN s.buckets, NEW inc, IsAgg(inc), NEW t,
           t = MergeBucket(MergeCumulative(s, inc), idx, inc)
    PROVE  Charts(t) /\ DOMAIN t.buckets = DOMAIN s.buckets
<1>. DEFINE r == MergeCumulative(s, inc)
            b == s.buckets[idx]
<1>1. Apart(r, s) /\ (Refuses(r, s, inc) \/ Merges(r, s, inc))
  BY MergeCumulativeIs
<1>2. r.buckets = s.buckets /\ r.droppedEndpoints = s.droppedEndpoints
  BY MergeCumulativeApart
<1>3. t = MergeBucket(r, idx, inc)
  OBVIOUS
<1>. HIDE DEF r
<1>4. StoreShape(r) /\ Buckets(s) /\ Totalled(s) /\ IsBucket(b) /\ BucketAgrees(b, s.droppedEndpoints = 0)
  BY <1>1 DEF Apart, Charts, Buckets
<1>b. b = s.buckets[idx] /\ b = r.buckets[idx] /\ idx \in DOMAIN r.buckets /\ r.droppedEndpoints \in Nat /\ Buckets(r)
  BY <1>2, <1>4 DEF Buckets
<1>. HIDE DEF b
<1>5. PICK c : /\ Rebucketed(t, r, idx, c) /\ IsBucket(c) /\ AddsPoints(c, b, inc)
               /\ \/ t.droppedEndpoints = r.droppedEndpoints + 1
                  \/ t.droppedEndpoints = r.droppedEndpoints /\ AddsEndpoints(c, b, inc)
  BY <1>3, <1>4, <1>b, MergeBucketIs
<1>6. t.droppedEndpoints \in Nat /\ (t.droppedEndpoints = 0 => s.droppedEndpoints = 0 /\ AddsEndpoints(c, b, inc))
  BY <1>2, <1>5, <1>b
<1>7. /\ Buckets(t)
      /\ \A metric, of : IsChart(metric, of) =>
            OverRollups(t.buckets, metric, of) = OverRollups(r.buckets, metric, of) + Amount(metric, of, inc)
      /\ AddsEndpoints(c, b, inc) => \A metric, of, x : IsChart(metric, of) =>
            OverEndpoints(t.buckets, metric, of, x)
                = OverEndpoints(r.buckets, metric, of, x) + Part(OfEndpoint(metric, of, x), inc)
  BY <1>5, <1>6, <1>b, OverChange
<1>8. /\ t.cumulative = r.cumulative /\ t.droppedSeries = r.droppedSeries
      /\ DOMAIN t.buckets = DOMAIN s.buckets /\ t.buckets[idx] = c
      /\ \A i \in DOMAIN s.buckets : i # idx => t.buckets[i] = s.buckets[i]
  BY <1>2, <1>5 DEF Rebucketed, Keeps
<1>9. BucketAgrees(c, t.droppedEndpoints = 0)
  <2>1. ASSUME NEW metric, NEW of, IsChart(metric, of)
        PROVE /\ RollupAt(c.points, metric, of) = ScenarioSum(c.points, metric, of)
              /\ t.droppedEndpoints = 0 => RollupAt(c.points, metric, of) = EndpointSum(c.endpoints, metric, of)
    <3>1. /\ RollupAt(c.points, metric, of) = RollupAt(b.points, metric, of) + Amount(metric, of, inc)
          /\ ScenarioSum(c.points, metric, of) = ScenarioSum(b.points, metric, of) + Amount(metric, of, inc)
      BY <1>5, <2>1 DEF AddsPoints
    <3>2. RollupAt(b.points, metric, of) = ScenarioSum(b.points, metric, of)
      BY <1>4, <2>1 DEF BucketAgrees
    <3>3. t.droppedEndpoints = 0 =>
            /\ EndpointSum(c.endpoints, metric, of) = EndpointSum(b.endpoints, metric, of) + Amount(metric, of, inc)
            /\ RollupAt(b.points, metric, of) = EndpointSum(b.endpoints, metric, of)
      BY <1>4, <1>6, <2>1 DEF BucketAgrees, AddsEndpoints
    <3>. QED BY <3>1, <3>2, <3>3
  <2>2. RollupAt(c.points, "http_reqs", "count") = SumFunction(c.status)
    <3>1. IsChart("http_reqs", "count")
      BY DEF IsChart
    <3>. QED BY <1>4, <1>5, <3>1 DEF BucketAgrees, AddsPoints
  <2>. QED BY <2>1, <2>2 DEF BucketAgrees
<1>10. ASSUME NEW i \in DOMAIN t.buckets PROVE BucketAgrees(t.buckets[i], t.droppedEndpoints = 0)
  <2>1. CASE i = idx
    BY <1>8, <1>9, <2>1
  <2>2. CASE i # idx
    <3>1. BucketAgrees(s.buckets[i], s.droppedEndpoints = 0) /\ t.buckets[i] = s.buckets[i]
      BY <1>8, <2>2 DEF Charts
    <3>. QED BY <1>6, <3>1 DEF BucketAgrees
  <2>. QED BY <2>1, <2>2
<1>11. Totalled(t)
  <2>1. CASE Refuses(r, s, inc)
    <3>1. t.droppedSeries # 0
      BY <1>8, <2>1 DEF Refuses
    <3>. QED BY <3>1 DEF Totalled
  <2>2. CASE Merges(r, s, inc)
    <3>1. t.droppedSeries = s.droppedSeries
      BY <1>8, <2>2 DEF Merges
    <3>2. ASSUME t.droppedSeries = 0, NEW metric, NEW of, IsChart(metric, of)
          PROVE Mass(OfMetric(metric, of, 0), t.cumulative) = OverRollups(t.buckets, metric, of)
      <4>1. Mass(OfMetric(metric, of, 0), s.cumulative) = OverRollups(s.buckets, metric, of)
        BY <1>4, <3>1, <3>2 DEF Totalled
      <4>2. IsMeasure(OfMetric(metric, of, 0))
        BY <3>2, AmountIs
      <4>3. Mass(OfMetric(metric, of, 0), t.cumulative) = Mass(OfMetric(metric, of, 0), s.cumulative) + Amount(metric, of, inc)
        BY <1>8, <2>2, <4>2 DEF Merges, Amount
      <4>. QED BY <1>2, <1>7, <3>2, <4>1, <4>3
    <3>3. ASSUME t.droppedSeries = 0, t.droppedEndpoints = 0, NEW metric, NEW of, NEW x, IsChart(metric, of)
          PROVE Mass(OfEndpoint(metric, of, x), t.cumulative) = OverEndpoints(t.buckets, metric, of, x)
      <4>. DEFINE k == OfEndpoint(metric, of, x)
      <4>1. Mass(k, s.cumulative) = OverEndpoints(s.buckets, metric, of, x)
        BY <1>4, <1>6, <3>1, <3>3 DEF Totalled
      <4>2. IsMeasure(k)
        BY <3>3, EndpointAmount
      <4>4. OverEndpoints(t.buckets, metric, of, x) = OverEndpoints(s.buckets, metric, of, x) + Part(k, inc)
        BY <1>2, <1>6, <1>7, <3>3
      <4>. HIDE DEF k
      <4>3. Mass(k, t.cumulative) = Mass(k, s.cumulative) + Part(k, inc)
        BY <1>8, <2>2, <4>2 DEF Merges
      <4>5. Mass(k, t.cumulative) = OverEndpoints(t.buckets, metric, of, x)
        BY <4>1, <4>3, <4>4
      <4>. QED BY <4>5 DEF k
    <3>. QED BY <3>2, <3>3 DEF Totalled
  <2>. QED BY <1>1, <2>1, <2>2
<1>. QED BY <1>7, <1>8, <1>10, <1>11 DEF Charts

LEMMA ChartsSame ==
    ASSUME NEW s, Charts(s), NEW t, t.cumulative = s.cumulative, t.buckets = s.buckets,
           t.droppedSeries = s.droppedSeries, t.droppedEndpoints = s.droppedEndpoints
    PROVE  Charts(t)
<1>1. Buckets(t)
  BY DEF Charts, Buckets
<1>2. Totalled(t)
  BY DEF Charts, Totalled
<1>3. \A i \in DOMAIN t.buckets : BucketAgrees(t.buckets[i], t.droppedEndpoints = 0)
  BY DEF Charts
<1>. QED BY <1>1, <1>2, <1>3 DEF Charts

LEMMA NewBucketIs ==
    /\ IsBucket(NewBucket) /\ \A whole : BucketAgrees(NewBucket, whole)
    /\ \A metric, of : RollupAt(NewBucket.points, metric, of) = 0
    /\ \A metric, of, x : EndpointAt(NewBucket.endpoints, x, metric, of) = 0
<1>. DEFINE b == NewBucket
            e == <<>>
<1>1. DOMAIN e = {} /\ IsFiniteSet({})
  BY FS_EmptySet
<1>2. b = BucketOf(e, e, e, e)
  BY DEF NewBucket, Empty, BucketOf
<1>. HIDE DEF b, e
<1>3. b.vusByNode = e /\ b.points = e /\ b.status = e /\ b.endpoints = e
  BY <1>2 DEF BucketOf
<1>4. IsBucket(b)
  BY <1>1, <1>2, <1>3 DEF IsBucket, Points, Tally, EndpointTable
<1>5. ASSUME NEW metric, NEW of PROVE RollupAt(e, metric, of) = 0
  <2>1. \A key : At(e, key, NewPoint) = NewPoint
    BY <1>1 DEF At
  <2>. QED BY <2>1, NewPointIs DEF RollupAt, PartAt
<1>6. ASSUME NEW metric, NEW of, NEW x PROVE EndpointAt(e, x, metric, of) = 0
  BY <1>1, NewEndpointIs DEF EndpointAt, At
<1>7. \A f : DOMAIN f = {} => SumFunction(f) = 0
  BY <1>1, SumZero
<1>8. ASSUME NEW metric, NEW of PROVE ScenarioSum(e, metric, of) = 0 /\ EndpointSum(e, metric, of) = 0
  <2>. DEFINE f == [sc \in ScenariosIn(e) |-> PartAt(e, metric, sc, of)]
              g == [name \in DOMAIN e |-> EndpointPart(e[name], metric, of)]
  <2>1. DOMAIN f = {} /\ DOMAIN g = {}
    BY <1>1 DEF ScenariosIn
  <2>2. ScenarioSum(e, metric, of) = SumFunction(f) /\ EndpointSum(e, metric, of) = SumFunction(g)
    BY DEF ScenarioSum, EndpointSum
  <2>. HIDE DEF f, g
  <2>. QED BY <1>7, <2>1, <2>2
<1>9. SumFunction(e) = 0
  BY <1>1, <1>7
<1>10. ASSUME NEW whole PROVE BucketAgrees(b, whole)
  BY <1>3, <1>5, <1>8, <1>9 DEF BucketAgrees
<1>. QED BY <1>3, <1>4, <1>5, <1>6, <1>10 DEF b

(***************************************************************************)
(* Opening a bucket, or counting a node's virtual users in it, shows       *)
(* nothing more of the metrics.                                            *)
(***************************************************************************)
LEMMA OpenCharts ==
    ASSUME NEW s, Charts(s), NEW t, NEW idx, Reopens(t.buckets, s.buckets, idx),
           t.cumulative = s.cumulative, t.droppedSeries = s.droppedSeries,
           t.droppedEndpoints = s.droppedEndpoints
    PROVE  Charts(t) /\ idx \in DOMAIN t.buckets
<1>0. PICK v : t.buckets = Set(s.buckets, idx, [At(s.buckets, idx, NewBucket) EXCEPT !.vusByNode = v])
  BY DEF Reopens
<1>. DEFINE b == At(s.buckets, idx, NewBucket)
            c == [b EXCEPT !.vusByNode = v]
<1>1. /\ (idx \in DOMAIN s.buckets => b = s.buckets[idx]) /\ (idx \notin DOMAIN s.buckets => b = NewBucket)
      /\ IsBucket(b) /\ BucketAgrees(b, s.droppedEndpoints = 0)
  BY NewBucketIs DEF At, Charts, Buckets
<1>. HIDE DEF b
<1>2. c = BucketOf(v, b.points, b.status, b.endpoints)
  BY <1>1 DEF IsBucket, BucketOf
<1>3. t.buckets = Set(s.buckets, idx, c)
  BY <1>0 DEF b
<1>. HIDE DEF c
<1>4. c.vusByNode = v /\ c.points = b.points /\ c.status = b.status /\ c.endpoints = b.endpoints
  BY <1>2 DEF BucketOf
<1>5. IsBucket(c) /\ BucketAgrees(c, s.droppedEndpoints = 0)
  BY <1>1, <1>2, <1>4 DEF IsBucket, BucketAgrees
<1>6. /\ DOMAIN t.buckets = DOMAIN s.buckets \cup {idx} /\ t.buckets[idx] = c
      /\ \A i \in DOMAIN s.buckets : i # idx => t.buckets[i] = s.buckets[i]
  BY <1>3 DEF Set
<1>7. Buckets(s) /\ IsFiniteSet(DOMAIN s.buckets) /\ Totalled(s)
  BY DEF Charts, Buckets
<1>8. Buckets(t)
  <2>1. IsFiniteSet(DOMAIN t.buckets)
    BY <1>6, <1>7, FS_AddElement
  <2>. QED BY <1>5, <1>6, <1>7, <2>1 DEF Buckets
<1>9. ASSUME NEW metric, NEW of, NEW x
      PROVE  /\ OverRollups(t.buckets, metric, of) = OverRollups(s.buckets, metric, of)
             /\ OverEndpoints(t.buckets, metric, of, x) = OverEndpoints(s.buckets, metric, of, x)
  <2>. DEFINE f == [i \in DOMAIN s.buckets |-> RollupAt(s.buckets[i].points, metric, of)]
              g == [i \in DOMAIN t.buckets |-> RollupAt(t.buckets[i].points, metric, of)]
              f2 == [i \in DOMAIN s.buckets |-> EndpointAt(s.buckets[i].endpoints, x, metric, of)]
              g2 == [i \in DOMAIN t.buckets |-> EndpointAt(t.buckets[i].endpoints, x, metric, of)]
  <2>1. /\ \A i \in DOMAIN s.buckets : f[i] \in Int /\ f2[i] \in Int
        /\ DOMAIN f = DOMAIN s.buckets /\ DOMAIN f2 = DOMAIN s.buckets
        /\ DOMAIN g = DOMAIN s.buckets \cup {idx} /\ DOMAIN g2 = DOMAIN s.buckets \cup {idx}
    BY <1>6, <1>7, RollupsNat, SMTT(60)
  <2>2. \A i \in DOMAIN s.buckets : i # idx => g[i] = f[i] /\ g2[i] = f2[i]
    BY <1>6
  <2>3. g[idx] = (IF idx \in DOMAIN f THEN f[idx] ELSE 0) + 0
    <3>1. g[idx] = RollupAt(b.points, metric, of) /\ RollupAt(b.points, metric, of) \in Int
      <4>1. Points(b.points)
        BY <1>1 DEF IsBucket
      <4>2. RollupAt(b.points, metric, of) \in Nat
        BY <4>1, PartAtNat DEF RollupAt
      <4>3. g[idx] = RollupAt(c.points, metric, of)
        BY <1>6
      <4>. QED BY <1>4, <4>2, <4>3
    <3>2. idx \in DOMAIN f => f[idx] = RollupAt(b.points, metric, of)
      BY <1>1
    <3>3. idx \notin DOMAIN f => RollupAt(b.points, metric, of) = 0
      BY <1>1, NewBucketIs
    <3>. HIDE DEF f, g
    <3>. QED BY <3>1, <3>2, <3>3
  <2>4. g2[idx] = (IF idx \in DOMAIN f2 THEN f2[idx] ELSE 0) + 0
    <3>1. g2[idx] = EndpointAt(b.endpoints, x, metric, of) /\ EndpointAt(b.endpoints, x, metric, of) \in Int
      BY <1>1, <1>4, <1>6, EndpointNat, NewEndpointIs DEF EndpointAt, At, EndpointTable, IsBucket
    <3>2. idx \in DOMAIN f2 => f2[idx] = EndpointAt(b.endpoints, x, metric, of)
      BY <1>1
    <3>3. idx \notin DOMAIN f2 => EndpointAt(b.endpoints, x, metric, of) = 0
      BY <1>1, NewBucketIs
    <3>. HIDE DEF f2, g2
    <3>. QED BY <3>1, <3>2, <3>3
  <2>. HIDE DEF f, g, f2, g2
  <2>5. SumFunction(g) = SumFunction(f) + 0 /\ SumFunction(f) \in Int
    BY <1>7, <2>1, <2>2, <2>3, SumPut, SumInt
  <2>6. SumFunction(g2) = SumFunction(f2) + 0 /\ SumFunction(f2) \in Int
    BY <1>7, <2>1, <2>2, <2>4, SumPut, SumInt
  <2>7. SumFunction(g) = SumFunction(f) /\ SumFunction(g2) = SumFunction(f2)
    BY <2>5, <2>6
  <2>. QED BY <2>7 DEF f, g, f2, g2, OverRollups, OverEndpoints
<1>10. Totalled(t)
  BY <1>7, <1>9 DEF Totalled
<1>11. \A i \in DOMAIN t.buckets : BucketAgrees(t.buckets[i], t.droppedEndpoints = 0)
  BY <1>5, <1>6 DEF Charts
<1>. QED BY <1>6, <1>8, <1>10, <1>11 DEF Charts

LEMMA IngestCharts ==
    ASSUME NEW s, StoreShape(s), Table(s.cumulative), s.droppedSeries \in Nat, Charts(s),
           NEW batch, Shipped(batch.series), NEW order, Lists(order, batch.series), NEW reported
    PROVE  Charts(Ingest(s, batch, order, reported))
<1>. DEFINE D == batch.series
            idx == batch.bucket
            open == Opening(s, batch)
            Failed(x) == FoldLeft(IngestFailure, x, reported)
            r == Ingest(s, batch, order, reported)
            n == Len(order)
<1>1. PICK st : /\ IngestSteps(st, Start(open), order, idx, n)
                /\ r = IF st[n].ok THEN [st[n].store EXCEPT !.failures = Failed(@)] ELSE st[n].store
  <2>1. order \in Seq(batch.series)
    BY DEF Lists
  <2>. QED BY <2>1, IngestRuns, Zenon
<1>2. /\ StoreShape(open) /\ open.cumulative = s.cumulative /\ open.droppedSeries = s.droppedSeries
      /\ open.droppedEndpoints = s.droppedEndpoints
      /\ Reopens(open.buckets, s.buckets, idx)
  BY OpeningIs
<1>. HIDE DEF open, r, idx
<1>3. Charts(open) /\ idx \in DOMAIN open.buckets
  BY <1>2, OpenCharts
<1>4. /\ n \in Nat /\ st[n].ok
      /\ \A i \in 0 .. n : IsOk(st[i]) /\ Ingested(st[i].store, open, FirstOf(order, i))
      /\ \A i \in 1 .. n :
            /\ IsDelta(order[i])
            /\ st[i].store = MergeBucket(MergeCumulative(st[i - 1].store, Incoming(order[i])), idx, Incoming(order[i]))
  <2>1. Shipped(D) /\ Lists(order, D) /\ Table(open.cumulative) /\ open.droppedSeries \in Nat
    BY <1>2
  <2>. HIDE DEF D
  <2>. QED BY <1>1, <1>2, <2>1, IngestedAll
<1>. HIDE DEF n
<1>. DEFINE Good == {i \in Nat : i <= n => Charts(st[i].store) /\ idx \in DOMAIN st[i].store.buckets}
<1>5. 0 \in Good
  <2>1. st[0] = [store |-> open, ok |-> TRUE]
    BY <1>1 DEF IngestSteps, Start
  <2>2. st[0].store = open
    BY <2>1, OkStart
  <2>. QED BY <1>3, <2>2
<1>6. ASSUME NEW i \in Nat, i \in Good PROVE i + 1 \in Good
  <2>. SUFFICES ASSUME i + 1 <= n
                PROVE  Charts(st[i + 1].store) /\ idx \in DOMAIN st[i + 1].store.buckets
    OBVIOUS
  <2>. DEFINE inc == Incoming(order[i + 1])
              x == st[i].store
              y == st[i + 1].store
  <2>1. i + 1 \in 1 .. n /\ (i + 1) - 1 = i /\ i \in 0 .. n /\ i <= n
    BY <1>4
  <2>2. IsDelta(order[i + 1]) /\ y = MergeBucket(MergeCumulative(x, inc), idx, inc)
    BY <1>4, <2>1
  <2>3. IsAgg(inc)
    BY <2>2, DeltaIs
  <2>4. StoreShape(x) /\ Table(x.cumulative) /\ x.droppedSeries \in Nat
    BY <1>4, <2>1 DEF Ingested, Apart
  <2>5. Charts(x) /\ idx \in DOMAIN x.buckets
    BY <1>6, <2>1
  <2>. HIDE DEF inc, x, y
  <2>6. Charts(y) /\ DOMAIN y.buckets = DOMAIN x.buckets
    BY <2>2, <2>3, <2>4, <2>5, ChartsMore
  <2>. QED BY <2>5, <2>6 DEF y
<1>. HIDE DEF Good
<1>7. n \in Good
  BY <1>4, <1>5, <1>6, NumberInduction
<1>. DEFINE t == st[n].store
            f == Failed(t.failures)
<1>8. Charts(t)
  BY <1>4, <1>7 DEF Good
<1>9. r = [t EXCEPT !.failures = f]
  BY <1>1, <1>4
<1>10. StoreShape(t)
  <2>1. n \in 0 .. n
    BY <1>4
  <2>. QED BY <1>4, <2>1 DEF Ingested, Apart
<1>. HIDE DEF t, f
<1>11. /\ r.cumulative = t.cumulative /\ r.droppedSeries = t.droppedSeries
       /\ r.buckets = t.buckets /\ r.droppedEndpoints = t.droppedEndpoints
  BY <1>9, <1>10 DEF StoreShape
<1>12. Charts(r)
  BY <1>8, <1>11, ChartsSame
<1>. QED BY <1>12 DEF r

(***************************************************************************)
(* A sum by the classes of a function.                                     *)
(***************************************************************************)
LEMMA SumClasses ==
    ASSUME NEW f, IsFiniteSet(DOMAIN f), \A x \in DOMAIN f : f[x] \in Int, NEW h, NEW g,
           DOMAIN g = {h[x] : x \in DOMAIN f},
           \A y \in DOMAIN g : g[y] = SumFunction([x \in {z \in DOMAIN f : h[z] = y} |-> f[x]])
    PROVE  SumFunction(g) = SumFunction(f)
<1>. DEFINE Y == DOMAIN g
            D == DOMAIN f
            Over(B) == {x \in D : h[x] \in B}
            Good == {B \in SUBSET Y : SumFunctionOnSet(g, B) = SumFunctionOnSet(f, Over(B))}
<1>0. IsFiniteSet(Y)
  BY ImageFinite
<1>1. {} \in Good
  <2>1. Over({}) = {}
    OBVIOUS
  <2>. QED BY <2>1, SumEmpty
<1>2. ASSUME NEW B \in SUBSET Y, NEW y \in Y, y \in B, B \ {y} \in Good PROVE B \in Good
  <2>. DEFINE C == Over(B \ {y})
              E == Over({y})
              fE == [x \in E |-> f[x]]
  <2>1. Over(B) = C \cup E /\ C \cap E = {} /\ C \subseteq D /\ E \subseteq D
    BY <1>2
  <2>2. g[y] = SumFunction(fE)
    <3>1. E = {z \in DOMAIN f : h[z] = y}
      OBVIOUS
    <3>. QED BY <3>1
  <2>3. SumFunctionOnSet(g, B \ {y}) = SumFunctionOnSet(f, C)
    BY <1>2
  <2>4. \A z \in Y : g[z] \in Int
    <3>. SUFFICES ASSUME NEW z \in Y PROVE g[z] \in Int
      OBVIOUS
    <3>. DEFINE e == [x \in {w \in DOMAIN f : h[w] = z} |-> f[x]]
    <3>1. IsFiniteSet(DOMAIN e) /\ (\A x \in DOMAIN e : e[x] \in Int) /\ g[z] = SumFunction(e)
      BY FS_Subset
    <3>. HIDE DEF e
    <3>. QED BY <3>1, SumInt
  <2>. HIDE DEF C, E, Over
  <2>5. IsFiniteSet(C) /\ IsFiniteSet(E) /\ IsFiniteSet(C \cup E) /\ IsFiniteSet(B)
    <3>1. IsFiniteSet(C) /\ IsFiniteSet(E)
      BY <2>1, FS_Subset
    <3>2. IsFiniteSet(B)
      BY <1>0, FS_Subset
    <3>. QED BY <3>1, <3>2, FS_Union
  <2>6. SumFunctionOnSet(g, B) = g[y] + SumFunctionOnSet(g, B \ {y})
    BY <1>2, <2>4, <2>5, SumRemove
  <2>7. SumFunctionOnSet(f, C \cup E) = SumFunctionOnSet(f, C) + SumFunctionOnSet(f, E)
    BY <2>1, <2>5, SumUnion
  <2>8. SumFunction(fE) = SumFunctionOnSet(f, E)
    <3>1. DOMAIN fE = E /\ \A x \in E : fE[x] \in Int /\ fE[x] = f[x]
      BY <2>1
    <3>. HIDE DEF fE
    <3>2. SumFunctionOnSet(fE, E) = SumFunctionOnSet(f, E)
      BY <2>5, <3>1, SumSame
    <3>. QED BY <3>1, <3>2 DEF SumFunction
  <2>9. SumFunctionOnSet(f, C) \in Int /\ SumFunctionOnSet(f, E) \in Int
    BY <2>1, SumsInt
  <2>10. SumFunctionOnSet(g, B) = SumFunctionOnSet(f, Over(B))
    <3>. HIDE DEF fE
    <3>. QED BY <2>1, <2>2, <2>3, <2>6, <2>7, <2>8, <2>9
  <2>. QED BY <2>10
<1>3. Over(Y) = D
  OBVIOUS
<1>. HIDE DEF Good, Over
<1>4. Y \in Good
  BY <1>0, <1>1, <1>2, ElementInduction
<1>5. SumFunctionOnSet(g, Y) = SumFunctionOnSet(f, D)
  BY <1>3, <1>4 DEF Good
<1>. QED BY <1>5 DEF SumFunction

(***************************************************************************)
(* What the tables show is what the totals hold of it.                     *)
(***************************************************************************)
LEMMA MassIs ==
    ASSUME NEW m, Aggs(m), NEW k, IsMeasure(k), NEW g, DOMAIN g \subseteq m,
           \A a \in DOMAIN g : g[a] = Part(k, a), \A a \in m : a \notin DOMAIN g => Part(k, a) = 0
    PROVE  SumFunction(g) = Mass(k, m)
<1>. DEFINE f == [a \in m |-> Part(k, a)]
<1>1. DOMAIN f = m /\ IsFiniteSet(m) /\ \A a \in m : f[a] \in Int /\ f[a] = Part(k, a)
  BY PartNat DEF Aggs
<1>2. Mass(k, m) = SumFunction(f)
  BY DEF Mass
<1>. HIDE DEF f
<1>3. SumFunction(f) = SumFunction(g)
  BY <1>1, SumWhere
<1>. QED BY <1>2, <1>3

LEMMA TotalsAre ==
    ASSUME NEW s, Table(s.cumulative), NEW metric, NEW of, IsChart(metric, of)
    PROVE  PointPart(Totals(s, metric), of) = Mass(OfMetric(metric, of, 0), s.cumulative)
<1>. DEFINE m == s.cumulative
            all == SeriesOf(s, metric)
            k == OfMetric(metric, of, 0)
            c == [a \in all |-> a.count]
            u == [a \in all |-> IF a.kind = "gauge" THEN a.gauge ELSE a.sum]
            z == [a \in all |-> a.nonZero]
            g == IF of = "count" THEN c ELSE IF of = "nonZero" THEN z ELSE u
<1>1. Aggs(m) /\ all = {a \in m : a.metric = metric}
  BY DEF Table, SeriesOf
<1>2. \A a \in m : IsAgg(a)
  BY <1>1 DEF Aggs
<1>3. /\ DOMAIN g = all /\ \A a \in all : g[a] = IF of = "count" THEN a.count ELSE IF of = "nonZero" THEN a.nonZero
                                                ELSE IF a.kind = "gauge" THEN a.gauge ELSE a.sum
  <2>. HIDE DEF all
  <2>. QED OBVIOUS
<1>4. PointPart(Totals(s, metric), of) = SumFunction(g)
  <2>1. /\ Totals(s, metric).count = SumFunction(c) /\ Totals(s, metric).sum = SumFunction(u)
        /\ Totals(s, metric).nonZero = SumFunction(z)
    BY DEF Totals
  <2>. HIDE DEF c, u, z
  <2>. QED BY <2>1 DEF PointPart
<1>. HIDE DEF g, all, m
<1>5. ASSUME NEW a \in m
      PROVE  (a \in all => g[a] = Part(k, a)) /\ (a \notin all => Part(k, a) = 0)
  <2>1. /\ metric # a.metric => Part(k, a) = 0
        /\ metric = a.metric => a.kind # "gauge" /\ Part(k, a) = PointPart(a, of)
    BY <1>2, AmountIs DEF Amount
  <2>2. a \in all <=> a.metric = metric
    BY <1>1
  <2>. HIDE DEF k
  <2>. QED BY <1>3, <2>1, <2>2 DEF PointPart
<1>6. IsMeasure(k)
  BY DEF IsMeasure, OfMetric, IsChart
<1>7. DOMAIN g \subseteq m
  BY <1>1, <1>3
<1>. HIDE DEF k
<1>8. SumFunction(g) = Mass(k, m)
  BY <1>1, <1>3, <1>5, <1>6, <1>7, MassIs
<1>. QED BY <1>4, <1>8 DEF k, m

LEMMA EndpointMass ==
    ASSUME NEW m, Aggs(m), NEW metric, NEW of, IsChart(metric, of), NEW name, NEW g,
           DOMAIN g = {a \in m : a.metric = metric /\ Get(a.labels, "name") = name},
           \A a \in DOMAIN g : g[a] = PointPart(a, of)
    PROVE  SumFunction(g) = Mass(OfEndpoint(metric, of, name), m)
<1>. DEFINE k == OfEndpoint(metric, of, name)
<1>1. ASSUME NEW a \in m
      PROVE  (a \in DOMAIN g => g[a] = Part(k, a)) /\ (a \notin DOMAIN g => Part(k, a) = 0)
  <2>0. IsAgg(a)
    BY DEF Aggs
  <2>1. /\ metric # a.metric => Amount(metric, of, a) = 0
        /\ metric = a.metric => Amount(metric, of, a) = PointPart(a, of)
    BY <2>0, AmountIs
  <2>2. Part(k, a) = IF name = Get(a.labels, "name") THEN Amount(metric, of, a) ELSE 0
    BY <2>0, EndpointAmount
  <2>. HIDE DEF k
  <2>. QED BY <2>1, <2>2
<1>2. IsMeasure(k)
  BY DEF IsMeasure, OfEndpoint, IsChart
<1>. HIDE DEF k
<1>3. SumFunction(g) = Mass(k, m)
  BY <1>1, <1>2, MassIs
<1>. QED BY <1>3 DEF k

LEMMA EndpointShows ==
    ASSUME NEW s, Table(s.cumulative), NEW name, NEW e, e = Endpoint(s, name)
    PROVE  /\ e.requests = Mass(OfEndpoint("http_req_duration", "count", name), s.cumulative)
           /\ e.sum = Mass(OfEndpoint("http_req_duration", "sum", name), s.cumulative)
           /\ e.failures = Mass(OfEndpoint("http_req_failed", "nonZero", name), s.cumulative)
           /\ SumFunction(e.statuses) = Mass(OfEndpoint("http_reqs", "count", name), s.cumulative)
<1>. DEFINE m == s.cumulative
            of(metric) == {a \in SeriesOf(s, metric) : Get(a.labels, "name") = name}
            timed == of("http_req_duration")
            replied == of("http_reqs")
            failed == of("http_req_failed")
            c == [a \in timed |-> a.count]
            u == [a \in timed |-> a.sum]
            z == [a \in failed |-> a.nonZero]
            r == [a \in replied |-> a.count]
            h == [a \in replied |-> a.labels["status"]]
            st == [x \in {a.labels["status"] : a \in replied} |->
                      SumFunction([a \in {b \in replied : b.labels["status"] = x} |-> a.count])]
<1>1. Aggs(m) /\ \A metric : of(metric) = {a \in m : a.metric = metric /\ Get(a.labels, "name") = name}
  BY DEF Table, SeriesOf
<1>2. /\ e.requests = SumFunction(c) /\ e.sum = SumFunction(u) /\ e.failures = SumFunction(z) /\ e.statuses = st
  BY DEF Endpoint
<1>3. SumFunction(st) = SumFunction(r)
  <2>1. DOMAIN r = replied /\ IsFiniteSet(replied) /\ \A a \in replied : r[a] \in Int
    BY <1>1, FS_Subset DEF Aggs, IsAgg
  <2>. HIDE DEF replied
  <2>2. DOMAIN st = {h[a] : a \in DOMAIN r}
    BY <2>1
  <2>3. ASSUME NEW y \in DOMAIN st PROVE st[y] = SumFunction([a \in {b \in DOMAIN r : h[b] = y} |-> r[a]])
    <3>1. {b \in DOMAIN r : h[b] = y} = {b \in replied : b.labels["status"] = y}
      BY <2>1
    <3>. DEFINE T == {b \in replied : b.labels["status"] = y}
    <3>2. [a \in T |-> r[a]] = [a \in T |-> a.count]
      BY <2>1
    <3>3. st[y] = SumFunction([a \in T |-> a.count])
      OBVIOUS
    <3>. HIDE DEF T, r, st, h
    <3>. QED BY <3>1, <3>2, <3>3 DEF T
  <2>. HIDE DEF r, h, st
  <2>. QED BY <2>1, <2>2, <2>3, SumClasses
<1>4. /\ IsChart("http_req_duration", "count") /\ IsChart("http_req_duration", "sum")
      /\ IsChart("http_req_failed", "nonZero") /\ IsChart("http_reqs", "count")
  BY DEF IsChart
<1>. HIDE DEF of, m
<1>5. SumFunction(c) = Mass(OfEndpoint("http_req_duration", "count", name), m)
  <2>1. DOMAIN c = timed /\ \A a \in DOMAIN c : c[a] = PointPart(a, "count")
    BY DEF PointPart
  <2>. HIDE DEF c
  <2>. QED BY <1>1, <1>4, <2>1, EndpointMass
<1>6. SumFunction(u) = Mass(OfEndpoint("http_req_duration", "sum", name), m)
  <2>1. DOMAIN u = timed /\ \A a \in DOMAIN u : u[a] = PointPart(a, "sum")
    BY DEF PointPart
  <2>. HIDE DEF u
  <2>. QED BY <1>1, <1>4, <2>1, EndpointMass
<1>7. SumFunction(z) = Mass(OfEndpoint("http_req_failed", "nonZero", name), m)
  <2>1. DOMAIN z = failed /\ \A a \in DOMAIN z : z[a] = PointPart(a, "nonZero")
    BY DEF PointPart
  <2>. HIDE DEF z
  <2>. QED BY <1>1, <1>4, <2>1, EndpointMass
<1>8. SumFunction(r) = Mass(OfEndpoint("http_reqs", "count", name), m)
  <2>1. DOMAIN r = replied /\ \A a \in DOMAIN r : r[a] = PointPart(a, "count")
    BY DEF PointPart
  <2>. HIDE DEF r
  <2>. QED BY <1>1, <1>4, <2>1, EndpointMass
<1>. HIDE DEF c, u, z, r, st
<1>. QED BY <1>2, <1>3, <1>5, <1>6, <1>7, <1>8 DEF m

LEMMA TickIs ==
    ASSUME NEW b, NEW t, t = BucketToTick(b)
    PROVE  /\ t.requests = RollupAt(b.points, "http_reqs", "count")
           /\ t.failures = RollupAt(b.points, "http_req_failed", "nonZero")
           /\ t.duration.count = RollupAt(b.points, "http_req_duration", "count")
           /\ t.duration.sum = RollupAt(b.points, "http_req_duration", "sum")
           /\ t.status = b.status
           /\ DOMAIN t.scenarios = ScenariosIn(b.points)
           /\ \A sc \in ScenariosIn(b.points) :
                /\ t.scenarios[sc].requests = PartAt(b.points, "http_reqs", sc, "count")
                /\ t.scenarios[sc].failures = PartAt(b.points, "http_req_failed", sc, "nonZero")
           /\ DOMAIN t.endpoints = DOMAIN b.endpoints
           /\ \A name \in DOMAIN b.endpoints : t.endpoints[name] = b.endpoints[name]
<1>1. /\ t.requests = Rollup(b, "http_reqs").count
      /\ t.failures = Rollup(b, "http_req_failed").nonZero
      /\ t.duration = Rollup(b, "http_req_duration")
      /\ t.status = b.status /\ t.scenarios = ScenarioTicks(b) /\ t.endpoints = EndpointTicks(b)
  BY DEF BucketToTick
<1>2. \A metric : /\ RollupAt(b.points, metric, "count") = Rollup(b, metric).count
                  /\ RollupAt(b.points, metric, "nonZero") = Rollup(b, metric).nonZero
                  /\ RollupAt(b.points, metric, "sum") = Rollup(b, metric).sum
  BY DEF RollupAt, PartAt, PointPart, Rollup
<1>3. /\ DOMAIN t.scenarios = ScenariosIn(b.points)
      /\ \A sc \in ScenariosIn(b.points) :
            /\ t.scenarios[sc].requests = PartAt(b.points, "http_reqs", sc, "count")
            /\ t.scenarios[sc].failures = PartAt(b.points, "http_req_failed", sc, "nonZero")
  <2>. DEFINE S == ScenariosIn(b.points)
  <2>1. t.scenarios = [sc \in S |->
            [vus |-> At(b.points, <<"vus", sc>>, NewPoint).sum,
             requests |-> At(b.points, <<"http_reqs", sc>>, NewPoint).count,
             failures |-> At(b.points, <<"http_req_failed", sc>>, NewPoint).nonZero]]
    BY <1>1 DEF ScenarioTicks, ScenariosIn
  <2>. HIDE DEF S
  <2>2. DOMAIN t.scenarios = S
    BY <2>1
  <2>3. ASSUME NEW sc \in S
        PROVE  /\ t.scenarios[sc].requests = PartAt(b.points, "http_reqs", sc, "count")
               /\ t.scenarios[sc].failures = PartAt(b.points, "http_req_failed", sc, "nonZero")
    BY <2>1 DEF PartAt, PointPart
  <2>. QED BY <2>2, <2>3 DEF S
<1>4. /\ DOMAIN t.endpoints = DOMAIN b.endpoints
      /\ \A name \in DOMAIN b.endpoints : t.endpoints[name] = b.endpoints[name]
  BY <1>1 DEF EndpointTicks
<1>. QED BY <1>1, <1>2, <1>3, <1>4

(***************************************************************************)
(* The conjuncts of ReportsAgree.                                          *)
(***************************************************************************)
TickAgrees(t, whole) ==
    /\ t.requests = SumFunction([sc \in DOMAIN t.scenarios |-> t.scenarios[sc].requests])
    /\ t.failures = SumFunction([sc \in DOMAIN t.scenarios |-> t.scenarios[sc].failures])
    /\ t.requests = SumFunction(t.status)
    /\ whole =>
        /\ t.requests = SumFunction([e \in DOMAIN t.endpoints |-> t.endpoints[e].requests])
        /\ t.failures = SumFunction([e \in DOMAIN t.endpoints |-> t.endpoints[e].failures])

TotalsAgree(s, ticks) ==
    /\ Totals(s, "http_reqs").count = SumFunction([i \in DOMAIN ticks |-> ticks[i].requests])
    /\ Totals(s, "http_req_failed").nonZero = SumFunction([i \in DOMAIN ticks |-> ticks[i].failures])
    /\ Totals(s, "http_req_duration").count = SumFunction([i \in DOMAIN ticks |-> ticks[i].duration.count])
    /\ Totals(s, "http_req_duration").sum = SumFunction([i \in DOMAIN ticks |-> ticks[i].duration.sum])

ShownAt(tick, name) == At(tick.endpoints, name, NewEndpointPoint)

EndpointAgrees(e, ticks, name) ==
    /\ e.requests = SumFunction([i \in DOMAIN ticks |-> ShownAt(ticks[i], name).observed])
    /\ e.failures = SumFunction([i \in DOMAIN ticks |-> ShownAt(ticks[i], name).failures])
    /\ e.sum = SumFunction([i \in DOMAIN ticks |-> ShownAt(ticks[i], name).sum])
    /\ SumFunction(e.statuses) = SumFunction([i \in DOMAIN ticks |-> ShownAt(ticks[i], name).requests])

Ticks(s) == [i \in DOMAIN s.buckets |-> BucketToTick(s.buckets[i])]

FailuresOf(table, name) == SumFunction([k \in {l \in DOMAIN table.entries : l[1] = name} |-> table.entries[k]])

(***************************************************************************)
(* ReportsAgree of given ticks, so that they need not be expanded.         *)
(***************************************************************************)
Agree(ticks) ==
    LET Over(Op(_)) == SumFunction([i \in DOMAIN ticks |-> Op(ticks[i])])
        named(tick, name) == At(tick.endpoints, name, NewEndpointPoint)
    IN  /\ \A i \in DOMAIN ticks :
            LET t == ticks[i]
                all == DOMAIN t.scenarios
            IN  /\ t.requests = SumFunction([sc \in all |-> t.scenarios[sc].requests])
                /\ t.failures = SumFunction([sc \in all |-> t.scenarios[sc].failures])
                /\ t.requests = SumFunction(t.status)
                /\ store.droppedEndpoints = 0 =>
                    /\ t.requests = SumFunction([e \in DOMAIN t.endpoints |-> t.endpoints[e].requests])
                    /\ t.failures = SumFunction([e \in DOMAIN t.endpoints |-> t.endpoints[e].failures])
        /\ store.droppedSeries = 0 =>
            /\ Totals(store, "http_reqs").count = Over(LAMBDA t : t.requests)
            /\ Totals(store, "http_req_failed").nonZero = Over(LAMBDA t : t.failures)
            /\ Totals(store, "http_req_duration").count = Over(LAMBDA t : t.duration.count)
            /\ Totals(store, "http_req_duration").sum = Over(LAMBDA t : t.duration.sum)
        /\ store.droppedSeries = 0 /\ store.droppedEndpoints = 0 =>
            \A name \in Endpoints(store) \cup UNION {DOMAIN ticks[i].endpoints : i \in DOMAIN ticks} :
                LET e == Endpoint(store, name)
                IN  /\ e.requests = Over(LAMBDA t : named(t, name).observed)
                    /\ e.failures = Over(LAMBDA t : named(t, name).failures)
                    /\ e.sum = Over(LAMBDA t : named(t, name).sum)
                    /\ SumFunction(e.statuses)
                            = Over(LAMBDA t : named(t, name).requests)
                    /\ Finished /\ Lossless =>
                        e.failures = SumFunction([k \in {l \in DOMAIN store.failures.entries : l[1] = name} |->
                                                      store.failures.entries[k]])

LEMMA ReportsAre ==
    ASSUME \A i \in DOMAIN store.buckets : TickAgrees(BucketToTick(store.buckets[i]), store.droppedEndpoints = 0),
           store.droppedSeries = 0 => TotalsAgree(store, Ticks(store)),
           store.droppedSeries = 0 /\ store.droppedEndpoints = 0 =>
                \A name : EndpointAgrees(Endpoint(store, name), Ticks(store), name),
           Finished /\ Lossless =>
                \A name : Endpoint(store, name).failures = FailuresOf(store.failures, name)
    PROVE  ReportsAgree
<1>. DEFINE ticks == [i \in DOMAIN store.buckets |-> BucketToTick(store.buckets[i])]
            named(tick, name) == At(tick.endpoints, name, NewEndpointPoint)
<1>1. DOMAIN ticks = DOMAIN store.buckets /\ (\A i \in DOMAIN store.buckets : ticks[i] = BucketToTick(store.buckets[i])) /\ Ticks(store) = ticks
  BY DEF Ticks
<1>. HIDE DEF ticks
<1>2. ASSUME NEW i \in DOMAIN ticks
      PROVE  /\ ticks[i].requests = SumFunction([sc \in DOMAIN ticks[i].scenarios |-> ticks[i].scenarios[sc].requests])
             /\ ticks[i].failures = SumFunction([sc \in DOMAIN ticks[i].scenarios |-> ticks[i].scenarios[sc].failures])
             /\ ticks[i].requests = SumFunction(ticks[i].status)
             /\ store.droppedEndpoints = 0 =>
                    /\ ticks[i].requests = SumFunction([e \in DOMAIN ticks[i].endpoints |-> ticks[i].endpoints[e].requests])
                    /\ ticks[i].failures = SumFunction([e \in DOMAIN ticks[i].endpoints |-> ticks[i].endpoints[e].failures])
  <2>1. TickAgrees(ticks[i], store.droppedEndpoints = 0)
    BY <1>1
  <2>. QED BY <2>1 DEF TickAgrees
<1>3. store.droppedSeries = 0 =>
        /\ Totals(store, "http_reqs").count = SumFunction([i \in DOMAIN ticks |-> ticks[i].requests])
        /\ Totals(store, "http_req_failed").nonZero = SumFunction([i \in DOMAIN ticks |-> ticks[i].failures])
        /\ Totals(store, "http_req_duration").count = SumFunction([i \in DOMAIN ticks |-> ticks[i].duration.count])
        /\ Totals(store, "http_req_duration").sum = SumFunction([i \in DOMAIN ticks |-> ticks[i].duration.sum])
  BY <1>1 DEF TotalsAgree
<1>4. ASSUME store.droppedSeries = 0 /\ store.droppedEndpoints = 0, NEW name
      PROVE  /\ Endpoint(store, name).requests = SumFunction([i \in DOMAIN ticks |-> named(ticks[i], name).observed])
             /\ Endpoint(store, name).failures = SumFunction([i \in DOMAIN ticks |-> named(ticks[i], name).failures])
             /\ Endpoint(store, name).sum = SumFunction([i \in DOMAIN ticks |-> named(ticks[i], name).sum])
             /\ SumFunction(Endpoint(store, name).statuses)
                    = SumFunction([i \in DOMAIN ticks |-> named(ticks[i], name).requests])
             /\ Finished /\ Lossless =>
                    Endpoint(store, name).failures
                        = SumFunction([k \in {l \in DOMAIN store.failures.entries : l[1] = name} |->
                                            store.failures.entries[k]])
  <2>1. EndpointAgrees(Endpoint(store, name), ticks, name)
    BY <1>1, <1>4
  <2>2. Finished /\ Lossless => Endpoint(store, name).failures = FailuresOf(store.failures, name)
    OBVIOUS
  <2>. QED BY <2>1, <2>2 DEF EndpointAgrees, ShownAt, FailuresOf
<1>5. Agree(ticks)
  BY <1>2, <1>3, <1>4, ZenonT(60) DEF Agree
<1>. QED BY <1>5, Zenon DEF ReportsAgree, Agree, ticks

LEMMA ChartsTick ==
    ASSUME NEW b, IsBucket(b), NEW whole, BucketAgrees(b, whole)
    PROVE  TickAgrees(BucketToTick(b), whole)
<1>. DEFINE t == BucketToTick(b)
            ps == b.points
            r == [sc \in DOMAIN t.scenarios |-> t.scenarios[sc].requests]
            f == [sc \in DOMAIN t.scenarios |-> t.scenarios[sc].failures]
            r2 == [e \in DOMAIN t.endpoints |-> t.endpoints[e].requests]
            f2 == [e \in DOMAIN t.endpoints |-> t.endpoints[e].failures]
<1>1. /\ t.requests = RollupAt(ps, "http_reqs", "count")
      /\ t.failures = RollupAt(ps, "http_req_failed", "nonZero")
      /\ t.status = b.status
      /\ DOMAIN t.scenarios = ScenariosIn(ps)
      /\ \A sc \in ScenariosIn(ps) :
            /\ t.scenarios[sc].requests = PartAt(ps, "http_reqs", sc, "count")
            /\ t.scenarios[sc].failures = PartAt(ps, "http_req_failed", sc, "nonZero")
      /\ DOMAIN t.endpoints = DOMAIN b.endpoints
      /\ \A name \in DOMAIN b.endpoints : t.endpoints[name] = b.endpoints[name]
  BY TickIs
<1>. HIDE DEF t
<1>2. IsChart("http_reqs", "count") /\ IsChart("http_req_failed", "nonZero")
  BY DEF IsChart
<1>3. ScenarioSum(ps, "http_reqs", "count") = SumFunction(r)
  <2>1. r = [sc \in ScenariosIn(ps) |-> PartAt(ps, "http_reqs", sc, "count")]
    BY <1>1
  <2>. QED BY <2>1 DEF ScenarioSum
<1>4. ScenarioSum(ps, "http_req_failed", "nonZero") = SumFunction(f)
  <2>1. f = [sc \in ScenariosIn(ps) |-> PartAt(ps, "http_req_failed", sc, "nonZero")]
    BY <1>1
  <2>. QED BY <2>1 DEF ScenarioSum
<1>5. EndpointSum(b.endpoints, "http_reqs", "count") = SumFunction(r2)
  <2>1. r2 = [name \in DOMAIN b.endpoints |-> EndpointPart(b.endpoints[name], "http_reqs", "count")]
    BY <1>1 DEF EndpointPart
  <2>. QED BY <2>1 DEF EndpointSum
<1>6. EndpointSum(b.endpoints, "http_req_failed", "nonZero") = SumFunction(f2)
  <2>1. f2 = [name \in DOMAIN b.endpoints |-> EndpointPart(b.endpoints[name], "http_req_failed", "nonZero")]
    BY <1>1 DEF EndpointPart
  <2>. QED BY <2>1 DEF EndpointSum
<1>. HIDE DEF r, f, r2, f2, ps
<1>7. /\ t.requests = SumFunction(r) /\ t.failures = SumFunction(f) /\ t.requests = SumFunction(t.status)
      /\ whole => t.requests = SumFunction(r2) /\ t.failures = SumFunction(f2)
  BY <1>1, <1>2, <1>3, <1>4, <1>5, <1>6 DEF BucketAgrees, ps
<1>. QED BY <1>7 DEF TickAgrees, t, r, f, r2, f2

LEMMA ChartsTotals ==
    ASSUME NEW s, Charts(s), Table(s.cumulative), s.droppedSeries = 0
    PROVE  TotalsAgree(s, Ticks(s))
<1>. DEFINE ticks == Ticks(s)
<1>1. /\ DOMAIN ticks = DOMAIN s.buckets
      /\ \A i \in DOMAIN s.buckets :
            /\ ticks[i].requests = RollupAt(s.buckets[i].points, "http_reqs", "count")
            /\ ticks[i].failures = RollupAt(s.buckets[i].points, "http_req_failed", "nonZero")
            /\ ticks[i].duration.count = RollupAt(s.buckets[i].points, "http_req_duration", "count")
            /\ ticks[i].duration.sum = RollupAt(s.buckets[i].points, "http_req_duration", "sum")
  <2>1. DOMAIN ticks = DOMAIN s.buckets /\ \A i \in DOMAIN s.buckets : ticks[i] = BucketToTick(s.buckets[i])
    BY DEF Ticks
  <2>. HIDE DEF ticks
  <2>. QED BY <2>1, TickIs
<1>. HIDE DEF ticks
<1>2. ASSUME NEW metric, NEW of, IsChart(metric, of)
      PROVE PointPart(Totals(s, metric), of) = OverRollups(s.buckets, metric, of)
  <2>1. Mass(OfMetric(metric, of, 0), s.cumulative) = OverRollups(s.buckets, metric, of)
    BY <1>2 DEF Charts, Totalled
  <2>. QED BY <1>2, <2>1, TotalsAre
<1>3. /\ IsChart("http_req_duration", "count") /\ IsChart("http_req_duration", "sum")
      /\ IsChart("http_req_failed", "nonZero") /\ IsChart("http_reqs", "count")
  BY DEF IsChart
<1>4. /\ Totals(s, "http_reqs").count = OverRollups(s.buckets, "http_reqs", "count")
      /\ Totals(s, "http_req_failed").nonZero = OverRollups(s.buckets, "http_req_failed", "nonZero")
      /\ Totals(s, "http_req_duration").count = OverRollups(s.buckets, "http_req_duration", "count")
      /\ Totals(s, "http_req_duration").sum = OverRollups(s.buckets, "http_req_duration", "sum")
  <2>1. \A x : PointPart(x, "count") = x.count /\ PointPart(x, "nonZero") = x.nonZero /\ PointPart(x, "sum") = x.sum
    BY DEF PointPart
  <2>. QED BY <1>2, <1>3, <2>1
<1>5. [i \in DOMAIN ticks |-> ticks[i].requests]
        = [i \in DOMAIN s.buckets |-> RollupAt(s.buckets[i].points, "http_reqs", "count")]
  BY <1>1
<1>6. [i \in DOMAIN ticks |-> ticks[i].failures]
        = [i \in DOMAIN s.buckets |-> RollupAt(s.buckets[i].points, "http_req_failed", "nonZero")]
  BY <1>1
<1>7. [i \in DOMAIN ticks |-> ticks[i].duration.count]
        = [i \in DOMAIN s.buckets |-> RollupAt(s.buckets[i].points, "http_req_duration", "count")]
  BY <1>1
<1>8. [i \in DOMAIN ticks |-> ticks[i].duration.sum]
        = [i \in DOMAIN s.buckets |-> RollupAt(s.buckets[i].points, "http_req_duration", "sum")]
  BY <1>1
<1>9. TotalsAgree(s, ticks)
  BY <1>4, <1>5, <1>6, <1>7, <1>8 DEF TotalsAgree, OverRollups
<1>. QED BY <1>9 DEF ticks

LEMMA ChartsEndpoint ==
    ASSUME NEW s, Charts(s), Table(s.cumulative), s.droppedSeries = 0, s.droppedEndpoints = 0, NEW name
    PROVE  EndpointAgrees(Endpoint(s, name), Ticks(s), name)
<1>. DEFINE ticks == Ticks(s)
            e == Endpoint(s, name)
            bs == s.buckets
<1>1. /\ DOMAIN ticks = DOMAIN bs
      /\ \A i \in DOMAIN bs : ShownAt(ticks[i], name) = At(bs[i].endpoints, name, NewEndpointPoint)
  <2>1. DOMAIN ticks = DOMAIN bs /\ \A i \in DOMAIN bs : ticks[i] = BucketToTick(bs[i])
    BY DEF Ticks
  <2>. HIDE DEF ticks, bs
  <2>2. ASSUME NEW i \in DOMAIN bs PROVE ShownAt(ticks[i], name) = At(bs[i].endpoints, name, NewEndpointPoint)
    <3>. DEFINE es == ticks[i].endpoints
                fs == bs[i].endpoints
    <3>1. DOMAIN es = DOMAIN fs /\ \A x \in DOMAIN fs : es[x] = fs[x]
      BY <2>1, TickIs
    <3>. HIDE DEF es, fs
    <3>2. At(es, name, NewEndpointPoint) = At(fs, name, NewEndpointPoint)
      BY <3>1 DEF At
    <3>. QED BY <3>2 DEF ShownAt, es, fs
  <2>. QED BY <2>1, <2>2
<1>2. /\ e.requests = Mass(OfEndpoint("http_req_duration", "count", name), s.cumulative)
      /\ e.sum = Mass(OfEndpoint("http_req_duration", "sum", name), s.cumulative)
      /\ e.failures = Mass(OfEndpoint("http_req_failed", "nonZero", name), s.cumulative)
      /\ SumFunction(e.statuses) = Mass(OfEndpoint("http_reqs", "count", name), s.cumulative)
  BY EndpointShows
<1>. HIDE DEF ticks, e
<1>3. /\ IsChart("http_req_duration", "count") /\ IsChart("http_req_duration", "sum")
      /\ IsChart("http_req_failed", "nonZero") /\ IsChart("http_reqs", "count")
  BY DEF IsChart
<1>4. \A metric, of, x : IsChart(metric, of) =>
            Mass(OfEndpoint(metric, of, x), s.cumulative) = OverEndpoints(bs, metric, of, x)
  BY DEF Charts, Totalled
<1>. HIDE DEF bs
<1>5. \A p : /\ EndpointPart(p, "http_req_duration", "count") = p.observed
             /\ EndpointPart(p, "http_req_duration", "sum") = p.sum
             /\ EndpointPart(p, "http_req_failed", "nonZero") = p.failures
             /\ EndpointPart(p, "http_reqs", "count") = p.requests
  BY DEF EndpointPart
<1>6. [i \in DOMAIN ticks |-> ShownAt(ticks[i], name).observed]
        = [i \in DOMAIN bs |-> EndpointAt(bs[i].endpoints, name, "http_req_duration", "count")]
  BY <1>1, <1>5 DEF EndpointAt
<1>7. [i \in DOMAIN ticks |-> ShownAt(ticks[i], name).sum]
        = [i \in DOMAIN bs |-> EndpointAt(bs[i].endpoints, name, "http_req_duration", "sum")]
  BY <1>1, <1>5 DEF EndpointAt
<1>8. [i \in DOMAIN ticks |-> ShownAt(ticks[i], name).failures]
        = [i \in DOMAIN bs |-> EndpointAt(bs[i].endpoints, name, "http_req_failed", "nonZero")]
  BY <1>1, <1>5 DEF EndpointAt
<1>9. [i \in DOMAIN ticks |-> ShownAt(ticks[i], name).requests]
        = [i \in DOMAIN bs |-> EndpointAt(bs[i].endpoints, name, "http_reqs", "count")]
  BY <1>1, <1>5 DEF EndpointAt
<1>10. EndpointAgrees(e, ticks, name)
  BY <1>2, <1>3, <1>4, <1>6, <1>7, <1>8, <1>9 DEF EndpointAgrees, OverEndpoints
<1>. QED BY <1>10 DEF ticks, e

(***************************************************************************)
(* The chart and the tables agree throughout: only a batch changes them.   *)
(***************************************************************************)
Ingesting(t, s, b, order, reported) ==
    /\ t = Ingest(s, b, order, reported) /\ Shipped(b.series) /\ Lists(order, b.series)
    /\ reported \in Orders(b.failures, TRUE)

LEMMA DeliverIngests ==
    ASSUME RecorderInv, NEW n \in Node, Deliver(n)
    PROVE  \E order, reported : Ingesting(store', store, Head(inflight[n]), order, reported)
<1>. DEFINE q == inflight[n]
            b == Head(q)
            P == Places
<1>1. q # <<>> /\ IsQueue(q, n)
  <2>1. Placed(P) /\ P.inflight = inflight
    BY DEF RecorderInv, Agrees, Places
  <2>. HIDE DEF P
  <2>2. IsQueue(P.inflight[n], n)
    BY <2>1 DEF Placed, NodePlaced
  <2>. QED BY <2>1, <2>2 DEF Deliver
<1>2. PICK order \in Orders(b.series, Capped(store, b)), reported \in Orders(b.failures, TRUE) :
            store' = Ingest(store, b, order, reported)
  BY DEF Deliver
<1>3. Shipped(b.series)
  <2>. HIDE DEF q
  <2>1. Dequeued(Tail(q), q, b, n)
    BY <1>1, DequeuedIs
  <2>. QED BY <2>1 DEF Dequeued, IsBatch
<1>. HIDE DEF q, b, P
<1>4. Lists(order, b.series)
  <2>. DEFINE S == b.series
              capped == Capped(store, b)
  <2>1. IsFiniteSet(S) /\ order \in Orders(S, capped)
    BY <1>2, <1>3 DEF Shipped
  <2>. HIDE DEF S, capped
  <2>2. Lists(order, S)
    BY <2>1, OrderLists
  <2>. QED BY <2>2 DEF S
<1>5. Ingesting(store', store, b, order, reported)
  BY <1>2, <1>3, <1>4 DEF Ingesting
<1>. QED BY <1>5 DEF b, q

LEMMA DeliverCharts ==
    ASSUME RecorderInv, Charts(store), NEW n \in Node, Deliver(n)
    PROVE  Charts(store')
<1>. DEFINE s == store
            t == store'
            b == Head(inflight[n])
<1>1. PICK order, reported : Ingesting(t, s, b, order, reported)
  BY DeliverIngests
<1>2. StoreShape(s) /\ s.droppedSeries \in Nat /\ Charts(s)
  BY DEF RecorderInv, Typed, Counters
<1>3. Table(s.cumulative)
  <2>. DEFINE P == Places
  <2>1. Placed(P) /\ P.cumulative = s.cumulative
    BY DEF RecorderInv, Agrees, Places
  <2>. HIDE DEF P, s
  <2>. QED BY <2>1 DEF Placed
<1>. HIDE DEF s, t, b
<1>4. Charts(t)
  BY <1>1, <1>2, <1>3, IngestCharts DEF Ingesting
<1>. QED BY <1>4 DEF t

LEMMA DeliverLateCharts ==
    ASSUME RecorderInv, Charts(store), NEW n \in Node, DeliverLate(n)
    PROVE  Charts(store')
<1>. DEFINE s == store
            t == store'
            b == Head(inflight[n])
            h == Heard(s, b)
            e == h.droppedLate + 1
<1>1. t = [h EXCEPT !.droppedLate = e]
  BY DEF DeliverLate, IngestLate
<1>2. StoreShape(s) /\ Charts(s)
  BY DEF RecorderInv, Typed, Counters
<1>3. /\ StoreShape(h) /\ h.cumulative = s.cumulative /\ h.droppedSeries = s.droppedSeries
      /\ h.buckets = s.buckets /\ h.droppedEndpoints = s.droppedEndpoints
  <2>. HIDE DEF s, b
  <2>. QED BY <1>2, HeardIs
<1>. HIDE DEF s, t, b, h, e
<1>4. /\ t.cumulative = h.cumulative /\ t.droppedSeries = h.droppedSeries
      /\ t.buckets = h.buckets /\ t.droppedEndpoints = h.droppedEndpoints
  BY <1>1, <1>3 DEF StoreShape
<1>5. Charts(t)
  BY <1>2, <1>3, <1>4, ChartsSame
<1>. QED BY <1>5 DEF t

LEMMA InitCharts ==
    ASSUME Init
    PROVE  Charts(store)
<1>. DEFINE s == store
            e == <<>>
<1>1. s.cumulative = {} /\ s.buckets = e /\ s.droppedEndpoints = 0 /\ DOMAIN e = {}
  BY DEF Init, NewStore, Empty
<1>. HIDE DEF s, e
<1>2. Buckets(s)
  BY <1>1, FS_EmptySet DEF Buckets
<1>3. ASSUME NEW metric, NEW of, NEW x PROVE OverRollups(e, metric, of) = 0 /\ OverEndpoints(e, metric, of, x) = 0
  <2>. DEFINE f == [i \in DOMAIN e |-> RollupAt(e[i].points, metric, of)]
              g == [i \in DOMAIN e |-> EndpointAt(e[i].endpoints, x, metric, of)]
  <2>1. DOMAIN f = {} /\ DOMAIN g = {} /\ IsFiniteSet({})
    BY <1>1, FS_EmptySet
  <2>2. OverRollups(e, metric, of) = SumFunction(f) /\ OverEndpoints(e, metric, of, x) = SumFunction(g)
    BY DEF OverRollups, OverEndpoints
  <2>. HIDE DEF f, g
  <2>3. SumFunction(f) = 0
    BY <2>1, SumZero
  <2>4. SumFunction(g) = 0
    BY <2>1, SumZero
  <2>. QED BY <2>2, <2>3, <2>4
<1>4. Totalled(s)
  BY <1>1, <1>3, MassEmpty DEF Totalled
<1>5. \A i \in DOMAIN s.buckets : BucketAgrees(s.buckets[i], s.droppedEndpoints = 0)
  BY <1>1
<1>6. Charts(s)
  BY <1>2, <1>4, <1>5 DEF Charts
<1>. QED BY <1>6 DEF s

LEMMA ChartsInvariant == Spec => [](RecorderInv /\ Charts(store))
<1>1. Init => Charts(store)
  BY InitCharts
<1>2. RecorderInv /\ Charts(store) /\ [Next]_vars => Charts(store)'
  <2>. SUFFICES ASSUME RecorderInv, Charts(store), [Next]_vars PROVE Charts(store')
    OBVIOUS
  <2>1. CASE UNCHANGED store
    BY <2>1
  <2>2. ASSUME NEW n \in Node, Deliver(n) PROVE Charts(store')
    BY <2>2, DeliverCharts
  <2>3. ASSUME NEW n \in Node, DeliverLate(n) PROVE Charts(store')
    BY <2>3, DeliverLateCharts
  <2>4. ASSUME NEW v \in VU, Record(v) PROVE UNCHANGED store
    BY <2>4 DEF Record
  <2>5. ASSUME NEW n \in Node, ReportGauge(n) \/ EngineReturns(n) \/ FlushShard(n) \/ FlushEnd(n)
        PROVE  UNCHANGED store
    BY <2>5 DEF ReportGauge, EngineReturns, FlushShard, FlushEnd
  <2>6. CASE UNCHANGED vars
    BY <2>1, <2>6 DEF vars
  <2>. QED BY <2>1, <2>2, <2>3, <2>4, <2>5, <2>6 DEF Next
<1>. QED BY <1>1, <1>2, RecorderInvariant, PTL DEF Spec

-----------------------------------------------------------------------------
(***************************************************************************)
(* The failures listed.  The loop of Ingest over the failures of a batch   *)
(* is total, like the one over its series.                                 *)
(***************************************************************************)
FailureFold(g, base, q, n) ==
    g = [s \in SUBSET (1 .. n) |-> IF s = {} THEN base ELSE IngestFailure(g[s \ {Max(s)}], q[Max(s)])]

FailureSteps(st, base, q, n) == st[0] = base /\ \A i \in 1 .. n : st[i] = IngestFailure(st[i - 1], q[i])

LEMMA FailureFoldExists ==
    ASSUME NEW n \in Nat, NEW base, NEW q
    PROVE  \E g : FailureFold(g, base, q, n)
<1>. DEFINE S == 1 .. n
            Eq(g, s) == g[s] = IF s = {} THEN base ELSE IngestFailure(g[s \ {Max(s)}], q[Max(s)])
            Small(s, m) == Cardinality(s) <= m
            G == {m \in Nat : \E g : \A s \in SUBSET S : Small(s, m) => Eq(g, s)}
<1>f. IsFiniteSet(S) /\ Cardinality(S) \in Nat
  BY FS_Interval, FS_CardinalityType
<1>c. \A s \in SUBSET S : IsFiniteSet(s) /\ Cardinality(s) \in Nat /\ (Cardinality(s) = 0 <=> s = {})
  BY <1>f, FS_Subset, FS_CardinalityType, FS_EmptySet
<1>d. \A s \in SUBSET S : s # {} => /\ s \ {Max(s)} \in SUBSET S
                                    /\ Cardinality(s \ {Max(s)}) = Cardinality(s) - 1
  BY <1>c, FS_RemoveElement, MaxIn
<1>. HIDE DEF S
<1>1. 0 \in G
  <2>. DEFINE g == [s \in SUBSET S |-> base]
  <2>2. ASSUME NEW s \in SUBSET S, Small(s, 0) PROVE Eq(g, s)
    <3>1. s = {}
      BY <1>c, <2>2
    <3>. QED BY <3>1
  <2>. HIDE DEF g, Eq, Small
  <2>. QED BY <2>2
<1>2. ASSUME NEW m \in Nat, m \in G PROVE m + 1 \in G
  <2>1. PICK g : \A s \in SUBSET S : Small(s, m) => Eq(g, s)
    BY <1>2
  <2>. DEFINE h == [s \in SUBSET S |-> IF s = {} THEN base ELSE IngestFailure(g[s \ {Max(s)}], q[Max(s)])]
  <2>3. ASSUME NEW s \in SUBSET S, Small(s, m + 1) PROVE Eq(h, s)
    <3>1. CASE s = {}
      BY <3>1
    <3>2. CASE s # {}
      <4>1. s \ {Max(s)} \in SUBSET S /\ Small(s \ {Max(s)}, m)
        BY <1>c, <1>d, <2>3, <3>2
      <4>2. Eq(g, s \ {Max(s)})
        BY <2>1, <4>1
      <4>3. h[s \ {Max(s)}] = g[s \ {Max(s)}]
        <5>. DEFINE r == s \ {Max(s)}
        <5>1. r \in SUBSET S /\ Eq(g, r)
          BY <4>1, <4>2
        <5>. HIDE DEF r
        <5>2. h[r] = g[r]
          BY <5>1
        <5>. QED BY <5>2 DEF r
      <4>4. h[s] = IngestFailure(g[s \ {Max(s)}], q[Max(s)])
        BY <3>2
      <4>. HIDE DEF h
      <4>. QED BY <3>2, <4>3, <4>4
    <3>. QED BY <3>1, <3>2
  <2>. HIDE DEF h, Eq, Small
  <2>. QED BY <2>3
<1>. HIDE DEF G
<1>3. Cardinality(S) \in G
  BY <1>1, <1>2, <1>f, NumberInduction
<1>4. PICK g : \A s \in SUBSET S : Small(s, Cardinality(S)) => Eq(g, s)
  BY <1>3 DEF G
<1>5. \A s \in SUBSET S : Small(s, Cardinality(S))
  BY <1>f, FS_Subset
<1>6. \A s \in SUBSET S : Eq(g, s)
  BY <1>4, <1>5
<1>. DEFINE h == [s \in SUBSET S |-> g[s]]
<1>7. ASSUME NEW s \in SUBSET S PROVE Eq(h, s)
  <2>1. CASE s = {}
    BY <1>6, <2>1
  <2>2. CASE s # {}
    <3>1. s \ {Max(s)} \in SUBSET S
      BY <1>d, <2>2
    <3>2. h[s] = g[s] /\ h[s \ {Max(s)}] = g[s \ {Max(s)}]
      BY <3>1
    <3>3. Eq(g, s)
      BY <1>6
    <3>. HIDE DEF h
    <3>. QED BY <2>2, <3>2, <3>3
  <2>. QED BY <2>1, <2>2
<1>8. h = [s \in SUBSET S |-> h[s]]
  OBVIOUS
<1>. HIDE DEF h
<1>9. h = [s \in SUBSET S |-> IF s = {} THEN base ELSE IngestFailure(h[s \ {Max(s)}], q[Max(s)])]
  BY <1>7, <1>8
<1>. QED BY <1>9 DEF S, FailureFold

LEMMA FailureStepsExist ==
    ASSUME NEW n \in Nat, NEW base, NEW q
    PROVE  \E st : FailureSteps(st, base, q, n) /\ (CHOOSE g : FailureFold(g, base, q, n))[1 .. n] = st[n]
<1>. DEFINE G == CHOOSE g : FailureFold(g, base, q, n)
<1>1. FailureFold(G, base, q, n)
  <2>1. \E g : FailureFold(g, base, q, n)
    BY FailureFoldExists
  <2>. QED BY <2>1, Zenon
<1>. DEFINE rhs(s) == IF s = {} THEN base ELSE IngestFailure(G[s \ {Max(s)}], q[Max(s)])
<1>2. ASSUME NEW s \in SUBSET (1 .. n) PROVE G[s] = rhs(s)
  <2>1. G = [x \in SUBSET (1 .. n) |-> rhs(x)]
    BY <1>1 DEF FailureFold
  <2>. HIDE DEF G, rhs
  <2>. QED BY <2>1
<1>g. G = CHOOSE g : FailureFold(g, base, q, n)
  OBVIOUS
<1>. HIDE DEF G
<1>. DEFINE st == [i \in 0 .. n |-> G[1 .. i]]
<1>3. G[{}] = base /\ 1 .. 0 = {}
  <2>1. {} \in SUBSET (1 .. n)
    OBVIOUS
  <2>2. G[{}] = rhs({})
    BY <1>2, <2>1
  <2>. QED BY <2>2
<1>4. \A i \in 1 .. n : st[i] = IngestFailure(st[i - 1], q[i])
  <2>. SUFFICES ASSUME NEW i \in 1 .. n PROVE st[i] = IngestFailure(st[i - 1], q[i])
    OBVIOUS
  <2>1. i \in Nat \ {0} /\ i - 1 \in 0 .. n /\ i \in 0 .. n /\ 1 .. i \in SUBSET (1 .. n)
    OBVIOUS
  <2>2. Max(1 .. i) = i /\ (1 .. i) \ {i} = 1 .. i - 1 /\ 1 .. i # {}
    BY <2>1, MaxUpTo
  <2>3. G[1 .. i] = rhs(1 .. i)
    BY <1>2, <2>1
  <2>4. G[1 .. i] = IngestFailure(G[1 .. i - 1], q[i])
    BY <2>2, <2>3
  <2>. QED BY <2>1, <2>4
<1>5. st[0] = base /\ st[n] = G[1 .. n]
  BY <1>3
<1>. HIDE DEF st
<1>6. FailureSteps(st, base, q, n) /\ G[1 .. n] = st[n]
  BY <1>4, <1>5 DEF FailureSteps
<1>. QED BY <1>6, <1>g

(***************************************************************************)
(* What a failure table, the failures of a batch and a queue list for an   *)
(* endpoint.                                                               *)
(***************************************************************************)
Share(kind, name, count) == IF kind[1] = name THEN count ELSE 0

ListedAs(entries, name) == SumFunction([k \in DOMAIN entries |-> Share(k, name, entries[k])])

ReportedAs(S, name) == SumFunction([x \in S |-> Share(x.kind, name, x.count)])

QueuedAs(q, name) == SumFunction([j \in DOMAIN q |-> ReportedAs(q[j].failures, name)])

IsFailures(t) ==
    /\ t = [entries |-> t.entries, dropped |-> t.dropped]
    /\ Tally(t.entries) /\ t.dropped \in Nat

Reports(S) == IsFiniteSet(S) /\ \A x \in S : x.count \in Nat

LEMMA ShareNat ==
    ASSUME NEW kind, NEW name, NEW count \in Nat
    PROVE  Share(kind, name, count) \in Nat
  BY DEF Share

LEMMA ListedPut ==
    ASSUME NEW f, Tally(f), NEW kind, NEW count \in Nat, NEW g, g = Set(f, kind, At(f, kind, 0) + count)
    PROVE  /\ Tally(g)
           /\ \A name : /\ ListedAs(f, name) \in Nat
                        /\ ListedAs(g, name) = ListedAs(f, name) + Share(kind, name, count)
<1>1. Tally(g)
  BY TallyPut
<1>. DEFINE p == At(f, kind, 0)
<1>2. p \in Nat /\ p = IF kind \in DOMAIN f THEN f[kind] ELSE 0
  BY DEF At, Tally
<1>3. DOMAIN g = DOMAIN f \cup {kind} /\ g[kind] = p + count /\ \A y \in DOMAIN f : y # kind => g[y] = f[y]
  BY DEF Set
<1>. HIDE DEF p
<1>4. ASSUME NEW name
      PROVE  ListedAs(f, name) \in Nat /\ ListedAs(g, name) = ListedAs(f, name) + Share(kind, name, count)
  <2>. DEFINE F == [k \in DOMAIN f |-> Share(k, name, f[k])]
              G == [k \in DOMAIN g |-> Share(k, name, g[k])]
              e == Share(kind, name, count)
  <2>1. e \in Nat
    BY ShareNat
  <2>2. DOMAIN F = DOMAIN f /\ IsFiniteSet(DOMAIN F) /\ \A y \in DOMAIN F : F[y] \in Nat
    BY ShareNat DEF Tally
  <2>3. DOMAIN G = DOMAIN F \cup {kind} /\ \A y \in DOMAIN F : y # kind => G[y] = F[y]
    BY <1>3
  <2>4. G[kind] = (IF kind \in DOMAIN F THEN F[kind] ELSE 0) + e
    <3>1. G[kind] = Share(kind, name, p + count)
      BY <1>3
    <3>2. kind \in DOMAIN F => F[kind] = Share(kind, name, p)
      BY <1>2
    <3>3. kind \notin DOMAIN F => p = 0
      BY <1>2
    <3>. HIDE DEF F, G
    <3>. QED BY <1>2, <3>1, <3>2, <3>3 DEF Share
  <2>. HIDE DEF F, G, e
  <2>5. SumFunction(F) \in Nat
    BY <2>2, SumNat
  <2>6. e \in Int /\ \A y \in DOMAIN F : F[y] \in Int
    BY <2>1, <2>2
  <2>7. SumFunction(G) = SumFunction(F) + e
    BY <2>2, <2>3, <2>4, <2>6, SumPut
  <2>. QED BY <2>5, <2>7 DEF F, G, e, ListedAs
<1>. QED BY <1>1, <1>4

LEMMA ListedNat ==
    ASSUME NEW t, IsFailures(t), NEW name
    PROVE  ListedAs(t.entries, name) \in Nat
<1>. DEFINE f == t.entries
            g == Set(f, 0, At(f, 0, 0) + 0)
<1>1. Tally(f) /\ 0 \in Nat
  BY DEF IsFailures
<1>. HIDE DEF f
<1>2. ListedAs(f, name) \in Nat
  BY <1>1, ListedPut
<1>. QED BY <1>2 DEF f

LEMMA ListedNone ==
    ASSUME NEW f, DOMAIN f = {}, NEW name
    PROVE  ListedAs(f, name) = 0
<1>. DEFINE F == [k \in DOMAIN f |-> Share(k, name, f[k])]
<1>1. DOMAIN F = {} /\ IsFiniteSet({})
  BY FS_EmptySet
<1>. HIDE DEF F
<1>2. SumFunction(F) = 0
  BY <1>1, SumZero
<1>. QED BY <1>2 DEF F, ListedAs

(***************************************************************************)
(* A failure is added to its kind, or counted as dropped.                  *)
(***************************************************************************)
Lists1(u, t, kind, count) ==
    \/ u = [t EXCEPT !.dropped = @ + 1]
    \/ u = [t EXCEPT !.entries = Set(@, kind, At(@, kind, 0) + count)]

AddsFailures(u, t, name, count) ==
    ListedAs(u.entries, name) = ListedAs(t.entries, name) + count

LEMMA FailureAdded ==
    ASSUME NEW t, IsFailures(t), NEW kind, NEW count \in Nat, NEW u, Lists1(u, t, kind, count)
    PROVE  /\ IsFailures(u)
           /\ u.dropped = 0 => t.dropped = 0 /\ \A name : AddsFailures(u, t, name, Share(kind, name, count))
<1>0. Tally(t.entries) /\ t.dropped \in Nat /\ t = [entries |-> t.entries, dropped |-> t.dropped]
  BY DEF IsFailures
<1>1. CASE u = [t EXCEPT !.dropped = @ + 1]
  <2>. DEFINE e == t.dropped + 1
  <2>1. u = [t EXCEPT !.dropped = e] /\ e \in Nat /\ e # 0
    BY <1>0, <1>1
  <2>. HIDE DEF e
  <2>2. u.entries = t.entries /\ u.dropped = e /\ u = [entries |-> u.entries, dropped |-> u.dropped]
    BY <1>0, <2>1
  <2>. QED BY <1>0, <2>1, <2>2 DEF IsFailures
<1>2. CASE u = [t EXCEPT !.entries = Set(@, kind, At(@, kind, 0) + count)]
  <2>. DEFINE f == t.entries
              g == Set(f, kind, At(f, kind, 0) + count)
  <2>1. u = [t EXCEPT !.entries = g] /\ Tally(f) /\ g = Set(f, kind, At(f, kind, 0) + count)
    BY <1>0, <1>2
  <2>. HIDE DEF g
  <2>2. u.entries = g /\ u.dropped = t.dropped /\ u = [entries |-> u.entries, dropped |-> u.dropped]
    BY <1>0, <2>1
  <2>. HIDE DEF f
  <2>3. Tally(g) /\ \A name : ListedAs(g, name) = ListedAs(f, name) + Share(kind, name, count)
    BY <2>1, ListedPut
  <2>. QED BY <1>0, <2>2, <2>3 DEF IsFailures, AddsFailures, f
<1>. QED BY <1>1, <1>2 DEF Lists1

LEMMA ReportedMore ==
    ASSUME NEW S, Reports(S), NEW x, x \notin S, x.count \in Nat, NEW name
    PROVE  /\ ReportedAs(S, name) \in Nat
           /\ ReportedAs(S \cup {x}, name) = ReportedAs(S, name) + Share(x.kind, name, x.count)
<1>. DEFINE f == [y \in S |-> Share(y.kind, name, y.count)]
            g == [y \in S \cup {x} |-> Share(y.kind, name, y.count)]
<1>1. Share(x.kind, name, x.count) \in Nat
  BY ShareNat
<1>2. /\ DOMAIN f = S /\ IsFiniteSet(DOMAIN f) /\ DOMAIN g = DOMAIN f \cup {x}
      /\ g[x] = Share(x.kind, name, x.count)
      /\ \A y \in DOMAIN f : f[y] \in Nat /\ g[y] = f[y]
  BY ShareNat DEF Reports
<1>. HIDE DEF f, g
<1>3. SumFunction(f) \in Nat
  BY <1>2, SumNat
<1>4. SumFunction(g) = SumFunction(f) + g[x]
  BY <1>1, <1>2, SumExtend
<1>. QED BY <1>2, <1>3, <1>4 DEF f, g, ReportedAs

LEMMA ReportedNat ==
    ASSUME NEW S, Reports(S), NEW name
    PROVE  ReportedAs(S, name) \in Nat
<1>. DEFINE f == [y \in S |-> Share(y.kind, name, y.count)]
<1>1. IsFiniteSet(DOMAIN f) /\ \A y \in DOMAIN f : f[y] \in Nat
  BY ShareNat DEF Reports
<1>. HIDE DEF f
<1>2. SumFunction(f) \in Nat
  BY <1>1, SumNat
<1>. QED BY <1>2 DEF f, ReportedAs

LEMMA ReportedNone ==
    ASSUME NEW name
    PROVE  Reports({}) /\ ReportedAs({}, name) = 0
<1>. DEFINE f == [y \in {} |-> Share(y.kind, name, y.count)]
<1>1. DOMAIN f = {} /\ IsFiniteSet({})
  BY FS_EmptySet
<1>. HIDE DEF f
<1>2. SumFunction(f) = 0
  BY <1>1, SumZero
<1>. QED BY <1>1, <1>2 DEF f, ReportedAs, Reports

LEMMA IngestFailureIs ==
    ASSUME NEW t, NEW x
    PROVE  Lists1(IngestFailure(t, x), t, x.kind, x.count)
  BY DEF Lists1, IngestFailure

LEMMA FailureRuns ==
    ASSUME NEW t, NEW S, NEW q \in Seq(S)
    PROVE  \E st : FailureSteps(st, t, q, Len(q)) /\ FoldLeft(IngestFailure, t, q) = st[Len(q)]
<1>. DEFINE n == Len(q)
            end == (CHOOSE g : FailureFold(g, t, q, n))[1 .. n]
<1>1. n \in Nat /\ DOMAIN q = 1 .. n
  OBVIOUS
<1>2. FoldLeft(IngestFailure, t, q) = end
  <2>. HIDE DEF n
  <2>. QED BY <1>1 DEF FoldLeft, MapThenFoldSet, FailureFold
<1>. HIDE DEF n
<1>3. \E st : FailureSteps(st, t, q, n) /\ (CHOOSE g : FailureFold(g, t, q, n))[1 .. n] = st[n]
  BY <1>1, FailureStepsExist, Zenon
<1>. QED BY <1>2, <1>3 DEF n

LEMMA FailuresIngested ==
    ASSUME NEW t, IsFailures(t), NEW S, Reports(S), NEW q, Lists(q, S), NEW u, u = FoldLeft(IngestFailure, t, q)
    PROVE  /\ IsFailures(u)
           /\ u.dropped = 0 => t.dropped = 0 /\ \A name : AddsFailures(u, t, name, ReportedAs(S, name))
<1>. DEFINE n == Len(q)
<1>0. q \in Seq(S) /\ n \in Nat /\ (\A i \in 1 .. n : q[i] \in S) /\ S = FirstOf(q, n)
      /\ \A i, j \in 1 .. n : q[i] = q[j] => i = j
  BY SMTT(60) DEF Lists, FirstOf
<1>1. PICK st : FailureSteps(st, t, q, n) /\ u = st[n]
  <2>1. \E st : FailureSteps(st, t, q, Len(q)) /\ FoldLeft(IngestFailure, t, q) = st[Len(q)]
    BY <1>0, FailureRuns, Zenon
  <2>. QED BY <2>1
<1>2. st[0] = t /\ \A i \in 1 .. n : st[i] = IngestFailure(st[i - 1], q[i])
  BY <1>1 DEF FailureSteps
<1>. HIDE DEF n
<1>. DEFINE Good == {i \in Nat : i <= n =>
                /\ IsFailures(st[i])
                /\ st[i].dropped = 0 =>
                    t.dropped = 0 /\ \A name : AddsFailures(st[i], t, name, ReportedAs(FirstOf(q, i), name))}
<1>3. 0 \in Good
  <2>1. FirstOf(q, 0) = {}
    BY DEF FirstOf
  <2>2. \A name : ReportedAs({}, name) = 0 /\ ListedAs(t.entries, name) \in Nat
    BY ReportedNone, ListedNat
  <2>3. \A name : AddsFailures(t, t, name, ReportedAs(FirstOf(q, 0), name))
    BY <2>1, <2>2 DEF AddsFailures
  <2>. QED BY <1>2, <2>3
<1>4. ASSUME NEW i \in Nat, i \in Good PROVE i + 1 \in Good
  <2>. DEFINE x == q[i + 1]
              E == FirstOf(q, i)
  <2>. SUFFICES ASSUME i + 1 <= n
                PROVE  /\ IsFailures(st[i + 1])
                       /\ st[i + 1].dropped = 0 =>
                            /\ t.dropped = 0
                            /\ \A name : AddsFailures(st[i + 1], t, name, ReportedAs(FirstOf(q, i + 1), name))
    OBVIOUS
  <2>1. i + 1 \in 1 .. n /\ (i + 1) - 1 = i /\ i <= n /\ \A j \in 1 .. i : j \in 1 .. n /\ j # i + 1
    BY <1>0
  <2>2. st[i + 1] = IngestFailure(st[i], x) /\ x \in S
    BY <1>0, <1>2, <2>1
  <2>3. FirstOf(q, i + 1) = E \cup {x} /\ x \notin E /\ E \subseteq S
    <3>1. 1 .. i + 1 = (1 .. i) \cup {i + 1}
      OBVIOUS
    <3>2. FirstOf(q, i + 1) = E \cup {x}
      BY <3>1 DEF FirstOf
    <3>3. \A j \in 1 .. i : q[j] # x /\ q[j] \in S
      BY <1>0, <2>1
    <3>. QED BY <3>2, <3>3 DEF FirstOf
  <2>. HIDE DEF x, E
  <2>4. Reports(E) /\ x.count \in Nat
    BY <2>2, <2>3, FS_Subset DEF Reports
  <2>5. /\ IsFailures(st[i])
        /\ st[i].dropped = 0 => t.dropped = 0 /\ \A name : AddsFailures(st[i], t, name, ReportedAs(E, name))
    BY <1>4, <2>1 DEF E
  <2>6. Lists1(st[i + 1], st[i], x.kind, x.count)
    BY <2>2, IngestFailureIs
  <2>. DEFINE y == st[i]
              z == st[i + 1]
  <2>. HIDE DEF Good, y, z
  <2>7. /\ IsFailures(z)
        /\ z.dropped = 0 => y.dropped = 0 /\ \A name : AddsFailures(z, y, name, Share(x.kind, name, x.count))
    BY <2>4, <2>5, <2>6, FailureAdded DEF y, z
  <2>8. ASSUME z.dropped = 0, NEW name PROVE AddsFailures(z, t, name, ReportedAs(FirstOf(q, i + 1), name))
    <3>1. ReportedAs(E, name) \in Nat /\ ReportedAs(FirstOf(q, i + 1), name) = ReportedAs(E, name) + Share(x.kind, name, x.count)
      BY <2>3, <2>4, ReportedMore
    <3>2. Share(x.kind, name, x.count) \in Nat /\ ListedAs(t.entries, name) \in Nat
      BY <2>4, ShareNat, ListedNat
    <3>3. AddsFailures(y, t, name, ReportedAs(E, name)) /\ AddsFailures(z, y, name, Share(x.kind, name, x.count))
      BY <2>5, <2>7, <2>8 DEF y
    <3>. QED BY <3>1, <3>2, <3>3 DEF AddsFailures
  <2>. QED BY <2>5, <2>7, <2>8 DEF y, z
<1>. HIDE DEF Good
<1>5. n \in Good
  BY <1>0, <1>3, <1>4, NumberInduction
<1>. QED BY <1>0, <1>1, <1>5 DEF Good

LEMMA SumBeyond ==
    ASSUME NEW f, NEW g, NEW h, NEW one, IsFiniteSet(DOMAIN g), NEW R,
           \A x \in DOMAIN g : h[x] \in R, \A y \in R : \E x \in DOMAIN g : y = h[x],
           DOMAIN f = R \cup {one}, one \notin R, f[one] \in Int,
           \A x, y \in DOMAIN g : h[x] = h[y] => x = y,
           \A x \in DOMAIN g : g[x] \in Int /\ f[h[x]] = g[x]
    PROVE  SumFunction(f) = f[one] + SumFunction(g)
<1>. DEFINE e == [y \in R |-> f[y]]
<1>0. R = {h[x] : x \in DOMAIN g}
  OBVIOUS
<1>1. DOMAIN e = R /\ IsFiniteSet(R) /\ \A y \in R : e[y] = f[y] /\ f[y] \in Int
  BY <1>0, ImageFinite
<1>. HIDE DEF e
<1>2. \A x \in DOMAIN g : g[x] \in Int /\ e[h[x]] = g[x]
  BY <1>1
<1>3. SumFunction(e) = SumFunction(g)
  BY <1>0, <1>1, <1>2, SumReindex
<1>4. SumFunction(f) = SumFunction(e) + f[one]
  BY <1>1, SumExtend
<1>5. SumFunction(e) \in Int
  BY <1>1, SumInt
<1>. QED BY <1>3, <1>4, <1>5

Shifted(f, g, m) ==
    /\ DOMAIN f = 1 .. m + 1 /\ DOMAIN g = 1 .. m
    /\ (\A j \in 1 .. m + 1 : f[j] \in Int) /\ \A j \in 1 .. m : g[j] = f[j + 1]

LEMMA SumShift ==
    ASSUME NEW f, NEW g, NEW m \in Nat, Shifted(f, g, m)
    PROVE  SumFunction(f) = f[1] + SumFunction(g)
<1>. DEFINE h == [j \in 1 .. m |-> j + 1]
            R == {h[j] : j \in DOMAIN g}
<1>1. \A j \in DOMAIN g : h[j] = j + 1 /\ j + 1 \in DOMAIN f /\ j + 1 # 1 /\ f[j + 1] \in Int
  BY DEF Shifted
<1>2. \A j \in DOMAIN f : j # 1 => j - 1 \in DOMAIN g /\ (j - 1) + 1 = j
  BY DEF Shifted
<1>3. \A x, y \in DOMAIN g : h[x] = h[y] => x = y
  BY <1>1 DEF Shifted
<1>4. IsFiniteSet(DOMAIN g) /\ f[1] \in Int /\ 1 \in DOMAIN f
  BY FS_Interval DEF Shifted
<1>5. \A x \in DOMAIN g : g[x] \in Int /\ f[h[x]] = g[x]
  BY <1>1 DEF Shifted
<1>. HIDE DEF h
<1>6. ASSUME NEW j \in DOMAIN f, j # 1 PROVE j \in R
  <2>1. j - 1 \in DOMAIN g /\ (j - 1) + 1 = j
    BY <1>2, <1>6
  <2>2. h[j - 1] = j
    BY <1>1, <2>1
  <2>. QED BY <2>1, <2>2
<1>7. \A j \in DOMAIN g : h[j] \in DOMAIN f /\ h[j] # 1
  BY <1>1
<1>8. DOMAIN f = R \cup {1} /\ 1 \notin R
  BY <1>4, <1>6, <1>7, Zenon
<1>10. (\A x \in DOMAIN g : h[x] \in R) /\ \A y \in R : \E x \in DOMAIN g : y = h[x]
  OBVIOUS
<1>. HIDE DEF R
<1>. QED BY <1>3, <1>4, <1>5, <1>8, <1>10, SumBeyond

ReportsAll(q) == \A j \in DOMAIN q : Reports(q[j].failures)

LEMMA QueuedNat ==
    ASSUME NEW q, NEW n, IsQueue(q, n), ReportsAll(q), NEW name
    PROVE  QueuedAs(q, name) \in Nat
<1>. DEFINE f == [j \in DOMAIN q |-> ReportedAs(q[j].failures, name)]
<1>1. IsFiniteSet(DOMAIN q)
  BY QueueIs
<1>2. DOMAIN f = DOMAIN q /\ \A j \in DOMAIN q : f[j] \in Nat
  BY ReportedNat DEF ReportsAll
<1>. HIDE DEF f
<1>3. SumFunction(f) \in Nat
  BY <1>1, <1>2, SumNat
<1>. QED BY <1>3 DEF f, QueuedAs

LEMMA QueuedNone ==
    ASSUME NEW name
    PROVE  ReportsAll(<<>>) /\ QueuedAs(<<>>, name) = 0
<1>. DEFINE e == <<>>
            f == [j \in DOMAIN e |-> ReportedAs(e[j].failures, name)]
<1>1. DOMAIN e = {} /\ DOMAIN f = {} /\ IsFiniteSet({})
  BY FS_EmptySet
<1>. HIDE DEF f
<1>2. SumFunction(f) = 0
  BY <1>1, SumZero
<1>. QED BY <1>1, <1>2 DEF f, QueuedAs, ReportsAll

LEMMA QueuedAppend ==
    ASSUME NEW q, NEW n, IsQueue(q, n), ReportsAll(q), NEW b, IsBatch(b, n), Reports(b.failures), NEW name
    PROVE  /\ ReportsAll(Append(q, b))
           /\ QueuedAs(Append(q, b), name) = QueuedAs(q, name) + ReportedAs(b.failures, name)
<1>. DEFINE r == Append(q, b)
            m == Len(q) + 1
            f == [j \in DOMAIN q |-> ReportedAs(q[j].failures, name)]
            g == [j \in DOMAIN r |-> ReportedAs(r[j].failures, name)]
<1>1. /\ DOMAIN r = DOMAIN q \cup {m} /\ m \notin DOMAIN q /\ r[m] = b
      /\ \A j \in DOMAIN q : r[j] = q[j]
  BY QueueAppend
<1>2. IsFiniteSet(DOMAIN q)
  BY QueueIs
<1>. HIDE DEF r, m
<1>3. ReportsAll(r)
  BY <1>1 DEF ReportsAll
<1>4. \A j \in DOMAIN q : ReportedAs(q[j].failures, name) \in Int
  BY ReportedNat DEF ReportsAll
<1>5. ReportedAs(b.failures, name) \in Int
  BY ReportedNat
<1>6. /\ DOMAIN f = DOMAIN q /\ DOMAIN g = DOMAIN q \cup {m} /\ g[m] = ReportedAs(b.failures, name)
      /\ \A j \in DOMAIN f : f[j] \in Int /\ g[j] = f[j]
  BY <1>1, <1>4
<1>. HIDE DEF f, g
<1>7. SumFunction(g) = SumFunction(f) + g[m]
  BY <1>1, <1>2, <1>5, <1>6, SumExtend
<1>. QED BY <1>3, <1>6, <1>7 DEF f, g, r, QueuedAs

LEMMA QueuedTail ==
    ASSUME NEW q, NEW n, IsQueue(q, n), ReportsAll(q), q # <<>>, NEW name
    PROVE  /\ ReportsAll(Tail(q)) /\ Reports(Head(q).failures)
           /\ QueuedAs(q, name) = ReportedAs(Head(q).failures, name) + QueuedAs(Tail(q), name)
<1>. DEFINE r == Tail(q)
            m == Len(r)
            f == [j \in DOMAIN q |-> ReportedAs(q[j].failures, name)]
            g == [j \in DOMAIN r |-> ReportedAs(r[j].failures, name)]
<1>1. /\ IsQueue(r, n) /\ Head(q) = q[1] /\ 1 \in DOMAIN q
      /\ \A j \in DOMAIN q : j # 1 => j - 1 \in DOMAIN r
      /\ \A j \in DOMAIN r : j + 1 \in DOMAIN q /\ j + 1 # 1 /\ r[j] = q[j + 1]
  BY QueueTail
<1>2. m \in Nat /\ DOMAIN r = 1 .. m /\ DOMAIN q = 1 .. m + 1
  <2>1. PICK S : q \in Seq(S)
    BY DEF IsQueue
  <2>. QED BY <2>1
<1>. HIDE DEF r, m
<1>3. ReportsAll(r) /\ Reports(Head(q).failures)
  BY <1>1 DEF ReportsAll
<1>4. /\ DOMAIN f = 1 .. m + 1 /\ DOMAIN g = 1 .. m /\ f[1] = ReportedAs(Head(q).failures, name)
      /\ \A j \in 1 .. m : g[j] = f[j + 1]
  BY <1>1, <1>2
<1>5. \A j \in 1 .. m + 1 : f[j] \in Int
  BY <1>2, ReportedNat DEF ReportsAll
<1>. HIDE DEF f, g
<1>6. SumFunction(f) = f[1] + SumFunction(g)
  BY <1>2, <1>4, <1>5, SumShift DEF Shifted
<1>. QED BY <1>3, <1>4, <1>6 DEF f, g, r, QueuedAs

(***************************************************************************)
(* drain: the failures of a batch are those of the table.                  *)
(***************************************************************************)
Drained(f) == {[kind |-> k, count |-> f[k]] : k \in DOMAIN f}

LEMMA DrainedIs ==
    ASSUME NEW f, Tally(f), NEW name
    PROVE  Reports(Drained(f)) /\ ReportedAs(Drained(f), name) = ListedAs(f, name)
<1>. DEFINE h == [k \in DOMAIN f |-> [kind |-> k, count |-> f[k]]]
            S == Drained(f)
            F == [x \in S |-> Share(x.kind, name, x.count)]
            G == [k \in DOMAIN f |-> Share(k, name, f[k])]
<1>1. \A k \in DOMAIN f : h[k].kind = k /\ h[k].count = f[k]
  OBVIOUS
<1>2. S = {h[k] : k \in DOMAIN f}
  BY DEF Drained
<1>. HIDE DEF h, S
<1>3. IsFiniteSet(S)
  BY <1>2, ImageFinite DEF Tally
<1>4. Reports(S)
  BY <1>1, <1>2, <1>3 DEF Reports, Tally
<1>5. /\ IsFiniteSet(DOMAIN G) /\ DOMAIN G = DOMAIN f /\ DOMAIN F = {h[k] : k \in DOMAIN G}
      /\ \A x, y \in DOMAIN G : h[x] = h[y] => x = y
  BY <1>1, <1>2 DEF Tally
<1>6. \A k \in DOMAIN G : G[k] \in Int /\ F[h[k]] = G[k]
  BY <1>1, <1>2, ShareNat DEF Tally
<1>. HIDE DEF F, G
<1>7. SumFunction(F) = SumFunction(G)
  BY <1>5, <1>6, SumReindex
<1>. QED BY <1>4, <1>7 DEF F, G, S, ReportedAs, ListedAs

(***************************************************************************)
(* Ingest lists the failures of the batch.                                 *)
(***************************************************************************)
LEMMA IngestFailures ==
    ASSUME NEW s, StoreShape(s), Table(s.cumulative), s.droppedSeries \in Nat, IsFailures(s.failures),
           NEW b, Reports(b.failures), NEW t, NEW order, NEW reported, Ingesting(t, s, b, order, reported)
    PROVE  /\ IsFailures(t.failures)
           /\ t.failures.dropped = 0 =>
                /\ s.failures.dropped = 0
                /\ \A name : AddsFailures(t.failures, s.failures, name, ReportedAs(b.failures, name))
<1>. DEFINE D == b.series
            idx == b.bucket
            open == Opening(s, b)
            Failed(x) == FoldLeft(IngestFailure, x, reported)
            n == Len(order)
<1>0. t = Ingest(s, b, order, reported) /\ Shipped(D) /\ Lists(order, D) /\ reported \in Orders(b.failures, TRUE)
  BY DEF Ingesting
<1>1. PICK st : /\ IngestSteps(st, Start(open), order, idx, n)
                /\ t = IF st[n].ok THEN [st[n].store EXCEPT !.failures = Failed(@)] ELSE st[n].store
  <2>1. order \in Seq(b.series)
    BY <1>0 DEF Lists
  <2>2. \E st : /\ IngestSteps(st, Start(Opening(s, b)), order, b.bucket, Len(order))
                /\ Ingest(s, b, order, reported) =
                        IF st[Len(order)].ok
                        THEN [st[Len(order)].store EXCEPT !.failures = FoldLeft(IngestFailure, @, reported)]
                        ELSE st[Len(order)].store
    BY <2>1, IngestRuns, Zenon
  <2>. QED BY <1>0, <2>2, Zenon
<1>2. /\ StoreShape(open) /\ open.cumulative = s.cumulative /\ open.droppedSeries = s.droppedSeries
      /\ open.failures = s.failures
  BY OpeningIs
<1>. HIDE DEF open, idx
<1>. DEFINE u == st[n].store
<1>3. st[n].ok /\ Ingested(u, open, D)
  <2>1. Shipped(D) /\ Lists(order, D) /\ Table(open.cumulative) /\ open.droppedSeries \in Nat
    BY <1>0, <1>2
  <2>. HIDE DEF D
  <2>. QED BY <1>1, <1>2, <2>1, IngestedAll
<1>4. StoreShape(u) /\ u.failures = s.failures
  BY <1>2, <1>3 DEF Ingested, Apart
<1>. DEFINE e == Failed(u.failures)
<1>5. t = [u EXCEPT !.failures = e]
  BY <1>1, <1>3
<1>6. e = FoldLeft(IngestFailure, s.failures, reported)
  BY <1>4
<1>. HIDE DEF u, e
<1>7. t.failures = e
  BY <1>4, <1>5 DEF StoreShape
<1>8. Lists(reported, b.failures)
  <2>. DEFINE S == b.failures
              yes == TRUE
  <2>1. IsFiniteSet(S) /\ reported \in Orders(S, yes)
    BY <1>0 DEF Reports
  <2>. HIDE DEF S, yes
  <2>2. Lists(reported, S)
    BY <2>1, OrderLists
  <2>. QED BY <2>2 DEF S
<1>. QED BY <1>6, <1>7, <1>8, FailuresIngested

(***************************************************************************)
(* HTTPClient.record: the failure of a request is the sample that follows  *)
(* its http_req_failed, and names the same endpoint.                       *)
(***************************************************************************)
Truthy(o) == o.kind = "rate" /\ o.truthy

Follows(o, p) ==
    /\ Truthy(o) <=> p.kind = "failure"
    /\ p.kind = "failure" => FailureKind(p)[1] = Get(o.labels, "name")

Paired(q) ==
    /\ \A i \in 1 .. Len(q) : Truthy(q[i]) => i < Len(q)
    /\ \A i \in 1 .. Len(q) : i < Len(q) => Follows(q[i], q[i + 1])

Opens(q) == q # <<>> => q[1].kind # "failure"

Owed(q, name) ==
    IF q # <<>> /\ Head(q).kind = "failure" /\ FailureKind(Head(q))[1] = name THEN 1 ELSE 0

LEMMA PairedTail ==
    ASSUME NEW S, NEW q \in Seq(S), q # <<>>, Paired(q)
    PROVE  /\ Paired(Tail(q))
           /\ \A name : Owed(Tail(q), name) = IF Truthy(Head(q)) /\ Get(Head(q).labels, "name") = name THEN 1 ELSE 0
<1>. DEFINE r == Tail(q)
            m == Len(r)
<1>1. /\ r \in Seq(S) /\ m \in Nat /\ Len(q) = m + 1 /\ Head(q) = q[1]
      /\ \A i \in 1 .. m : r[i] = q[i + 1]
  OBVIOUS
<1>2. r # <<>> => m # 0 /\ Head(r) = r[1]
  BY <1>1
<1>0. r = <<>> => m = 0
  BY <1>1
<1>. HIDE DEF r, m
<1>3. ASSUME NEW i \in 1 .. m
      PROVE  (Truthy(r[i]) => i < m) /\ (i < m => Follows(r[i], r[i + 1]))
  <2>1. i + 1 \in 1 .. Len(q) /\ r[i] = q[i + 1] /\ (i + 1 < Len(q) <=> i < m)
    BY <1>1
  <2>2. i < m => i + 1 \in 1 .. m /\ r[i + 1] = q[(i + 1) + 1]
    BY <1>1
  <2>3. Truthy(q[i + 1]) => i + 1 < Len(q)
    BY <2>1 DEF Paired
  <2>4. i + 1 < Len(q) => Follows(q[i + 1], q[(i + 1) + 1])
    BY <2>1 DEF Paired
  <2>. QED BY <2>1, <2>2, <2>3, <2>4
<1>4. Paired(r)
  BY <1>3 DEF Paired, m
<1>5. 1 \in 1 .. Len(q) /\ 1 + 1 = 2 /\ (1 < Len(q) <=> m # 0)
  BY <1>1
<1>6. Truthy(q[1]) => m # 0
  BY <1>5 DEF Paired
<1>7. m # 0 => Follows(q[1], r[1])
  <2>1. m # 0 => Follows(q[1], q[1 + 1])
    BY <1>5 DEF Paired
  <2>2. m # 0 => r[1] = q[1 + 1]
    BY <1>1
  <2>. QED BY <2>1, <2>2
<1>8. ASSUME NEW name
      PROVE  Owed(r, name) = IF Truthy(Head(q)) /\ Get(Head(q).labels, "name") = name THEN 1 ELSE 0
  <2>1. CASE m = 0
    <3>1. r = <<>>
      BY <1>2, <2>1
    <3>. QED BY <1>1, <1>6, <2>1, <3>1 DEF Owed
  <2>2. CASE m # 0
    <3>1. r # <<>> /\ Head(r) = r[1] /\ Follows(q[1], r[1])
      BY <1>0, <1>2, <1>7, <2>2
    <3>. QED BY <1>1, <3>1 DEF Owed, Follows
  <2>. QED BY <2>1, <2>2
<1>. QED BY <1>4, <1>8 DEF r

LEMMA PairedConcat ==
    ASSUME NEW S, NEW q \in Seq(S), NEW r \in Seq(S), Paired(q), Paired(r), Opens(q), Opens(r)
    PROVE  Paired(q \o r) /\ Opens(q \o r)
<1>. DEFINE s == q \o r
            m == Len(q)
            k == Len(r)
<1>1. /\ s \in Seq(S) /\ m \in Nat /\ k \in Nat /\ Len(s) = m + k
      /\ (\A i \in 1 .. m : s[i] = q[i]) /\ \A i \in 1 .. k : s[m + i] = r[i]
  OBVIOUS
<1>2. (q = <<>> <=> m = 0) /\ (r = <<>> <=> k = 0) /\ (s = <<>> <=> m + k = 0)
  BY <1>1
<1>3. /\ \A i \in 1 .. m : Truthy(q[i]) => i < m
      /\ \A i \in 1 .. m : i < m => Follows(q[i], q[i + 1])
      /\ \A i \in 1 .. k : Truthy(r[i]) => i < k
      /\ \A i \in 1 .. k : i < k => Follows(r[i], r[i + 1])
  BY DEF Paired
<1>4. (m # 0 => q[1].kind # "failure") /\ (k # 0 => r[1].kind # "failure")
  BY <1>2 DEF Opens
<1>. HIDE DEF s, m, k
<1>5. Opens(s)
  <2>. SUFFICES ASSUME s # <<>> PROVE s[1].kind # "failure"
    BY DEF Opens
  <2>1. CASE m # 0
    <3>1. s[1] = q[1]
      BY <1>1, <2>1
    <3>. QED BY <1>4, <2>1, <3>1
  <2>2. CASE m = 0
    <3>1. k # 0 /\ 1 \in 1 .. k /\ m + 1 = 1
      BY <1>1, <1>2, <2>2
    <3>2. s[1] = r[1]
      BY <1>1, <3>1
    <3>. QED BY <1>4, <3>1, <3>2
  <2>. QED BY <2>1, <2>2
<1>6. ASSUME NEW i \in 1 .. Len(s)
      PROVE  (Truthy(s[i]) => i < Len(s)) /\ (i < Len(s) => Follows(s[i], s[i + 1]))
  <2>1. CASE i < m
    <3>1. i \in 1 .. m /\ i + 1 \in 1 .. m /\ i < Len(s)
      BY <1>1, <2>1
    <3>2. s[i] = q[i] /\ s[i + 1] = q[i + 1]
      BY <1>1, <3>1
    <3>3. Follows(q[i], q[i + 1])
      BY <1>3, <2>1, <3>1
    <3>. QED BY <3>1, <3>2, <3>3
  <2>2. CASE i = m
    <3>1. i \in 1 .. m /\ s[i] = q[i] /\ ~(i < m)
      BY <1>1, <2>2
    <3>2. ~Truthy(s[i])
      BY <1>3, <3>1
    <3>3. i < Len(s) => k # 0 /\ 1 \in 1 .. k /\ i + 1 = m + 1
      BY <1>1, <2>2
    <3>4. i < Len(s) => s[i + 1].kind # "failure"
      BY <1>1, <1>4, <3>3
    <3>. QED BY <3>2, <3>4 DEF Follows
  <2>3. CASE i > m
    <3>. DEFINE j == i - m
    <3>1. j \in 1 .. k /\ i = m + j /\ (i < Len(s) <=> j < k) /\ (j < k => j + 1 \in 1 .. k) /\ i + 1 = m + (j + 1)
      BY <1>1, <2>3
    <3>. HIDE DEF j
    <3>2. s[i] = r[j] /\ (j < k => s[i + 1] = r[j + 1])
      BY <1>1, <3>1
    <3>3. (Truthy(r[j]) => j < k) /\ (j < k => Follows(r[j], r[j + 1]))
      BY <1>3, <3>1
    <3>. QED BY <3>1, <3>2, <3>3
  <2>4. i < m \/ i = m \/ i > m
    BY <1>1
  <2>. QED BY <2>1, <2>2, <2>3, <2>4
<1>7. Paired(s)
  BY <1>6 DEF Paired
<1>. QED BY <1>5, <1>7 DEF s

LEMMA FlattenPaired ==
    ASSUME NEW S, NEW seqs \in Seq(Seq(S)), \A i \in 1 .. Len(seqs) : Paired(seqs[i]) /\ Opens(seqs[i])
    PROVE  Paired(FlattenSeq(seqs)) /\ Opens(FlattenSeq(seqs))
<1>. DEFINE n == Len(seqs)
<1>0. n \in Nat /\ \A i \in 1 .. n : seqs[i] \in Seq(S)
  OBVIOUS
<1>1. CASE n = 0
  <2>1. seqs = <<>> /\ Len(<<>>) = 0 /\ 1 .. 0 = {}
    BY <1>1
  <2>2. FlattenSeq(seqs) = seqs
    BY <1>1 DEF FlattenSeq
  <2>3. Paired(<<>>) /\ Opens(<<>>)
    BY <2>1 DEF Paired, Opens
  <2>. QED BY <2>1, <2>2, <2>3
<1>2. CASE n # 0
  <2>1. PICK f : Flattened(f, seqs, S, n) /\ FlattenSeq(seqs) = f[n]
    BY <1>2, FlattenRuns
  <2>. HIDE DEF n
  <2>2. (\A i \in 1 .. n : f[i] \in Seq(S)) /\ \A i \in 1 .. n : f[i] = IF i = 1 THEN seqs[i] ELSE f[i - 1] \o seqs[i]
    BY <2>1 DEF Flattened
  <2>. DEFINE K == {m \in Nat : m + 1 <= n => Paired(f[m + 1]) /\ Opens(f[m + 1])}
  <2>3. 0 \in K
    <3>1. 0 + 1 = 1 /\ 1 \in 1 .. n
      BY <1>0, <1>2
    <3>2. f[1] = seqs[1]
      BY <2>2, <3>1
    <3>3. Paired(f[1]) /\ Opens(f[1])
      BY <3>1, <3>2 DEF n
    <3>. QED BY <3>1, <3>3
  <2>4. ASSUME NEW m \in Nat, m \in K PROVE m + 1 \in K
    <3>. SUFFICES ASSUME (m + 1) + 1 <= n PROVE Paired(f[(m + 1) + 1]) /\ Opens(f[(m + 1) + 1])
      OBVIOUS
    <3>1. /\ (m + 1) + 1 \in 1 .. n /\ (m + 1) + 1 # 1 /\ ((m + 1) + 1) - 1 = m + 1 /\ m + 1 <= n /\ m + 1 \in 1 .. n
      BY <1>0
    <3>. DEFINE q == f[m + 1]
                r == seqs[(m + 1) + 1]
    <3>2. f[(m + 1) + 1] = q \o r
      BY <2>2, <3>1
    <3>3. q \in Seq(S) /\ r \in Seq(S)
      BY <1>0, <2>2, <3>1
    <3>4. Paired(q) /\ Opens(q) /\ Paired(r) /\ Opens(r)
      BY <2>4, <3>1 DEF n
    <3>. HIDE DEF q, r
    <3>5. Paired(q \o r) /\ Opens(q \o r)
      BY <3>3, <3>4, PairedConcat
    <3>. QED BY <3>2, <3>5
  <2>. HIDE DEF K
  <2>5. n - 1 \in Nat /\ (n - 1) + 1 = n /\ n <= n
    BY <1>0, <1>2
  <2>6. n - 1 \in K
    BY <2>3, <2>4, <2>5, NumberInduction
  <2>7. Paired(f[n]) /\ Opens(f[n])
    BY <2>5, <2>6 DEF K
  <2>. QED BY <2>1, <2>7
<1>. QED BY <1>1, <1>2

LEMMA SamplesPaired ==
    ASSUME NEW v \in VU, NEW req \in Request
    PROVE  /\ \E S : Samples(v, req) \in Seq(S)
           /\ Paired(Samples(v, req)) /\ Opens(Samples(v, req))
<1>. DEFINE labels == [scenario |-> Scenario[v], name |-> req.name, status |-> req.status]
            of(metric, kind, value, truthy) ==
              [metric |-> metric, labels |-> labels, kind |-> kind, value |-> value, truthy |-> truthy]
            a == of("http_reqs", "counter", 1, FALSE)
            b == of("http_req_duration", "trend", req.duration, FALSE)
            c == of("http_req_failed", "rate", 0, req.failed)
            d == [metric |-> "failure", labels |-> labels, kind |-> "failure", value |-> 1, truthy |-> TRUE]
            q == Samples(v, req)
<1>1. req.failed \in BOOLEAN
  BY Zenon DEF Request
<1>2. q = IF req.failed THEN Append(<<a, b, c>>, d) ELSE <<a, b, c>>
  BY DEF Samples
<1>3. /\ ~Truthy(a) /\ ~Truthy(b) /\ a.kind # "failure" /\ b.kind # "failure" /\ c.kind # "failure"
      /\ d.kind = "failure" /\ ~Truthy(d) /\ c.kind = "rate"
  BY DEF Truthy
<1>4. Truthy(c) <=> req.failed
  <2>1. c.truthy = req.failed /\ c.kind = "rate"
    OBVIOUS
  <2>. HIDE DEF c
  <2>. QED BY <1>1, <2>1, Zenon DEF Truthy
<1>5. FailureKind(d)[1] = Get(c.labels, "name")
  <2>1. d.labels = labels /\ c.labels = labels /\ labels.name = req.name /\ Get(labels, "name") = req.name
    BY DEF Get
  <2>2. FailureKind(d)[1] = d.labels.name
    BY DEF FailureKind
  <2>. HIDE DEF c, d, labels
  <2>. QED BY <2>1, <2>2
<1>. HIDE DEF a, b, c, d
<1>6. Follows(a, b) /\ Follows(b, c)
  BY <1>3 DEF Follows
<1>7. CASE ~req.failed
  <2>1. q = <<a, b, c>> /\ q \in Seq({a, b, c}) /\ Len(q) = 3 /\ q[1] = a /\ q[2] = b /\ q[3] = c
    BY <1>2, <1>7
  <2>. HIDE DEF q
  <2>2. 1 .. Len(q) = {1, 2, 3}
    BY <2>1
  <2>3. Paired(q) /\ Opens(q)
    BY <1>3, <1>4, <1>6, <1>7, <2>1, <2>2 DEF Paired, Opens
  <2>. QED BY <2>1, <2>3 DEF q
<1>8. CASE req.failed
  <2>. DEFINE p == <<a, b, c>>
  <2>0. p \in Seq({a, b, c, d}) /\ Len(p) = 3 /\ p[1] = a /\ p[2] = b /\ p[3] = c
    OBVIOUS
  <2>p. q = Append(p, d)
    BY <1>2, <1>8
  <2>. HIDE DEF p, q
  <2>1. q \in Seq({a, b, c, d}) /\ Len(q) = 4 /\ q[1] = a /\ q[2] = b /\ q[3] = c /\ q[4] = d
    <3>1. /\ q \in Seq({a, b, c, d}) /\ Len(q) = Len(p) + 1 /\ q[Len(p) + 1] = d
          /\ \A i \in 1 .. Len(p) : q[i] = p[i]
      <4>. DEFINE T == {a, b, c, d}
      <4>1. p \in Seq(T) /\ d \in T
        BY <2>0
      <4>. HIDE DEF T
      <4>2. /\ q \in Seq(T) /\ Len(q) = Len(p) + 1 /\ q[Len(p) + 1] = d
            /\ \A i \in 1 .. Len(p) : q[i] = p[i]
        BY <2>p, <4>1, AppendProperties
      <4>. QED BY <4>2 DEF T
    <3>. QED BY <2>0, <3>1
  <2>2. 1 .. Len(q) = {1, 2, 3, 4}
    BY <2>1
  <2>3. Follows(c, d)
    BY <1>3, <1>4, <1>5, <1>8 DEF Follows
  <2>4. Paired(q) /\ Opens(q)
    BY <1>3, <1>4, <1>6, <2>1, <2>2, <2>3 DEF Paired, Opens
  <2>. QED BY <2>1, <2>4 DEF q
<1>. QED BY <1>1, <1>7, <1>8

LEMMA AllPaired ==
    ASSUME NEW v \in VU, NEW reqs \in Seq(Request)
    PROVE  Paired(AllSamples(v, reqs)) /\ Opens(AllSamples(v, reqs))
<1>. DEFINE n == Len(reqs)
            seqs == [i \in 1 .. n |-> Samples(v, reqs[i])]
            R(i) == {seqs[i][j] : j \in 1 .. Len(seqs[i])}
            S == UNION {R(i) : i \in 1 .. n}
<1>1. n \in Nat /\ \A i \in 1 .. n : reqs[i] \in Request /\ seqs[i] = Samples(v, reqs[i])
  OBVIOUS
<1>d. DOMAIN seqs = 1 .. n /\ seqs = [i \in 1 .. n |-> seqs[i]]
  OBVIOUS
<1>4. AllSamples(v, reqs) = FlattenSeq(seqs)
  BY DEF AllSamples
<1>. HIDE DEF n, seqs
<1>2. ASSUME NEW i \in 1 .. n PROVE seqs[i] \in Seq(S) /\ Paired(seqs[i]) /\ Opens(seqs[i])
  <2>. DEFINE q == seqs[i]
              Q == R(i)
  <2>1. Paired(q) /\ Opens(q) /\ \E T : q \in Seq(T)
    BY <1>1, SamplesPaired
  <2>2. Q \subseteq S /\ \A j \in 1 .. Len(q) : q[j] \in Q
    OBVIOUS
  <2>. HIDE DEF q, Q, S
  <2>3. Len(q) \in Nat /\ q \in [1 .. Len(q) -> Q]
    BY <2>1, <2>2
  <2>4. q \in Seq(Q)
    BY <2>3
  <2>5. q \in Seq(S)
    BY <2>2, <2>4, SeqMore
  <2>. QED BY <2>1, <2>5 DEF q
<1>. HIDE DEF S
<1>3. seqs \in Seq(Seq(S)) /\ Len(seqs) = n
  <2>1. seqs \in [1 .. n -> Seq(S)]
    BY <1>2, <1>d
  <2>. QED BY <1>1, <2>1
<1>5. Paired(FlattenSeq(seqs)) /\ Opens(FlattenSeq(seqs))
  BY <1>2, <1>3, FlattenPaired
<1>. QED BY <1>4, <1>5

(***************************************************************************)
(* A failed request counts once as a failure of its endpoint.              *)
(***************************************************************************)
FailedAt(name) == OfEndpoint("http_req_failed", "nonZero", name)

LEMMA FailedAtIs ==
    ASSUME NEW name
    PROVE  /\ IsMeasure(FailedAt(name))
           /\ \A o : IsObs(o) => PartOf(FailedAt(name), o)
                                 = IF Truthy(o) /\ Get(o.labels, "name") = name THEN 1 ELSE 0
<1>1. IsMeasure(FailedAt(name))
  BY DEF FailedAt, OfEndpoint, IsMeasure
<1>2. ASSUME NEW o, IsObs(o)
      PROVE  PartOf(FailedAt(name), o) = IF Truthy(o) /\ Get(o.labels, "name") = name THEN 1 ELSE 0
  <2>1. o.kind = "rate" <=> o.metric = "http_req_failed"
    BY <1>2 DEF IsObs, Kinded
  <2>2. Measured(FailedAt(name), o.metric, o.labels)
            <=> o.metric = "http_req_failed" /\ name = Get(o.labels, "name")
    BY DEF Measured, FailedAt, OfEndpoint
  <2>3. FailedAt(name).of = "nonZero"
    BY DEF FailedAt, OfEndpoint
  <2>. QED BY <2>1, <2>2, <2>3 DEF PartOf, Truthy
<1>. QED BY <1>1, <1>2

(***************************************************************************)
(* The failures on their way: in the table of a worker, in its batches, in *)
(* the store, or about to be reported by a virtual user whose              *)
(* http_req_failed has been recorded.  While nothing was dropped, these    *)
(* are the failures observed of the endpoint.                              *)
(***************************************************************************)
HeldBy(fs, qs, n, name) == ListedAs(fs[n].entries, name) + QueuedAs(qs[n], name)

HeldByAll(fs, qs, name) == SumFunction([n \in Node |-> HeldBy(fs, qs, n, name)])

OwedByAll(td, name) == SumFunction([v \in VU |-> Owed(td[v], name)])

FailureForm(fs, qs) == \A n \in Node : IsFailures(fs[n]) /\ IsQueue(qs[n], n) /\ ReportsAll(qs[n])

Complete ==
    /\ ~unheard /\ store.droppedLate = 0 /\ store.failures.dropped = 0
    /\ \A n \in Node : failures[n].dropped = 0
    /\ made = ObservedIn(admitted, AllCount)

Balanced(name) ==
    ObservedIn(admitted, FailedAt(name))
        = HeldByAll(failures, inflight, name) + ListedAs(store.failures.entries, name) + OwedByAll(todo, name)

FailuresInv ==
    /\ Shape(failures, Node) /\ FailureForm(failures, inflight) /\ IsFailures(store.failures)
    /\ \A n \in Node : phase[n] = "done" => DOMAIN failures[n].entries = {}
    /\ \A v \in VU : Paired(todo[v])
    /\ ObservedIn(admitted, AllCount) <= made
    /\ Complete => \A name : Balanced(name)

LEMMA OwedIs ==
    ASSUME NEW q, NEW name
    PROVE  Owed(q, name) \in Nat
  BY DEF Owed

LEMMA HeldNat ==
    ASSUME NEW fs, NEW qs, FailureForm(fs, qs), NEW name
    PROVE  HeldByAll(fs, qs, name) \in Nat /\ \A n \in Node : HeldBy(fs, qs, n, name) \in Nat
<1>1. ASSUME NEW n \in Node PROVE HeldBy(fs, qs, n, name) \in Nat
  <2>. DEFINE t == fs[n]
              q == qs[n]
  <2>1. IsFailures(t) /\ IsQueue(q, n) /\ ReportsAll(q)
    BY DEF FailureForm
  <2>. HIDE DEF t, q
  <2>2. ListedAs(t.entries, name) \in Nat
    BY <2>1, ListedNat
  <2>3. QueuedAs(q, name) \in Nat
    BY <2>1, QueuedNat
  <2>4. HeldBy(fs, qs, n, name) = ListedAs(t.entries, name) + QueuedAs(q, name)
    BY DEF HeldBy, t, q
  <2>. QED BY <2>2, <2>3, <2>4
<1>. DEFINE f == [n \in Node |-> HeldBy(fs, qs, n, name)]
<1>2. DOMAIN f = Node /\ IsFiniteSet(Node) /\ \A n \in Node : f[n] \in Nat
  BY <1>1, Constants
<1>. HIDE DEF f
<1>3. SumFunction(f) \in Nat
  BY <1>2, SumNat
<1>. QED BY <1>1, <1>3 DEF f, HeldByAll

LEMMA HeldChange ==
    ASSUME NEW fs, NEW qs, FailureForm(fs, qs), NEW gs, NEW rs, FailureForm(gs, rs), NEW n \in Node,
           \A m \in Node : m # n => gs[m] = fs[m] /\ rs[m] = qs[m], NEW name
    PROVE  HeldByAll(gs, rs, name)
                = HeldByAll(fs, qs, name) + (HeldBy(gs, rs, n, name) - HeldBy(fs, qs, n, name))
<1>. DEFINE f == [m \in Node |-> HeldBy(fs, qs, m, name)]
            g == [m \in Node |-> HeldBy(gs, rs, m, name)]
<1>1. (\A m \in Node : HeldBy(fs, qs, m, name) \in Int) /\ \A m \in Node : HeldBy(gs, rs, m, name) \in Int
  <2>1. \A m \in Node : HeldBy(fs, qs, m, name) \in Nat
    BY HeldNat
  <2>2. \A m \in Node : HeldBy(gs, rs, m, name) \in Nat
    BY HeldNat
  <2>. QED BY <2>1, <2>2
<1>2. \A m \in Node : m # n => HeldBy(gs, rs, m, name) = HeldBy(fs, qs, m, name)
  BY DEF HeldBy
<1>3. /\ DOMAIN f = Node /\ DOMAIN g = DOMAIN f /\ n \in DOMAIN f
      /\ (\A y \in DOMAIN f : f[y] \in Int /\ g[y] \in Int) /\ \A y \in DOMAIN f : y # n => g[y] = f[y]
      /\ f[n] = HeldBy(fs, qs, n, name) /\ g[n] = HeldBy(gs, rs, n, name)
  BY <1>1, <1>2
<1>4. IsFiniteSet(Node)
  BY Constants
<1>. HIDE DEF f, g
<1>5. SumFunction(g) = SumFunction(f) + (g[n] - f[n])
  BY <1>3, <1>4, SumChange
<1>. QED BY <1>3, <1>5 DEF f, g, HeldByAll

OthersKeep(ue, td, v) == \A w \in VU : w # v => ue[w] = td[w]

LEMMA OwedChange ==
    ASSUME NEW td, NEW ue, NEW v \in VU, OthersKeep(ue, td, v), NEW name
    PROVE  /\ OwedByAll(td, name) \in Nat
           /\ OwedByAll(ue, name) = OwedByAll(td, name) + (Owed(ue[v], name) - Owed(td[v], name))
<1>. DEFINE f == [w \in VU |-> Owed(td[w], name)]
            g == [w \in VU |-> Owed(ue[w], name)]
<1>1. (\A w \in VU : Owed(td[w], name) \in Nat) /\ \A w \in VU : Owed(ue[w], name) \in Nat
  BY OwedIs
<1>2. /\ DOMAIN f = VU /\ DOMAIN g = DOMAIN f /\ v \in DOMAIN f
      /\ (\A y \in DOMAIN f : f[y] \in Nat /\ f[y] \in Int /\ g[y] \in Int)
      /\ \A y \in DOMAIN f : y # v => g[y] = f[y]
      /\ f[v] = Owed(td[v], name) /\ g[v] = Owed(ue[v], name)
  BY <1>1 DEF OthersKeep
<1>3. IsFiniteSet(VU)
  BY Constants
<1>. HIDE DEF f, g
<1>4. SumFunction(g) = SumFunction(f) + (g[v] - f[v])
  BY <1>2, <1>3, SumChange
<1>5. SumFunction(f) \in Nat
  BY <1>2, <1>3, SumNat
<1>. QED BY <1>2, <1>4, <1>5 DEF f, g, OwedByAll

LEMMA QueuesAre ==
    ASSUME RecorderInv
    PROVE  \A n \in Node : IsQueue(inflight[n], n)
  BY DEF RecorderInv, Agrees, Placed, NodePlaced, Places

(***************************************************************************)
(* FailureForm is kept when one node's table and queue change.             *)
(***************************************************************************)
LEMMA FormChange ==
    ASSUME NEW fs, NEW qs, FailureForm(fs, qs), NEW gs, NEW rs, NEW n \in Node,
           \A m \in Node : m # n => gs[m] = fs[m] /\ rs[m] = qs[m],
           IsFailures(gs[n]), IsQueue(rs[n], n), ReportsAll(rs[n])
    PROVE  FailureForm(gs, rs)
<1>. SUFFICES ASSUME NEW m \in Node PROVE IsFailures(gs[m]) /\ IsQueue(rs[m], m) /\ ReportsAll(rs[m])
  BY DEF FailureForm
<1>. QED BY DEF FailureForm

(***************************************************************************)
(* What a step of a virtual user does to its own list.                     *)
(***************************************************************************)
LEMMA RecordTodo ==
    ASSUME RecorderInv, FailuresInv, NEW v \in VU, Record(v)
    PROVE  /\ \A w \in VU : w # v => todo'[w] = todo[w]
           /\ todo'[v] = Tail(todo[v]) /\ IsSample(Head(todo[v]))
           /\ \A w \in VU : Paired(todo'[w])
           /\ \A name : Owed(todo'[v], name) = IF Truthy(Head(todo[v])) /\ Get(Head(todo[v]).labels, "name") = name
                                               THEN 1 ELSE 0
           /\ \A name : Owed(todo[v], name) = IF Head(todo[v]).kind = "failure"
                                              THEN Share(FailureKind(Head(todo[v])), name, 1) ELSE 0
<1>. DEFINE q == todo[v]
            e == Tail(q)
<1>1. todo' = [todo EXCEPT ![v] = e] /\ Shape(todo, VU) /\ q # <<>> /\ Paired(q) /\ IsTodo(q)
  BY DEF Record, RecorderInv, Shaped, Typed, FailuresInv
<1>. HIDE DEF e
<1>2. todo'[v] = e /\ \A w \in VU : w # v => todo'[w] = todo[w]
  BY <1>1 DEF Shape
<1>. HIDE DEF q
<1>3. PICK S : q \in Seq(S)
  BY <1>1 DEF IsTodo
<1>4. /\ Paired(e)
      /\ \A name : Owed(e, name) = IF Truthy(Head(q)) /\ Get(Head(q).labels, "name") = name THEN 1 ELSE 0
  BY <1>1, <1>3, PairedTail DEF e
<1>5. IsSample(Head(q))
  BY <1>1, TodoIs
<1>6. \A name : Owed(q, name) = IF Head(q).kind = "failure" THEN Share(FailureKind(Head(q)), name, 1) ELSE 0
  BY <1>1 DEF Owed, Share
<1>7. \A w \in VU : Paired(todo'[w])
  BY <1>2, <1>4 DEF FailuresInv
<1>. QED BY <1>2, <1>4, <1>5, <1>6, <1>7 DEF q, e

LEMMA ReportFailureIs ==
    ASSUME FailuresInv, NEW n \in Node, NEW kind, ReportFailure(n, kind)
    PROVE  /\ Shape(failures', Node) /\ \A m \in Node : m # n => failures'[m] = failures[m]
           /\ Lists1(failures'[n], failures[n], kind, 1)
<1>. DEFINE t == failures[n]
            u == IF kind \notin DOMAIN t.entries /\ Cardinality(DOMAIN t.entries) >= MaxFailureKinds
                 THEN [t EXCEPT !.dropped = @ + 1]
                 ELSE [t EXCEPT !.entries = Set(@, kind, At(@, kind, 0) + 1)]
<1>1. failures' = [failures EXCEPT ![n] = u] /\ Shape(failures, Node)
  BY DEF ReportFailure, FailuresInv
<1>2. Lists1(u, t, kind, 1)
  BY DEF Lists1
<1>. HIDE DEF u, t
<1>3. Shape(failures', Node) /\ failures'[n] = u /\ \A m \in Node : m # n => failures'[m] = failures[m]
  BY <1>1 DEF Shape
<1>. QED BY <1>2, <1>3 DEF t

(***************************************************************************)
(* A virtual user reports the failure of the request it has just counted.  *)
(***************************************************************************)
LEMMA RecordFailure ==
    ASSUME RecorderInv, FailuresInv, NEW v \in VU, Record(v), Head(todo[v]).kind = "failure"
    PROVE  FailuresInv'
<1>. DEFINE n == Host[v]
            o == Head(todo[v])
            kind == FailureKind(o)
            fs == failures
            gs == failures'
            qs == inflight
            td == todo
            ue == todo'
<1>0. n \in Node /\ o.kind = "failure"
  BY Constants
<1>1. /\ ReportFailure(n, kind) /\ todo[v] # <<>>
      /\ UNCHANGED <<made, admitted, phase, inflight, store, unheard>>
  BY <1>0 DEF Record
<1>2. phase[n] # "done"
  BY <1>0, <1>1 DEF RecorderInv, Ending
<1>3. /\ Shape(gs, Node) /\ \A m \in Node : m # n => gs[m] = fs[m]
      /\ Lists1(gs[n], fs[n], kind, 1)
  <2>. HIDE DEF kind, n
  <2>. QED BY <1>0, <1>1, ReportFailureIs
<1>4. /\ \A w \in VU : w # v => ue[w] = td[w]
      /\ \A w \in VU : Paired(ue[w])
      /\ \A name : Owed(ue[v], name) = IF Truthy(o) /\ Get(o.labels, "name") = name THEN 1 ELSE 0
      /\ \A name : Owed(td[v], name) = IF o.kind = "failure" THEN Share(FailureKind(o), name, 1) ELSE 0
  BY RecordTodo
<1>5. \A name : Owed(ue[v], name) = 0 /\ Owed(td[v], name) = Share(kind, name, 1)
  <2>1. ~Truthy(o)
    BY <1>0 DEF Truthy
  <2>. HIDE DEF ue, td, o
  <2>. QED BY <1>0, <1>4, <2>1 DEF kind
<1>6. /\ FailureForm(fs, qs) /\ IsFailures(store.failures) /\ IsFailures(fs[n]) /\ IsQueue(qs[n], n) /\ ReportsAll(qs[n])
      /\ \A m \in Node : phase[m] = "done" => DOMAIN fs[m].entries = {}
      /\ Complete => \A name : Balanced(name)
  BY <1>0 DEF FailuresInv, FailureForm
<1>7. /\ IsFailures(gs[n])
      /\ gs[n].dropped = 0 => fs[n].dropped = 0 /\ \A name : AddsFailures(gs[n], fs[n], name, Share(kind, name, 1))
  <2>. DEFINE t == fs[n]
              u == gs[n]
  <2>1. IsFailures(t) /\ Lists1(u, t, kind, 1) /\ 1 \in Nat
    BY <1>3, <1>6
  <2>. HIDE DEF t, u, kind
  <2>2. /\ IsFailures(u)
        /\ u.dropped = 0 => t.dropped = 0 /\ \A name : AddsFailures(u, t, name, Share(kind, name, 1))
    BY <2>1, FailureAdded
  <2>. QED BY <2>2 DEF t, u
<1>8. FailureForm(gs, qs)
  <2>. HIDE DEF fs, gs, qs, n
  <2>. QED BY <1>0, <1>3, <1>6, <1>7, FormChange
<1>9. ASSUME Complete', NEW name PROVE Balanced(name)'
  <2>. DEFINE L == ListedAs(store.failures.entries, name)
              O == ObservedIn(admitted, FailedAt(name))
              e == Share(kind, name, 1)
  <2>1. gs[n].dropped = 0 /\ \A m \in Node : gs[m].dropped = 0
    BY <1>0, <1>9 DEF Complete
  <2>2. fs[n].dropped = 0 /\ AddsFailures(gs[n], fs[n], name, e)
    BY <1>7, <2>1
  <2>3. Complete
    <3>1. \A m \in Node : failures[m].dropped = 0
      BY <1>3, <2>1, <2>2
    <3>. QED BY <1>1, <1>9, <3>1 DEF Complete
  <2>4. O = HeldByAll(fs, qs, name) + L + OwedByAll(td, name)
    BY <1>6, <2>3 DEF Balanced
  <2>5. L \in Nat
    <3>. DEFINE t == store.failures
    <3>1. IsFailures(t)
      BY <1>6
    <3>. HIDE DEF t
    <3>2. ListedAs(t.entries, name) \in Nat
      BY <3>1, ListedNat
    <3>. QED BY <3>2 DEF t
  <2>6. e \in Nat
    BY ShareNat
  <2>. HIDE DEF e, L, O, kind, n, fs, gs, qs, td, ue
  <2>7. HeldByAll(fs, qs, name) \in Nat /\ HeldBy(fs, qs, n, name) \in Nat
    BY <1>0, <1>6, HeldNat
  <2>8. HeldByAll(gs, qs, name) = HeldByAll(fs, qs, name) + (HeldBy(gs, qs, n, name) - HeldBy(fs, qs, n, name))
    BY <1>0, <1>3, <1>6, <1>8, HeldChange
  <2>9. HeldBy(gs, qs, n, name) = HeldBy(fs, qs, n, name) + e
    <3>1. ListedAs(fs[n].entries, name) \in Nat /\ QueuedAs(qs[n], name) \in Nat
      <4>. DEFINE t == fs[n]
                  q == qs[n]
      <4>1. IsFailures(t) /\ IsQueue(q, n) /\ ReportsAll(q)
        BY <1>6
      <4>. HIDE DEF t, q
      <4>2. ListedAs(t.entries, name) \in Nat
        BY <4>1, ListedNat
      <4>3. QueuedAs(q, name) \in Nat
        BY <4>1, QueuedNat
      <4>. QED BY <4>2, <4>3 DEF t, q
    <3>2. ListedAs(gs[n].entries, name) = ListedAs(fs[n].entries, name) + e
      BY <2>2 DEF AddsFailures
    <3>. QED BY <2>6, <3>1, <3>2 DEF HeldBy
  <2>10. /\ OwedByAll(td, name) \in Nat
         /\ OwedByAll(ue, name) = OwedByAll(td, name) + (Owed(ue[v], name) - Owed(td[v], name))
    <3>1. OthersKeep(ue, td, v)
      BY <1>4 DEF OthersKeep
    <3>. QED BY <3>1, OwedChange
  <2>11. Owed(ue[v], name) = 0 /\ Owed(td[v], name) = e
    BY <1>5 DEF e
  <2>12. O = HeldByAll(gs, qs, name) + L + OwedByAll(ue, name)
    BY <2>4, <2>5, <2>6, <2>7, <2>8, <2>9, <2>10, <2>11
  <2>. QED BY <1>1, <2>12 DEF Balanced, O, L, gs, qs, ue
<1>10. \A m \in Node : phase'[m] = "done" => DOMAIN failures'[m].entries = {}
  BY <1>1, <1>2, <1>3, <1>6
<1>11. (ObservedIn(admitted, AllCount) <= made)'
  BY <1>1 DEF FailuresInv
<1>12. IsFailures(store.failures)' /\ FailureForm(failures', inflight')
  BY <1>1, <1>6, <1>8
<1>. QED BY <1>3, <1>4, <1>9, <1>10, <1>11, <1>12 DEF FailuresInv

Admits(B, A, o) == \A k : IsMeasure(k) => ObservedIn(B, k) = ObservedIn(A, k) + PartOf(k, o)

LEMMA RecordAdmits ==
    ASSUME RecorderInv, NEW n \in Node, NEW o, IsObs(o), NEW hint, RecordAt(n, o, hint)
    PROVE  admitted' = admitted \/ Admits(admitted', admitted, o)
<1>. DEFINE A == admitted
            B == admitted'
<1>1. B = A \/ B = Set(A, <<n, o>>, At(A, <<n, o>>, 0) + 1)
  BY DEF RecordAt
<1>2. Counted(A)
  BY DEF RecorderInv, Agrees
<1>. HIDE DEF A, B
<1>3. CASE B = Set(A, <<n, o>>, At(A, <<n, o>>, 0) + 1)
  <2>1. \A k : IsMeasure(k) => ObservedIn(B, k) = ObservedIn(A, k) + PartOf(k, o)
    BY <1>2, <1>3, AdmitIs
  <2>. QED BY <2>1 DEF Admits, A, B
<1>. QED BY <1>1, <1>3 DEF A, B

LEMMA ObservedIs ==
    ASSUME RecorderInv
    PROVE  ObservedIn(admitted, AllCount) \in Nat /\ \A name : ObservedIn(admitted, FailedAt(name)) \in Nat
<1>. DEFINE A == admitted
<1>1. Counted(A)
  BY DEF RecorderInv, Agrees
<1>. HIDE DEF A
<1>2. ObservedIn(A, AllCount) \in Nat
  BY <1>1, AllCountIs, ObservedNat
<1>3. \A name : ObservedIn(A, FailedAt(name)) \in Nat
  BY <1>1, FailedAtIs, ObservedNat
<1>. QED BY <1>2, <1>3 DEF A

LEMMA StoreListed ==
    ASSUME FailuresInv, NEW name
    PROVE  /\ ListedAs(store.failures.entries, name) \in Nat
           /\ HeldByAll(failures, inflight, name) \in Nat
<1>. DEFINE t == store.failures
            fs == failures
            qs == inflight
<1>1. IsFailures(t) /\ FailureForm(fs, qs)
  BY DEF FailuresInv
<1>. HIDE DEF t, fs, qs
<1>2. ListedAs(t.entries, name) \in Nat
  BY <1>1, ListedNat
<1>3. HeldByAll(fs, qs, name) \in Nat
  BY <1>1, HeldNat
<1>. QED BY <1>2, <1>3 DEF t, fs, qs

LEMMA RecordObservation ==
    ASSUME RecorderInv, FailuresInv, NEW v \in VU, Record(v), Head(todo[v]).kind # "failure"
    PROVE  FailuresInv'
<1>. DEFINE n == Host[v]
            o == Head(todo[v])
            td == todo
            ue == todo'
            A == admitted
            B == admitted'
<1>0. n \in Node /\ o.kind # "failure" /\ made \in Nat
  BY Constants DEF RecorderInv, Typed
<1>1. /\ RecordAt(n, o, Hint[v]) /\ made' = made + 1
      /\ UNCHANGED <<failures, phase, inflight, store, unheard>>
  BY <1>0 DEF Record
<1>4. /\ \A w \in VU : w # v => ue[w] = td[w]
      /\ (\A w \in VU : Paired(ue[w])) /\ IsSample(o)
      /\ \A name : Owed(ue[v], name) = IF Truthy(o) /\ Get(o.labels, "name") = name THEN 1 ELSE 0
      /\ \A name : Owed(td[v], name) = IF o.kind = "failure" THEN Share(FailureKind(o), name, 1) ELSE 0
  BY RecordTodo
<1>5. OthersKeep(ue, td, v) /\ \A name : Owed(td[v], name) = 0
  BY <1>0, <1>4 DEF OthersKeep
<1>6. IsObs(o) /\ o.metric # "vus"
  BY <1>0, <1>4 DEF IsSample, IsObs, Kinded
<1>7. \A name : Owed(ue[v], name) = PartOf(FailedAt(name), o)
  <2>. HIDE DEF ue, td, o
  <2>. QED BY <1>4, <1>6, FailedAtIs
<1>8. B = A \/ Admits(B, A, o)
  <2>. HIDE DEF o, n
  <2>. QED BY <1>0, <1>1, <1>6, RecordAdmits
<1>9. /\ ObservedIn(A, AllCount) \in Nat /\ (\A name : ObservedIn(A, FailedAt(name)) \in Nat)
      /\ ObservedIn(A, AllCount) <= made
  BY ObservedIs DEF FailuresInv
<1>. HIDE DEF A, B, o, ue, td
<1>10. CASE B = A
  <2>1. ObservedIn(B, AllCount) <= made' /\ ObservedIn(B, AllCount) # made'
    BY <1>0, <1>1, <1>9, <1>10
  <2>2. ~Complete'
    BY <2>1 DEF Complete, B
  <2>. QED BY <1>1, <1>4, <2>1, <2>2 DEF FailuresInv, B, ue
<1>11. CASE Admits(B, A, o)
  <2>1. ObservedIn(B, AllCount) = ObservedIn(A, AllCount) + 1
    BY <1>6, <1>11, AllCountIs DEF Admits
  <2>2. \A name : ObservedIn(B, FailedAt(name)) = ObservedIn(A, FailedAt(name)) + PartOf(FailedAt(name), o)
    BY <1>11, FailedAtIs DEF Admits
  <2>3. ObservedIn(B, AllCount) <= made' /\ (made' = ObservedIn(B, AllCount) => made = ObservedIn(A, AllCount))
    BY <1>0, <1>1, <1>9, <2>1
  <2>4. ASSUME Complete', NEW name PROVE Balanced(name)'
    <3>. DEFINE L == ListedAs(store.failures.entries, name)
                H == HeldByAll(failures, inflight, name)
    <3>1. Complete
      BY <1>1, <2>3, <2>4 DEF Complete, A, B
    <3>2. ObservedIn(A, FailedAt(name)) = H + L + OwedByAll(td, name)
      BY <3>1 DEF FailuresInv, Balanced, A, td
    <3>3. L \in Nat /\ H \in Nat
      BY StoreListed
    <3>. HIDE DEF L, H
    <3>4. /\ OwedByAll(td, name) \in Nat
          /\ OwedByAll(ue, name) = OwedByAll(td, name) + (Owed(ue[v], name) - Owed(td[v], name))
      BY <1>5, OwedChange
    <3>5. Owed(ue[v], name) \in Nat
      BY OwedIs
    <3>6. ObservedIn(B, FailedAt(name)) = H + L + OwedByAll(ue, name)
      BY <1>5, <1>7, <2>2, <3>2, <3>3, <3>4, <3>5
    <3>. QED BY <1>1, <3>6 DEF Balanced, B, H, L, ue
  <2>. QED BY <1>1, <1>4, <2>3, <2>4 DEF FailuresInv, B, ue
<1>. QED BY <1>8, <1>10, <1>11

LEMMA GaugeFailures ==
    ASSUME RecorderInv, FailuresInv, NEW n \in Node, ReportGauge(n)
    PROVE  FailuresInv'
<1>. DEFINE A == admitted
            B == admitted'
<1>1. UNCHANGED <<todo, failures, phase, inflight, store, made, unheard>>
  BY DEF ReportGauge
<1>2. PICK vus \in VUReadings, sc \in {Scenario[v] : v \in {u \in VU : Host[u] = n}} :
            RecordAt(n, [metric |-> "vus", labels |-> [scenario |-> sc], kind |-> "gauge",
                         value |-> vus, truthy |-> FALSE], rr'[n])
  BY DEF ReportGauge
<1>. DEFINE o == [metric |-> "vus", labels |-> [scenario |-> sc], kind |-> "gauge",
                  value |-> vus, truthy |-> FALSE]
<1>3. o.metric = "vus" /\ o.kind = "gauge" /\ o.value = vus /\ o.truthy = FALSE /\ RecordAt(n, o, rr'[n])
  BY <1>2
<1>l. Labelled("vus", o.labels)
  BY <1>2, ScenariosNamed DEF Labelled, Get
<1>. HIDE DEF o
<1>4. IsObs(o)
  BY <1>2, <1>3, <1>l, Constants DEF IsObs, Kinded
<1>5. B = A \/ Admits(B, A, o)
  BY <1>3, <1>4, RecordAdmits
<1>6. /\ ObservedIn(A, AllCount) \in Nat /\ (\A name : ObservedIn(A, FailedAt(name)) \in Nat)
  BY ObservedIs
<1>. HIDE DEF A, B
<1>7. PartOf(AllCount, o) = 0 /\ \A name : PartOf(FailedAt(name), o) = 0
  BY <1>3, <1>4, AllCountIs, FailedAtIs DEF Truthy
<1>8. /\ ObservedIn(B, AllCount) = ObservedIn(A, AllCount)
      /\ \A name : ObservedIn(B, FailedAt(name)) = ObservedIn(A, FailedAt(name))
  <2>1. CASE Admits(B, A, o)
    <3>1. ObservedIn(B, AllCount) = ObservedIn(A, AllCount) + PartOf(AllCount, o)
      BY <2>1, AllCountIs DEF Admits
    <3>2. \A name : ObservedIn(B, FailedAt(name)) = ObservedIn(A, FailedAt(name)) + PartOf(FailedAt(name), o)
      BY <2>1, FailedAtIs DEF Admits
    <3>. QED BY <1>6, <1>7, <3>1, <3>2
  <2>. QED BY <1>5, <2>1
<1>9. Complete' => Complete
  BY <1>1, <1>8 DEF Complete, A, B
<1>10. \A name : Balanced(name) => Balanced(name)'
  BY <1>1, <1>8 DEF Balanced, A, B
<1>11. (ObservedIn(admitted, AllCount) <= made)'
  BY <1>1, <1>8 DEF FailuresInv, A, B
<1>. QED BY <1>1, <1>9, <1>10, <1>11 DEF FailuresInv

(***************************************************************************)
(* A step that moves no failure.                                           *)
(***************************************************************************)
LEMMA QuietStep ==
    ASSUME FailuresInv, UNCHANGED <<todo, failures, inflight, store, made, admitted, unheard>>,
           \A m \in Node : phase'[m] = "done" => phase[m] = "done"
    PROVE  FailuresInv'
<1>1. Complete' => Complete
  BY DEF Complete
<1>2. \A name : Balanced(name) => Balanced(name)'
  BY DEF Balanced
<1>. QED BY <1>1, <1>2 DEF FailuresInv

LEMMA FlushShardFailures ==
    ASSUME RecorderInv, FailuresInv, NEW n \in Node, FlushShard(n)
    PROVE  FailuresInv'
<1>1. UNCHANGED <<todo, failures, inflight, store, made, admitted, unheard>>
  BY DEF FlushShard
<1>2. phase' = phase \/ phase' = [phase EXCEPT ![n] = "last"]
  BY DEF FlushShard, MayFlush
<1>3. Shape(phase, Node)
  BY DEF RecorderInv, Shaped
<1>4. \A m \in Node : phase'[m] = "done" => phase[m] = "done"
  BY <1>2, <1>3 DEF Shape
<1>. QED BY <1>1, <1>4, QuietStep

LEMMA EngineReturnsFailures ==
    ASSUME RecorderInv, FailuresInv, NEW n \in Node, EngineReturns(n)
    PROVE  FailuresInv'
<1>1. UNCHANGED <<todo, failures, inflight, store, made, admitted, unheard>>
  BY DEF EngineReturns
<1>2. phase' = [phase EXCEPT ![n] = "stopping"]
  BY DEF EngineReturns
<1>3. Shape(phase, Node)
  BY DEF RecorderInv, Shaped
<1>4. \A m \in Node : phase'[m] = "done" => phase[m] = "done"
  BY <1>2, <1>3 DEF Shape
<1>. QED BY <1>1, <1>4, QuietStep

(***************************************************************************)
(* Flush drains the failure table into the batch.                          *)
(***************************************************************************)
LEMMA FlushEndFailures ==
    ASSUME RecorderInv, RecorderInv', FailuresInv, NEW n \in Node, FlushEnd(n)
    PROVE  FailuresInv'
<1>. DEFINE b == Batch(n)
            q == inflight[n]
            t == failures[n]
            u == [t EXCEPT !.entries = Empty]
            fs == failures
            gs == failures'
            qs == inflight
            rs == inflight'
<1>1. /\ UNCHANGED <<todo, store, made, admitted>> /\ failures' = [failures EXCEPT ![n] = u]
      /\ phase' = [phase EXCEPT ![n] = IF @ = "last" THEN "done" ELSE @]
  <2>1. failures' = [failures EXCEPT ![n].entries = Empty]
    BY DEF FlushEnd
  <2>. QED BY <2>1 DEF FlushEnd
<1>2. \/ inflight' = [inflight EXCEPT ![n] = Append(q, b)] /\ unheard' = unheard
      \/ inflight' = inflight /\ unheard' = TRUE
  BY DEF FlushEnd
<1>3. b.failures = Drained(t.entries)
  BY DEF Batch, Drained
<1>4. Shape(failures, Node) /\ Shape(inflight, Node) /\ Shape(phase, Node) /\ FailureForm(fs, qs)
  BY DEF RecorderInv, Shaped, FailuresInv
<1>5. IsFailures(t) /\ ReportsAll(q) /\ IsQueue(q, n) /\ Tally(t.entries)
  BY <1>4 DEF FailureForm, IsFailures
<1>6. IsQueue(inflight'[n], n)
  <2>. DEFINE Q == Places'
  <2>1. Placed(Q) /\ Q.inflight = inflight'
    BY DEF RecorderInv, Agrees, Places
  <2>. HIDE DEF Q
  <2>. QED BY <2>1 DEF Placed, NodePlaced
<1>b. inflight' = [inflight EXCEPT ![n] = Append(q, b)] => IsBatch(b, n)
  <2>. SUFFICES ASSUME inflight' = [inflight EXCEPT ![n] = Append(q, b)] PROVE IsBatch(b, n)
    OBVIOUS
  <2>. DEFINE e == Append(q, b)
  <2>1. inflight' = [inflight EXCEPT ![n] = e]
    OBVIOUS
  <2>. HIDE DEF e
  <2>2. inflight'[n] = e
    BY <1>4, <2>1 DEF Shape
  <2>3. IsQueue(e, n)
    BY <1>6, <2>2
  <2>. HIDE DEF q, b
  <2>4. PICK S : q \in Seq(S)
    BY <1>5 DEF IsQueue
  <2>5. PICK T : e \in Seq(T) /\ \A c \in T : IsBatch(c, n)
    BY <2>3 DEF IsQueue
  <2>6. Len(q) + 1 \in DOMAIN e /\ e[Len(q) + 1] = b
    BY <2>4 DEF e
  <2>7. b \in T
    BY <2>5, <2>6
  <2>. QED BY <2>5, <2>7
<1>. HIDE DEF b
<1>7. IsFailures(u) /\ u.entries = Empty /\ u.dropped = t.dropped
  <2>1. /\ t = [entries |-> t.entries, dropped |-> t.dropped] /\ t.dropped \in Nat
    BY <1>5 DEF IsFailures
  <2>. HIDE DEF t
  <2>2. u.entries = Empty /\ u.dropped = t.dropped /\ u = [entries |-> u.entries, dropped |-> u.dropped]
    BY <2>1
  <2>3. DOMAIN Empty = {}
    BY DEF Empty
  <2>. HIDE DEF u
  <2>4. Tally(u.entries)
    BY <2>2, <2>3, FS_EmptySet DEF Tally
  <2>. QED BY <2>1, <2>2, <2>4 DEF IsFailures
<1>. HIDE DEF u, t
<1>8. Shape(gs, Node) /\ gs[n] = u /\ \A m \in Node : m # n => gs[m] = fs[m]
  BY <1>1, <1>4 DEF Shape
<1>9. \A m \in Node : phase'[m] = "done" => m = n \/ phase[m] = "done"
  BY <1>1, <1>4 DEF Shape
<1>10. \A m \in Node : phase'[m] = "done" => DOMAIN gs[m].entries = {}
  <2>1. DOMAIN Empty = {}
    BY DEF Empty
  <2>2. \A m \in Node : phase[m] = "done" => DOMAIN fs[m].entries = {}
    BY DEF FailuresInv
  <2>. QED BY <1>7, <1>8, <1>9, <2>1, <2>2
<1>d. \A name : Reports(b.failures) /\ ReportedAs(b.failures, name) = ListedAs(t.entries, name)
  BY <1>3, <1>5, DrainedIs
<1>11. CASE inflight' = inflight /\ unheard' = TRUE
  <2>1. ~Complete'
    BY <1>11 DEF Complete
  <2>2. FailureForm(gs, rs)
    <3>1. \A m \in Node : m # n => gs[m] = fs[m] /\ rs[m] = qs[m]
      BY <1>8, <1>11
    <3>2. IsFailures(gs[n]) /\ IsQueue(rs[n], n) /\ ReportsAll(rs[n])
      BY <1>5, <1>7, <1>8, <1>11
    <3>. HIDE DEF gs, rs, fs, qs
    <3>. QED BY <1>4, <3>1, <3>2, FormChange
  <2>. QED BY <1>1, <1>8, <1>10, <2>1, <2>2 DEF FailuresInv
<1>12. CASE inflight' = [inflight EXCEPT ![n] = Append(q, b)] /\ unheard' = unheard
  <2>1. rs[n] = Append(q, b) /\ \A m \in Node : m # n => rs[m] = qs[m]
    <3>. DEFINE e == Append(q, b)
    <3>1. inflight' = [inflight EXCEPT ![n] = e]
      BY <1>12
    <3>. HIDE DEF e
    <3>2. rs[n] = e /\ \A m \in Node : m # n => rs[m] = qs[m]
      BY <1>4, <3>1 DEF Shape
    <3>. QED BY <3>2 DEF e
  <2>. HIDE DEF q
  <2>2. \A name : /\ ReportsAll(Append(q, b))
                  /\ QueuedAs(Append(q, b), name) = QueuedAs(q, name) + ReportedAs(b.failures, name)
    BY <1>5, <1>b, <1>12, <1>d, QueuedAppend DEF q
  <2>3. FailureForm(gs, rs)
    <3>1. \A m \in Node : m # n => gs[m] = fs[m] /\ rs[m] = qs[m]
      BY <1>8, <2>1
    <3>2. IsFailures(gs[n]) /\ IsQueue(rs[n], n) /\ ReportsAll(rs[n])
      BY <1>6, <1>7, <1>8, <2>1, <2>2
    <3>. HIDE DEF gs, rs, fs, qs
    <3>. QED BY <1>4, <3>1, <3>2, FormChange
  <2>4. ASSUME NEW name PROVE HeldByAll(gs, rs, name) = HeldByAll(fs, qs, name)
    <3>1. ListedAs(u.entries, name) = 0
      <4>1. DOMAIN u.entries = {}
        BY <1>7 DEF Empty
      <4>. QED BY <4>1, ListedNone
    <3>2. HeldBy(gs, rs, n, name) = 0 + (QueuedAs(q, name) + ListedAs(t.entries, name))
      BY <1>8, <1>d, <2>1, <2>2, <3>1 DEF HeldBy
    <3>3. HeldBy(fs, qs, n, name) = ListedAs(t.entries, name) + QueuedAs(q, name)
      BY DEF HeldBy, t, q
    <3>4. ListedAs(t.entries, name) \in Nat
      BY <1>5, ListedNat
    <3>5. QueuedAs(q, name) \in Nat
      BY <1>5, QueuedNat
    <3>6. \A m \in Node : m # n => gs[m] = fs[m] /\ rs[m] = qs[m]
      BY <1>8, <2>1
    <3>. HIDE DEF gs, rs, fs, qs
    <3>7. HeldByAll(gs, rs, name) = HeldByAll(fs, qs, name) + (HeldBy(gs, rs, n, name) - HeldBy(fs, qs, n, name))
      BY <1>4, <2>3, <3>6, HeldChange
    <3>8. HeldByAll(fs, qs, name) \in Nat
      BY <1>4, HeldNat
    <3>. QED BY <3>2, <3>3, <3>4, <3>5, <3>7, <3>8
  <2>5. Complete' => Complete
    <3>1. \A m \in Node : gs[m].dropped = fs[m].dropped
      BY <1>7, <1>8 DEF t
    <3>. QED BY <1>1, <1>12, <3>1 DEF Complete
  <2>6. \A name : Balanced(name) => Balanced(name)'
    BY <1>1, <2>4 DEF Balanced
  <2>. QED BY <1>1, <1>8, <1>10, <2>3, <2>5, <2>6 DEF FailuresInv
<1>. QED BY <1>2, <1>11, <1>12

(***************************************************************************)
(* A batch leaves its queue: its failures come off what the node holds.    *)
(***************************************************************************)
LEMMA TakenHeld ==
    ASSUME RecorderInv, FailuresInv, NEW n \in Node, inflight[n] # <<>>,
           inflight' = [inflight EXCEPT ![n] = Tail(@)], failures' = failures
    PROVE  /\ FailureForm(failures', inflight') /\ Reports(Head(inflight[n]).failures)
           /\ \A name : HeldByAll(failures, inflight, name)
                            = HeldByAll(failures', inflight', name) + ReportedAs(Head(inflight[n]).failures, name)
<1>. DEFINE q == inflight[n]
            r == Tail(q)
            b == Head(q)
            fs == failures
            qs == inflight
            rs == inflight'
<1>1. FailureForm(fs, qs) /\ Shape(inflight, Node) /\ q # <<>> /\ inflight' = [inflight EXCEPT ![n] = r]
  BY DEF FailuresInv, RecorderInv, Shaped
<1>2. IsQueue(q, n) /\ ReportsAll(q) /\ IsFailures(fs[n])
  BY <1>1 DEF FailureForm
<1>. HIDE DEF r
<1>3. rs[n] = r /\ \A m \in Node : m # n => fs[m] = fs[m] /\ rs[m] = qs[m]
  BY <1>1 DEF Shape
<1>. HIDE DEF q
<1>4. /\ ReportsAll(r) /\ Reports(b.failures)
      /\ \A name : QueuedAs(q, name) = ReportedAs(b.failures, name) + QueuedAs(r, name)
  BY <1>1, <1>2, QueuedTail DEF r
<1>5. IsQueue(r, n)
  BY <1>1, <1>2, QueueTail DEF r
<1>. HIDE DEF b, rs
<1>6. FailureForm(fs, rs)
  <2>. SUFFICES ASSUME NEW m \in Node PROVE IsFailures(fs[m]) /\ IsQueue(rs[m], m) /\ ReportsAll(rs[m])
    BY DEF FailureForm
  <2>1. IsFailures(fs[m]) /\ IsQueue(qs[m], m) /\ ReportsAll(qs[m])
    BY <1>1 DEF FailureForm
  <2>2. m = n \/ rs[m] = qs[m]
    BY <1>3
  <2>. QED BY <1>3, <1>4, <1>5, <2>1, <2>2
<1>7. ASSUME NEW name PROVE HeldByAll(fs, qs, name) = HeldByAll(fs, rs, name) + ReportedAs(b.failures, name)
  <2>. DEFINE c == ReportedAs(b.failures, name)
              l == ListedAs(fs[n].entries, name)
  <2>1. c \in Nat
    BY <1>4, ReportedNat
  <2>2. l \in Nat
    <3>. DEFINE t == fs[n]
    <3>1. IsFailures(t)
      BY <1>2
    <3>. HIDE DEF t
    <3>2. ListedAs(t.entries, name) \in Nat
      BY <3>1, ListedNat
    <3>. QED BY <3>2 DEF t
  <2>3. QueuedAs(r, name) \in Nat
    BY <1>4, <1>5, QueuedNat
  <2>4. HeldBy(fs, qs, n, name) = l + QueuedAs(q, name) /\ HeldBy(fs, rs, n, name) = l + QueuedAs(r, name)
    BY <1>3 DEF HeldBy, q
  <2>5. QueuedAs(q, name) = c + QueuedAs(r, name)
    BY <1>4
  <2>. HIDE DEF fs, qs, c, l
  <2>6. HeldByAll(fs, rs, name) = HeldByAll(fs, qs, name) + (HeldBy(fs, rs, n, name) - HeldBy(fs, qs, n, name))
    BY <1>1, <1>3, <1>6, HeldChange
  <2>7. HeldByAll(fs, qs, name) \in Nat
    BY <1>1, HeldNat
  <2>8. HeldByAll(fs, qs, name) = HeldByAll(fs, rs, name) + c
    BY <2>1, <2>2, <2>3, <2>4, <2>5, <2>6, <2>7
  <2>. QED BY <2>8 DEF c
<1>. QED BY <1>4, <1>6, <1>7 DEF fs, qs, rs, b, q

LEMMA DeliverFailures ==
    ASSUME RecorderInv, FailuresInv, NEW n \in Node, Deliver(n)
    PROVE  FailuresInv'
<1>. DEFINE b == Head(inflight[n])
            s == store
            t == store'
<1>1. /\ inflight[n] # <<>> /\ inflight' = [inflight EXCEPT ![n] = Tail(@)]
      /\ UNCHANGED <<todo, failures, phase, made, admitted, unheard>>
  BY DEF Deliver
<1>2. /\ FailureForm(failures', inflight') /\ Reports(b.failures)
      /\ \A name : HeldByAll(failures, inflight, name)
                        = HeldByAll(failures', inflight', name) + ReportedAs(b.failures, name)
  BY <1>1, TakenHeld
<1>3. PICK order, reported : Ingesting(t, s, b, order, reported)
  BY DeliverIngests
<1>4. StoreShape(s) /\ Table(s.cumulative) /\ s.droppedSeries \in Nat /\ IsFailures(s.failures)
  BY DEF RecorderInv, Typed, Counters, Agrees, Placed, Places, FailuresInv
<1>. HIDE DEF b, s, t
<1>5. /\ IsFailures(t.failures)
      /\ t.failures.dropped = 0 =>
            /\ s.failures.dropped = 0
            /\ \A name : AddsFailures(t.failures, s.failures, name, ReportedAs(b.failures, name))
  BY <1>2, <1>3, <1>4, IngestFailures
<1>6. t.droppedLate = s.droppedLate
  <2>1. IngestedAs(Ingest(s, b, order, reported), s, b)
    BY <1>3, <1>4, IngestIs DEF Ingesting
  <2>. QED BY <1>3, <2>1 DEF Ingesting, IngestedAs
<1>7. ASSUME Complete', NEW name PROVE Balanced(name)'
  <2>1. t.failures.dropped = 0 /\ t.droppedLate = 0
    BY <1>7 DEF Complete, t
  <2>2. s.failures.dropped = 0 /\ AddsFailures(t.failures, s.failures, name, ReportedAs(b.failures, name))
    BY <1>5, <2>1
  <2>3. Complete
    BY <1>1, <1>6, <1>7, <2>1, <2>2 DEF Complete, s
  <2>. DEFINE h == HeldByAll(failures, inflight, name)
              g == HeldByAll(failures', inflight', name)
              l == ListedAs(s.failures.entries, name)
              m == ListedAs(t.failures.entries, name)
              c == ReportedAs(b.failures, name)
              O == ObservedIn(admitted, FailedAt(name))
              w == OwedByAll(todo, name)
  <2>4. O = h + l + w
    BY <2>3 DEF FailuresInv, Balanced, s
  <2>5. h = g + c /\ m = l + c
    BY <1>2, <2>2 DEF AddsFailures
  <2>6. l \in Nat
    BY StoreListed DEF s
  <2>7. g \in Nat
    <3>. DEFINE fs == failures'
                rs == inflight'
    <3>1. FailureForm(fs, rs)
      BY <1>2
    <3>. HIDE DEF fs, rs
    <3>2. HeldByAll(fs, rs, name) \in Nat
      BY <3>1, HeldNat
    <3>. QED BY <3>2 DEF fs, rs
  <2>8. c \in Nat
    BY <1>2, ReportedNat
  <2>9. w \in Nat
    <3>. DEFINE F == [v \in VU |-> Owed(todo[v], name)]
    <3>1. DOMAIN F = VU /\ IsFiniteSet(VU) /\ \A v \in VU : F[v] \in Nat
      BY OwedIs, Constants
    <3>. HIDE DEF F
    <3>2. SumFunction(F) \in Nat
      BY <3>1, SumNat
    <3>. QED BY <3>2 DEF F, OwedByAll
  <2>. HIDE DEF h, g, l, m, c, O, w
  <2>10. O = g + m + w
    BY <2>4, <2>5, <2>6, <2>7, <2>8, <2>9
  <2>. QED BY <1>1, <2>10 DEF Balanced, O, g, m, w, t
<1>8. /\ Shape(failures', Node) /\ (\A m \in Node : phase'[m] = "done" => DOMAIN failures'[m].entries = {})
      /\ (\A v \in VU : Paired(todo'[v])) /\ (ObservedIn(admitted, AllCount) <= made)'
  BY <1>1 DEF FailuresInv
<1>. QED BY <1>2, <1>5, <1>7, <1>8 DEF FailuresInv, t

LEMMA DeliverLateFailures ==
    ASSUME RecorderInv, FailuresInv, NEW n \in Node, DeliverLate(n)
    PROVE  FailuresInv'
<1>. DEFINE b == Head(inflight[n])
            s == store
            t == store'
            h == Heard(s, b)
            e == h.droppedLate + 1
<1>1. /\ inflight[n] # <<>> /\ inflight' = [inflight EXCEPT ![n] = Tail(@)]
      /\ UNCHANGED <<todo, failures, phase, made, admitted, unheard>>
      /\ t = [h EXCEPT !.droppedLate = e]
  BY DEF DeliverLate, IngestLate
<1>2. FailureForm(failures', inflight')
  BY <1>1, TakenHeld
<1>3. StoreShape(s) /\ s.droppedLate \in Nat /\ IsFailures(s.failures)
  BY DEF RecorderInv, Typed, Counters, FailuresInv
<1>4. StoreShape(h) /\ h.failures = s.failures /\ h.droppedLate = s.droppedLate
  <2>. HIDE DEF s, b
  <2>. QED BY <1>3, HeardIs
<1>. HIDE DEF s, t, b, h, e
<1>5. t.failures = h.failures /\ t.droppedLate = e
  BY <1>1, <1>4 DEF StoreShape
<1>6. e # 0
  BY <1>3, <1>4 DEF e
<1>7. ~Complete'
  BY <1>5, <1>6 DEF Complete, t
<1>8. /\ Shape(failures', Node) /\ (\A m \in Node : phase'[m] = "done" => DOMAIN failures'[m].entries = {})
      /\ (\A v \in VU : Paired(todo'[v])) /\ (ObservedIn(admitted, AllCount) <= made)'
  BY <1>1 DEF FailuresInv
<1>9. IsFailures(store.failures)'
  BY <1>3, <1>4, <1>5 DEF t
<1>. QED BY <1>2, <1>7, <1>8, <1>9 DEF FailuresInv

LEMMA HeldNothing ==
    ASSUME NEW fs, NEW qs, \A n \in Node : DOMAIN fs[n].entries = {} /\ qs[n] = <<>>, NEW name
    PROVE  HeldByAll(fs, qs, name) = 0
<1>1. ASSUME NEW n \in Node PROVE HeldBy(fs, qs, n, name) = 0
  <2>. DEFINE f == fs[n].entries
  <2>1. DOMAIN f = {} /\ qs[n] = <<>>
    OBVIOUS
  <2>. HIDE DEF f
  <2>2. ListedAs(f, name) = 0 /\ QueuedAs(<<>>, name) = 0
    BY <2>1, ListedNone, QueuedNone
  <2>. QED BY <2>1, <2>2 DEF HeldBy, f
<1>. DEFINE f == [n \in Node |-> HeldBy(fs, qs, n, name)]
<1>2. IsFiniteSet(DOMAIN f) /\ \A n \in DOMAIN f : f[n] = 0
  BY <1>1, Constants
<1>. HIDE DEF f
<1>3. SumFunction(f) = 0
  BY <1>2, SumZero
<1>. QED BY <1>3 DEF f, HeldByAll

LEMMA OwedNothing ==
    ASSUME NEW td, NEW name, \A v \in VU : Owed(td[v], name) = 0
    PROVE  OwedByAll(td, name) = 0
<1>. DEFINE f == [v \in VU |-> Owed(td[v], name)]
<1>1. IsFiniteSet(DOMAIN f) /\ \A v \in DOMAIN f : f[v] = 0
  BY Constants
<1>. HIDE DEF f
<1>2. SumFunction(f) = 0
  BY <1>1, SumZero
<1>. QED BY <1>2 DEF f, OwedByAll

LEMMA InitFailures ==
    ASSUME Init
    PROVE  FailuresInv
<1>. DEFINE fs == failures
            qs == inflight
            td == todo
            t == store.failures
            A == admitted
<1>1. PICK w \in Work : todo = [v \in VU |-> AllSamples(v, w[v])]
  BY DEF Init
<1>2. ASSUME NEW v \in VU PROVE Paired(todo[v]) /\ Opens(todo[v]) /\ IsTodo(todo[v])
  <2>1. w[v] \in Seq(Request)
    BY RecorderAssumption DEF Request
  <2>. DEFINE reqs == w[v]
  <2>2. todo[v] = AllSamples(v, reqs)
    BY <1>1
  <2>. HIDE DEF reqs
  <2>3. IsTodo(AllSamples(v, reqs))
    BY <2>1, SamplesTodo DEF reqs
  <2>4. Paired(AllSamples(v, reqs)) /\ Opens(AllSamples(v, reqs))
    BY <2>1, AllPaired DEF reqs
  <2>. QED BY <2>2, <2>3, <2>4
<1>3. ASSUME NEW v \in VU, NEW name PROVE Owed(td[v], name) = 0
  <2>. DEFINE q == todo[v]
  <2>1. Opens(q) /\ IsTodo(q)
    BY <1>2
  <2>. HIDE DEF q
  <2>2. PICK S : q \in Seq(S)
    BY <2>1 DEF IsTodo
  <2>3. q # <<>> => Head(q) = q[1]
    BY <2>2
  <2>4. Owed(q, name) = 0
    BY <2>1, <2>3 DEF Owed, Opens
  <2>. QED BY <2>4 DEF q
<1>e. DOMAIN Empty = {} /\ IsFiniteSet({})
  BY FS_EmptySet DEF Empty
<1>4. NoFailures.entries = Empty /\ NoFailures.dropped = 0 /\ IsFailures(NoFailures)
  <2>. DEFINE x == NoFailures
  <2>1. x.entries = Empty /\ x.dropped = 0 /\ x = [entries |-> x.entries, dropped |-> x.dropped]
    BY DEF NoFailures
  <2>. HIDE DEF x
  <2>2. Tally(x.entries)
    BY <1>e, <2>1 DEF Tally
  <2>3. IsFailures(x)
    BY <2>1, <2>2 DEF IsFailures
  <2>. QED BY <2>1, <2>3 DEF x
<1>5. /\ Shape(failures, Node) /\ (\A n \in Node : fs[n] = NoFailures /\ qs[n] = <<>>)
      /\ t.entries = Empty /\ t.dropped = 0 /\ t = [entries |-> t.entries, dropped |-> t.dropped]
      /\ A = <<>> /\ made = 0
  BY DEF Init, Shape, NewStore, Empty
<1>. HIDE DEF fs, qs, td, t, A
<1>6. IsFailures(t)
  <2>1. Tally(t.entries)
    BY <1>5, <1>e DEF Tally
  <2>. QED BY <1>5, <2>1 DEF IsFailures
<1>7. FailureForm(fs, qs)
  <2>1. \A n \in Node : IsQueue(qs[n], n)
    <3>1. RecorderInv
      BY InitInv
    <3>. QED BY <3>1, QueuesAre DEF qs
  <2>2. ReportsAll(<<>>)
    BY QueuedNone
  <2>. QED BY <1>4, <1>5, <2>1, <2>2 DEF FailureForm
<1>8. ASSUME NEW k PROVE ObservedIn(A, k) = 0
  <2>. DEFINE g == [x \in DOMAIN A |-> A[x] * PartOf(k, x[2])]
  <2>1. DOMAIN g = {} /\ IsFiniteSet({})
    BY <1>5, FS_EmptySet
  <2>. HIDE DEF g
  <2>2. SumFunction(g) = 0
    BY <2>1, SumZero
  <2>. QED BY <2>2 DEF g, ObservedIn
<1>9. ASSUME NEW name PROVE Balanced(name)
  <2>1. \A n \in Node : DOMAIN fs[n].entries = {} /\ qs[n] = <<>>
    BY <1>4, <1>5, <1>e
  <2>2. HeldByAll(fs, qs, name) = 0
    BY <2>1, HeldNothing
  <2>3. ListedAs(t.entries, name) = 0
    <3>. DEFINE f == t.entries
    <3>1. DOMAIN f = {}
      BY <1>5, <1>e
    <3>. HIDE DEF f
    <3>2. ListedAs(f, name) = 0
      BY <3>1, ListedNone
    <3>. QED BY <3>2 DEF f
  <2>4. OwedByAll(td, name) = 0
    BY <1>3, OwedNothing
  <2>. QED BY <1>8, <2>2, <2>3, <2>4 DEF Balanced, fs, qs, td, t, A
<1>10. \A n \in Node : phase[n] = "done" => DOMAIN failures[n].entries = {}
  BY <1>4, <1>5, <1>e DEF fs
<1>11. ObservedIn(admitted, AllCount) <= made
  BY <1>5, <1>8 DEF A
<1>. QED BY <1>2, <1>5, <1>6, <1>7, <1>9, <1>10, <1>11 DEF FailuresInv, fs, qs, t

LEMMA FailuresInvariant == Spec => [](RecorderInv /\ FailuresInv)
<1>1. Init => FailuresInv
  BY InitFailures
<1>2. RecorderInv /\ RecorderInv' /\ FailuresInv /\ [Next]_vars => FailuresInv'
  <2>. SUFFICES ASSUME RecorderInv, RecorderInv', FailuresInv, [Next]_vars PROVE FailuresInv'
    OBVIOUS
  <2>1. CASE UNCHANGED vars
    BY <2>1, QuietStep DEF vars
  <2>2. ASSUME NEW v \in VU, Record(v) PROVE FailuresInv'
    BY <2>2, RecordFailure, RecordObservation
  <2>3. ASSUME NEW n \in Node, ReportGauge(n) PROVE FailuresInv'
    BY <2>3, GaugeFailures
  <2>4. ASSUME NEW n \in Node, EngineReturns(n) PROVE FailuresInv'
    BY <2>4, EngineReturnsFailures
  <2>5. ASSUME NEW n \in Node, FlushShard(n) PROVE FailuresInv'
    BY <2>5, FlushShardFailures
  <2>6. ASSUME NEW n \in Node, FlushEnd(n) PROVE FailuresInv'
    BY <2>6, FlushEndFailures
  <2>7. ASSUME NEW n \in Node, Deliver(n) PROVE FailuresInv'
    BY <2>7, DeliverFailures
  <2>8. ASSUME NEW n \in Node, DeliverLate(n) PROVE FailuresInv'
    BY <2>8, DeliverLateFailures
  <2>. QED BY <2>1, <2>2, <2>3, <2>4, <2>5, <2>6, <2>7, <2>8 DEF Next
<1>. QED BY <1>1, <1>2, RecorderInvariant, PTL DEF Spec

LEMMA FailuresOfIs ==
    ASSUME NEW t, IsFailures(t), NEW name
    PROVE  FailuresOf(t, name) = ListedAs(t.entries, name)
<1>. DEFINE f == t.entries
            F == [k \in DOMAIN f |-> Share(k, name, f[k])]
            G == [k \in {l \in DOMAIN f : l[1] = name} |-> f[k]]
<1>1. Tally(f)
  BY DEF IsFailures
<1>2. FailuresOf(t, name) = SumFunction(G) /\ ListedAs(f, name) = SumFunction(F)
  BY DEF FailuresOf, ListedAs
<1>. HIDE DEF f
<1>3. \A k \in DOMAIN f : F[k] \in Int /\ F[k] = IF k[1] = name THEN f[k] ELSE 0
  BY <1>1 DEF Share, Tally
<1>4. /\ IsFiniteSet(DOMAIN F) /\ DOMAIN F = DOMAIN f /\ DOMAIN G \subseteq DOMAIN F
      /\ \A k \in DOMAIN G : G[k] = F[k]
      /\ \A k \in DOMAIN F : k \notin DOMAIN G => F[k] = 0
  BY <1>1, <1>3 DEF Tally
<1>. HIDE DEF F, G
<1>5. SumFunction(F) = SumFunction(G)
  BY <1>3, <1>4, SumWhere
<1>. QED BY <1>2, <1>5 DEF f

(***************************************************************************)
(* A finished run that lost nothing is complete.                           *)
(***************************************************************************)
LEMMA LosslessIs ==
    ASSUME RecorderInv, Finished, Lossless
    PROVE  Complete /\ lost = {}
<1>. DEFINE A == admitted
            S == {x \in DOMAIN admitted : x[2].kind # "gauge"}
<1>1. Counted(A)
  BY DEF RecorderInv, Agrees
<1>2. \A x \in DOMAIN A : PartOf(AllCount, x[2]) = IF x \in S THEN 1 ELSE 0
  <2>1. \A x \in DOMAIN A : x[2].kind = "gauge" <=> x[2].metric = "vus"
    BY <1>1 DEF Counted, IsObs, Kinded
  <2>. QED BY <2>1, AllCountIs
<1>3. S \subseteq DOMAIN A /\ Weight(S) = WeightIn(A, S)
  BY DEF Weight, WeightIn
<1>4. made = Weight(S)
  BY DEF Lossless
<1>. HIDE DEF A, S
<1>5. ObservedIn(A, AllCount) = WeightIn(A, S)
  BY <1>1, <1>2, <1>3, AllCountIs, ObservedWeight
<1>6. made = ObservedIn(admitted, AllCount)
  BY <1>3, <1>4, <1>5 DEF A
<1>7. lost = {}
  BY DEF RecorderInv, Losses, Lossless
<1>. QED BY <1>6, <1>7 DEF Complete, Lossless

LEMMA FailuresListed ==
    ASSUME RecorderInv, FailuresInv, Finished, Lossless, NEW name
    PROVE  Endpoint(store, name).failures = FailuresOf(store.failures, name)
<1>. DEFINE fs == failures
            qs == inflight
            td == todo
            s == store
            t == store.failures
            O == ObservedIn(admitted, FailedAt(name))
<1>1. Complete /\ lost = {}
  BY LosslessIs
<1>2. O = HeldByAll(fs, qs, name) + ListedAs(t.entries, name) + OwedByAll(td, name)
  BY <1>1 DEF FailuresInv, Balanced
<1>3. \A n \in Node : DOMAIN fs[n].entries = {} /\ qs[n] = <<>>
  BY DEF Finished, FailuresInv
<1>4. \A v \in VU : Owed(td[v], name) = 0
  <2>1. \A v \in VU : Host[v] \in Node
    BY Constants
  <2>2. \A n \in Node : Ending(n) /\ phase[n] = "done"
    BY DEF RecorderInv, Finished
  <2>3. \A v \in VU : todo[v] = <<>>
    BY <2>1, <2>2 DEF Ending
  <2>. QED BY <2>3 DEF Owed
<1>5. IsFailures(t)
  BY DEF FailuresInv
<1>6. /\ Table(s.cumulative)
      /\ Mass(FailedAt(name), s.cumulative) = O
  <2>1. \A k : IsMeasure(k) => Mass(k, s.cumulative) = ObservedIn(admitted, k)
    BY <1>1, AllInStore
  <2>2. Table(s.cumulative)
    BY <1>1, AllInStore
  <2>. QED BY <2>1, <2>2, FailedAtIs
<1>. HIDE DEF fs, qs, td, s, t, O
<1>7. HeldByAll(fs, qs, name) = 0
  BY <1>3, HeldNothing
<1>8. OwedByAll(td, name) = 0
  BY <1>4, OwedNothing
<1>9. FailuresOf(t, name) = ListedAs(t.entries, name) /\ ListedAs(t.entries, name) \in Nat
  BY <1>5, FailuresOfIs, ListedNat
<1>10. O = FailuresOf(t, name)
  BY <1>2, <1>7, <1>8, <1>9
<1>. DEFINE e == Endpoint(s, name)
<1>11. e.failures = Mass(FailedAt(name), s.cumulative)
  <2>1. e = Endpoint(s, name)
    OBVIOUS
  <2>. HIDE DEF e
  <2>. QED BY <1>6, <2>1, EndpointShows DEF FailedAt
<1>. QED BY <1>6, <1>10, <1>11 DEF s, t

LEMMA InvReports ==
    ASSUME RecorderInv, Charts(store), FailuresInv
    PROVE  ReportsAgree
<1>. DEFINE s == store
<1>1. Charts(s) /\ Table(s.cumulative)
  BY DEF RecorderInv, Agrees, Placed, Places
<1>. HIDE DEF s
<1>2. \A i \in DOMAIN s.buckets : TickAgrees(BucketToTick(s.buckets[i]), s.droppedEndpoints = 0)
  <2>. SUFFICES ASSUME NEW i \in DOMAIN s.buckets
                PROVE  TickAgrees(BucketToTick(s.buckets[i]), s.droppedEndpoints = 0)
    OBVIOUS
  <2>. DEFINE b == s.buckets[i]
              whole == s.droppedEndpoints = 0
  <2>1. IsBucket(b) /\ BucketAgrees(b, whole)
    BY <1>1 DEF Charts, Buckets
  <2>. HIDE DEF b, whole
  <2>2. TickAgrees(BucketToTick(b), whole)
    BY <2>1, ChartsTick
  <2>. QED BY <2>2 DEF b, whole
<1>3. s.droppedSeries = 0 => TotalsAgree(s, Ticks(s))
  BY <1>1, ChartsTotals
<1>4. s.droppedSeries = 0 /\ s.droppedEndpoints = 0 =>
            \A name : EndpointAgrees(Endpoint(s, name), Ticks(s), name)
  BY <1>1, ChartsEndpoint
<1>5. Finished /\ Lossless => \A name : Endpoint(store, name).failures = FailuresOf(store.failures, name)
  BY FailuresListed
<1>. QED BY <1>2, <1>3, <1>4, <1>5, ReportsAre DEF s

(***************************************************************************)
(* The chart and the tables tell one story.  In every bucket of the chart  *)
(* scenarios, status classes and endpoints add up to the rollup; over all  *)
(* buckets the rollups add up to the totals and the points of an endpoint  *)
(* to its row, unless a counter says that series or endpoints were left    *)
(* out; and the failures a finished run lists are those it counted, if     *)
(* nothing was dropped.                                                    *)
(***************************************************************************)
THEOREM RecorderReportsAgree == Spec => []ReportsAgree
<1>1. RecorderInv /\ Charts(store) /\ FailuresInv => ReportsAgree
  BY InvReports
<1>. QED BY <1>1, ChartsInvariant, FailuresInvariant, PTL
=============================================================================
