------------------------------ MODULE Metrics ------------------------------
(***************************************************************************)
(* The values of internal/metrics and the operations on them that hold no  *)
(* lock of their own: a series' aggregate (aggregate.go), a histogram and  *)
(* its wire form (histogram.go), the contents of the coordinator's Store   *)
(* and the views read from it (store.go, failures.go), the ticks of the    *)
(* live chart (coordinator/stream.go) and the verdict on thresholds        *)
(* (coordinator/threshold.go).                                             *)
(*                                                                         *)
(* An observation is a whole number.  A histogram counts in a coarser unit *)
(* and groups its units into buckets, of which it knows the highest unit   *)
(* each.  A label set is a record, so that equal sets are equal values;    *)
(* Hash stands for the seeded hash of labels.go, which may give two of     *)
(* them the same number.                                                   *)
(***************************************************************************)
EXTENDS Integers, Sequences, FiniteSets, SequencesExt, FiniteSetsExt, Functions

CONSTANTS
    Hash(_),                \* Labels.Hash
    Unit,                   \* 1 / HistogramScale: how much of a value is a histogram unit
    Lowest, Highest,        \* HistogramConfig: the trackable range, in histogram units
    Bounds,                 \* external: the highest unit of every bucket of an HDR histogram
    StoreSeries,            \* StoreConfig.MaxSeries
    MaxChartedEndpoints,    \* StoreConfig.MaxChartedEndpoints
    StoreFailureKinds       \* StoreConfig.MaxFailureKinds

ASSUME MetricsAssumption ==
    /\ Unit \in Nat \ {0}
    /\ Lowest \in Nat \ {0} /\ Highest \in Nat /\ Lowest < Highest
    /\ Bounds \in Seq(Nat) /\ Len(Bounds) > 1 /\ Highest <= Bounds[Len(Bounds)]
    /\ \A i, j \in DOMAIN Bounds : i < j => Bounds[i] < Bounds[j]
    /\ StoreSeries \in Nat \ {0} /\ MaxChartedEndpoints \in Nat \ {0}
    /\ StoreFailureKinds \in Nat \ {0}

(***************************************************************************)
(* Bound: stands for the infinities, beyond every observation.             *)
(***************************************************************************)
Infinity == 1000

Get(labels, key) == IF key \in DOMAIN labels THEN labels[key] ELSE ""
-----------------------------------------------------------------------------
(***************************************************************************)
(* Histograms, as sequences of counts.  NoHist is a nil histogram.         *)
(***************************************************************************)
NoHist == <<>>
CountsLen == Len(Bounds)
NewHist == [i \in 1 .. CountsLen |-> 0]
TotalCount(h) == FoldLeft(LAMBDA x, y : x + y, 0, h)

(***************************************************************************)
(* ScaleValue rounds to the nearest unit and clamps it into the range.     *)
(***************************************************************************)
ScaleValue(v) ==
    LET scaled == (2 * v + Unit) \div (2 * Unit)
    IN  Max({Lowest, Min({Highest, scaled})})

UnscaleValue(u) == u * Unit

(***************************************************************************)
(* RecordValue of the HDR library, external: a unit is counted in the      *)
(* first bucket that reaches it.                                           *)
(***************************************************************************)
Slot(u) == Min({i \in 1 .. CountsLen : u <= Bounds[i]})

RecordValue(h, v) ==
    [i \in DOMAIN h |-> IF i = Slot(ScaleValue(v)) THEN h[i] + 1 ELSE h[i]]

MergeHist(h, g) == [i \in DOMAIN h |-> h[i] + g[i]]

(***************************************************************************)
(* ValueAtQuantile of the HDR library, external: the highest unit of the   *)
(* bucket at which the running count reaches q percent of the total,       *)
(* rounded to nearest.                                                     *)
(***************************************************************************)
UpTo(h, i) == TotalCount(SubSeq(h, 1, i))

ValueAtQuantile(h, q) ==
    LET rank == (q * TotalCount(h) + 50) \div 100
    IN  Bounds[Min({i \in DOMAIN h : UpTo(h, i) > 0 /\ UpTo(h, i) >= rank})]

(***************************************************************************)
(* encodeRLE: a zero is followed by the length of the run it begins.       *)
(***************************************************************************)
EncodeRLE(counts) ==
    LET Emit(out, i) ==
            IF counts[i] # 0 THEN Append(out, counts[i])
            ELSE IF i > 1 /\ counts[i - 1] = 0 THEN [out EXCEPT ![Len(out)] = @ + 1]
            ELSE out \o <<0, 1>>
    IN  FoldLeft(Emit, <<>>, [i \in 1 .. Len(counts) |-> i])

(***************************************************************************)
(* decodeRLE: after a zero the next number is a run length, which must be  *)
(* positive and present.                                                   *)
(***************************************************************************)
DecodeRLE(encoded) ==
    LET Read(st, v) ==
            IF st.zero
            THEN [counts |-> st.counts \o [i \in 1 .. v |-> 0], zero |-> FALSE, ok |-> st.ok /\ v > 0]
            ELSE IF v > 0 THEN [st EXCEPT !.counts = Append(@, v)]
            ELSE [st EXCEPT !.zero = TRUE, !.ok = @ /\ v = 0]
        end == FoldLeft(Read, [counts |-> <<>>, zero |-> FALSE, ok |-> TRUE], encoded)
    IN  [counts |-> end.counts, ok |-> end.ok /\ ~end.zero]

(***************************************************************************)
(* DecodeHistogram refuses what does not decode to the run's own layout.   *)
(***************************************************************************)
Decodes(snap) == DecodeRLE(snap).ok /\ Len(DecodeRLE(snap).counts) = CountsLen
-----------------------------------------------------------------------------
(***************************************************************************)
(* Aggregates.                                                             *)
(***************************************************************************)
NewAggregate(metric, labels, kind) ==
    [metric |-> metric, labels |-> labels, kind |-> kind, count |-> 0, sum |-> 0,
     min |-> Infinity, max |-> -Infinity, nonZero |-> 0, gauge |-> 0,
     hist |-> IF kind = "trend" THEN NewHist ELSE NoHist]

Observe(a, value, truthy) ==
    LET counted == [a EXCEPT !.count = @ + 1]
    IN  CASE a.kind = "gauge" -> [counted EXCEPT !.gauge = value]
          [] a.kind = "rate"  -> [counted EXCEPT !.nonZero = IF truthy THEN @ + 1 ELSE @]
          [] OTHER            -> [counted EXCEPT !.sum = @ + value,
                                                 !.min = Min({@, value}),
                                                 !.max = Max({@, value}),
                                                 !.hist = RecordValue(@, value)]

(***************************************************************************)
(* mergeFrom: sums and extremes combine, and gauges add.                   *)
(***************************************************************************)
MergeFrom(a, other) ==
    IF other.count = 0 THEN a
    ELSE [a EXCEPT !.count = @ + other.count,
                   !.sum = @ + other.sum,
                   !.nonZero = @ + other.nonZero,
                   !.min = Min({@, other.min}),
                   !.max = Max({@, other.max}),
                   !.gauge = IF a.kind = "gauge" THEN @ + other.gauge ELSE @,
                   !.hist = IF @ # NoHist /\ other.hist # NoHist THEN MergeHist(@, other.hist) ELSE @]

Reset(a) == NewAggregate(a.metric, a.labels, a.kind)

MinOf(a) == IF a.count = 0 \/ a.min = Infinity THEN 0 ELSE a.min
MaxOf(a) == IF a.count = 0 \/ a.max = -Infinity THEN 0 ELSE a.max

(***************************************************************************)
(* aggMap, as the set of its aggregates.  A lookup goes by metric and hash *)
(* and confirms the match against the labels.                              *)
(***************************************************************************)
Key(metric, labels) == [metric |-> metric, hash |-> Hash(labels)]

(***************************************************************************)
(* A lookup that trusts the hash.                                          *)
(***************************************************************************)
FindByHash(m, metric, labels) == {a \in m : Key(a.metric, a.labels) = Key(metric, labels)}

Find(m, metric, labels) ==
    {a \in m : Key(a.metric, a.labels) = Key(metric, labels) /\ a.labels = labels}

GetOrCreate(m, metric, labels, kind) ==
    LET old == Find(m, metric, labels)
    IN  IF old = {} THEN NewAggregate(metric, labels, kind) ELSE CHOOSE a \in old : TRUE

Put(m, a) == (m \ Find(m, a.metric, a.labels)) \cup {a}

ResetAll(m) == {Reset(a) : a \in m}
-----------------------------------------------------------------------------
(***************************************************************************)
(* The wire form of an aggregate, and what the store makes of it.  A gauge *)
(* travels in the sum.                                                     *)
(***************************************************************************)
EncodeDelta(a) ==
    [metric |-> a.metric, kind |-> a.kind, tags |-> a.labels, count |-> a.count,
     sum |-> IF a.kind = "gauge" THEN a.gauge ELSE a.sum,
     min |-> MinOf(a), max |-> MaxOf(a), nonZero |-> a.nonZero,
     hist |-> IF a.hist # NoHist /\ TotalCount(a.hist) > 0 THEN EncodeRLE(a.hist) ELSE NoHist]

Incoming(delta) ==
    [metric |-> delta.metric, labels |-> delta.tags, kind |-> delta.kind, count |-> delta.count,
     sum |-> delta.sum, min |-> delta.min, max |-> delta.max, nonZero |-> delta.nonZero,
     gauge |-> delta.sum, hist |-> DecodeRLE(delta.hist).counts]
-----------------------------------------------------------------------------
(***************************************************************************)
(* The contents of the Store.  Buckets are open for as long as this module *)
(* looks at them: which of them are refused or closed, and when, is the    *)
(* subject of MetricStore.                                                 *)
(***************************************************************************)
Empty == << >>

At(f, k, default) == IF k \in DOMAIN f THEN f[k] ELSE default

Set(f, k, v) == [x \in DOMAIN f \cup {k} |-> IF x = k THEN v ELSE f[x]]

NewBucket == [vusByNode |-> Empty, points |-> Empty, status |-> Empty, endpoints |-> Empty]

NewStore ==
    [cumulative |-> {}, buckets |-> Empty, droppedSeries |-> 0, droppedLate |-> 0,
     droppedEndpoints |-> 0, nodeDropped |-> Empty,
     failures |-> [entries |-> Empty, dropped |-> 0]]

(***************************************************************************)
(* mergeCumulative: a new series must fit; a gauge keeps its last reading. *)
(***************************************************************************)
MergeCumulative(s, inc) ==
    LET old == Find(s.cumulative, inc.metric, inc.labels)
        target == GetOrCreate(s.cumulative, inc.metric, inc.labels, inc.kind)
    IN  IF old = {} /\ Cardinality(s.cumulative) >= StoreSeries
        THEN [s EXCEPT !.droppedSeries = @ + 1]
        ELSE [s EXCEPT !.cumulative =
                Put(@, IF inc.kind = "gauge"
                       THEN [target EXCEPT !.count = @ + 1, !.gauge = inc.gauge]
                       ELSE MergeFrom(target, inc))]

NewPoint == [count |-> 0, sum |-> 0, min |-> 0, max |-> 0, nonZero |-> 0, hist |-> NoHist]

(***************************************************************************)
(* addToBucket: a minimum of zero counts as none yet.                      *)
(***************************************************************************)
AddToBucket(points, key, inc) ==
    LET p == At(points, key, NewPoint)
        counted == [p EXCEPT !.count = @ + inc.count, !.nonZero = @ + inc.nonZero]
    IN  Set(points, key,
            IF inc.kind = "gauge" THEN [counted EXCEPT !.sum = @ + inc.gauge]
            ELSE [counted EXCEPT
                    !.sum = @ + inc.sum,
                    !.min = IF inc.count > 0 /\ (@ = 0 \/ inc.min < @) THEN inc.min ELSE @,
                    !.max = IF inc.count > 0 THEN Max({@, inc.max}) ELSE @,
                    !.hist = CASE inc.hist = NoHist -> @
                               [] @ = NoHist        -> inc.hist
                               [] OTHER             -> MergeHist(@, inc.hist)])

StatusClass(status) ==
    CASE status = 0 -> "error" [] status \div 100 = 2 -> "2xx" [] status \div 100 = 3 -> "3xx"
      [] status \div 100 = 4 -> "4xx" [] status \div 100 = 5 -> "5xx" [] status \div 100 = 1 -> "1xx"
      [] OTHER -> "other"

(***************************************************************************)
(* addEndpointPoint: three metrics only, and a bounded number of names.    *)
(***************************************************************************)
ChartedMetrics == {"http_reqs", "http_req_duration", "http_req_failed"}

NewEndpointPoint == [requests |-> 0, failures |-> 0, sum |-> 0, observed |-> 0]

AddEndpointPoint(s, idx, name, inc) ==
    LET all == s.buckets[idx].endpoints
        p == At(all, name, NewEndpointPoint)
        q == CASE inc.metric = "http_reqs" -> [p EXCEPT !.requests = @ + inc.count]
               [] inc.metric = "http_req_duration" ->
                    [p EXCEPT !.sum = @ + inc.sum, !.observed = @ + inc.count]
               [] inc.metric = "http_req_failed" -> [p EXCEPT !.failures = @ + inc.nonZero]
    IN  CASE inc.metric \notin ChartedMetrics -> s
          [] name \notin DOMAIN all /\ Cardinality(DOMAIN all) >= MaxChartedEndpoints ->
                [s EXCEPT !.droppedEndpoints = @ + 1]
          [] OTHER -> [s EXCEPT !.buckets[idx].endpoints = Set(@, name, q)]

(***************************************************************************)
(* mergeBucket adds to the scenario's point and, where that is another     *)
(* one, to the rollup; the mutant has the condition the wrong way round.   *)
(***************************************************************************)
PointsOfInverted(points, inc) ==
    LET scenario == Get(inc.labels, "scenario")
        own == AddToBucket(points, <<inc.metric, scenario>>, inc)
    IN  IF scenario = "" THEN AddToBucket(own, <<inc.metric, "">>, inc) ELSE own

PointsOf(points, inc) ==
    LET scenario == Get(inc.labels, "scenario")
        own == AddToBucket(points, <<inc.metric, scenario>>, inc)
    IN  IF scenario # "" THEN AddToBucket(own, <<inc.metric, "">>, inc) ELSE own

MergeBucket(s, idx, inc) ==
    LET counted == [s EXCEPT !.buckets[idx].points = PointsOf(@, inc)]
        class == StatusClass(inc.labels["status"])
        classed == IF inc.metric = "http_reqs" /\ "status" \in DOMAIN inc.labels
                   THEN [counted EXCEPT !.buckets[idx].status = Set(@, class, At(@, class, 0) + inc.count)]
                   ELSE counted
        name == Get(inc.labels, "name")
    IN  IF name = "" THEN classed ELSE AddEndpointPoint(classed, idx, name, inc)

(***************************************************************************)
(* failureStore.ingest.                                                    *)
(***************************************************************************)
IngestFailure(table, sample) ==
    IF sample.kind \notin DOMAIN table.entries /\ Cardinality(DOMAIN table.entries) >= StoreFailureKinds
    THEN [table EXCEPT !.dropped = @ + 1]
    ELSE [table EXCEPT !.entries = Set(@, sample.kind, At(@, sample.kind, 0) + sample.count)]

(***************************************************************************)
(* Ingest, up to and including the refusal of a late batch and from there. *)
(* A series that does not decode ends the batch, failures included.        *)
(***************************************************************************)
Heard(s, batch) ==
    IF batch.dropped > 0 THEN [s EXCEPT !.nodeDropped = Set(@, batch.node, batch.dropped)] ELSE s

IngestLate(s, batch) == [Heard(s, batch) EXCEPT !.droppedLate = @ + 1]

Ingest(s, batch, series, failures) ==
    LET bucket == At(s.buckets, batch.bucket, NewBucket)
        open == [Heard(s, batch) EXCEPT
                    !.buckets = Set(@, batch.bucket,
                        [bucket EXCEPT !.vusByNode = Set(@, batch.node, batch.activeVUs)])]
        One(st, delta) ==
            CASE ~st.ok -> st
              [] delta.hist # NoHist /\ ~Decodes(delta.hist) -> [st EXCEPT !.ok = FALSE]
              [] OTHER -> [st EXCEPT !.store =
                    MergeBucket(MergeCumulative(@, Incoming(delta)), batch.bucket, Incoming(delta))]
        end == FoldLeft(One, [store |-> open, ok |-> TRUE], series)
    IN  IF end.ok THEN [end.store EXCEPT !.failures = FoldLeft(IngestFailure, @, failures)]
        ELSE end.store
-----------------------------------------------------------------------------
(***************************************************************************)
(* The views.  Aggregate folds the series of a metric in the order a map   *)
(* happens to yield them; Totals and Endpoints do not depend on it.        *)
(***************************************************************************)
SeriesOf(s, metric) == {a \in s.cumulative : a.metric = metric}

MergedHist(S) == FoldSet(LAMBDA a, h : MergeHist(h, a.hist), NewHist, {a \in S : a.hist # NoHist})

(***************************************************************************)
(* Aggregate with the distribution of the series it saw last.              *)
(***************************************************************************)
AggregateOneSlice(metric, order) ==
    LET Fold(t, a) ==
            [t EXCEPT !.count = @ + a.count, !.sum = @ + a.sum, !.nonZero = @ + a.nonZero,
                      !.min = IF @ = 0 \/ (a.count > 0 /\ MinOf(a) < @) THEN MinOf(a) ELSE @,
                      !.max = Max({@, MaxOf(a)}),
                      !.hist = IF a.hist = NoHist THEN @ ELSE a.hist]
    IN  FoldLeft(Fold, [count |-> 0, sum |-> 0, nonZero |-> 0, min |-> 0, max |-> 0,
                        hist |-> NewHist], order)

Aggregate(metric, order) ==
    LET Fold(t, a) ==
            [t EXCEPT !.count = @ + a.count, !.sum = @ + a.sum, !.nonZero = @ + a.nonZero,
                      !.min = IF @ = 0 \/ (a.count > 0 /\ MinOf(a) < @) THEN MinOf(a) ELSE @,
                      !.max = Max({@, MaxOf(a)}),
                      !.hist = IF a.hist = NoHist THEN @ ELSE MergeHist(@, a.hist)]
    IN  FoldLeft(Fold, [count |-> 0, sum |-> 0, nonZero |-> 0, min |-> 0, max |-> 0,
                        hist |-> NewHist], order)

Totals(s, metric) ==
    LET all == SeriesOf(s, metric)
    IN  [count |-> SumFunction([a \in all |-> a.count]),
         sum |-> SumFunction([a \in all |-> IF a.kind = "gauge" THEN a.gauge ELSE a.sum]),
         nonZero |-> SumFunction([a \in all |-> a.nonZero]),
         min |-> Min({MinOf(a) : a \in all} \cup (IF all = {} THEN {0} ELSE {})),
         max |-> Max({MaxOf(a) : a \in all} \cup {0}),
         hist |-> MergedHist(all)]

Endpoint(s, name) ==
    LET of(metric) == {a \in SeriesOf(s, metric) : Get(a.labels, "name") = name}
        timed == of("http_req_duration")
        replied == of("http_reqs")
    IN  [requests |-> SumFunction([a \in timed |-> a.count]),
         sum |-> SumFunction([a \in timed |-> a.sum]),
         failures |-> SumFunction([a \in of("http_req_failed") |-> a.nonZero]),
         statuses |-> [st \in {a.labels["status"] : a \in replied} |->
                          SumFunction([a \in {b \in replied : b.labels["status"] = st} |-> a.count])],
         hist |-> MergedHist(timed)]

Endpoints(s) == {Get(a.labels, "name") : a \in s.cumulative} \ {""}

Stats(s) ==
    [droppedSeries |-> s.droppedSeries, droppedLate |-> s.droppedLate,
     droppedByNode |-> SumFunction(s.nodeDropped),
     droppedEndpoints |-> s.droppedEndpoints, droppedFailures |-> s.failures.dropped]

(***************************************************************************)
(* bucketToTick, scenarioTicks and endpointTicks: what the chart shows of  *)
(* a bucket.                                                               *)
(***************************************************************************)
Rollup(b, metric) == At(b.points, <<metric, "">>, NewPoint)

ScenarioTicks(b) ==
    [sc \in {key[2] : key \in DOMAIN b.points} \ {""} |->
        LET p(metric) == At(b.points, <<metric, sc>>, NewPoint)
        IN  [vus |-> p("vus").sum, requests |-> p("http_reqs").count,
             failures |-> p("http_req_failed").nonZero]]

EndpointTicks(b) == [name \in DOMAIN b.endpoints |-> b.endpoints[name]]

BucketToTick(b) ==
    [vus |-> SumFunction(b.vusByNode),
     requests |-> Rollup(b, "http_reqs").count,
     failures |-> Rollup(b, "http_req_failed").nonZero,
     duration |-> Rollup(b, "http_req_duration"),
     status |-> b.status, scenarios |-> ScenarioTicks(b), endpoints |-> EndpointTicks(b)]
-----------------------------------------------------------------------------
(***************************************************************************)
(* Thresholds.  A statistic is a fraction <<num, den>>, or Unknown.  The   *)
(* percentiles reported are those of reportedPercentiles.                  *)
(***************************************************************************)
Unknown == <<0, 0>>

ReportedPercentile == [p50 |-> 50, p90 |-> 90, p95 |-> 95, p99 |-> 99]

StatValue(summary, stat) ==
    CASE stat = "count" -> <<summary.count, 1>>
      [] stat = "rate"  -> <<summary.nonZero, summary.count>>
      [] stat = "avg"   -> <<summary.sum, summary.count>>
      [] stat = "min"   -> <<summary.min, 1>>
      [] stat = "max"   -> <<summary.max, 1>>
      [] stat \in DOMAIN ReportedPercentile /\ TotalCount(summary.hist) > 0 ->
            <<UnscaleValue(ValueAtQuantile(summary.hist, ReportedPercentile[stat])), 1>>
      [] OTHER -> Unknown

Compare(actual, op, want) ==
    CASE op = "lt"  -> actual[1] < want * actual[2]
      [] op = "lte" -> actual[1] <= want * actual[2]
      [] op = "gt"  -> actual[1] > want * actual[2]
      [] op = "gte" -> actual[1] >= want * actual[2]
      [] OTHER -> FALSE

EvaluateThreshold(t, order) ==
    LET summary == Aggregate(t.metric, order)
        actual == StatValue(summary, t.stat)
    IN  IF summary.count = 0 \/ actual = Unknown
        THEN [evaluated |-> FALSE, passed |-> FALSE]
        ELSE [evaluated |-> TRUE, passed |-> Compare(actual, t.op, t.value)]
=============================================================================
