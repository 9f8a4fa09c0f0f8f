------------------------------ MODULE Recorder ------------------------------
(***************************************************************************)
(* internal/metrics/recorder.go, and the way of an observation from the    *)
(* virtual user that makes it to the views of the coordinator's store.     *)
(* Virtual users record into the shards of their worker's recorder, each   *)
(* shard under its own lock; the worker's reporting loop flushes, visiting *)
(* the shards one after another while they are being written; batches      *)
(* travel through a bounded queue and are ingested in the order each node  *)
(* sent them.                                                              *)
(*                                                                         *)
(* record updates one shard, and distinct within it, under nested locks,   *)
(* so it is one step.  The dropped counter is raised after the shard's     *)
(* lock is released; nothing else of that step is visible, so raising it   *)
(* in the same step loses no behaviour.                                    *)
(***************************************************************************)
EXTENDS Metrics

CONSTANTS
    Node, VU,           \* workers, and their virtual users
    Host,               \* Host[v]: the worker v runs on
    Scenario,           \* Scenario[v]: the scenario v runs
    Hint,               \* Hint[v]: mixHash of v's id
    Shards, TrendShards,\* RecorderConfig, in effect
    MaxSeries,          \* RecorderConfig.MaxSeries
    MaxFailureKinds,    \* RecorderConfig.MaxFailureKinds
    QueueSize,          \* batches a worker's control client queues
    Work,               \* the requests the virtual users may have had answered
    VUReadings,         \* readings of the number of virtual users
    MaxReadings,        \* bound: MaxReadings[n]: calls of reportGauges on n
    MaxFlushes,         \* bound: MaxFlushes[n]: flushes of n before its last
    Thresholds          \* the thresholds of the plan

ASSUME RecorderAssumption ==
    /\ Shards \in Nat \ {0} /\ TrendShards \in 1 .. Shards /\ MaxSeries \in Nat \ {0}
    /\ MaxFailureKinds \in Nat \ {0} /\ QueueSize \in Nat
    /\ IsFiniteSet(Node) /\ IsFiniteSet(VU)
    /\ Host \in [VU -> Node] /\ Hint \in [VU -> Nat] /\ Scenario \in [VU -> STRING \ {""}]
    /\ MaxReadings \in [Node -> Nat] /\ MaxFlushes \in [Node -> Nat]
    /\ Work \subseteq [VU -> Seq([name : STRING \ {""}, status : Nat,
                                  duration : 0 .. Infinity - 1, failed : BOOLEAN])]
    /\ VUReadings \subseteq Nat

VARIABLES
    todo,       \* todo[v]: the observations v is about to record, in order
    shards,     \* shards[n][i]: the aggMap of shard i of n's recorder
    distinct,   \* distinct[n]: the keys admitted
    dropped,    \* dropped[n]: observations refused for the series cap
    rr,         \* rr[n]: the round-robin counter of callers that are no VU
    failures,   \* failures[n]: the failureTable
    phase,      \* phase[n]: "running", "stopping" (the engine has returned), "last", "done"
    flush,      \* flush[n]: the shard Flush visits next; 0 before a flush
    merged,     \* merged[n]: what the flush has collected so far
    flushes,    \* flushes[n]: flushes made, which number the buckets
    inflight,   \* inflight[n]: batches sent and not yet ingested
    store,      \* the run's Store
    made,       \* history: observations virtual users made, admitted or not
    admitted,   \* history: how often each observation was admitted to a shard
    lost,       \* history: the aggregates of the batches that were never ingested
    unheard     \* history: whether a batch was dropped at a full queue

vars == <<todo, shards, distinct, dropped, rr, failures, phase, flush, merged, flushes, inflight,
          store, made, admitted, lost, unheard>>

NoFailures == [entries |-> Empty, dropped |-> 0]
-----------------------------------------------------------------------------
(***************************************************************************)
(* What HTTPClient.record emits for an answered request, in its order; the *)
(* other counters and trends of a request are treated like these.          *)
(***************************************************************************)
Samples(v, req) ==
    LET labels == [scenario |-> Scenario[v], name |-> req.name, status |-> req.status]
        of(metric, kind, value, truthy) ==
            [metric |-> metric, labels |-> labels, kind |-> kind, value |-> value, truthy |-> truthy]
        base == << of("http_reqs", "counter", 1, FALSE),
                   of("http_req_duration", "trend", req.duration, FALSE),
                   of("http_req_failed", "rate", 0, req.failed) >>
    IN  IF req.failed
        THEN Append(base, [metric |-> "failure", labels |-> labels, kind |-> "failure",
                           value |-> 1, truthy |-> TRUE])
        ELSE base

AllSamples(v, reqs) == FlattenSeq([i \in 1 .. Len(reqs) |-> Samples(v, reqs[i])])

Init ==
    /\ \E w \in Work : todo = [v \in VU |-> AllSamples(v, w[v])]
    /\ shards = [n \in Node |-> [i \in 0 .. Shards - 1 |-> {}]]
    /\ distinct = [n \in Node |-> {}]
    /\ dropped = [n \in Node |-> 0]
    /\ rr = [n \in Node |-> 0]
    /\ failures = [n \in Node |-> NoFailures]
    /\ phase = [n \in Node |-> "running"]
    /\ flush = [n \in Node |-> 0]
    /\ merged = [n \in Node |-> {}]
    /\ flushes = [n \in Node |-> 0]
    /\ inflight = [n \in Node |-> <<>>]
    /\ store = NewStore
    /\ made = 0
    /\ admitted = Empty
    /\ lost = {}
    /\ unheard = FALSE

(***************************************************************************)
(* admit: a known key, or room for a new one.                              *)
(***************************************************************************)
Admit(n, o) == Key(o.metric, o.labels) \in distinct[n] \/ Cardinality(distinct[n]) < MaxSeries

ShardOf(o, hint) == hint % (IF o.kind = "trend" THEN TrendShards ELSE Shards)

(***************************************************************************)
(* record that raises no counter for what it refuses.                      *)
(***************************************************************************)
RecordUncounted(n, o, hint) ==
    LET i == ShardOf(o, hint)
        known == Find(shards[n][i], o.metric, o.labels) # {}
    IN  IF ~known /\ ~Admit(n, o)
        THEN UNCHANGED <<shards, distinct, dropped, admitted>>
        ELSE /\ distinct' = IF known THEN distinct
                            ELSE [distinct EXCEPT ![n] = @ \cup {Key(o.metric, o.labels)}]
             /\ shards' = [shards EXCEPT ![n][i] =
                    Put(@, Observe(GetOrCreate(@, o.metric, o.labels, o.kind), o.value, o.truthy))]
             /\ admitted' = Set(admitted, <<n, o>>, At(admitted, <<n, o>>, 0) + 1)
             /\ UNCHANGED dropped

(***************************************************************************)
(* Recorder.record: an observation of a series the shard has not seen must *)
(* be admitted, or is dropped and counted.                                 *)
(***************************************************************************)
RecordAt(n, o, hint) ==
    LET i == ShardOf(o, hint)
        known == Find(shards[n][i], o.metric, o.labels) # {}
    IN  IF ~known /\ ~Admit(n, o)
        THEN /\ dropped' = [dropped EXCEPT ![n] = @ + 1]
             /\ UNCHANGED <<shards, distinct, admitted>>
        ELSE /\ distinct' = IF known THEN distinct
                            ELSE [distinct EXCEPT ![n] = @ \cup {Key(o.metric, o.labels)}]
             /\ shards' = [shards EXCEPT ![n][i] =
                    Put(@, Observe(GetOrCreate(@, o.metric, o.labels, o.kind), o.value, o.truthy))]
             /\ admitted' = Set(admitted, <<n, o>>, At(admitted, <<n, o>>, 0) + 1)
             /\ UNCHANGED dropped

(***************************************************************************)
(* failureTable.record: one entry per kind, up to the limit.               *)
(***************************************************************************)
FailureKind(o) == <<o.labels.name, o.labels.status>>

ReportFailure(n, kind) ==
    LET t == failures[n]
    IN  failures' = [failures EXCEPT ![n] =
            IF kind \notin DOMAIN t.entries /\ Cardinality(DOMAIN t.entries) >= MaxFailureKinds
            THEN [t EXCEPT !.dropped = @ + 1]
            ELSE [t EXCEPT !.entries = Set(@, kind, At(@, kind, 0) + 1)]]

(***************************************************************************)
(* A virtual user makes its next observation, through the view pinned to   *)
(* its shard (ForVU).                                                      *)
(***************************************************************************)
Record(v) ==
    /\ todo[v] # <<>>
    /\ todo' = [todo EXCEPT ![v] = Tail(@)]
    /\ LET o == Head(todo[v])
       IN  IF o.kind = "failure"
           THEN /\ ReportFailure(Host[v], FailureKind(o))
                /\ UNCHANGED <<shards, distinct, dropped, made, admitted>>
           ELSE /\ RecordAt(Host[v], o, Hint[v])
                /\ made' = made + 1
                /\ UNCHANGED failures
    /\ UNCHANGED <<rr, phase, flush, merged, flushes, inflight, store, lost, unheard>>

(***************************************************************************)
(* reportGauges, for one scenario: the round robin picks the shard.        *)
(***************************************************************************)
ReportGauge(n) ==
    /\ phase[n] = "running" /\ rr[n] < MaxReadings[n]
    /\ \E vus \in VUReadings, sc \in {Scenario[v] : v \in {u \in VU : Host[u] = n}} :
        /\ rr' = [rr EXCEPT ![n] = @ + 1]
        /\ RecordAt(n, [metric |-> "vus", labels |-> [scenario |-> sc], kind |-> "gauge",
                        value |-> vus, truthy |-> FALSE], rr'[n])
    /\ UNCHANGED <<todo, failures, phase, flush, merged, flushes, inflight, store, made, lost, unheard>>
-----------------------------------------------------------------------------
(***************************************************************************)
(* The engine of n returns, its virtual users having finished.             *)
(***************************************************************************)
EngineReturns(n) ==
    /\ phase[n] = "running" /\ \A v \in VU : Host[v] = n => todo[v] = <<>>
    /\ phase' = [phase EXCEPT ![n] = "stopping"]
    /\ UNCHANGED <<todo, shards, distinct, dropped, rr, failures, flush, merged, flushes, inflight,
                   store, made, admitted, lost, unheard>>

(***************************************************************************)
(* worker.report starts a flush when its timer fires, and a last one once  *)
(* the engine has returned.                                                *)
(***************************************************************************)
MayFlush(n) ==
    \/ phase[n] \in {"running", "stopping"} /\ flushes[n] < MaxFlushes[n] /\ UNCHANGED phase
    \/ phase[n] = "stopping" /\ phase' = [phase EXCEPT ![n] = "last"]

Absorb(m, a) == Put(m, MergeFrom(GetOrCreate(m, a.metric, a.labels, a.kind), a))

AbsorbAll(m, S) == FoldSet(LAMBDA a, x : Absorb(x, a), m, S)

Collected(n) ==
    AbsorbAll(IF flush[n] = 0 THEN ResetAll(merged[n]) ELSE merged[n],
              {a \in shards[n][flush[n]] : a.count > 0})

(***************************************************************************)
(* Flush visits one shard, under its lock: what was recorded is merged and *)
(* the shard reset.  The first visit begins by resetting merged.           *)
(***************************************************************************)
FlushShard(n) ==
    /\ flush[n] < Shards
    /\ IF flush[n] = 0 THEN MayFlush(n) ELSE UNCHANGED phase
    /\ merged' = [merged EXCEPT ![n] = Collected(n)]
    /\ shards' = [shards EXCEPT ![n][flush[n]] = ResetAll(@)]
    /\ flush' = [flush EXCEPT ![n] = @ + 1]
    /\ UNCHANGED <<todo, distinct, dropped, rr, failures, flushes, inflight, store,
                   made, admitted, lost, unheard>>

(***************************************************************************)
(* The batch of a flush; drain empties the failure table into it.          *)
(***************************************************************************)
Batch(n) ==
    [node |-> n, bucket |-> flushes[n], activeVUs |-> Cardinality({v \in VU : Host[v] = n}),
     dropped |-> dropped[n],
     failures |-> {[kind |-> k, count |-> failures[n].entries[k]] : k \in DOMAIN failures[n].entries},
     series |-> {EncodeDelta(a) : a \in {b \in merged[n] : b.count > 0}}]

Contents(deltas) == {Incoming(d) : d \in deltas}

Losing(deltas) == AbsorbAll(lost, Contents(deltas))

(***************************************************************************)
(* The end of Flush, and of worker.flush: the batch is sent, unless the    *)
(* queue is full.                                                          *)
(***************************************************************************)
FlushEnd(n) ==
    /\ flush[n] = Shards
    /\ flush' = [flush EXCEPT ![n] = 0]
    /\ flushes' = [flushes EXCEPT ![n] = @ + 1]
    /\ failures' = [failures EXCEPT ![n].entries = Empty]
    /\ phase' = [phase EXCEPT ![n] = IF @ = "last" THEN "done" ELSE @]
    /\ IF Len(inflight[n]) < QueueSize
       THEN /\ inflight' = [inflight EXCEPT ![n] = Append(@, Batch(n))]
            /\ UNCHANGED <<lost, unheard>>
       ELSE /\ lost' = Losing(Batch(n).series)
            /\ unheard' = TRUE
            /\ UNCHANGED inflight
    /\ UNCHANGED <<todo, shards, distinct, dropped, rr, merged, store, made, admitted>>
-----------------------------------------------------------------------------
(***************************************************************************)
(* A batch lists its series, and its failures, in the order of a map.      *)
(* Only where a cap of the store leaves some out does the order matter,    *)
(* and then only by which of them come first.                              *)
(***************************************************************************)
Orders(S, capped) == {SetToSeq(P) \o SetToSeq(S \ P) : P \in IF capped THEN SUBSET S ELSE {S}}

Capped(s, b) ==
    LET new == {d \in b.series : Find(s.cumulative, d.metric, d.tags) = {}}
        names == {Get(d.tags, "name") : d \in b.series} \ {""}
        charted == DOMAIN At(s.buckets, b.bucket, NewBucket).endpoints
    IN  \/ Cardinality(s.cumulative) + Cardinality(new) > StoreSeries
        \/ Cardinality(charted \cup names) > MaxChartedEndpoints

(***************************************************************************)
(* OnMetrics and Ingest: the batch reaches its bucket...                   *)
(***************************************************************************)
Deliver(n) ==
    /\ inflight[n] # <<>>
    /\ inflight' = [inflight EXCEPT ![n] = Tail(@)]
    /\ LET b == Head(inflight[n])
       IN  /\ \E order \in Orders(b.series, Capped(store, b)), reported \in Orders(b.failures, TRUE) :
                store' = Ingest(store, b, order, reported)
           /\ lost' = Losing({d \in b.series : Find(store'.cumulative, d.metric, d.tags) = {}})
    /\ UNCHANGED <<todo, shards, distinct, dropped, rr, failures, phase, flush, merged, flushes,
                   made, admitted, unheard>>

(***************************************************************************)
(* ... or comes too late for it.                                           *)
(***************************************************************************)
DeliverLate(n) ==
    /\ inflight[n] # <<>>
    /\ inflight' = [inflight EXCEPT ![n] = Tail(@)]
    /\ store' = IngestLate(store, Head(inflight[n]))
    /\ lost' = Losing(Head(inflight[n]).series)
    /\ UNCHANGED <<todo, shards, distinct, dropped, rr, failures, phase, flush, merged, flushes,
                   made, admitted, unheard>>

Next ==
    \/ \E v \in VU : Record(v)
    \/ \E n \in Node : \/ ReportGauge(n) \/ EngineReturns(n) \/ FlushShard(n) \/ FlushEnd(n)
                        \/ Deliver(n) \/ DeliverLate(n)

Spec == Init /\ [][Next]_vars
-----------------------------------------------------------------------------
(***************************************************************************)
(* Reference definitions over the observations themselves.  Weight counts  *)
(* the admitted observations of a set, InSlot says which of them a bucket  *)
(* of a histogram counts: those above the bucket before and up to its own  *)
(* highest unit.                                                           *)
(***************************************************************************)
Weight(S) == SumFunction([x \in S |-> admitted[x]])

Admitted(metric) == {x \in DOMAIN admitted : x[2].metric = metric}

InSlot(v, i) == ScaleValue(v) <= Bounds[i] /\ (i > 1 => Bounds[i - 1] < ScaleValue(v))

(***************************************************************************)
(* A measure reads one number from an aggregate and the number it stands   *)
(* for from an observation: of one series, of one endpoint's series of a   *)
(* metric, of a metric or of all that is no gauge.                         *)
(***************************************************************************)
Measured(k, metric, labels) ==
    /\ metric # "vus"
    /\ k.among = "all" \/ k.metric = metric
    /\ k.among = "series" => k.labels = labels
    /\ k.among = "endpoint" => k.name = Get(labels, "name")

Part(k, a) ==
    IF ~Measured(k, a.metric, a.labels) THEN 0
    ELSE CASE k.of = "count"   -> a.count
           [] k.of = "nonZero" -> a.nonZero
           [] k.of = "sum"     -> a.sum
           [] OTHER            -> IF a.hist = NoHist THEN 0 ELSE a.hist[k.slot]

PartOf(k, o) ==
    IF ~Measured(k, o.metric, o.labels) THEN 0
    ELSE CASE k.of = "count"   -> 1
           [] k.of = "nonZero" -> IF o.truthy THEN 1 ELSE 0
           [] k.of = "sum"     -> o.value
           [] OTHER            -> IF o.kind = "trend" /\ InSlot(o.value, k.slot) THEN 1 ELSE 0

Measures(metric, labels) ==
    {[among |-> "series", metric |-> metric, labels |-> labels, of |-> p[1], slot |-> p[2]] :
        p \in {<<"count", 0>>, <<"nonZero", 0>>, <<"sum", 0>>}
              \cup (IF metric = "http_req_duration" THEN {"slot"} \X (1 .. CountsLen) ELSE {})}

(***************************************************************************)
(* What a measure reads from everything that holds observations: the       *)
(* shards, the aggregates of an unfinished flush, the batches on their     *)
(* way, the store and what was lost; and from the observations admitted.   *)
(***************************************************************************)
Mass(k, S) == SumFunction([a \in S |-> Part(k, a)])

NodeMass(k, n) ==
    SumFunction([i \in 0 .. Shards - 1 |-> Mass(k, shards[n][i])])
      + (IF flush[n] > 0 THEN Mass(k, merged[n]) ELSE 0)
      + SumFunction([j \in DOMAIN inflight[n] |-> Mass(k, Contents(inflight[n][j].series))])

Accounted(k) ==
    SumFunction([n \in Node |-> NodeMass(k, n)]) + Mass(k, store.cumulative) + Mass(k, lost)

Observed(k) == SumFunction([x \in DOMAIN admitted |-> admitted[x] * PartOf(k, x[2])])

Held ==
    (store.cumulative \cup lost)
      \cup (UNION {shards[n][i] : n \in Node, i \in 0 .. Shards - 1})
      \cup (UNION {merged[n] : n \in {m \in Node : flush[m] > 0}})
      \cup (UNION {UNION {Contents(inflight[n][j].series) : j \in DOMAIN inflight[n]} : n \in Node})

Finished == \A n \in Node : phase[n] = "done" /\ inflight[n] = <<>>

Lossless ==
    /\ ~unheard /\ store.droppedLate = 0 /\ store.droppedSeries = 0 /\ store.failures.dropped = 0
    /\ \A n \in Node : failures[n].dropped = 0
    /\ made = Weight({x \in DOMAIN admitted : x[2].kind # "gauge"})
-----------------------------------------------------------------------------
(***************************************************************************)
(* Every observation a shard admitted is in exactly one place, whatever    *)
(* the flush visiting the shards, the wire form of a histogram and two     *)
(* label sets with one hash do to it: for every series the counts, sums    *)
(* and distributions of all places add up to the observations made, and    *)
(* the extremes are theirs.  Once every worker has made its last flush     *)
(* (worker.execute), none is left behind in a recorder.                    *)
(***************************************************************************)
SamplesConserved ==
    /\ \A series \in {<<x[2].metric, x[2].labels>> : x \in {y \in DOMAIN admitted : y[2].kind # "gauge"}} :
        \A k \in Measures(series[1], series[2]) : Accounted(k) = Observed(k)
    /\ \A labels \in {x[2].labels : x \in Admitted("http_req_duration")} :
        LET seen == {y[2].value : y \in {z \in Admitted("http_req_duration") : z[2].labels = labels}}
            held == {a \in Held : a.metric = "http_req_duration" /\ a.labels = labels /\ a.count > 0}
        IN  Min({a.min : a \in held}) = Min(seen) /\ Max({a.max : a \in held}) = Max(seen)
    /\ Finished => \A n \in Node, i \in 0 .. Shards - 1 : \A a \in shards[n][i] : a.count = 0

(***************************************************************************)
(* The chart and the tables tell one story: in every bucket the scenarios, *)
(* the status classes and the endpoints add up to the rollup (unless       *)
(* endpoints were left out, which is counted), and over all buckets the    *)
(* rollups add up to the totals and the endpoint points to the endpoint    *)
(* table (unless the totals left out series, which is counted too).  When  *)
(* nothing was dropped, the failures listed are the failures counted.      *)
(***************************************************************************)
ReportsAgree ==
    LET ticks == [i \in DOMAIN store.buckets |-> BucketToTick(store.buckets[i])]
        Over(Op(_)) == SumFunction([i \in DOMAIN ticks |-> Op(ticks[i])])
        named(tick, name) == At(tick.endpoints, name, NewEndpointPoint)
    IN  /\ \A i \in DOMAIN ticks :
            LET t == ticks[i]
                all == DOMAIN t.scenarios
            IN  /\ t.requests = SumFunction([sc \in all |-> t.scenarios[sc].requests])
                /\ t.failures = SumFunction([sc \in all |-> t.scenarios[sc].failures])
                /\ t.requests = SumFunction(t.status)
                /\ store.droppedEndpoints = 0 =>
                    /\ t.requests = SumFunction([e \in DOMAIN t.endpoints |-> t.endpoints[e].requests])
                    /\ t.failures = SumFunction([e \in DOMAIN t.endpoints |-> t.endpoints[e].failures])
        /\ store.droppedSeries = 0 =>
            /\ Totals(store, "http_reqs").count = Over(LAMBDA t : t.requests)
            /\ Totals(store, "http_req_failed").nonZero = Over(LAMBDA t : t.failures)
            /\ Totals(store, "http_req_duration").count = Over(LAMBDA t : t.duration.count)
            /\ Totals(store, "http_req_duration").sum = Over(LAMBDA t : t.duration.sum)
        /\ store.droppedSeries = 0 /\ store.droppedEndpoints = 0 =>
            \A name \in Endpoints(store) \cup UNION {DOMAIN ticks[i].endpoints : i \in DOMAIN ticks} :
                LET e == Endpoint(store, name)
                IN  /\ e.requests = Over(LAMBDA t : named(t, name).observed)
                    /\ e.failures = Over(LAMBDA t : named(t, name).failures)
                    /\ e.sum = Over(LAMBDA t : named(t, name).sum)
                    /\ SumFunction(e.statuses)
                            = Over(LAMBDA t : named(t, name).requests)
                    /\ Finished /\ Lossless =>
                        e.failures = SumFunction([k \in {l \in DOMAIN store.failures.entries : l[1] = name} |->
                                                      store.failures.entries[k]])

(***************************************************************************)
(* What thresholds mean, over the observations: the statistics of          *)
(* docs/configuration.md, computed from the values observed.  A percentile *)
(* is, as docs/metrics.md says, the upper bound of the bucket in which the *)
(* value lies that this share of the observations does not exceed: it may  *)
(* be greater than every observation.                                      *)
(***************************************************************************)
RefStat(S, stat) ==
    LET total == Weight(S)
        values == {x[2].value : x \in S}
        sum == SumFunction([x \in S |-> admitted[x] * x[2].value])
        rank == (ReportedPercentile[stat] * total + 50) \div 100
        exact == Min({v \in values : Weight({x \in S : x[2].value <= v}) >= rank})
    IN  CASE stat = "count" -> <<total, 1>>
          [] stat = "rate"  -> <<Weight({x \in S : x[2].truthy}), total>>
          [] stat = "avg"   -> <<sum, total>>
          [] stat = "min"   -> <<Min(values), 1>>
          [] stat = "max"   -> <<Max(values), 1>>
          [] OTHER -> <<UnscaleValue(Bounds[Slot(ScaleValue(exact))]), 1>>

HasStat(metric, stat) ==
    \/ stat \in {"count", "rate", "avg", "min", "max"}
    \/ stat \in DOMAIN ReportedPercentile /\ metric = "http_req_duration"

RefVerdict(t) ==
    LET S == Admitted(t.metric)
    IN  IF S # {} /\ HasStat(t.metric, t.stat)
        THEN [evaluated |-> TRUE, passed |-> Compare(RefStat(S, t.stat), t.op, t.value)]
        ELSE [evaluated |-> FALSE, passed |-> FALSE]

(***************************************************************************)
(* Aggregate takes a minimum of zero for none yet, so that a zero beside   *)
(* larger values is the minimum or not, as the map yields the series.      *)
(***************************************************************************)
ZeroBesideOthers(S) == LET values == {x[2].value : x \in S} IN 0 \in values /\ values # {0}

(***************************************************************************)
(* The last evaluation of the thresholds of a finished run, which          *)
(* Run.Thresholds reports (Run.Breached latches, and may tell of an        *)
(* earlier one), is that of all the observations made, on whichever        *)
(* worker, shard and flush, if none was dropped: a threshold on a          *)
(* statistic of an observed metric is evaluated and passes exactly when    *)
(* the statistic of the observations satisfies it, in whatever order a map *)
(* yields the series; one on a percentile of a metric without distribution *)
(* is not evaluated.  Left out are a minimum with a zero beside other      *)
(* values, and gauges, which have no observations to compare with.         *)
(***************************************************************************)
VerdictOfAllSamples ==
    Finished /\ Lossless =>
        \A t \in {u \in Thresholds : u.metric # "vus"} :
            (t.stat = "min" => ~ZeroBesideOthers(Admitted(t.metric))) =>
                \A order \in Orders(SeriesOf(store, t.metric), TRUE) :
                    EvaluateThreshold(t, order) = RefVerdict(t)

(***************************************************************************)
(* store.go:655: a threshold is evaluated against the aggregate "across    *)
(* every label combination", its minimum included.  (Violated by two       *)
(* series, one of which has a minimum of zero, store.go:674.)              *)
(***************************************************************************)
MinimumOfAllSamples ==
    Finished /\ Lossless =>
        \A t \in {u \in Thresholds : u.stat = "min" /\ u.metric # "vus"} :
            \A order \in Orders(SeriesOf(store, t.metric), TRUE) :
                EvaluateThreshold(t, order) = RefVerdict(t)

(***************************************************************************)
(* A bounded, visibly lossy run: if the totals of a finished run lack an   *)
(* observation that a virtual user made, one of the counters of Stats that *)
(* the command line and the HTML report warn from (printWarnings of        *)
(* cli/report.go, warnings of report/report.go) says so, unless a worker's *)
(* own queue dropped the batch.                                            *)
(***************************************************************************)
InTotals == SumFunction([a \in {b \in store.cumulative : b.kind # "gauge"} |-> a.count])

Warned == Stats(store).droppedSeries + Stats(store).droppedLate + Stats(store).droppedByNode > 0

LossIsSurfaced == Finished /\ ~unheard => (InTotals < made => Warned)

(***************************************************************************)
(* docs/architecture.md:164, of a worker's full queue: "the drop is        *)
(* counted and surfaced".  (Violated: Send's error ends in the worker's    *)
(* log, and no counter of Stats is raised.)                                *)
(***************************************************************************)
QueueLossIsSurfaced == Finished => (InTotals < made => Warned)

(***************************************************************************)
(* The dashboard warns of every loss, too.  (Violated: App.tsx:967 reads   *)
(* droppedByNode and droppedLate; series the store refused, which the      *)
(* report warns of, are not among them.)                                   *)
(***************************************************************************)
DashboardWarns ==
    Finished /\ ~unheard =>
        (InTotals < made => Stats(store).droppedLate + Stats(store).droppedByNode > 0)

(***************************************************************************)
(* docs/metrics.md:208-210: failure kinds beyond the limit are counted and *)
(* shown.  (Violated: what a worker's own table refused never leaves it.)  *)
(***************************************************************************)
RefusedKindsAreReported ==
    Finished /\ (\E n \in Node : failures[n].dropped > 0) => Stats(store).droppedFailures > 0

(***************************************************************************)
(* docs/metrics.md: vus is the number of virtual users executing.  What a  *)
(* worker reports for it is a number the engine gave.  (Violated: readings *)
(* of one interval land in several shards, and Flush adds them up.)        *)
(***************************************************************************)
GaugeIsAReading ==
    \A n \in Node : \A i \in DOMAIN inflight[n] :
        \A d \in inflight[n][i].series : d.kind = "gauge" => d.sum \in VUReadings
=============================================================================
