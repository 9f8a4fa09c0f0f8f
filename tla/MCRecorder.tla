----------------------------- MODULE MCRecorder -----------------------------
(***************************************************************************)
(* Instances of Recorder.  Of the answers, three have label sets with the  *)
(* same hash, one is a failure, and one duration is beyond each end of the *)
(* histogram, whose buckets hold units 0 to 1, 2 to 3 and 4 to 5: nothing  *)
(* reaches the first, and the top of the last is above every observation.  *)
(***************************************************************************)
EXTENDS Recorder

Quick == [name |-> "a", status |-> 200, duration |-> 1, failed |-> FALSE]
Slow  == [name |-> "a", status |-> 500, duration |-> 9, failed |-> TRUE]
Other == [name |-> "b", status |-> 200, duration |-> 5, failed |-> FALSE]
Null  == [name |-> "b", status |-> 200, duration |-> 0, failed |-> FALSE]

SomeBounds == <<1, 3, 5>>

CollidingHash(labels) == IF "status" \in DOMAIN labels /\ labels.status = 200 THEN 1 ELSE 2

TwoWorkers == [v1 |-> "w1", v2 |-> "w1", v3 |-> "w2"]
TwoScenarios == [v1 |-> "buy", v2 |-> "buy", v3 |-> "browse"]
Spread == [v1 |-> 0, v2 |-> 3, v3 |-> 1]

SomeRequests ==
    {[v1 |-> <<Quick>>, v2 |-> <<Quick>>, v3 |-> <<Slow>>],
     [v1 |-> <<Quick>>, v2 |-> <<Slow>>,  v3 |-> <<>>],
     [v1 |-> <<Null>>,  v2 |-> <<>>,      v3 |-> <<Slow>>],
     [v1 |-> <<Quick>>, v2 |-> <<Other>>, v3 |-> <<Slow>>]}

OneOnFirst == [w1 |-> 1, w2 |-> 0]
OneOnSecond == [w1 |-> 0, w2 |-> 1]

(***************************************************************************)
(* Two readings within one flush, and two kinds of failure on one worker,  *)
(* which GaugeIsAReading and RefusedKindsAreReported fail with.            *)
(***************************************************************************)
TwoOnFirst == [w1 |-> 2, w2 |-> 0]

TwoKinds == {[v1 |-> <<Slow>>, v2 |-> <<[Slow EXCEPT !.name = "b"]>>, v3 |-> <<>>]}

SomeThresholds ==
    {[metric |-> "http_req_duration", stat |-> st, op |-> "lt", value |-> v] :
        st \in {"avg", "min", "p50", "p99"}, v \in {1, 6, 7, 10}}
    \cup {[metric |-> "http_req_failed", stat |-> "rate", op |-> "lte", value |-> 0],
          [metric |-> "http_req_duration", stat |-> "max", op |-> "gt", value |-> 5],
          [metric |-> "http_reqs", stat |-> "count", op |-> "gte", value |-> 3],
          [metric |-> "http_reqs", stat |-> "min", op |-> "gte", value |-> 1],
          [metric |-> "http_req_failed", stat |-> "p95", op |-> "lt", value |-> 5],
          [metric |-> "http_req_duration", stat |-> "p999", op |-> "lt", value |-> 5]}
=============================================================================
