---------------------------- MODULE MetricStore ----------------------------
(***************************************************************************)
(* internal/metrics/store.go and what feeds and reads it: workers flush a  *)
(* batch per bucket, the coordinator ingests batches in whatever order the *)
(* streams deliver them, its ticker closes the buckets whose grace is over *)
(* and publishes them, and the command line reads the finished run's       *)
(* timeline once it has settled.                                           *)
(*                                                                         *)
(* Time is discrete; Resolution units make a bucket.  A batch stands for   *)
(* one node's samples of one bucket, so that a bucket is the set of nodes  *)
(* merged into it.                                                         *)
(***************************************************************************)
EXTENDS Integers, Sequences, FiniteSets, SequencesExt

CONSTANTS
    Node,           \* the workers of the run
    Resolution,     \* the width of a bucket and the interval of flushes and ticks
    LateGrace,      \* how long a bucket accepts contributions
    Capacity,       \* buckets the ring retains: Window / Resolution
    QueueSize,      \* batches a worker's control client queues
    MaxLag,         \* how far behind a bucket's start its batch may be delivered
    TickLag,        \* how long the coordinator may take to get to a tick
    Settle,         \* settleDelay of the command line
    Start,          \* the time the run starts
    StopBy,         \* bound: the time by which every worker has stopped
    MaxTime,        \* bound: the end of time
    TimeOut,        \* when a run may end though its workers have not: a stop timed out
    Superseded      \* whether another run may be started after this one

ASSUME StoreAssumption ==
    /\ Resolution \in Nat \ {0} /\ Capacity \in Nat \ {0} /\ LateGrace \in Nat
    /\ QueueSize \in Nat /\ MaxLag \in Nat /\ Settle \in Nat /\ TickLag \in Nat
    /\ TimeOut \in Nat /\ Superseded \in BOOLEAN
    /\ Start \in Nat /\ StopBy \in Nat /\ MaxTime \in Nat
    /\ LateGrace + Resolution <= Start /\ Start <= MaxTime

VARIABLES
    now,        \* the wall clock
    due,        \* when the coordinator's ticker fires next
    next,       \* next[n]: when worker n flushes next, or Stopped
    inflight,   \* inflight[n]: the starts of the batches of n not yet delivered
    store,      \* the run's Store
    published,  \* run.published: the newest bucket pushed to subscribers
    phase,      \* "running", "ended", or "replaced" once another run is c.active
    endedAt,    \* when the run reached its terminal phase
    report,     \* the timeline the command line read, or NoReport
    stream,     \* history: the bucket starts pushed to subscribers, in order
    filed,      \* history: the buckets finalised, in order
    late,       \* history: the buckets opened when their grace was over
    lag         \* history: the longest a tick has waited

history == <<stream, filed, late, lag>>
vars == <<now, due, next, inflight, store, published, phase, endedAt, report, history>>

Stopped == 0
NoReport == [taken |-> FALSE, ticks |-> <<>>]
-----------------------------------------------------------------------------
(***************************************************************************)
(* The Store.  open maps a bucket index to the nodes merged so far; closed *)
(* is the ring of finalised buckets.                                       *)
(***************************************************************************)
indexOf(t) == t \div Resolution

Truncate(t) == indexOf(t) * Resolution

Bucket == [idx : Nat, from : SUBSET Node]
NoBucket == [idx |-> 0, from |-> {}]

NewStore == [open |-> {}, closed |-> [i \in 0 .. Capacity - 1 |-> NoBucket],
             head |-> 0, closedN |-> 0, lastSeen |-> 0, droppedLate |-> 0]

OpenAt(s, idx) == {b \in s.open : b.idx = idx}

(***************************************************************************)
(* bucketFor: an open bucket takes the batch; a new one is opened unless   *)
(* it lies before the cutoff, which lags the newest batch seen.            *)
(***************************************************************************)
Refused(s, idx) ==
    /\ OpenAt(s, idx) = {}
    /\ idx < indexOf(s.lastSeen - LateGrace)

Merged(s, idx, n) ==
    LET old == OpenAt(s, idx)
        from == UNION {b.from : b \in old}
    IN  [s EXCEPT !.open = (@ \ old) \cup {[idx |-> idx, from |-> from \cup {n}]}]

Ingest(s, n, start) ==
    LET seen == [s EXCEPT !.lastSeen = IF start > @ THEN start ELSE @]
    IN  IF Refused(seen, indexOf(start))
        THEN [seen EXCEPT !.droppedLate = @ + 1]
        ELSE Merged(seen, indexOf(start), n)

(***************************************************************************)
(* finalise that forgets to move the head.                                 *)
(***************************************************************************)
FinaliseHeadStuck(s, bucket) ==
    LET full == s.closedN = Capacity
        slot == IF full THEN s.head ELSE (s.head + s.closedN) % Capacity
    IN  [s EXCEPT !.closed[slot] = bucket,
                  !.closedN = IF full THEN @ ELSE @ + 1]

(***************************************************************************)
(* finalise files a bucket in the ring, over the oldest one when full.     *)
(***************************************************************************)
Finalise(s, bucket) ==
    LET full == s.closedN = Capacity
        slot == IF full THEN s.head ELSE (s.head + s.closedN) % Capacity
    IN  [s EXCEPT !.closed[slot] = bucket,
                  !.head = IF full THEN (@ + 1) % Capacity ELSE @,
                  !.closedN = IF full THEN @ ELSE @ + 1]

(***************************************************************************)
(* Cutoffs that are too early, or that lag the newest batch.               *)
(***************************************************************************)
ReadyEarly(s, t) == {b \in s.open : b.idx <= indexOf(t - LateGrace)}

ReadyBySeen(s, t) == {b \in s.open : b.idx < indexOf(s.lastSeen - LateGrace)}

(***************************************************************************)
(* CloseStale: the open buckets before the cutoff, which lags the wall     *)
(* clock, in the order of their index.                                     *)
(***************************************************************************)
Ready(s, t) == {b \in s.open : b.idx < indexOf(t - LateGrace)}

InOrder(S) == CHOOSE q \in SetToSeqs(S) : \A i, j \in DOMAIN q : i < j => q[i].idx < q[j].idx

CloseStale(s, t) ==
    LET ready == InOrder(Ready(s, t))
        after[k \in 0 .. Len(ready)] ==
            IF k = 0 THEN [s EXCEPT !.open = @ \ Ready(s, t)] ELSE Finalise(after[k - 1], ready[k])
    IN  after[Len(ready)]

(***************************************************************************)
(* Timeline: the retained buckets newer than since, oldest first.          *)
(***************************************************************************)
Retained(s) == [i \in 1 .. s.closedN |-> s.closed[(s.head + i - 1) % Capacity]]

Kept(q, D) == [k \in 1 .. Cardinality(D) |-> q[CHOOSE i \in D : Cardinality({j \in D : j <= i}) = k]]

(***************************************************************************)
(* Timeline with the bucket at the watermark included.                     *)
(***************************************************************************)
TimelineInclusive(s, since) ==
    LET all == Retained(s)
    IN  Kept(all, {i \in DOMAIN all : all[i].idx * Resolution >= since})

Timeline(s, since) ==
    LET all == Retained(s)
    IN  Kept(all, {i \in DOMAIN all : all[i].idx * Resolution > since})
-----------------------------------------------------------------------------
Init ==
    /\ now = Start
    /\ due = Start + Resolution
    /\ next = [n \in Node |-> Truncate(Start) + Resolution]
    /\ inflight = [n \in Node |-> <<>>]
    /\ store = NewStore
    /\ published = 0
    /\ phase = "running"
    /\ endedAt = 0
    /\ report = NoReport
    /\ stream = <<>>
    /\ filed = <<>>
    /\ late = {} /\ lag = 0

(***************************************************************************)
(* worker.report: a flush on the boundary, or after a stall; boundaries    *)
(* that passed during the stall are skipped.  A batch that finds the       *)
(* control queue full is dropped.                                          *)
(***************************************************************************)
SendMetrics(n) ==
    inflight' = IF Len(inflight[n]) < QueueSize
                THEN [inflight EXCEPT ![n] = Append(@, next[n] - Resolution)]
                ELSE inflight

FollowingFlush(n) ==
    LET after == next[n] + Resolution
    IN  IF after < now THEN Truncate(now) + Resolution ELSE after

Flush(n) ==
    /\ next[n] # Stopped /\ now >= next[n]
    /\ SendMetrics(n)
    /\ next' = [next EXCEPT ![n] = FollowingFlush(n)]
    /\ UNCHANGED <<now, due, store, published, phase, endedAt, report, history>>

(***************************************************************************)
(* The engine of worker n returns: report flushes what is left and ends.   *)
(***************************************************************************)
LastFlush(n) ==
    /\ next[n] # Stopped
    /\ SendMetrics(n)
    /\ next' = [next EXCEPT ![n] = Stopped]
    /\ UNCHANGED <<now, due, store, published, phase, endedAt, report, history>>

(***************************************************************************)
(* OnMetrics: batches of one worker arrive in the order they were sent.  A *)
(* batch may come when the grace of its bucket is over and open the bucket *)
(* all the same: bucketFor goes by the newest batch, not by the clock.     *)
(***************************************************************************)
Opened == {b.idx : b \in store'.open} \ {b.idx : b \in store.open}

Deliver(n) ==
    /\ inflight[n] # <<>>
    /\ store' = Ingest(store, n, Head(inflight[n]))
    /\ inflight' = [inflight EXCEPT ![n] = Tail(@)]
    /\ late' = late \cup {idx \in Opened : idx < indexOf(now - LateGrace)}
    /\ UNCHANGED <<now, due, next, published, phase, endedAt, report, stream, filed, lag>>

(***************************************************************************)
(* The part of the coordinator's tick about the store of c.active: close   *)
(* what is due and publish the buckets beyond the watermark (ticksSince).  *)
(* The tick is given the time its ticker fired, and the ticks that fire    *)
(* while one waits are dropped.  A run whose workers have all reported     *)
(* their end ends in this tick; one whose stop has timed out, or that lost *)
(* its agents, ends with batches still to come.                            *)
(***************************************************************************)
FollowingTick == due + Resolution * (1 + (now - due) \div Resolution)

AllIn == \A n \in Node : next[n] = Stopped /\ inflight[n] = <<>>

EndRun == phase = "running" /\ (AllIn \/ now >= TimeOut) /\ phase' = "ended" /\ endedAt' = now

KeepOn == ~(phase = "running" /\ AllIn) /\ UNCHANGED <<phase, endedAt>>

Tick ==
    /\ phase # "replaced" /\ now >= due
    /\ due' = FollowingTick
    /\ store' = CloseStale(store, due)
    /\ LET ticks == Timeline(store', published)
           starts == [i \in 1 .. Len(ticks) |-> ticks[i].idx * Resolution]
       IN  /\ stream' = stream \o starts
           /\ published' = Max({published} \cup ToSet(starts))
    /\ filed' = filed \o InOrder(Ready(store, due))
    /\ lag' = Max({lag, now - due})
    /\ EndRun \/ KeepOn
    /\ UNCHANGED <<now, next, inflight, report, late>>

(***************************************************************************)
(* Another run becomes c.active: the ticker no longer looks at this one.   *)
(***************************************************************************)
Replace ==
    /\ Superseded /\ phase = "ended"
    /\ phase' = "replaced"
    /\ UNCHANGED <<now, due, next, inflight, store, published, endedAt, report, history>>

(***************************************************************************)
(* finalSnapshot that reads the instant the phase flips.                   *)
(***************************************************************************)
FinalSnapshotAtOnce ==
    /\ phase # "running" /\ ~report.taken
    /\ report' = [taken |-> TRUE, ticks |-> Timeline(store, 0)]
    /\ UNCHANGED <<now, due, next, inflight, store, published, phase, endedAt, history>>

(***************************************************************************)
(* finalSnapshot: the command line waits settleDelay and reads the         *)
(* timeline.                                                               *)
(***************************************************************************)
FinalSnapshot ==
    /\ phase # "running" /\ now >= endedAt + Settle /\ ~report.taken
    /\ report' = [taken |-> TRUE, ticks |-> Timeline(store, 0)]
    /\ UNCHANGED <<now, due, next, inflight, store, published, phase, endedAt, history>>

(***************************************************************************)
(* Time passes.  It does not pass a tick that has waited for TickLag, a    *)
(* worker that should have stopped, or the delivery deadline of a batch.   *)
(***************************************************************************)
Pending(n) == ToSet(inflight[n]) \cup (IF next[n] = Stopped THEN {} ELSE {next[n] - Resolution})

Advance ==
    /\ now < MaxTime
    /\ phase # "replaced" => now < due + TickLag
    /\ phase # "running" /\ ~report.taken => now < endedAt + Settle
    /\ \A n \in Node : /\ next[n] # Stopped => now < StopBy
                       /\ \A start \in Pending(n) : now < start + MaxLag
    /\ now' = now + 1
    /\ UNCHANGED <<due, next, inflight, store, published, phase, endedAt, report, history>>

Next ==
    \/ \E n \in Node : Flush(n) \/ LastFlush(n) \/ Deliver(n)
    \/ Tick
    \/ Replace
    \/ FinalSnapshot
    \/ Advance

Spec == Init /\ [][Next]_vars

(***************************************************************************)
(* The clock, the ticker and the command line keep going, batches in       *)
(* flight arrive, and every worker's engine returns in the end.            *)
(***************************************************************************)
FairSpec ==
    /\ Spec
    /\ WF_vars(Advance) /\ WF_vars(Tick) /\ WF_vars(FinalSnapshot)
    /\ \A n \in Node : WF_vars(Deliver(n)) /\ WF_vars(LastFlush(n))
-----------------------------------------------------------------------------
(***************************************************************************)
(* Every variable has its type.                                            *)
(***************************************************************************)
TypeOK ==
    /\ now \in Start .. MaxTime /\ due \in Nat /\ endedAt \in Nat /\ published \in Nat
    /\ next \in [Node -> Nat] /\ inflight \in [Node -> Seq(Nat)]
    /\ store.open \subseteq Bucket /\ store.closed \in [0 .. Capacity - 1 -> Bucket]
    /\ store.head \in 0 .. Capacity - 1 /\ store.closedN \in 0 .. Capacity
    /\ store.lastSeen \in Nat /\ store.droppedLate \in Nat
    /\ phase \in {"running", "ended", "replaced"}
    /\ filed \in Seq(Bucket) /\ stream \in Seq(Nat) /\ late \subseteq Nat /\ lag \in Nat

(***************************************************************************)
(* A batch that comes within the grace of its bucket is charted in order,  *)
(* however late the ticks are and whatever the other workers have sent:    *)
(* the buckets CloseStale files and the ones still open follow everything  *)
(* filed before them, but for a bucket that was opened after its grace.    *)
(***************************************************************************)
ChartInOrder ==
    /\ \A i, j \in 1 .. Len(filed) : i < j => filed[i].idx < filed[j].idx \/ filed[j].idx \in late
    /\ \A b \in store.open, i \in 1 .. Len(filed) : filed[i].idx < b.idx \/ b.idx \in late

(***************************************************************************)
(* What docs/architecture.md says of a batch that arrives too late, that   *)
(* it is rejected rather than appearing out of order in the chart, and     *)
(* what the comment of bucketFor says.  It fails: a batch that comes after *)
(* the wall clock has closed its bucket is refused only when a newer batch *)
(* has been seen, and otherwise opens the bucket again.                    *)
(***************************************************************************)
StrictlyInOrder ==
    /\ \A i, j \in 1 .. Len(filed) : i < j => filed[i].idx < filed[j].idx
    /\ \A b \in store.open, i \in 1 .. Len(filed) : filed[i].idx < b.idx

(***************************************************************************)
(* The ring is the most recent Capacity buckets filed, oldest first,       *)
(* however often it has wrapped.                                           *)
(***************************************************************************)
RingIsRecent ==
    LET first == IF Len(filed) > Capacity THEN Len(filed) - Capacity + 1 ELSE 1
    IN  Retained(store) = SubSeq(filed, first, Len(filed))

(***************************************************************************)
(* Live subscribers are pushed buckets in order and none twice, however    *)
(* many close in one tick; every bucket is pushed that the ring retains    *)
(* and that was not opened after its grace, so that the one watermark of   *)
(* ticksSince skips none of them.                                          *)
(***************************************************************************)
RetainedStreamed ==
    \A k \in 1 .. Len(filed) : k > Len(filed) - Capacity /\ filed[k].idx \notin late =>
        \E i \in 1 .. Len(stream) : stream[i] = filed[k].idx * Resolution

StreamedOnce ==
    /\ \A i, j \in 1 .. Len(stream) : i < j => stream[i] < stream[j]
    /\ \A i \in 1 .. Len(stream) : \E k \in 1 .. Len(filed) : stream[i] = filed[k].idx * Resolution
    /\ RetainedStreamed

(***************************************************************************)
(* A run whose traffic stops still gets its final buckets published: in    *)
(* the end no bucket stays open and all that the ring retains has been     *)
(* pushed, unless the next run has become c.active by then.  Buckets       *)
(* opened after their grace are not pushed.                                *)
(***************************************************************************)
FinalBucketsPublished ==
    <>[](phase # "replaced" => RetainedStreamed /\ \A b \in store.open : b.idx \in late)

(***************************************************************************)
(* What the report read settleDelay after the end can lack: of the buckets *)
(* filed and retained nothing, and of the ones still open only those that  *)
(* started less than the grace and two intervals before settleDelay was    *)
(* over, or earlier by twice what the ticks have been late; that is, with  *)
(* punctual ticks, in the last seconds of the run.                         *)
(***************************************************************************)
Unclosed(t) == t - LateGrace - 2 * Resolution - 2 * Max({lag, now - due})

ReportLacksOnlyTheTail ==
    [][report' # report /\ phase = "ended" =>
           /\ \A k \in 1 .. Len(filed) : k > Len(filed) - Capacity => filed[k] \in ToSet(report'.ticks)
           /\ \A b \in store.open : b.idx * Resolution > Unclosed(endedAt + Settle) \/ b.idx \in late]_vars

(***************************************************************************)
(* What finalSnapshot says: the pause lets the last buckets close, so that *)
(* the final second of a run is not lost; settleDelay covers one flush and *)
(* the grace.  It fails, with punctual ticks and prompt workers: the grace *)
(* alone is longer than settleDelay.                                       *)
(***************************************************************************)
ReportIsComplete == [][report' # report /\ phase = "ended" => store.open = {}]_vars
=============================================================================
