----------------------------- MODULE LiveStream -----------------------------
(***************************************************************************)
(* internal/coordinator/stream.go, internal/httpapi/stream.go and the      *)
(* dashboard's useLiveState.ts on top of MetricStore: the ticker fans its  *)
(* updates out to subscribers, and a dashboard that connects at any time   *)
(* puts its chart together from a snapshot and the updates that follow.    *)
(* Besides the stream it may have fetched a snapshot over REST.            *)
(*                                                                         *)
(* A chart is the set of the starts of its buckets of this run, and an     *)
(* update says which run it is about and which buckets it carries.         *)
(***************************************************************************)
EXTENDS MetricStore

CONSTANTS
    SubscriberBuffer,   \* updates a subscriber may fall behind
    MaxTicks,           \* buckets the dashboard keeps
    MaxConnects,        \* bound: connections of the dashboard
    MaxFetches          \* bound: snapshots fetched over REST

ASSUME StreamAssumption ==
    /\ SubscriberBuffer \in Nat \ {0} /\ MaxTicks \in Nat \ {0}
    /\ MaxConnects \in Nat /\ MaxFetches \in Nat

VARIABLES
    update,     \* what the tick under way has collected and not yet published
    conn,       \* the connection: "away", "subscribed", "writing" or "live"
    inbox,      \* Subscription.ch
    frame,      \* the snapshot being written to the connection
    fetched,    \* the snapshots fetched over REST and not yet applied
    chart,      \* the buckets the dashboard shows
    behind,     \* observed: buckets were lost on the way to this chart
    connects, fetches

viewVars == <<conn, inbox, frame, fetched, chart, behind, connects, fetches>>
liveVars == <<vars, update, viewVars>>

(***************************************************************************)
(* Update, as far as it concerns the chart: an event has neither run nor   *)
(* ticks, and the ticks of the run that replaces this one are left out.    *)
(***************************************************************************)
TickOf(starts) == [run |-> "this", ticks |-> starts]
NextRunTick == [run |-> "next", ticks |-> <<>>]
EventUpdate == [run |-> "none", ticks |-> <<>>]
NoUpdate == [run |-> "idle", ticks |-> <<>>]

LiveInit ==
    /\ Init
    /\ update = NoUpdate
    /\ conn = "away" /\ inbox = <<>> /\ frame = {} /\ fetched = {} /\ chart = {}
    /\ behind = FALSE /\ connects = 0 /\ fetches = 0
-----------------------------------------------------------------------------
(***************************************************************************)
(* publish: a subscriber whose buffer is full is skipped.                  *)
(***************************************************************************)
Send(u) ==
    IF Len(inbox) < SubscriberBuffer
    THEN inbox' = Append(inbox, u) /\ UNCHANGED behind
    ELSE behind' = (behind \/ u.ticks # <<>>) /\ UNCHANGED inbox

(***************************************************************************)
(* Registered only once the snapshot has been written.                     *)
(***************************************************************************)
RegisteredLate == conn = "live"

Registered == conn # "away"

PublishTo(u) ==
    /\ IF Registered THEN Send(u) ELSE UNCHANGED <<inbox, behind>>
    /\ UNCHANGED <<conn, frame, fetched, chart, connects, fetches>>

(***************************************************************************)
(* The tick of MetricStore collects what ticksSince returns; publish comes *)
(* after it, and has its own lock.                                         *)
(***************************************************************************)
CollectTick ==
    /\ update = NoUpdate
    /\ Tick
    /\ update' = TickOf(SubSeq(stream', Len(stream) + 1, Len(stream')))
    /\ UNCHANGED viewVars

Publish ==
    /\ update # NoUpdate
    /\ PublishTo(update)
    /\ update' = NoUpdate
    /\ UNCHANGED vars

(***************************************************************************)
(* record publishes an event at any time.                                  *)
(***************************************************************************)
PublishEvent ==
    /\ Registered
    /\ PublishTo(EventUpdate)
    /\ UNCHANGED <<vars, update>>

(***************************************************************************)
(* The ticks that follow once another run is c.active are about that one.  *)
(***************************************************************************)
PublishNextRun ==
    /\ phase = "replaced" /\ update = NoUpdate
    /\ Registered
    /\ PublishTo(NextRunTick)
    /\ UNCHANGED <<vars, update>>
-----------------------------------------------------------------------------
(***************************************************************************)
(* Snapshot: the retained buckets of c.active.                             *)
(***************************************************************************)
Snapshot ==
    IF phase = "replaced" THEN {}
    ELSE LET ticks == Timeline(store, 0) IN {ticks[i].idx * Resolution : i \in DOMAIN ticks}

(***************************************************************************)
(* slice(-MAX_TICKS): the newest buckets.                                  *)
(***************************************************************************)
Newest(starts) == {s \in starts : Cardinality({t \in starts : t > s}) < MaxTicks}

(***************************************************************************)
(* handleStream: subscribe, render a snapshot, write it, and then write    *)
(* updates as they come.  A write that fails, and a closed browser, end    *)
(* the subscription.                                                       *)
(***************************************************************************)
Subscribe ==
    /\ conn = "away" /\ connects < MaxConnects
    /\ conn' = "subscribed"
    /\ connects' = connects + 1
    /\ UNCHANGED <<vars, update, inbox, frame, fetched, chart, behind, fetches>>

RenderSnapshot ==
    /\ conn = "subscribed"
    /\ conn' = "writing"
    /\ frame' = Snapshot
    /\ UNCHANGED <<vars, update, inbox, fetched, chart, behind, connects, fetches>>

(***************************************************************************)
(* applySnapshot replaces the chart.                                       *)
(***************************************************************************)
SnapshotArrives ==
    /\ conn = "writing"
    /\ conn' = "live"
    /\ chart' = Newest(frame)
    /\ frame' = {}
    /\ UNCHANGED <<vars, update, inbox, fetched, behind, connects, fetches>>

(***************************************************************************)
(* mergeTicks merges by the start of the bucket, since an update may       *)
(* repeat what the snapshot had.  A tick of another run clears the chart.  *)
(***************************************************************************)
MergeTicks(shown, u) == IF u.run = "next" THEN {} ELSE Newest(shown \cup ToSet(u.ticks))

UpdateArrives ==
    /\ conn = "live" /\ inbox # <<>>
    /\ chart' = MergeTicks(chart, Head(inbox))
    /\ inbox' = Tail(inbox)
    /\ UNCHANGED <<vars, update, conn, frame, fetched, behind, connects, fetches>>

Disconnect ==
    /\ conn # "away"
    /\ conn' = "away" /\ inbox' = <<>> /\ frame' = {} /\ behind' = FALSE
    /\ UNCHANGED <<vars, update, fetched, chart, connects, fetches>>

(***************************************************************************)
(* refresh: a snapshot over REST, which replaces the chart whenever it     *)
(* arrives, be it older than what the stream has brought since.            *)
(***************************************************************************)
Fetch ==
    /\ fetches < MaxFetches
    /\ fetches' = fetches + 1
    /\ fetched' = fetched \cup {Snapshot}
    /\ UNCHANGED <<vars, update, conn, inbox, frame, chart, behind, connects>>

Outdated(snapshot) == \E s \in chart : \A t \in snapshot : t < s

FetchArrives(snapshot) ==
    /\ fetched' = fetched \ {snapshot}
    /\ chart' = Newest(snapshot)
    /\ behind' = (behind \/ (conn = "live" /\ Outdated(snapshot)))
    /\ UNCHANGED <<vars, update, conn, inbox, frame, connects, fetches>>
-----------------------------------------------------------------------------
StoreStep ==
    /\ \/ \E n \in Node : Flush(n) \/ LastFlush(n) \/ Deliver(n)
       \/ Replace
       \/ FinalSnapshot
       \/ update = NoUpdate /\ Advance
    /\ UNCHANGED <<update, viewVars>>

LiveNext ==
    \/ StoreStep
    \/ CollectTick \/ Publish \/ PublishEvent \/ PublishNextRun
    \/ Subscribe \/ RenderSnapshot \/ SnapshotArrives \/ UpdateArrives \/ Disconnect
    \/ Fetch \/ \E snapshot \in fetched : FetchArrives(snapshot)

LiveSpec == LiveInit /\ [][LiveNext]_liveVars
-----------------------------------------------------------------------------
(***************************************************************************)
(* handleStream: a client that connects mid-run sees the history it        *)
(* missed.  What a live dashboard shows or is about to be sent is the end  *)
(* of what has been published, without a gap, whenever it connected; a gap *)
(* only ever comes from a buffer that was full or from a REST snapshot     *)
(* older than the chart it replaced.                                       *)
(***************************************************************************)
ChartHasNoGap ==
    LET coming == (UNION {ToSet(inbox[i].ticks) : i \in DOMAIN inbox}) \cup ToSet(update.ticks)
        held(i) == stream[i] \in chart \cup coming
    IN  conn = "live" /\ ~behind /\ phase # "replaced" =>
            /\ \A i, j \in DOMAIN stream : i < j /\ held(i) => held(j)
            /\ stream # <<>> => held(Len(stream))
=============================================================================
