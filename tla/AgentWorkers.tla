---------------------------- MODULE AgentWorkers ----------------------------
(***************************************************************************)
(* internal/agent and internal/worker: an agent, the worker processes it   *)
(* spawns for every run it is told to start, and the run as each worker    *)
(* executes it.                                                            *)
(*                                                                         *)
(* In the agent several goroutines meet: the receive loop of the           *)
(* coordinator's stream (OnStartRun, OnSetQuota), a stopRun per stop       *)
(* command, the receive loop and the supervisor of every worker, a         *)
(* dispatchWhenReady per start, and any number of rebalances.  A region    *)
(* under one lock is one step; rebalance and OnRunStatus send after they   *)
(* have let go of theirs.                                                  *)
(***************************************************************************)
EXTENDS Apportion, Sequences

CONSTANTS
    WorkerCount,    \* workers spawned for a run
    MaxStarts,      \* bound: start commands from the coordinator
    Quota,          \* the agent's share of the peak VU count
    Requote,        \* the shares a quota command may give it later
    Slot,           \* rebalances that may be sending at the same time
    Stopper,        \* bound: goroutines started by stop commands
    Trouble,        \* the kinds of upset that may happen
    MaxUpsets       \* bound: upsets, of all kinds together

ASSUME WorkersAssumption ==
    /\ WorkerCount \in Nat \ {0} /\ MaxStarts \in Nat /\ Quota \in Nat
    /\ MaxUpsets \in Nat /\ Requote \subseteq Nat
    /\ "recv" \notin Stopper

(***************************************************************************)
(* Every start command begins a generation of workers.  A worker's number  *)
(* is its place in the order of worker ids, <index>-<sequence number>.     *)
(***************************************************************************)
Gen == 1 .. MaxStarts
NoGen == 0
Worker == 0 .. WorkerCount * MaxStarts - 1
WorkerOf(g, i) == i * MaxStarts + g - 1
GenOf(w) == (w % MaxStarts) + 1

VARIABLES
    run,        \* a.run: generation, run id, quota and the workers told to start, or NoRun
    ids,        \* ids[g]: the run id of generation g
    recv,       \* the receive loop of the coordinator's stream
    stop,       \* stop[p]: how far goroutine p is in stopRun
    ready,      \* ready[g]: dispatchWhenReady of generation g
    proc,       \* proc[w]: the process of worker w
    joined,     \* a.workers: the workers with a registered session
    linked,     \* the registered workers whose stream is intact
    lost,       \* history: the workers whose stream, or a message on it, was lost
    forgotten,  \* history: the live workers whose session OnLeave has removed
    due,        \* rebalances that have been asked for and not begun
    sending,    \* sending[s]: the messages a rebalance has yet to send
    down,       \* down[w]: commands on their way to worker w
    up,         \* up[w]: status updates on their way from worker w
    phase,      \* a.workerPhase
    relay,      \* relay[w]: the folded status that w's receive loop is about to send
    ended,      \* history: the runs the coordinator was told a terminal phase of
    engine,     \* engine[w]: the run worker w has, its VU quota and its slice of ids
    upsets      \* upsets left

vars == <<run, ids, recv, stop, ready, proc, joined, linked, lost, forgotten, due, sending,
          down, up, phase, relay, ended, engine, upsets>>
agentVars == <<run, ids, recv, stop, ready, due>>
links == <<linked, lost, forgotten>>
workerVars == <<proc, joined, links, down, up, engine>>
reportVars == <<phase, relay, ended>>

NoRun == [gen |-> NoGen, id |-> 0, quota |-> 0, dispatched |-> {}]
NotStarted == [gen |-> NoGen, quota |-> 0, slice |-> 0, st |-> "none"]
NotStopping == [pc |-> "idle", gen |-> NoGen, victims |-> {}]
NoRelay == [id |-> 0, phase |-> "none"]

Terminal == {"completed", "failed"}
Proc == Stopper \cup {"recv"}

Init ==
    /\ run = NoRun /\ ids = [g \in Gen |-> 0]
    /\ recv = [pc |-> "idle", gen |-> NoGen, next |-> 0]
    /\ stop = [p \in Proc |-> NotStopping]
    /\ ready = [g \in Gen |-> "none"]
    /\ proc = [w \in Worker |-> "none"]
    /\ joined = {} /\ linked = {} /\ lost = {} /\ forgotten = {} /\ due = 0
    /\ sending = [s \in Slot |-> <<>>]
    /\ down = [w \in Worker |-> <<>>] /\ up = [w \in Worker |-> <<>>]
    /\ phase = [w \in Worker |-> "none"]
    /\ relay = [w \in Worker |-> NoRelay]
    /\ ended = {}
    /\ engine = [w \in Worker |-> NotStarted]
    /\ upsets = MaxUpsets
-----------------------------------------------------------------------------
(***************************************************************************)
(* What the agent tells the coordinator.                                   *)
(***************************************************************************)
Tell(id, ph) == ended' = IF ph \in Terminal THEN ended \cup {id} ELSE ended

(***************************************************************************)
(* Something out of the ordinary happens: a command while the run goes on, *)
(* something that cannot be started, or that breaks.                       *)
(***************************************************************************)
Upset(kind) ==
    /\ kind \in Trouble /\ upsets > 0
    /\ upsets' = upsets - 1

(***************************************************************************)
(* OnStartRun begins by stopping the run in progress, at once.  The id may *)
(* be that of the previous start: a rebalance of the coordinator that      *)
(* finds nobody dispatched starts everybody again.                         *)
(***************************************************************************)
OnStartRun(g, id) ==
    /\ recv.pc = "idle" /\ g = recv.gen + 1
    /\ id = g \/ (g > 1 /\ id = ids[g - 1])
    /\ recv' = [pc |-> "superseding", gen |-> g, next |-> 0]
    /\ ids' = [ids EXCEPT ![g] = id]
    /\ stop' = [stop EXCEPT !["recv"].pc = "hard"]
    /\ UNCHANGED <<run, ready, due, sending, workerVars, reportVars, upsets>>

Adopt ==
    /\ recv.pc = "superseding" /\ stop["recv"].pc = "idle"
    /\ recv' = [recv EXCEPT !.pc = "spawning"]
    /\ run' = [gen |-> recv.gen, id |-> ids[recv.gen], quota |-> Quota, dispatched |-> {}]
    /\ phase' = [w \in Worker |-> "none"]
    /\ UNCHANGED <<ids, stop, ready, due, sending, workerVars, relay, ended, upsets>>

(***************************************************************************)
(* spawnWorkers, a process at a time, and dispatchWhenReady after the last *)
(* one.  A process that cannot be started makes the start fail.            *)
(***************************************************************************)
Spawn ==
    /\ recv.pc = "spawning"
    /\ LET g == recv.gen
           last == recv.next = WorkerCount - 1
       IN  /\ proc' = [proc EXCEPT ![WorkerOf(g, recv.next)] = "alive"]
           /\ recv' = IF last THEN [recv EXCEPT !.pc = "idle"] ELSE [recv EXCEPT !.next = @ + 1]
           /\ ready' = IF last THEN [ready EXCEPT ![g] = "waiting"] ELSE ready
    /\ UNCHANGED <<run, ids, stop, due, sending, joined, links, down, up, engine, reportVars,
                   upsets>>

SpawnFailure ==
    /\ recv.pc = "spawning" /\ Upset("spawn")
    /\ Tell(ids[recv.gen], "failed")
    /\ recv' = [recv EXCEPT !.pc = "idle"]
    /\ UNCHANGED <<run, ids, stop, ready, due, sending, workerVars, phase, relay>>

(***************************************************************************)
(* OnSetQuota of the run in progress.                                      *)
(***************************************************************************)
OnSetQuota(quota) ==
    /\ recv.pc = "idle" /\ run # NoRun
    /\ quota # run.quota /\ Upset("quota")
    /\ run' = [run EXCEPT !.quota = quota]
    /\ due' = due + 1
    /\ UNCHANGED <<ids, recv, stop, ready, sending, workerVars, reportVars>>

(***************************************************************************)
(* OnStopRun starts a graceful stopRun and does not look at the run id.    *)
(***************************************************************************)
OnStopRun(p) ==
    /\ recv.pc = "idle" /\ recv.gen # NoGen
    /\ stop[p].pc = "idle" /\ stop[p].gen = NoGen /\ Upset("stop")
    /\ stop' = [stop EXCEPT ![p].pc = "graceful"]
    /\ UNCHANGED <<run, ids, recv, ready, due, sending, workerVars, reportVars>>
-----------------------------------------------------------------------------
(***************************************************************************)
(* dispatchWhenReady: nothing if the run is no longer the agent's,         *)
(* rebalance once the registry is large enough or the wait has been too    *)
(* long, and a failure if by then nobody has joined.  It looks at the run  *)
(* before it waits and not after.                                          *)
(***************************************************************************)
Dispatched(g) ==
    /\ ready[g] = "waiting"
    /\ ready' = [ready EXCEPT ![g] = "done"]

DispatchStale(g) ==
    /\ Dispatched(g)
    /\ run = NoRun \/ run.id # ids[g]
    /\ UNCHANGED <<run, ids, recv, stop, due, sending, workerVars, reportVars, upsets>>

DispatchRebalance(g) ==
    /\ Dispatched(g)
    /\ joined # {}
    /\ due' = due + 1
    /\ UNCHANGED <<run, ids, recv, stop, sending, workerVars, reportVars, upsets>>

(***************************************************************************)
(* dispatchWhenReady that gives up and tells nobody.                       *)
(***************************************************************************)
DispatchNobodyQuiet(g) ==
    /\ Dispatched(g)
    /\ joined = {}
    /\ UNCHANGED <<run, ids, recv, stop, due, sending, workerVars, reportVars, upsets>>

DispatchNobody(g) ==
    /\ Dispatched(g)
    /\ joined = {}
    /\ Tell(ids[g], "failed")
    /\ UNCHANGED <<run, ids, recv, stop, due, sending, workerVars, phase, relay, upsets>>

(***************************************************************************)
(* rebalance divides the quota equally among the registered sessions, in   *)
(* the order of their ids, under a.mu; a worker not told to start yet is   *)
(* started with the id slice of its place in this order.  What it has for  *)
(* a session whose stream is gone gets nowhere, though it is marked.       *)
(***************************************************************************)
Place(w) == Cardinality({v \in joined : v < w})

Share(w) == Largest(run.quota, [v \in joined |-> 1])[w]

MessageTo(w) ==
    IF w \in run.dispatched
    THEN [kind |-> "quota", gen |-> run.gen, quota |-> Share(w), slice |-> 0]
    ELSE [kind |-> "start", gen |-> run.gen, quota |-> Share(w), slice |-> Place(w)]

RebalanceNothing ==
    /\ due > 0 /\ (run = NoRun \/ joined = {})
    /\ due' = due - 1
    /\ UNCHANGED <<run, ids, recv, stop, ready, sending, workerVars, reportVars, upsets>>

(***************************************************************************)
(* rebalance that does not remember whom it has started.                   *)
(***************************************************************************)
RebalanceForgetful(s) ==
    /\ due > 0 /\ run # NoRun /\ joined # {} /\ DOMAIN sending[s] = {}
    /\ due' = due - 1
    /\ sending' = [sending EXCEPT ![s] = [w \in linked |-> MessageTo(w)]]
    /\ UNCHANGED <<run, ids, recv, stop, ready, workerVars, reportVars, upsets>>

Rebalance(s) ==
    /\ due > 0 /\ run # NoRun /\ joined # {} /\ DOMAIN sending[s] = {}
    /\ due' = due - 1
    /\ sending' = [sending EXCEPT ![s] = [w \in linked |-> MessageTo(w)]]
    /\ run' = [run EXCEPT !.dispatched = @ \cup joined]
    /\ UNCHANGED <<ids, recv, stop, ready, workerVars, reportVars, upsets>>

(***************************************************************************)
(* One Send, in the same order, to a session whose worker may be dead.     *)
(***************************************************************************)
Deliver(msg, w) == IF proc[w] = "alive" THEN [down EXCEPT ![w] = Append(@, msg)] ELSE down

RebalanceSend(s) ==
    /\ DOMAIN sending[s] # {}
    /\ LET w == Min(DOMAIN sending[s])
       IN  /\ down' = Deliver(sending[s][w], w)
           /\ sending' = [sending EXCEPT ![s] = [v \in DOMAIN @ \ {w} |-> @[v]]]
    /\ UNCHANGED <<agentVars, proc, joined, links, up, engine, reportVars, upsets>>
-----------------------------------------------------------------------------
(***************************************************************************)
(* stopRun, under stopMu.  It returns at once if there is no run.  A       *)
(* graceful one waits until the workers have reported or its budget is     *)
(* used up, and any of them then takes the processes down.                 *)
(***************************************************************************)
StopMuFree == \A p \in Proc : stop[p].pc \notin {"awaiting", "clearing", "reaping"}

StopMessage == [kind |-> "stop", gen |-> run.gen, quota |-> 0, slice |-> 0]

StopNothing(p) ==
    /\ stop[p].pc \in {"hard", "graceful"} /\ StopMuFree
    /\ run = NoRun
    /\ stop' = [stop EXCEPT ![p].pc = "idle"]
    /\ UNCHANGED <<run, ids, recv, ready, due, sending, workerVars, reportVars, upsets>>

StopBroadcast(p) ==
    /\ stop[p].pc \in {"hard", "graceful"} /\ StopMuFree
    /\ run # NoRun
    /\ down' = [w \in Worker |-> IF w \in linked /\ proc[w] = "alive"
                                 THEN Append(down[w], StopMessage) ELSE down[w]]
    /\ stop' = [stop EXCEPT ![p].pc = IF @ = "graceful" THEN "awaiting" ELSE "clearing",
                            ![p].gen = run.gen]
    /\ UNCHANGED <<run, ids, recv, ready, due, sending, proc, joined, links, up, engine,
                   reportVars, upsets>>

StopAwaited(p) ==
    /\ stop[p].pc = "awaiting"
    /\ stop' = [stop EXCEPT ![p].pc = "clearing"]
    /\ UNCHANGED <<run, ids, recv, ready, due, sending, workerVars, reportVars, upsets>>

Procs == {w \in Worker : proc[w] \in {"alive", "exited"}}

(***************************************************************************)
(* stopRun that returns without taking the processes down.                 *)
(***************************************************************************)
StopClearOnly(p) ==
    /\ stop[p].pc = "clearing"
    /\ run' = IF run.gen = stop[p].gen THEN NoRun ELSE run
    /\ stop' = [stop EXCEPT ![p] = [NotStopping EXCEPT !.gen = stop[p].gen]]
    /\ UNCHANGED <<ids, recv, ready, due, sending, workerVars, reportVars, upsets>>

StopClear(p) ==
    /\ stop[p].pc = "clearing"
    /\ run' = IF run.gen = stop[p].gen THEN NoRun ELSE run
    /\ stop' = [stop EXCEPT ![p].pc = "reaping", ![p].victims = Procs]
    /\ UNCHANGED <<ids, recv, ready, due, sending, workerVars, reportVars, upsets>>

StopReaped(p) ==
    /\ stop[p].pc = "reaping"
    /\ \A w \in stop[p].victims : proc[w] # "alive"
    /\ stop' = [stop EXCEPT ![p].pc = "idle", ![p].victims = {}]
    /\ UNCHANGED <<run, ids, recv, ready, due, sending, workerVars, reportVars, upsets>>
-----------------------------------------------------------------------------
(***************************************************************************)
(* A worker process.  It joins, and joins again when it has lost its       *)
(* stream and handled what came before; the new session then replaces the  *)
(* old one if OnLeave has not removed that.  OnJoin asks for a rebalance   *)
(* if there is a run.                                                      *)
(***************************************************************************)
OnJoin(w) ==
    /\ proc[w] = "alive" /\ w \notin linked /\ down[w] = <<>>
    /\ joined' = joined \cup {w}
    /\ linked' = linked \cup {w}
    /\ due' = IF run = NoRun THEN due ELSE due + 1
    /\ UNCHANGED <<run, ids, recv, stop, ready, sending, proc, lost, forgotten, down, up, engine,
                   reportVars, upsets>>

(***************************************************************************)
(* The stream of a live worker breaks.  The commands that have not reached *)
(* the worker are lost, and so are those a rebalance has yet to send to    *)
(* this session.  Of the updates, those on the stream are lost; those that *)
(* Client.Run still has in its queue go out on the next stream.            *)
(***************************************************************************)
StreamLost(w) ==
    /\ proc[w] = "alive" /\ w \in linked /\ Upset("stream")
    /\ linked' = linked \ {w}
    /\ lost' = lost \cup {w}
    /\ \E k \in 0 .. Len(down[w]) : down' = [down EXCEPT ![w] = SubSeq(@, 1, k)]
    /\ \E k \in 0 .. Len(up[w]) : up' = [up EXCEPT ![w] = SubSeq(@, k + 1, Len(@))]
    /\ sending' = [s \in Slot |-> [v \in DOMAIN sending[s] \ {w} |-> sending[s][v]]]
    /\ UNCHANGED <<agentVars, proc, joined, forgotten, engine, reportVars>>

(***************************************************************************)
(* A queue is full: the newest command for w, or the newest update from    *)
(* it, was not accepted.  The caller of Send logs it and goes on.          *)
(***************************************************************************)
QueueFull(w) ==
    /\ proc[w] = "alive" /\ Upset("queue")
    /\ lost' = lost \cup {w}
    /\ \/ /\ down[w] # <<>>
          /\ down' = [down EXCEPT ![w] = SubSeq(@, 1, Len(@) - 1)]
          /\ UNCHANGED up
       \/ /\ up[w] # <<>>
          /\ up' = [up EXCEPT ![w] = SubSeq(@, 1, Len(@) - 1)]
          /\ UNCHANGED down
    /\ UNCHANGED <<agentVars, sending, proc, joined, linked, forgotten, engine, reportVars>>

(***************************************************************************)
(* The process ends: interrupted, and killed if that takes too long, by    *)
(* terminateWorkers; or on its own.  Updates that have not been sent yet   *)
(* are lost.                                                               *)
(***************************************************************************)
Die(w) ==
    /\ proc[w] = "alive"
    /\ proc' = [proc EXCEPT ![w] = "exited"]
    /\ engine' = [engine EXCEPT ![w] = NotStarted]
    /\ down' = [down EXCEPT ![w] = <<>>]
    /\ \E k \in 0 .. Len(up[w]) :
          /\ w \notin linked => k = 0
          /\ up' = [up EXCEPT ![w] = SubSeq(@, 1, k)]
    /\ UNCHANGED <<agentVars, sending, joined, links, reportVars>>

Exit(w) ==
    /\ \E p \in Proc : stop[p].pc = "reaping" /\ w \in stop[p].victims
    /\ Die(w)
    /\ UNCHANGED upsets

Crash(w) ==
    /\ Upset("crash")
    /\ Die(w)

(***************************************************************************)
(* superviseWorker: the process is forgotten, and the others take over its *)
(* share unless the run it was spawned for is over.                        *)
(***************************************************************************)
SuperviseWorker(w) ==
    /\ proc[w] = "exited"
    /\ proc' = [proc EXCEPT ![w] = "gone"]
    /\ due' = IF run = NoRun \/ run.id # ids[GenOf(w)] THEN due ELSE due + 1
    /\ UNCHANGED <<run, ids, recv, stop, ready, sending, joined, links, down, up, engine,
                   reportVars, upsets>>

(***************************************************************************)
(* OnLeave, once the receive loop has read what there was, of a process    *)
(* that is gone or of a stream that broke.  The session of a live worker   *)
(* that is back already has been displaced: Remove then does nothing.      *)
(***************************************************************************)
OnLeave(w) ==
    /\ w \in joined /\ relay[w] = NoRelay
    /\ w \in linked => proc[w] \in {"exited", "gone"} /\ up[w] = <<>>
    /\ joined' = joined \ {w}
    /\ linked' = linked \ {w}
    /\ forgotten' = IF proc[w] = "alive" THEN forgotten \cup {w} ELSE forgotten
    /\ run' = [run EXCEPT !.dispatched = @ \ {w}]
    /\ phase' = [phase EXCEPT ![w] = "none"]
    /\ UNCHANGED <<ids, recv, stop, ready, due, sending, proc, lost, down, up, engine, relay,
                   ended, upsets>>
-----------------------------------------------------------------------------
(***************************************************************************)
(* foldPhases over the workers that have reported: one failure is the      *)
(* agent's failure, and it has completed when all of them have.            *)
(***************************************************************************)
FoldPhases(phases) ==
    LET reported == {w \in Worker : phases[w] # "none"}
    IN  IF \E w \in reported : phases[w] = "failed" THEN "failed"
        ELSE IF \A w \in reported : phases[w] = "completed" THEN "completed" ELSE "running"

(***************************************************************************)
(* OnRunStatus folds the phases under phaseMu and then tells the           *)
(* coordinator, under the run id of the update.                            *)
(***************************************************************************)
OnRunStatus(w) ==
    /\ w \in linked /\ up[w] # <<>> /\ relay[w] = NoRelay
    /\ LET update == Head(up[w])
       IN  /\ phase' = [phase EXCEPT ![w] = update.phase]
           /\ relay' = [relay EXCEPT ![w] = [id |-> ids[update.gen], phase |-> FoldPhases(phase')]]
    /\ up' = [up EXCEPT ![w] = Tail(@)]
    /\ UNCHANGED <<agentVars, sending, proc, joined, links, down, engine, ended, upsets>>

RelayStatus(w) ==
    /\ relay[w] # NoRelay
    /\ Tell(relay[w].id, relay[w].phase)
    /\ relay' = [relay EXCEPT ![w] = NoRelay]
    /\ UNCHANGED <<agentVars, sending, workerVars, phase, upsets>>
-----------------------------------------------------------------------------
(***************************************************************************)
(* The worker's handlers.  A start first waits for the end of the run the  *)
(* worker has, then reports that the engine is built, or that it cannot    *)
(* be; a quota or a stop is for the run it names, or ignored.              *)
(***************************************************************************)
Executing(w) == engine[w].st \in {"running", "stopping"}

ReportFrom(w, g, ph) == up' = [up EXCEPT ![w] = Append(@, [gen |-> g, phase |-> ph])]

Handle(w, kind) ==
    /\ proc[w] = "alive" /\ down[w] # <<>> /\ Head(down[w]).kind = kind
    /\ down' = [down EXCEPT ![w] = Tail(@)]

WorkerStart(w) ==
    /\ Handle(w, "start") /\ ~Executing(w)
    /\ LET msg == Head(down[w])
       IN  engine' = [engine EXCEPT ![w] = [gen |-> msg.gen, quota |-> msg.quota,
                                            slice |-> msg.slice, st |-> "running"]]
    /\ ReportFrom(w, Head(down[w]).gen, "running")
    /\ UNCHANGED <<agentVars, sending, proc, joined, links, reportVars, upsets>>

WorkerCannotStart(w) ==
    /\ Handle(w, "start") /\ ~Executing(w) /\ Upset("build")
    /\ ReportFrom(w, Head(down[w]).gen, "failed")
    /\ UNCHANGED <<agentVars, sending, proc, joined, links, engine, reportVars>>

SameRun(w) == Executing(w) /\ ids[Head(down[w]).gen] = ids[engine[w].gen]

WorkerQuota(w) ==
    /\ Handle(w, "quota")
    /\ engine' = IF SameRun(w) THEN [engine EXCEPT ![w].quota = Head(down[w]).quota] ELSE engine
    /\ UNCHANGED <<agentVars, sending, proc, joined, links, up, reportVars, upsets>>

WorkerStop(w) ==
    /\ Handle(w, "stop")
    /\ engine' = IF SameRun(w) THEN [engine EXCEPT ![w].st = "stopping"] ELSE engine
    /\ UNCHANGED <<agentVars, sending, proc, joined, links, up, reportVars, upsets>>

(***************************************************************************)
(* execute: the engine returns, and the worker reports how.                *)
(***************************************************************************)
Execute(w, ph) ==
    /\ Executing(w)
    /\ engine' = [engine EXCEPT ![w].st = "done"]
    /\ IF ph = "failed" THEN Upset("engine") ELSE UNCHANGED upsets
    /\ ReportFrom(w, engine[w].gen, ph)
    /\ UNCHANGED <<agentVars, sending, proc, joined, links, down, reportVars>>
-----------------------------------------------------------------------------
StopRun(p) ==
    \/ StopNothing(p) \/ StopBroadcast(p) \/ StopAwaited(p) \/ StopClear(p) \/ StopReaped(p)

Command == \E g \in Gen : \E id \in 1 .. g : OnStartRun(g, id)

Agent ==
    \/ Adopt \/ Spawn \/ SpawnFailure
    \/ \E g \in Gen : DispatchStale(g) \/ DispatchRebalance(g) \/ DispatchNobody(g)
    \/ RebalanceNothing
    \/ \E s \in Slot : Rebalance(s) \/ RebalanceSend(s)
    \/ \E p \in Proc : StopRun(p)

Session(w) == SuperviseWorker(w) \/ OnLeave(w) \/ OnRunStatus(w) \/ RelayStatus(w)

WorkerHandler(w) ==
    WorkerStart(w) \/ WorkerCannotStart(w) \/ WorkerQuota(w) \/ WorkerStop(w)

WorkerStep(w) ==
    \/ WorkerHandler(w)
    \/ \E ph \in Terminal : Execute(w, ph)

Next ==
    \/ Command
    \/ \E quota \in Requote : OnSetQuota(quota)
    \/ \E p \in Stopper : OnStopRun(p)
    \/ Agent
    \/ \E w \in Worker :
          \/ OnJoin(w) \/ StreamLost(w) \/ QueueFull(w)
          \/ Exit(w) \/ Crash(w) \/ Session(w) \/ WorkerStep(w)

Spec == Init /\ [][Next]_vars

(***************************************************************************)
(* Goroutines and processes keep going: commands are handled, engines      *)
(* return because plans end, and an interrupted process exits or is        *)
(* killed.  Nothing makes a process join.  Fairness is asked of the host  *)
(* as a whole, which is less than the scheduler gives every goroutine.     *)
(***************************************************************************)
Progress ==
    \/ Agent
    \/ \E w \in Worker : Exit(w) \/ Session(w) \/ WorkerHandler(w) \/ Execute(w, "completed")

FairSpec == Spec /\ WF_vars(Progress)
-----------------------------------------------------------------------------
(***************************************************************************)
(* Every variable has its type.                                            *)
(***************************************************************************)
Message == [kind : {"start", "quota", "stop"}, gen : Gen, quota : Nat, slice : Nat]
Update == [gen : Gen, phase : Terminal \cup {"running"}]
AgentRun == [gen : Gen \cup {NoGen}, id : Nat, quota : Nat, dispatched : SUBSET Worker]
Receiver == [pc : {"idle", "superseding", "spawning"}, gen : Gen \cup {NoGen}, next : Nat]
Stopping == [pc : {"idle", "hard", "graceful", "awaiting", "clearing", "reaping"},
             gen : Gen \cup {NoGen}, victims : SUBSET Worker]
Status == [id : Nat, phase : Terminal \cup {"none", "running"}]
WorkerRun == [gen : Gen \cup {NoGen}, quota : Nat, slice : Nat,
              st : {"none", "running", "stopping", "done"}]

TypeOK ==
    /\ run \in AgentRun /\ ids \in [Gen -> Nat]
    /\ recv \in Receiver /\ stop \in [Proc -> Stopping]
    /\ ready \in [Gen -> {"none", "waiting", "done"}]
    /\ proc \in [Worker -> {"none", "alive", "exited", "gone"}]
    /\ joined \subseteq Worker /\ linked \subseteq joined
    /\ lost \subseteq Worker /\ forgotten \subseteq Worker /\ due \in Nat /\ upsets \in Nat
    /\ DOMAIN sending = Slot
    /\ \A s \in Slot : \E to \in SUBSET Worker : sending[s] \in [to -> Message]
    /\ down \in [Worker -> Seq(Message)] /\ up \in [Worker -> Seq(Update)]
    /\ phase \in [Worker -> Terminal \cup {"none", "running"}]
    /\ relay \in [Worker -> Status] /\ ended \subseteq Nat
    /\ engine \in [Worker -> WorkerRun]

(***************************************************************************)
(* A rebalance never restarts a virtual user that is already doing useful  *)
(* work: of all the rebalances that joins, quotas and deaths bring about,  *)
(* one at most starts a worker on a run, also if the worker loses its      *)
(* stream and comes back in a session that displaces the old one.  A live  *)
(* worker whose session OnLeave has removed is excepted: the mark went     *)
(* with the session.                                                       *)
(***************************************************************************)
StartsOnce(w) ==
    \A i \in 1 .. Len(down[w]) : down[w][i].kind = "start" =>
        /\ down[w][i].gen # engine[w].gen
        /\ \A j \in 1 .. i - 1 : down[w][j].kind = "start" => down[w][j].gen # down[w][i].gen

StartedOnce == \A w \in Worker \ forgotten : StartsOnce(w)

(***************************************************************************)
(* The same without the exception, as the comment of rebalance puts it.    *)
(* The code does not have it: OnLeave of the broken stream comes first,    *)
(* the worker joins again, and its engine is stopped and built anew.       *)
(***************************************************************************)
NeverRestarted == \A w \in Worker : StartsOnce(w)

(***************************************************************************)
(* The host executes one run at a time: when the workers of a new start    *)
(* begin, nobody is left executing the previous one, whether that was      *)
(* superseded, stopped by a goroutine still on its way, or both.           *)
(***************************************************************************)
HostRunsOneRun ==
    \A v, w \in Worker : Executing(v) /\ Executing(w) => engine[v].gen = engine[w].gen

(***************************************************************************)
(* The coordinator decides a run is over when every agent has reported a   *)
(* terminal phase, so a run that is not stopped and loses no worker and no *)
(* message is reported as ended, also if some workers never join, or none  *)
(* does.                                                                   *)
(***************************************************************************)
StartedRunsReported ==
    \A g \in Gen :
        run.gen = g ~> \/ run.gen # g
                       \/ ids[g] \in ended
                       \/ \E w \in Worker : GenOf(w) = g /\ (w \in lost \/ proc[w] \in {"exited", "gone"})

(***************************************************************************)
(* A stop ends the run it took, for good: once stopRun has returned nobody *)
(* executes that run, and nobody ever does again, also if the stop was     *)
(* meant for an earlier run and took this one while its workers were still *)
(* being spawned, and whatever is left of it joins later.                  *)
(***************************************************************************)
StopEndsRun ==
    \A p \in Proc, g \in Gen :
        stop[p].pc = "idle" /\ stop[p].gen = g =>
            run.gen # g /\ \A w \in Worker : ~(Executing(w) /\ engine[w].gen = g)

(***************************************************************************)
(* More than that, as the comment of stopRun puts it: the workers that     *)
(* were serving the run are stopped.  The code does not have it: those     *)
(* spawned after terminateWorkers took its list survive, and no later stop *)
(* finds a run to take them down for.                                      *)
(***************************************************************************)
StopEndsWorkers ==
    \A p \in Proc, g \in Gen :
        stop[p].pc = "idle" /\ stop[p].gen = g =>
            \A w \in Worker : GenOf(w) = g => proc[w] # "alive"

(***************************************************************************)
(* When a worker process dies the run continues at the requested VU count: *)
(* once everything has settled and the workers that are left all execute   *)
(* the run, their quotas add up to the agent's.                            *)
(***************************************************************************)
Settled ==
    /\ due = 0 /\ \A s \in Slot : DOMAIN sending[s] = {}
    /\ \A g \in Gen : ready[g] # "waiting"
    /\ recv.pc = "idle" /\ \A p \in Proc : stop[p].pc = "idle"
    /\ \A w \in Worker : down[w] = <<>> /\ proc[w] # "exited" /\ (w \in joined <=> proc[w] = "alive")

RequestedVUs ==
    Settled /\ run # NoRun /\ joined # {} /\ (\A w \in joined : Executing(w))
    => MapThenSumSet(LAMBDA w : engine[w].quota, joined) = run.quota
=============================================================================
