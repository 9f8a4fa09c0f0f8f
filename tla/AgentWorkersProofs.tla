------------------------- MODULE AgentWorkersProofs -------------------------
(***************************************************************************)
(* What an agent and its worker processes promise, proved for every number *)
(* of workers, starts, stops, rebalances and failures; what the run's load *)
(* split over agents and then over workers comes to; and what the registry *)
(* of the control sessions that connect them promises: it never keeps a    *)
(* ghost and never evicts a live session on behalf of a dead one, and, if  *)
(* joins are prompt, nobody who is gone stays on the list of agents.       *)
(***************************************************************************)
EXTENDS AgentWorkers, LoadSplit, ControlSessions, ApportionProofs, SequenceTheorems

USE DEF NoGen

LEMMA Numbers ==
    /\ WorkerCount \in Nat \ {0} /\ MaxStarts \in Nat /\ Quota \in Nat /\ MaxUpsets \in Nat
    /\ Requote \subseteq Nat /\ "recv" \in Proc /\ Stopper \subseteq Proc /\ "recv" \notin Stopper
    /\ Gen \subseteq Nat /\ NoGen \notin Gen /\ Worker \subseteq Nat /\ IsFiniteSet(Worker)
<1>1. WorkerCount * MaxStarts - 1 \in Int
  BY WorkersAssumption DEF WorkersAssumption
<1>2. IsFiniteSet(Worker)
  BY <1>1, FS_Interval DEF Worker
<1>. QED BY <1>1, <1>2, WorkersAssumption DEF WorkersAssumption, Gen, Worker, Proc

LEMMA MinIn ==
    ASSUME NEW S, S \subseteq Nat, S # {}
    PROVE  Min(S) \in S
BY LeastNat DEF Min

-----------------------------------------------------------------------------
(***************************************************************************)
(* Types.  The agent's run, a start in progress and a worker that executes *)
(* each have a generation; without that the messages and reports that      *)
(* carry it would be ill typed.                                            *)
(***************************************************************************)
Known ==
    /\ run = NoRun \/ run.gen \in Gen
    /\ recv.pc # "idle" => recv.gen \in Gen /\ recv.next \in 0 .. WorkerCount - 1
    /\ \A w \in Worker : Executing(w) => engine[w].gen \in Gen

LEMMA ShareType ==
    ASSUME joined \subseteq Worker, run.quota \in Nat, NEW w \in joined
    PROVE  Share(w) \in Nat
<1>. DEFINE ones == [v \in joined |-> 1]
<1>0. IsFiniteSet(Worker) /\ Worker \subseteq Int
  BY Numbers
<1>1. IsFiniteSet(joined) /\ joined \subseteq Int
  BY <1>0, FS_Subset
<1>2. Claimants(ones) # {}
  BY DEF Claimants
<1>3. DOMAIN ones = joined /\ ones \in [joined -> Int]
  OBVIOUS
<1>. HIDE DEF ones
<1>4. Divisible(run.quota, ones)
  BY <1>1, <1>2, <1>3 DEF Divisible
<1>5. Largest(run.quota, ones) \in [joined -> Nat]
  BY <1>3, <1>4, LargestIsProportional
<1>. QED BY <1>5 DEF Share, ones

LEMMA MessageType ==
    ASSUME joined \subseteq Worker, run.quota \in Nat, run.gen \in Gen, NEW w \in joined
    PROVE  MessageTo(w) \in Message /\ MessageTo(w).gen = run.gen
<1>1. Share(w) \in Nat
  BY ShareType
<1>2. Place(w) \in Nat
  <2>1. {v \in joined : v < w} \subseteq Worker
    OBVIOUS
  <2>2. IsFiniteSet({v \in joined : v < w})
    BY <2>1, Numbers, FS_Subset
  <2>. QED BY <2>2, FS_CardinalityType DEF Place
<1>. QED BY <1>1, <1>2 DEF MessageTo, Message

LEMMA WorkerOfType ==
    ASSUME NEW g \in Gen, NEW i \in 0 .. WorkerCount - 1
    PROVE  WorkerOf(g, i) \in Worker
<1>1. MaxStarts \in Nat /\ WorkerCount \in Nat /\ g \in 1 .. MaxStarts
  BY Numbers DEF Gen
<1>2. i * MaxStarts \in Nat /\ (WorkerCount - 1) * MaxStarts \in Int
  BY <1>1
<1>3. i * MaxStarts <= (WorkerCount - 1) * MaxStarts
  <2>1. i <= WorkerCount - 1 /\ i \in Int /\ WorkerCount - 1 \in Int
    BY <1>1
  <2>2. \A x, y \in Int, m \in Nat : x <= y => x * m <= y * m
    OBVIOUS
  <2>. QED BY <1>1, <2>1, <2>2
<1>4. (WorkerCount - 1) * MaxStarts = WorkerCount * MaxStarts - MaxStarts
  BY <1>1
<1>5. WorkerCount * MaxStarts \in Int
  BY <1>1
<1>. QED BY <1>1, <1>2, <1>3, <1>4, <1>5 DEF WorkerOf, Worker

LEMMA InitTyped == Init => TypeOK /\ Known
<1>. SUFFICES ASSUME Init PROVE TypeOK /\ Known
  OBVIOUS
<1>1. NoRun \in AgentRun /\ NotStopping \in Stopping /\ NoRelay \in Status /\ NotStarted \in WorkerRun
  BY DEF NoRun, AgentRun, NotStopping, Stopping, NoRelay, Status, NotStarted, WorkerRun
<1>2. recv \in Receiver
  BY DEF Init, Receiver
<1>3. /\ DOMAIN sending = Slot
      /\ \A s \in Slot : \E to \in SUBSET Worker : sending[s] \in [to -> Message]
  <2>1. DOMAIN sending = Slot /\ \A s \in Slot : sending[s] = <<>>
    BY DEF Init
  <2>2. <<>> \in [{} -> Message]
    OBVIOUS
  <2>. QED BY <2>1, <2>2
<1>4. TypeOK
  <2>1. /\ run \in AgentRun /\ ids \in [Gen -> Nat] /\ stop \in [Proc -> Stopping]
        /\ ready \in [Gen -> {"none", "waiting", "done"}]
    BY <1>1 DEF Init
  <2>2. /\ proc \in [Worker -> {"none", "alive", "exited", "gone"}]
        /\ joined \subseteq Worker /\ due \in Nat /\ upsets \in Nat /\ ended \subseteq Nat
        /\ linked \subseteq joined /\ lost \subseteq Worker /\ forgotten \subseteq Worker
        /\ phase \in [Worker -> Terminal \cup {"none", "running"}]
    BY Numbers DEF Init
  <2>3. down \in [Worker -> Seq(Message)] /\ up \in [Worker -> Seq(Update)]
    BY DEF Init
  <2>4. relay \in [Worker -> Status] /\ engine \in [Worker -> WorkerRun]
    BY <1>1 DEF Init
  <2>. QED BY <1>2, <1>3, <2>1, <2>2, <2>3, <2>4 DEF TypeOK
<1>. QED BY <1>4 DEF Init, Known, Executing, NotStarted

LEMMA TellTyped ==
    ASSUME TypeOK, NEW id \in Nat, NEW ph, Tell(id, ph)
    PROVE  ended' \subseteq Nat
BY DEF TypeOK, Tell

LEMMA UpsetTyped ==
    ASSUME TypeOK, NEW kind, Upset(kind)
    PROVE  upsets' \in Nat
BY DEF TypeOK, Upset

LEMMA SpawnNext ==
    ASSUME recv \in Receiver, recv.next \in 0 .. WorkerCount - 1, Spawn
    PROVE  /\ recv' \in Receiver /\ recv'.gen = recv.gen
           /\ recv'.next \in 0 .. WorkerCount - 1
           /\ recv'.pc \in {"idle", "spawning"}
           /\ recv'.pc = "spawning" => recv'.next = recv.next + 1
<1>0. WorkerCount \in Nat \ {0}
  BY Numbers
<1>1. CASE recv.next = WorkerCount - 1
  <2>1. recv' = [recv EXCEPT !.pc = "idle"]
    BY <1>1 DEF Spawn
  <2>. QED BY <2>1 DEF Receiver
<1>2. CASE recv.next # WorkerCount - 1
  <2>1. recv' = [recv EXCEPT !.next = recv.next + 1] /\ recv.pc = "spawning"
    BY <1>2 DEF Spawn
  <2>2. recv.next + 1 \in 0 .. WorkerCount - 1 /\ recv.next + 1 \in Nat
    BY <1>0, <1>2
  <2>. QED BY <2>1, <2>2 DEF Receiver
<1>. QED BY <1>1, <1>2

(***************************************************************************)
(* The receive loop, the dispatches and the stops.                         *)
(***************************************************************************)
LEMMA CommandTyped ==
    ASSUME TypeOK, Known,
           \/ Command
           \/ \E quota \in Requote : OnSetQuota(quota)
           \/ \E p \in Stopper : OnStopRun(p)
           \/ Adopt \/ Spawn \/ SpawnFailure
    PROVE  TypeOK' /\ Known'
<1>. USE DEF TypeOK, Known, workerVars, links, reportVars, Executing
<1>n. /\ "recv" \in Proc /\ Stopper \subseteq Proc /\ Quota \in Nat /\ Requote \subseteq Nat
      /\ Gen \subseteq Nat /\ NoGen \notin Gen /\ 0 \in 0 .. WorkerCount - 1
  BY Numbers
<1>1. CASE Command
  <2>0. PICK g \in Gen : \E id \in 1 .. g : OnStartRun(g, id)
    BY <1>1 DEF Command
  <2>1. PICK id \in 1 .. g : OnStartRun(g, id)
    BY <2>0
  <2>2. ids' \in [Gen -> Nat]
    BY <1>n, <2>1 DEF OnStartRun
  <2>3. recv' \in Receiver /\ recv'.gen = g /\ recv'.next = 0
    BY <2>1 DEF OnStartRun, Receiver
  <2>4. stop' \in [Proc -> Stopping]
    <3>1. stop' = [stop EXCEPT !["recv"] = [stop["recv"] EXCEPT !.pc = "hard"]]
      BY <2>1 DEF OnStartRun
    <3>2. [stop["recv"] EXCEPT !.pc = "hard"] \in Stopping
      <4>1. stop["recv"] \in Stopping
        BY <1>n
      <4>. HIDE DEF TypeOK, Known
      <4>. QED BY <4>1 DEF Stopping
    <3>. QED BY <3>1, <3>2
  <2>5. UNCHANGED <<run, ready, due, sending, workerVars, reportVars, upsets>>
    BY <2>1 DEF OnStartRun
  <2>. QED BY <1>n, <2>2, <2>3, <2>4, <2>5
<1>2. ASSUME NEW quota \in Requote, OnSetQuota(quota) PROVE TypeOK' /\ Known'
  <2>1. run' \in AgentRun /\ run'.gen = run.gen /\ run.gen \in Gen
    BY <1>2, <1>n DEF OnSetQuota, AgentRun
  <2>2. due' \in Nat /\ upsets' \in Nat
    BY <1>2, UpsetTyped DEF OnSetQuota
  <2>3. UNCHANGED <<ids, recv, stop, ready, sending, workerVars, reportVars>>
    BY <1>2 DEF OnSetQuota
  <2>. QED BY <2>1, <2>2, <2>3
<1>3. ASSUME NEW p \in Stopper, OnStopRun(p) PROVE TypeOK' /\ Known'
  <2>1. stop' \in [Proc -> Stopping]
    <3>1. stop' = [stop EXCEPT ![p] = [stop[p] EXCEPT !.pc = "graceful"]] /\ p \in Proc
      BY <1>3, <1>n DEF OnStopRun
    <3>2. [stop[p] EXCEPT !.pc = "graceful"] \in Stopping
      <4>1. stop[p] \in Stopping
        BY <3>1
      <4>. HIDE DEF TypeOK, Known
      <4>. QED BY <4>1 DEF Stopping
    <3>. QED BY <3>1, <3>2
  <2>2. upsets' \in Nat /\ UNCHANGED <<run, ids, recv, ready, due, sending, workerVars, reportVars>>
    BY <1>3, UpsetTyped DEF OnStopRun
  <2>. QED BY <2>1, <2>2
<1>4. CASE Adopt
  <2>1. recv.gen \in Gen /\ recv.next \in 0 .. WorkerCount - 1
    BY <1>4 DEF Adopt
  <2>2. recv' \in Receiver /\ recv'.gen = recv.gen /\ recv'.next = recv.next
    BY <1>4 DEF Adopt, Receiver
  <2>3. run' \in AgentRun /\ run'.gen \in Gen
    BY <1>4, <1>n, <2>1 DEF Adopt, AgentRun
  <2>4. phase' \in [Worker -> Terminal \cup {"none", "running"}]
    BY <1>4 DEF Adopt
  <2>5. UNCHANGED <<ids, stop, ready, due, sending, workerVars, relay, ended, upsets>>
    BY <1>4 DEF Adopt
  <2>. QED BY <2>1, <2>2, <2>3, <2>4, <2>5
<1>5. CASE Spawn
  <2>1. recv.gen \in Gen /\ recv.next \in 0 .. WorkerCount - 1
    BY <1>5 DEF Spawn
  <2>2. proc' \in [Worker -> {"none", "alive", "exited", "gone"}]
    BY <1>5, <2>1, WorkerOfType DEF Spawn
  <2>3. recv' \in Receiver /\ recv'.gen = recv.gen /\ recv'.next \in 0 .. WorkerCount - 1
    BY <1>5, <2>1, SpawnNext
  <2>4. ready' \in [Gen -> {"none", "waiting", "done"}]
    BY <1>5, <2>1 DEF Spawn
  <2>5. UNCHANGED <<run, ids, stop, due, sending, joined, links, down, up, engine, reportVars, upsets>>
    BY <1>5 DEF Spawn
  <2>. QED BY <2>1, <2>2, <2>3, <2>4, <2>5
<1>6. CASE SpawnFailure
  <2>1. recv.gen \in Gen
    BY <1>6 DEF SpawnFailure
  <2>2. ended' \subseteq Nat /\ upsets' \in Nat
    BY <1>6, <2>1, TellTyped, UpsetTyped DEF SpawnFailure
  <2>3. /\ recv' \in Receiver /\ recv'.pc = "idle"
        /\ UNCHANGED <<run, ids, stop, ready, due, sending, workerVars, phase, relay>>
    BY <1>6 DEF SpawnFailure, Receiver
  <2>. QED BY <2>2, <2>3
<1>. QED BY <1>1, <1>2, <1>3, <1>4, <1>5, <1>6

(***************************************************************************)
(* A rebalance sends what it has computed, one worker at a time.           *)
(***************************************************************************)
LEMMA BatchTyped ==
    ASSUME TypeOK, NEW s \in Slot
    PROVE  /\ DOMAIN sending[s] \subseteq Worker
           /\ \A w \in DOMAIN sending[s] : sending[s][w] \in Message
BY DEF TypeOK

LEMMA RebalanceTyped ==
    ASSUME TypeOK, Known, NEW s \in Slot, Rebalance(s)
    PROVE  /\ sending' = [sending EXCEPT ![s] = [w \in linked |-> MessageTo(w)]]
           /\ \A w \in joined : MessageTo(w) \in Message /\ MessageTo(w).gen = run.gen
           /\ run.gen \in Gen /\ run' \in AgentRun
           /\ run'.gen = run.gen /\ run'.dispatched = run.dispatched \cup joined
<1>1. run.gen \in Gen /\ run \in AgentRun
  BY DEF Rebalance, TypeOK, Known
<1>2. run.quota \in Nat
  BY <1>1 DEF AgentRun
<1>3. joined \subseteq Worker
  BY DEF TypeOK
<1>4. \A w \in joined : MessageTo(w) \in Message /\ MessageTo(w).gen = run.gen
  BY <1>1, <1>2, <1>3, MessageType
<1>5. run' = [run EXCEPT !.dispatched = run.dispatched \cup joined]
  BY DEF Rebalance
<1>6. run' \in AgentRun /\ run'.gen = run.gen /\ run'.dispatched = run.dispatched \cup joined
  BY <1>1, <1>3, <1>5 DEF AgentRun
<1>. QED BY <1>1, <1>4, <1>6 DEF Rebalance

LEMMA RebalanceSendTyped ==
    ASSUME TypeOK, NEW s \in Slot, RebalanceSend(s)
    PROVE  \E w \in DOMAIN sending[s] :
             /\ w \in Worker /\ sending[s][w] \in Message
             /\ down' = IF proc[w] = "alive" THEN [down EXCEPT ![w] = Append(down[w], sending[s][w])]
                        ELSE down
             /\ sending' = [sending EXCEPT ![s] =
                              [v \in DOMAIN sending[s] \ {w} |-> sending[s][v]]]
<1>. DEFINE w == Min(DOMAIN sending[s])
<1>1. DOMAIN sending[s] # {} /\ DOMAIN sending[s] \subseteq Worker /\ Worker \subseteq Nat
  BY BatchTyped, Numbers DEF RebalanceSend
<1>2. w \in DOMAIN sending[s]
  BY <1>1, MinIn
<1>3. /\ down' = IF proc[w] = "alive" THEN [down EXCEPT ![w] = Append(down[w], sending[s][w])]
                 ELSE down
      /\ sending' = [sending EXCEPT ![s] = [v \in DOMAIN sending[s] \ {w} |-> sending[s][v]]]
  BY Zenon DEF RebalanceSend, Deliver
<1>. HIDE DEF w
<1>. QED BY <1>1, <1>2, <1>3, BatchTyped

LEMMA DispatchTyped ==
    ASSUME TypeOK, Known,
           \/ \E g \in Gen : DispatchStale(g) \/ DispatchRebalance(g) \/ DispatchNobody(g)
           \/ RebalanceNothing
           \/ \E s \in Slot : Rebalance(s) \/ RebalanceSend(s)
    PROVE  TypeOK' /\ Known'
<1>. USE DEF Known, agentVars, workerVars, links, reportVars, Executing
<1>1. ASSUME NEW g \in Gen, DispatchStale(g) \/ DispatchRebalance(g) \/ DispatchNobody(g)
      PROVE  TypeOK' /\ Known'
  <2>1. ready' \in [Gen -> {"none", "waiting", "done"}]
    BY <1>1 DEF TypeOK, DispatchStale, DispatchRebalance, DispatchNobody, Dispatched
  <2>2. due' \in Nat
    BY <1>1 DEF TypeOK, DispatchStale, DispatchRebalance, DispatchNobody
  <2>3. ended' \subseteq Nat
    BY <1>1, TellTyped DEF TypeOK, DispatchStale, DispatchRebalance, DispatchNobody
  <2>4. UNCHANGED <<run, ids, recv, stop, sending, workerVars, phase, relay, upsets>>
    BY <1>1 DEF DispatchStale, DispatchRebalance, DispatchNobody
  <2>. QED BY <2>1, <2>2, <2>3, <2>4 DEF TypeOK
<1>2. CASE RebalanceNothing
  <2>1. /\ due' \in Nat
        /\ UNCHANGED <<run, ids, recv, stop, ready, sending, workerVars, reportVars, upsets>>
    BY <1>2 DEF RebalanceNothing, TypeOK
  <2>. QED BY <2>1 DEF TypeOK
<1>3. ASSUME NEW s \in Slot, Rebalance(s) PROVE TypeOK' /\ Known'
  <2>1. /\ run' \in AgentRun /\ run'.gen \in Gen
        /\ sending' = [sending EXCEPT ![s] = [w \in linked |-> MessageTo(w)]]
        /\ \A w \in joined : MessageTo(w) \in Message
    BY <1>3, RebalanceTyped
  <2>2. linked \in SUBSET Worker /\ [w \in linked |-> MessageTo(w)] \in [linked -> Message]
    BY <2>1 DEF TypeOK
  <2>3. /\ DOMAIN sending' = Slot
        /\ \A t \in Slot : \E to \in SUBSET Worker : sending'[t] \in [to -> Message]
    BY <2>1, <2>2 DEF TypeOK
  <2>4. due' \in Nat /\ UNCHANGED <<ids, recv, stop, ready, workerVars, reportVars, upsets>>
    BY <1>3 DEF Rebalance, TypeOK
  <2>. QED BY <2>1, <2>3, <2>4 DEF TypeOK
<1>4. ASSUME NEW s \in Slot, RebalanceSend(s) PROVE TypeOK' /\ Known'
  <2>1. PICK w \in DOMAIN sending[s] :
             /\ w \in Worker /\ sending[s][w] \in Message
             /\ down' = IF proc[w] = "alive" THEN [down EXCEPT ![w] = Append(down[w], sending[s][w])]
                        ELSE down
             /\ sending' = [sending EXCEPT ![s] =
                              [v \in DOMAIN sending[s] \ {w} |-> sending[s][v]]]
    BY <1>4, RebalanceSendTyped
  <2>2. down' \in [Worker -> Seq(Message)]
    <3>1. Append(down[w], sending[s][w]) \in Seq(Message)
      BY <2>1, AppendProperties DEF TypeOK
    <3>. QED BY <2>1, <3>1 DEF TypeOK
  <2>3. /\ DOMAIN sending' = Slot
        /\ \A t \in Slot : \E to \in SUBSET Worker : sending'[t] \in [to -> Message]
    <3>. DEFINE D == DOMAIN sending[s] \ {w}
                f == [v \in D |-> sending[s][v]]
    <3>1. D \in SUBSET Worker /\ f \in [D -> Message]
      BY BatchTyped
    <3>2. sending' = [sending EXCEPT ![s] = f]
      BY <2>1
    <3>. HIDE DEF D, f
    <3>. QED BY <3>1, <3>2 DEF TypeOK
  <2>4. UNCHANGED <<run, ids, recv, stop, ready, due, proc, joined, links, up, engine, reportVars,
                    upsets>>
    BY <1>4 DEF RebalanceSend
  <2>. QED BY <2>2, <2>3, <2>4 DEF TypeOK
<1>. QED BY <1>1, <1>2, <1>3, <1>4

(***************************************************************************)
(* stopRun.                                                                *)
(***************************************************************************)
LEMMA StopTyped ==
    ASSUME TypeOK, Known, NEW p \in Proc, StopRun(p)
    PROVE  TypeOK' /\ Known'
<1>. USE DEF Known, workerVars, links, reportVars, Executing
<1>s. stop[p] \in Stopping /\ stop \in [Proc -> Stopping]
  BY DEF TypeOK
<1>k. ASSUME NEW st \in Stopping, stop' = [stop EXCEPT ![p] = st] PROVE stop' \in [Proc -> Stopping]
  BY <1>k, <1>s
<1>1. CASE StopNothing(p) \/ StopAwaited(p)
  <2>1. PICK pc \in {"idle", "clearing"} : stop' = [stop EXCEPT ![p] = [stop[p] EXCEPT !.pc = pc]]
    BY <1>1 DEF StopNothing, StopAwaited
  <2>2. stop' \in [Proc -> Stopping]
    <3>1. [stop[p] EXCEPT !.pc = pc] \in Stopping
      BY <1>s DEF Stopping
    <3>. QED BY <1>k, <2>1, <3>1
  <2>3. UNCHANGED <<run, ids, recv, ready, due, sending, workerVars, reportVars, upsets>>
    BY <1>1 DEF StopNothing, StopAwaited
  <2>. QED BY <2>2, <2>3 DEF TypeOK
<1>2. CASE StopBroadcast(p)
  <2>1. run.gen \in Gen
    BY <1>2 DEF StopBroadcast
  <2>2. StopMessage \in Message
    BY <2>1 DEF StopMessage, Message
  <2>3. \A w \in Worker : Append(down[w], StopMessage) \in Seq(Message)
    BY <2>2, AppendProperties DEF TypeOK
  <2>4. down' \in [Worker -> Seq(Message)]
    BY <1>2, <2>3 DEF StopBroadcast, TypeOK
  <2>5. PICK pc \in {"awaiting", "clearing"} :
          stop' = [stop EXCEPT ![p] = [stop[p] EXCEPT !.pc = pc, !.gen = run.gen]]
    BY <1>2 DEF StopBroadcast
  <2>6. stop' \in [Proc -> Stopping]
    <3>1. [stop[p] EXCEPT !.pc = pc, !.gen = run.gen] \in Stopping
      BY <1>s, <2>1 DEF Stopping
    <3>. QED BY <1>k, <2>5, <3>1
  <2>7. UNCHANGED <<run, ids, recv, ready, due, sending, proc, joined, links, up, engine, reportVars,
                    upsets>>
    BY <1>2 DEF StopBroadcast
  <2>. QED BY <2>4, <2>6, <2>7 DEF TypeOK
<1>3. CASE StopClear(p)
  <2>1. run' \in AgentRun /\ (run' = NoRun \/ run' = run)
    BY <1>3 DEF StopClear, TypeOK, AgentRun, NoRun
  <2>2. stop' = [stop EXCEPT ![p] = [stop[p] EXCEPT !.pc = "reaping", !.victims = Procs]]
    BY <1>3 DEF StopClear
  <2>3. Procs \in SUBSET Worker
    BY DEF Procs
  <2>4. stop' \in [Proc -> Stopping]
    <3>1. [stop[p] EXCEPT !.pc = "reaping", !.victims = Procs] \in Stopping
      BY <1>s, <2>3 DEF Stopping
    <3>. QED BY <1>k, <2>2, <3>1
  <2>5. UNCHANGED <<ids, recv, ready, due, sending, workerVars, reportVars, upsets>>
    BY <1>3 DEF StopClear
  <2>. QED BY <2>1, <2>4, <2>5 DEF TypeOK
<1>4. CASE StopReaped(p)
  <2>1. stop' = [stop EXCEPT ![p] = [stop[p] EXCEPT !.pc = "idle", !.victims = {}]]
    BY <1>4 DEF StopReaped
  <2>2. stop' \in [Proc -> Stopping]
    <3>1. [stop[p] EXCEPT !.pc = "idle", !.victims = {}] \in Stopping
      BY <1>s DEF Stopping
    <3>. QED BY <1>k, <2>1, <3>1
  <2>3. UNCHANGED <<run, ids, recv, ready, due, sending, workerVars, reportVars, upsets>>
    BY <1>4 DEF StopReaped
  <2>. QED BY <2>2, <2>3 DEF TypeOK
<1>. QED BY <1>1, <1>2, <1>3, <1>4 DEF StopRun

(***************************************************************************)
(* The worker processes and the agent's end of their sessions.             *)
(***************************************************************************)
LEMMA DieTyped ==
    ASSUME TypeOK, NEW w \in Worker, Die(w)
    PROVE  /\ proc' = [proc EXCEPT ![w] = "exited"]
           /\ engine' = [engine EXCEPT ![w] = NotStarted]
           /\ down' = [down EXCEPT ![w] = <<>>]
           /\ proc' \in [Worker -> {"none", "alive", "exited", "gone"}]
           /\ engine' \in [Worker -> WorkerRun]
           /\ down' \in [Worker -> Seq(Message)] /\ up' \in [Worker -> Seq(Update)]
           /\ UNCHANGED <<agentVars, sending, joined, links, reportVars>>
<1>1. /\ proc' = [proc EXCEPT ![w] = "exited"]
      /\ engine' = [engine EXCEPT ![w] = NotStarted]
      /\ down' = [down EXCEPT ![w] = <<>>]
      /\ UNCHANGED <<agentVars, sending, joined, links, reportVars>>
  BY DEF Die
<1>2. NotStarted \in WorkerRun
  BY DEF NotStarted, WorkerRun
<1>3. PICK k \in 0 .. Len(up[w]) : up' = [up EXCEPT ![w] = SubSeq(up[w], 1, k)]
  BY DEF Die
<1>4. up[w] \in Seq(Update) /\ up \in [Worker -> Seq(Update)]
  BY DEF TypeOK
<1>5. SubSeq(up[w], 1, k) \in Seq(Update)
  <2>1. \A i \in 1 .. k : up[w][i] \in Update
    BY <1>4
  <2>. QED BY <1>4, <2>1, SubSeqProperties
<1>6. up' \in [Worker -> Seq(Update)]
  BY <1>3, <1>4, <1>5
<1>7. /\ proc' \in [Worker -> {"none", "alive", "exited", "gone"}]
      /\ engine' \in [Worker -> WorkerRun] /\ down' \in [Worker -> Seq(Message)]
  BY <1>1, <1>2 DEF TypeOK
<1>. QED BY <1>1, <1>6, <1>7

LEMMA ProcessTyped ==
    ASSUME TypeOK, Known, NEW w \in Worker,
           OnJoin(w) \/ StreamLost(w) \/ QueueFull(w) \/ Exit(w) \/ Crash(w) \/ Session(w)
    PROVE  TypeOK' /\ Known'
<1>. USE DEF Known, Executing, links
<1>1. CASE OnJoin(w)
  <2>1. /\ joined' \subseteq Worker /\ linked' \subseteq joined' /\ due' \in Nat
        /\ UNCHANGED <<run, ids, recv, stop, ready, sending, proc, lost, forgotten, down, up, engine,
                       reportVars, upsets>>
    BY <1>1 DEF OnJoin, TypeOK
  <2>. QED BY <2>1 DEF TypeOK, reportVars
<1>7. CASE StreamLost(w)
  <2>0. down \in [Worker -> Seq(Message)] /\ up \in [Worker -> Seq(Update)]
    BY DEF TypeOK
  <2>1. PICK k \in 0 .. Len(down[w]) : down' = [down EXCEPT ![w] = SubSeq(down[w], 1, k)]
    BY <1>7 DEF StreamLost
  <2>2. PICK m \in 0 .. Len(up[w]) : up' = [up EXCEPT ![w] = SubSeq(up[w], m + 1, Len(up[w]))]
    BY <1>7 DEF StreamLost
  <2>3. SubSeq(down[w], 1, k) \in Seq(Message) /\ SubSeq(up[w], m + 1, Len(up[w])) \in Seq(Update)
    BY <2>0
  <2>4. down' \in [Worker -> Seq(Message)] /\ up' \in [Worker -> Seq(Update)]
    BY <2>0, <2>1, <2>2, <2>3
  <2>5. /\ linked' \subseteq joined' /\ lost' \subseteq Worker /\ upsets' \in Nat
        /\ UNCHANGED <<agentVars, proc, joined, forgotten, engine, reportVars>>
    BY <1>7, UpsetTyped DEF StreamLost, TypeOK
  <2>6. sending' = [s \in Slot |-> [v \in DOMAIN sending[s] \ {w} |-> sending[s][v]]]
    BY <1>7 DEF StreamLost
  <2>7. /\ DOMAIN sending' = Slot
        /\ \A s \in Slot : \E to \in SUBSET Worker : sending'[s] \in [to -> Message]
    <3>. SUFFICES ASSUME NEW s \in Slot PROVE \E to \in SUBSET Worker : sending'[s] \in [to -> Message]
      BY <2>6
    <3>1. DOMAIN sending[s] \ {w} \in SUBSET Worker
      BY BatchTyped
    <3>2. [v \in DOMAIN sending[s] \ {w} |-> sending[s][v]] \in [DOMAIN sending[s] \ {w} -> Message]
      BY BatchTyped
    <3>. QED BY <2>6, <3>1, <3>2
  <2>. QED BY <2>4, <2>5, <2>7 DEF TypeOK, agentVars, reportVars
<1>8. CASE QueueFull(w)
  <2>0. down \in [Worker -> Seq(Message)] /\ up \in [Worker -> Seq(Update)]
    BY DEF TypeOK
  <2>1. \/ down[w] # <<>> /\ down' = [down EXCEPT ![w] = SubSeq(down[w], 1, Len(down[w]) - 1)] /\ UNCHANGED up
        \/ up[w] # <<>> /\ up' = [up EXCEPT ![w] = SubSeq(up[w], 1, Len(up[w]) - 1)] /\ UNCHANGED down
    BY <1>8 DEF QueueFull
  <2>2. /\ SubSeq(down[w], 1, Len(down[w]) - 1) \in Seq(Message)
        /\ SubSeq(up[w], 1, Len(up[w]) - 1) \in Seq(Update)
    BY <2>0
  <2>3. down' \in [Worker -> Seq(Message)] /\ up' \in [Worker -> Seq(Update)]
    BY <2>0, <2>1, <2>2
  <2>4. /\ lost' \subseteq Worker /\ upsets' \in Nat
        /\ UNCHANGED <<agentVars, sending, proc, joined, linked, forgotten, engine, reportVars>>
    BY <1>8, UpsetTyped DEF QueueFull, TypeOK
  <2>. QED BY <2>3, <2>4 DEF TypeOK, agentVars, reportVars
<1>2. CASE Exit(w) \/ Crash(w)
  <2>1. Die(w) /\ upsets' \in Nat
    BY <1>2, UpsetTyped DEF Exit, Crash, TypeOK
  <2>2. \A v \in Worker : engine'[v] = IF v = w THEN NotStarted ELSE engine[v]
    BY <2>1, DieTyped, SMTT(30) DEF TypeOK
  <2>3. NotStarted.st = "none"
    BY DEF NotStarted
  <2>. QED BY <2>1, <2>2, <2>3, DieTyped DEF TypeOK, agentVars, reportVars
<1>3. CASE SuperviseWorker(w)
  <2>1. /\ proc' \in [Worker -> {"none", "alive", "exited", "gone"}] /\ due' \in Nat
        /\ UNCHANGED <<run, ids, recv, stop, ready, sending, joined, links, down, up, engine,
                       reportVars, upsets>>
    BY <1>3 DEF SuperviseWorker, TypeOK
  <2>. QED BY <2>1 DEF TypeOK, reportVars
<1>4. CASE OnLeave(w)
  <2>1. run' = [run EXCEPT !.dispatched = run.dispatched \ {w}] /\ run \in AgentRun
    BY <1>4 DEF OnLeave, TypeOK
  <2>2. run' \in AgentRun /\ run'.gen = run.gen
    BY <2>1 DEF AgentRun
  <2>3. run = NoRun => run' = NoRun
    <3>1. run = NoRun => run'.gen = 0 /\ run'.id = 0 /\ run'.quota = 0 /\ run'.dispatched = {}
      BY <2>1 DEF NoRun, AgentRun
    <3>. QED BY <2>2, <3>1 DEF NoRun, AgentRun
  <2>4. /\ joined' \subseteq Worker /\ phase' \in [Worker -> Terminal \cup {"none", "running"}]
        /\ linked' \subseteq joined' /\ forgotten' \subseteq Worker
    BY <1>4 DEF OnLeave, TypeOK
  <2>5. UNCHANGED <<ids, recv, stop, ready, due, sending, proc, lost, down, up, engine, relay,
                    ended, upsets>>
    BY <1>4 DEF OnLeave
  <2>. QED BY <2>2, <2>3, <2>4, <2>5 DEF TypeOK
<1>5. CASE OnRunStatus(w)
  <2>. DEFINE update == Head(up[w])
              status == [id |-> ids[update.gen], phase |-> FoldPhases(phase')]
  <2>1. up[w] \in Seq(Update) /\ up[w] # <<>>
    BY <1>5 DEF OnRunStatus, TypeOK
  <2>2. update \in Update /\ Tail(up[w]) \in Seq(Update)
    BY <2>1, HeadTailProperties
  <2>3. /\ phase' = [phase EXCEPT ![w] = update.phase]
        /\ relay' = [relay EXCEPT ![w] = status]
        /\ up' = [up EXCEPT ![w] = Tail(up[w])]
        /\ UNCHANGED <<agentVars, sending, proc, joined, links, down, engine, ended, upsets>>
    BY <1>5 DEF OnRunStatus
  <2>4. status \in Status
    <3>1. ids[update.gen] \in Nat
      BY <2>2 DEF Update, TypeOK
    <3>2. FoldPhases(phase') \in Terminal \cup {"none", "running"}
      BY DEF FoldPhases, Terminal
    <3>. QED BY <3>1, <3>2 DEF Status
  <2>5. update.phase \in Terminal \cup {"none", "running"}
    BY <2>2 DEF Update
  <2>. HIDE DEF status, update
  <2>6. /\ phase' \in [Worker -> Terminal \cup {"none", "running"}]
        /\ relay' \in [Worker -> Status] /\ up' \in [Worker -> Seq(Update)]
    BY <2>2, <2>3, <2>4, <2>5 DEF TypeOK
  <2>. QED BY <2>3, <2>6 DEF TypeOK, agentVars
<1>6. CASE RelayStatus(w)
  <2>1. relay[w] \in Status /\ NoRelay \in Status
    BY DEF TypeOK, NoRelay, Status
  <2>2. ended' \subseteq Nat
    BY <1>6, <2>1, TellTyped DEF RelayStatus, Status
  <2>3. relay' \in [Worker -> Status]
    BY <1>6, <2>1 DEF RelayStatus, TypeOK
  <2>4. UNCHANGED <<agentVars, sending, workerVars, phase, upsets>>
    BY <1>6 DEF RelayStatus
  <2>. QED BY <2>2, <2>3, <2>4 DEF TypeOK, agentVars, workerVars, links
<1>. QED BY <1>1, <1>2, <1>3, <1>4, <1>5, <1>6, <1>7, <1>8 DEF Session

(***************************************************************************)
(* What a worker takes off its queue, and what it reports.                 *)
(***************************************************************************)
LEMMA HandleTyped ==
    ASSUME TypeOK, NEW w \in Worker, NEW kind, Handle(w, kind)
    PROVE  /\ down[w] \in Seq(Message) /\ down[w] # <<>> /\ proc[w] = "alive"
           /\ Head(down[w]) \in Message /\ Head(down[w]).kind = kind
           /\ down' = [down EXCEPT ![w] = Tail(down[w])]
           /\ down' \in [Worker -> Seq(Message)] /\ down'[w] = Tail(down[w])
           /\ \A v \in Worker : v # w => down'[v] = down[v]
<1>1. /\ down[w] \in Seq(Message) /\ down[w] # <<>> /\ proc[w] = "alive"
      /\ Head(down[w]).kind = kind /\ down' = [down EXCEPT ![w] = Tail(down[w])]
  BY DEF Handle, TypeOK
<1>2. Head(down[w]) \in Message /\ Tail(down[w]) \in Seq(Message)
  BY <1>1, HeadTailProperties
<1>. QED BY <1>1, <1>2 DEF TypeOK

LEMMA ReportTyped ==
    ASSUME TypeOK, NEW w \in Worker, NEW g \in Gen, NEW ph \in Terminal \cup {"running"},
           ReportFrom(w, g, ph)
    PROVE  up' \in [Worker -> Seq(Update)]
<1>1. [gen |-> g, phase |-> ph] \in Update
  BY DEF Update
<1>2. Append(up[w], [gen |-> g, phase |-> ph]) \in Seq(Update)
  BY <1>1, AppendProperties DEF TypeOK
<1>. QED BY <1>2 DEF ReportFrom, TypeOK

LEMMA WorkerTyped ==
    ASSUME TypeOK, Known, NEW w \in Worker, WorkerStep(w)
    PROVE  TypeOK' /\ Known'
<1>. USE DEF Known, Executing, links
<1>e. engine[w] \in WorkerRun /\ engine \in [Worker -> WorkerRun]
  BY DEF TypeOK
<1>k. ASSUME NEW new \in WorkerRun, engine' = [engine EXCEPT ![w] = new],
             new.st \in {"running", "stopping"} => new.gen \in Gen, UNCHANGED <<run, recv>>
      PROVE  engine' \in [Worker -> WorkerRun] /\ Known'
  <2>1. \A v \in Worker : engine'[v] = IF v = w THEN new ELSE engine[v]
    BY <1>k, <1>e
  <2>. QED BY <1>k, <1>e, <2>1
<1>1. CASE WorkerStart(w)
  <2>. DEFINE msg == Head(down[w])
              new == [gen |-> msg.gen, quota |-> msg.quota, slice |-> msg.slice, st |-> "running"]
  <2>1. /\ Handle(w, "start") /\ engine' = [engine EXCEPT ![w] = new]
        /\ ReportFrom(w, msg.gen, "running")
        /\ UNCHANGED <<agentVars, sending, proc, joined, links, reportVars, upsets>>
    BY <1>1 DEF WorkerStart
  <2>2. msg \in Message /\ down' \in [Worker -> Seq(Message)]
    BY <2>1, HandleTyped
  <2>3. new \in WorkerRun /\ new.gen \in Gen /\ msg.gen \in Gen
    BY <2>2 DEF Message, WorkerRun
  <2>. HIDE DEF new, msg
  <2>4. up' \in [Worker -> Seq(Update)]
    BY <2>1, <2>3, ReportTyped
  <2>. QED BY <1>k, <2>1, <2>2, <2>3, <2>4 DEF TypeOK, agentVars, reportVars
<1>2. CASE WorkerCannotStart(w)
  <2>1. /\ Handle(w, "start") /\ ReportFrom(w, Head(down[w]).gen, "failed") /\ upsets' \in Nat
        /\ UNCHANGED <<agentVars, sending, proc, joined, links, engine, reportVars>>
    BY <1>2, UpsetTyped DEF WorkerCannotStart
  <2>2. Head(down[w]).gen \in Gen /\ down' \in [Worker -> Seq(Message)]
    BY <2>1, HandleTyped DEF Message
  <2>3. up' \in [Worker -> Seq(Update)]
    BY <2>1, <2>2, ReportTyped DEF Terminal
  <2>. QED BY <2>1, <2>2, <2>3 DEF TypeOK, agentVars, reportVars
<1>3. CASE WorkerQuota(w)
  <2>. DEFINE new == [engine[w] EXCEPT !.quota = Head(down[w]).quota]
  <2>1. /\ Handle(w, "quota")
        /\ engine' = engine \/ engine' = [engine EXCEPT ![w] = new]
        /\ UNCHANGED <<agentVars, sending, proc, joined, links, up, reportVars, upsets>>
    BY <1>3 DEF WorkerQuota
  <2>2. Head(down[w]) \in Message /\ down' \in [Worker -> Seq(Message)]
    BY <2>1, HandleTyped
  <2>3. new \in WorkerRun /\ new.gen = engine[w].gen /\ new.st = engine[w].st
    <3>1. Head(down[w]).quota \in Nat
      BY <2>2 DEF Message
    <3>. QED BY <1>e, <3>1 DEF WorkerRun
  <2>. HIDE DEF new
  <2>. QED BY <1>k, <1>e, <2>1, <2>2, <2>3 DEF TypeOK, agentVars, reportVars
<1>4. CASE WorkerStop(w)
  <2>. DEFINE new == [engine[w] EXCEPT !.st = "stopping"]
  <2>1. /\ Handle(w, "stop")
        /\ engine' = engine \/ (Executing(w) /\ engine' = [engine EXCEPT ![w] = new])
        /\ UNCHANGED <<agentVars, sending, proc, joined, links, up, reportVars, upsets>>
    BY <1>4 DEF WorkerStop, SameRun
  <2>2. down' \in [Worker -> Seq(Message)]
    BY <2>1, HandleTyped
  <2>3. new \in WorkerRun /\ new.gen = engine[w].gen
    BY <1>e DEF WorkerRun
  <2>. HIDE DEF new
  <2>. QED BY <1>k, <1>e, <2>1, <2>2, <2>3 DEF TypeOK, agentVars, reportVars
<1>5. ASSUME NEW ph \in Terminal, Execute(w, ph) PROVE TypeOK' /\ Known'
  <2>. DEFINE new == [engine[w] EXCEPT !.st = "done"]
  <2>1. /\ engine' = [engine EXCEPT ![w] = new] /\ ReportFrom(w, engine[w].gen, ph)
        /\ engine[w].gen \in Gen
        /\ UNCHANGED <<agentVars, sending, proc, joined, links, down, reportVars>>
    BY <1>5 DEF Execute
  <2>2. upsets' \in Nat
    BY <1>5, UpsetTyped DEF Execute, TypeOK
  <2>3. new \in WorkerRun /\ new.st = "done"
    BY <1>e DEF WorkerRun
  <2>. HIDE DEF new
  <2>4. up' \in [Worker -> Seq(Update)]
    BY <2>1, ReportTyped
  <2>. QED BY <1>k, <2>1, <2>2, <2>3, <2>4 DEF TypeOK, agentVars, reportVars
<1>. QED BY <1>1, <1>2, <1>3, <1>4, <1>5 DEF WorkerStep, WorkerHandler

(***************************************************************************)
(* Every variable of the agent and of its workers keeps its type, and no   *)
(* message, report or start is without a generation.                       *)
(***************************************************************************)
THEOREM AgentTypes == Spec => [](TypeOK /\ Known)
<1>1. TypeOK /\ Known /\ [Next]_vars => TypeOK' /\ Known'
  <2>. SUFFICES ASSUME TypeOK, Known, [Next]_vars PROVE TypeOK' /\ Known'
    OBVIOUS
  <2>1. CASE UNCHANGED vars
    BY <2>1 DEF vars, links, TypeOK, Known, Executing
  <2>2. CASE Agent
    BY <2>2, CommandTyped, DispatchTyped, StopTyped, Zenon DEF Agent
  <2>. QED BY <2>1, <2>2, CommandTyped, ProcessTyped, WorkerTyped, Zenon DEF Next
<1>. QED BY <1>1, InitTyped, PTL DEF Spec
-----------------------------------------------------------------------------
(***************************************************************************)
(* Processes.  Workers of different starts and places are different ones,  *)
(* so spawnWorkers never revives a process: the ones it is yet to spawn    *)
(* have never been alive, joined or been written to.  A process that is    *)
(* not alive has no run and no commands.                                   *)
(***************************************************************************)
LEMMA WorkerOfInjective ==
    ASSUME NEW g \in Gen, NEW h \in Gen, NEW i \in 0 .. WorkerCount - 1,
           NEW j \in 0 .. WorkerCount - 1, WorkerOf(g, i) = WorkerOf(h, j)
    PROVE  g = h /\ i = j
<1>0. /\ MaxStarts \in Nat /\ g \in 1 .. MaxStarts /\ h \in 1 .. MaxStarts
      /\ i \in Nat /\ j \in Nat
  BY Numbers DEF Gen
<1>1. i * MaxStarts \in Nat /\ j * MaxStarts \in Nat
  BY <1>0
<1>2. i * MaxStarts + g - 1 = j * MaxStarts + h - 1
  BY DEF WorkerOf
<1>3. ASSUME NEW x \in Nat, NEW y \in Nat, x < y
      PROVE  x * MaxStarts + MaxStarts <= y * MaxStarts
  <2>1. x + 1 <= y /\ x + 1 \in Int /\ y \in Int
    BY <1>3
  <2>2. \A a, b \in Int, m \in Nat : a <= b => a * m <= b * m
    OBVIOUS
  <2>3. (x + 1) * MaxStarts <= y * MaxStarts
    BY <1>0, <2>1, <2>2
  <2>4. (x + 1) * MaxStarts = x * MaxStarts + MaxStarts
    BY <1>0
  <2>. QED BY <2>3, <2>4
<1>4. ~(i < j)
  BY <1>0, <1>1, <1>2, <1>3
<1>5. ~(j < i)
  BY <1>0, <1>1, <1>2, <1>3
<1>6. i = j
  BY <1>0, <1>4, <1>5
<1>. QED BY <1>0, <1>1, <1>2, <1>6

DeadIdle == \A w \in Worker : proc[w] # "alive" => engine[w] = NotStarted /\ down[w] = <<>>

Strangers ==
    \A w \in Worker : proc[w] = "none" =>
        w \notin joined /\ \A s \in Slot : w \notin DOMAIN sending[s]

Upcoming(g, i) ==
    \/ g > recv.gen
    \/ g = recv.gen /\ recv.pc = "superseding"
    \/ g = recv.gen /\ recv.pc = "spawning" /\ i >= recv.next

Unspawned ==
    \A g \in Gen, i \in 0 .. WorkerCount - 1 : Upcoming(g, i) => proc[WorkerOf(g, i)] = "none"

ProcInv == DeadIdle /\ Strangers /\ Unspawned

LEMMA StepKeepsProcs ==
    ASSUME TypeOK, Known, ProcInv, Next
    PROVE  ProcInv'
<1>. USE DEF agentVars, workerVars, links, reportVars
<1>g. recv.gen \in Nat /\ recv.gen \in Gen \cup {NoGen} /\ Gen \subseteq Nat /\ recv \in Receiver
  <2>1. recv \in Receiver /\ Gen \subseteq Nat
    BY Numbers DEF TypeOK
  <2>2. recv.gen \in Gen \cup {NoGen}
    BY <2>1 DEF Receiver
  <2>3. recv.gen \in Gen \/ recv.gen = 0
    BY <2>2
  <2>4. recv.gen \in Nat
    <3>1. 0 \in Nat
      OBVIOUS
    <3>. QED BY <2>1, <2>3, <3>1, Zenon
  <2>. QED BY <2>1, <2>2, <2>4
<1>d. ASSUME UNCHANGED <<proc, engine, down>> PROVE DeadIdle'
  BY <1>d DEF ProcInv, DeadIdle
<1>s. ASSUME UNCHANGED <<proc, joined, sending>> PROVE Strangers'
  BY <1>s DEF ProcInv, Strangers
<1>u. ASSUME UNCHANGED <<proc, recv>> PROVE Unspawned'
  BY <1>u DEF ProcInv, Unspawned, Upcoming
<1>f. ASSUME UNCHANGED <<proc, engine, down, joined, sending, recv>> PROVE ProcInv'
  BY <1>f, <1>d, <1>s, <1>u DEF ProcInv
<1>1. CASE Command
  <2>1. PICK g \in Gen : \E id \in 1 .. g : OnStartRun(g, id)
    BY <1>1 DEF Command
  <2>2. /\ g = recv.gen + 1 /\ recv' = [pc |-> "superseding", gen |-> g, next |-> 0]
        /\ UNCHANGED <<proc, engine, down, joined, sending>>
    BY <2>1 DEF OnStartRun
  <2>3. Unspawned'
    BY <1>g, <2>2 DEF ProcInv, Unspawned, Upcoming
  <2>. QED BY <1>d, <1>s, <2>2, <2>3 DEF ProcInv
<1>2. ASSUME NEW quota \in Requote, OnSetQuota(quota) PROVE ProcInv'
  BY <1>2, <1>f DEF OnSetQuota
<1>3. ASSUME NEW p \in Stopper, OnStopRun(p) PROVE ProcInv'
  BY <1>3, <1>f DEF OnStopRun
<1>4. CASE Adopt
  <2>1. /\ recv.pc = "superseding" /\ recv'.gen = recv.gen /\ recv'.pc = "spawning"
        /\ UNCHANGED <<proc, engine, down, joined, sending>>
    BY <1>4, <1>g DEF Adopt, Receiver
  <2>2. Unspawned'
    BY <2>1 DEF ProcInv, Unspawned, Upcoming
  <2>. QED BY <1>d, <1>s, <2>1, <2>2 DEF ProcInv
<1>5. CASE Spawn
  <2>. DEFINE n == WorkerOf(recv.gen, recv.next)
  <2>1. recv.gen \in Gen /\ recv.next \in 0 .. WorkerCount - 1 /\ recv.pc = "spawning"
    BY <1>5 DEF Spawn, Known
  <2>2. n \in Worker /\ proc[n] = "none"
    BY <1>g, <2>1, WorkerOfType DEF ProcInv, Unspawned, Upcoming, Receiver
  <2>3. proc' = [proc EXCEPT ![n] = "alive"] /\ UNCHANGED <<joined, down, engine, sending>>
    BY <1>5 DEF Spawn
  <2>4. /\ recv'.gen = recv.gen /\ recv'.pc \in {"idle", "spawning"}
        /\ recv'.pc = "spawning" => recv'.next = recv.next + 1
    BY <1>5, <1>g, <2>1, SpawnNext
  <2>5. \A g \in Gen, i \in 0 .. WorkerCount - 1 :
          WorkerOf(g, i) = n => g = recv.gen /\ i = recv.next
    BY <2>1, WorkerOfInjective
  <2>6. \A g \in Gen, i \in 0 .. WorkerCount - 1 : WorkerOf(g, i) \in Worker
    BY WorkerOfType
  <2>. HIDE DEF n
  <2>7. \A w \in Worker : proc'[w] = IF w = n THEN "alive" ELSE proc[w]
    BY <2>2, <2>3 DEF TypeOK
  <2>8. DeadIdle' /\ Strangers'
    BY <2>3, <2>7 DEF ProcInv, DeadIdle, Strangers
  <2>9. Unspawned'
    <3>. SUFFICES ASSUME NEW g \in Gen, NEW i \in 0 .. WorkerCount - 1, Upcoming(g, i)'
                  PROVE  proc'[WorkerOf(g, i)] = "none"
      BY DEF Unspawned
    <3>1. Upcoming(g, i) /\ ~(g = recv.gen /\ i = recv.next)
      BY <1>g, <2>1, <2>4 DEF Upcoming
    <3>2. proc[WorkerOf(g, i)] = "none"
      BY <3>1 DEF ProcInv, Unspawned
    <3>. QED BY <2>5, <2>6, <2>7, <3>1, <3>2
  <2>. QED BY <2>8, <2>9 DEF ProcInv
<1>6. CASE SpawnFailure
  <2>1. /\ recv'.gen = recv.gen /\ recv'.pc = "idle"
        /\ UNCHANGED <<proc, engine, down, joined, sending>>
    BY <1>6, <1>g DEF SpawnFailure, Receiver
  <2>2. Unspawned'
    BY <2>1 DEF ProcInv, Unspawned, Upcoming
  <2>. QED BY <1>d, <1>s, <2>1, <2>2 DEF ProcInv
<1>7. ASSUME NEW g \in Gen, DispatchStale(g) \/ DispatchRebalance(g) \/ DispatchNobody(g)
      PROVE  ProcInv'
  BY <1>7, <1>f DEF DispatchStale, DispatchRebalance, DispatchNobody
<1>8. CASE RebalanceNothing
  BY <1>8, <1>f DEF RebalanceNothing
<1>9. ASSUME NEW s \in Slot, Rebalance(s) PROVE ProcInv'
  <2>1. /\ sending' = [sending EXCEPT ![s] = [w \in linked |-> MessageTo(w)]]
        /\ UNCHANGED <<proc, engine, down, joined, recv>>
    BY <1>9 DEF Rebalance
  <2>2. \A t \in Slot : DOMAIN sending'[t] = IF t = s THEN linked ELSE DOMAIN sending[t]
    BY <2>1 DEF TypeOK
  <2>4. linked \subseteq joined
    BY DEF TypeOK
  <2>3. Strangers'
    BY <2>1, <2>2, <2>4 DEF ProcInv, Strangers
  <2>. QED BY <1>d, <1>u, <2>1, <2>3 DEF ProcInv
<1>10. ASSUME NEW s \in Slot, RebalanceSend(s) PROVE ProcInv'
  <2>1. PICK w \in DOMAIN sending[s] :
             /\ w \in Worker /\ sending[s][w] \in Message
             /\ down' = IF proc[w] = "alive" THEN [down EXCEPT ![w] = Append(down[w], sending[s][w])]
                        ELSE down
             /\ sending' = [sending EXCEPT ![s] =
                              [v \in DOMAIN sending[s] \ {w} |-> sending[s][v]]]
    BY <1>10, RebalanceSendTyped
  <2>2. UNCHANGED <<proc, engine, joined, recv>>
    BY <1>10 DEF RebalanceSend
  <2>3. \A t \in Slot : DOMAIN sending'[t] \subseteq DOMAIN sending[t]
    BY <2>1 DEF TypeOK
  <2>4. \A v \in Worker : proc[v] # "alive" => down'[v] = down[v]
    BY <2>1 DEF TypeOK
  <2>5. DeadIdle' /\ Strangers'
    BY <2>2, <2>3, <2>4 DEF ProcInv, DeadIdle, Strangers
  <2>. QED BY <1>u, <2>2, <2>5 DEF ProcInv
<1>11. ASSUME NEW p \in Proc, StopNothing(p) \/ StopAwaited(p) \/ StopClear(p) \/ StopReaped(p)
       PROVE  ProcInv'
  BY <1>11, <1>f DEF StopNothing, StopAwaited, StopClear, StopReaped
<1>12. ASSUME NEW p \in Proc, StopBroadcast(p) PROVE ProcInv'
  <2>1. /\ UNCHANGED <<proc, engine, joined, sending, recv>>
        /\ \A v \in Worker : proc[v] # "alive" => down'[v] = down[v]
    BY <1>12 DEF StopBroadcast
  <2>2. DeadIdle'
    BY <2>1 DEF ProcInv, DeadIdle
  <2>. QED BY <1>s, <1>u, <2>1, <2>2 DEF ProcInv
<1>13. ASSUME NEW w \in Worker, OnJoin(w) PROVE ProcInv'
  <2>1. /\ UNCHANGED <<proc, engine, down, sending, recv>>
        /\ proc[w] = "alive" /\ joined' = joined \cup {w}
    BY <1>13 DEF OnJoin
  <2>2. Strangers'
    BY <2>1 DEF ProcInv, Strangers
  <2>. QED BY <1>d, <1>u, <2>1, <2>2 DEF ProcInv
<1>14. ASSUME NEW w \in Worker, Exit(w) \/ Crash(w) PROVE ProcInv'
  <2>1. Die(w) /\ proc[w] = "alive"
    BY <1>14 DEF Exit, Crash, Die
  <2>2. \A v \in Worker : /\ proc'[v] = IF v = w THEN "exited" ELSE proc[v]
                          /\ engine'[v] = IF v = w THEN NotStarted ELSE engine[v]
                          /\ down'[v] = IF v = w THEN <<>> ELSE down[v]
    BY <2>1, DieTyped DEF TypeOK
  <2>3. UNCHANGED <<sending, joined, recv>>
    BY <2>1, DieTyped
  <2>4. DeadIdle' /\ Strangers'
    BY <2>2, <2>3 DEF ProcInv, DeadIdle, Strangers
  <2>5. Unspawned'
    BY <2>1, <2>2, <2>3, WorkerOfType DEF ProcInv, Unspawned, Upcoming
  <2>. QED BY <2>4, <2>5 DEF ProcInv
<1>15. ASSUME NEW w \in Worker, SuperviseWorker(w) PROVE ProcInv'
  <2>1. /\ proc[w] = "exited" /\ proc' = [proc EXCEPT ![w] = "gone"]
        /\ UNCHANGED <<engine, down, joined, sending, recv>>
    BY <1>15 DEF SuperviseWorker
  <2>2. \A v \in Worker : proc'[v] = IF v = w THEN "gone" ELSE proc[v]
    BY <2>1 DEF TypeOK
  <2>3. DeadIdle' /\ Strangers'
    BY <2>1, <2>2 DEF ProcInv, DeadIdle, Strangers
  <2>4. Unspawned'
    BY <2>1, <2>2, WorkerOfType DEF ProcInv, Unspawned, Upcoming
  <2>. QED BY <2>3, <2>4 DEF ProcInv
<1>16. ASSUME NEW w \in Worker, OnLeave(w) PROVE ProcInv'
  <2>1. joined' \subseteq joined /\ UNCHANGED <<proc, engine, down, sending, recv>>
    BY <1>16 DEF OnLeave
  <2>2. Strangers'
    BY <2>1 DEF ProcInv, Strangers
  <2>. QED BY <1>d, <1>u, <2>1, <2>2 DEF ProcInv
<1>17. ASSUME NEW w \in Worker, OnRunStatus(w) \/ RelayStatus(w) PROVE ProcInv'
  BY <1>17, <1>f DEF OnRunStatus, RelayStatus
<1>18. ASSUME NEW w \in Worker, WorkerStep(w) PROVE ProcInv'
  <2>1. UNCHANGED <<proc, sending, joined, recv>>
    BY <1>18 DEF WorkerStep, WorkerHandler, WorkerStart, WorkerCannotStart, WorkerQuota,
                 WorkerStop, Execute
  <2>2. proc[w] = "alive"
    <3>1. CASE WorkerHandler(w)
      BY <3>1 DEF WorkerHandler, WorkerStart, WorkerCannotStart, WorkerQuota, WorkerStop, Handle
    <3>2. ASSUME NEW ph \in Terminal, Execute(w, ph) PROVE proc[w] = "alive"
      BY <3>2 DEF Execute, Executing, ProcInv, DeadIdle, NotStarted
    <3>. QED BY <1>18, <3>1, <3>2 DEF WorkerStep
  <2>3. \A v \in Worker : v # w => engine'[v] = engine[v] /\ down'[v] = down[v]
    <3>1. \A v \in Worker : v # w => engine'[v] = engine[v]
      BY <1>18 DEF WorkerStep, WorkerHandler, WorkerStart, WorkerCannotStart, WorkerQuota,
                   WorkerStop, Execute, TypeOK
    <3>2. \A v \in Worker : v # w => down'[v] = down[v]
      BY <1>18 DEF WorkerStep, WorkerHandler, WorkerStart, WorkerCannotStart, WorkerQuota,
                   WorkerStop, Execute, Handle, TypeOK
    <3>. QED BY <3>1, <3>2
  <2>4. DeadIdle'
    BY <2>1, <2>2, <2>3 DEF ProcInv, DeadIdle
  <2>. QED BY <1>s, <1>u, <2>1, <2>4 DEF ProcInv
<1>20. ASSUME NEW w \in Worker, StreamLost(w) \/ QueueFull(w) PROVE ProcInv'
  <2>1. /\ UNCHANGED <<proc, engine, joined, recv>> /\ proc[w] = "alive"
        /\ \A v \in Worker : v # w => down'[v] = down[v]
    BY <1>20 DEF StreamLost, QueueFull, TypeOK
  <2>2. \A s \in Slot : DOMAIN sending'[s] \subseteq DOMAIN sending[s]
    BY <1>20 DEF StreamLost, QueueFull
  <2>3. DeadIdle' /\ Strangers'
    BY <2>1, <2>2 DEF ProcInv, DeadIdle, Strangers
  <2>. QED BY <1>u, <2>1, <2>3 DEF ProcInv
<1>19. CASE Agent
  BY <1>4, <1>5, <1>6, <1>7, <1>8, <1>9, <1>10, <1>11, <1>12, <1>19, Zenon DEF Agent, StopRun
<1>. QED BY <1>1, <1>2, <1>3, <1>13, <1>14, <1>15, <1>16, <1>17, <1>18, <1>19, <1>20, Zenon
     DEF Next, Session
-----------------------------------------------------------------------------
(***************************************************************************)
(* Stops.  stopRun works under stopMu, so one goroutine at a time is past  *)
(* its first step; the run it has broadcast to stays the agent's until it  *)
(* clears it, there is none while it waits for the processes, and a start  *)
(* that has superseded the previous run finds neither a run nor a stop.    *)
(***************************************************************************)
Holding == {"awaiting", "clearing", "reaping"}

StopInv ==
    /\ \A p, q \in Proc : stop[p].pc \in Holding /\ stop[q].pc \in Holding => p = q
    /\ \A p \in Proc : stop[p].pc \in {"awaiting", "clearing"} =>
          run.gen \in Gen /\ run.gen = stop[p].gen
    /\ \A p \in Proc : stop[p].pc = "reaping" => run.gen = NoGen
    /\ recv.pc # "superseding" => stop["recv"].pc = "idle"
    /\ recv.pc = "superseding" /\ stop["recv"].pc = "idle" => run.gen = NoGen /\ StopMuFree

LEMMA RunIs ==
    ASSUME Known
    PROVE  (run = NoRun <=> run.gen = NoGen) /\ (run # NoRun <=> run.gen \in Gen)
<1>1. run = NoRun => run.gen = NoGen
  BY DEF NoRun
<1>2. run # NoRun => run.gen \in Gen
  BY DEF Known
<1>. QED BY <1>1, <1>2, Numbers

(***************************************************************************)
(* Every other step leaves the generation of the agent's run, the receive  *)
(* loop's part in a start and the stops alone.                             *)
(***************************************************************************)
LEMMA StopFrame ==
    ASSUME TypeOK, Next
    PROVE  \/ /\ run'.gen = run.gen /\ UNCHANGED stop
              /\ recv'.pc = "superseding" <=> recv.pc = "superseding"
           \/ Command \/ Adopt \/ (\E p \in Stopper : OnStopRun(p)) \/ (\E p \in Proc : StopRun(p))
<1>. USE DEF agentVars, workerVars, links, reportVars
<1>r. run \in AgentRun /\ recv \in Receiver
  BY DEF TypeOK
<1>1. ASSUME NEW quota \in Requote, OnSetQuota(quota)
      PROVE  run'.gen = run.gen /\ UNCHANGED <<stop, recv>>
  BY <1>1, <1>r DEF OnSetQuota, AgentRun
<1>2. CASE Spawn
  <2>1. recv.pc = "spawning" /\ UNCHANGED <<run, stop>>
    BY <1>2 DEF Spawn
  <2>2. recv'.pc # "superseding"
    BY <1>2, <1>r DEF Spawn, Receiver
  <2>. QED BY <2>1, <2>2
<1>3. CASE SpawnFailure
  BY <1>3, <1>r DEF SpawnFailure, Receiver
<1>4. ASSUME NEW g \in Gen, DispatchStale(g) \/ DispatchRebalance(g) \/ DispatchNobody(g)
      PROVE  UNCHANGED <<run, stop, recv>>
  BY <1>4 DEF DispatchStale, DispatchRebalance, DispatchNobody
<1>5. CASE RebalanceNothing
  BY <1>5 DEF RebalanceNothing
<1>6. ASSUME NEW s \in Slot, Rebalance(s) \/ RebalanceSend(s)
      PROVE  run'.gen = run.gen /\ UNCHANGED <<stop, recv>>
  BY <1>6, <1>r DEF Rebalance, RebalanceSend, AgentRun
<1>7. ASSUME NEW w \in Worker,
             OnJoin(w) \/ StreamLost(w) \/ QueueFull(w) \/ Exit(w) \/ Crash(w) \/ WorkerStep(w)
      PROVE  UNCHANGED <<run, stop, recv>>
  BY <1>7 DEF OnJoin, StreamLost, QueueFull, Exit, Crash, Die, WorkerStep, WorkerHandler, WorkerStart,
              WorkerCannotStart, WorkerQuota, WorkerStop, Execute
<1>8. ASSUME NEW w \in Worker, Session(w)
      PROVE  run'.gen = run.gen /\ UNCHANGED <<stop, recv>>
  BY <1>8, <1>r DEF Session, SuperviseWorker, OnLeave, OnRunStatus, RelayStatus, AgentRun
<1>9. CASE Agent
  BY <1>2, <1>3, <1>4, <1>5, <1>6, <1>9 DEF Agent
<1>. QED BY <1>1, <1>7, <1>8, <1>9 DEF Next

LEMMA StopRunEffect ==
    ASSUME TypeOK, Known, NEW p \in Proc, StopRun(p)
    PROVE  /\ \A q \in Proc : q # p => stop'[q] = stop[q]
           /\ UNCHANGED <<recv, proc>>
           /\ \/ /\ stop[p].pc \in {"hard", "graceful"} /\ StopMuFree /\ run.gen = NoGen
                 /\ UNCHANGED run /\ stop'[p].pc = "idle" /\ stop'[p].gen = stop[p].gen
              \/ /\ stop[p].pc \in {"hard", "graceful"} /\ StopMuFree /\ run.gen \in Gen
                 /\ UNCHANGED run /\ stop'[p].pc \in {"awaiting", "clearing"}
                 /\ stop'[p].gen = run.gen
              \/ /\ stop[p].pc = "awaiting" /\ stop'[p].pc = "clearing"
                 /\ stop'[p].gen = stop[p].gen /\ UNCHANGED run
              \/ /\ stop[p].pc = "clearing" /\ stop'[p].pc = "reaping"
                 /\ stop'[p].gen = stop[p].gen /\ stop'[p].victims = Procs
                 /\ run' = IF run.gen = stop[p].gen THEN NoRun ELSE run
              \/ /\ stop[p].pc = "reaping" /\ stop'[p].pc = "idle" /\ UNCHANGED run
                 /\ stop'[p].gen = stop[p].gen
                 /\ \A w \in stop[p].victims : proc[w] # "alive"
<1>. USE DEF workerVars, links
<1>s. stop \in [Proc -> Stopping] /\ stop[p] \in Stopping
  BY DEF TypeOK
<1>1. CASE StopNothing(p)
  BY <1>1, <1>s, RunIs DEF StopNothing, Stopping
<1>2. CASE StopBroadcast(p)
  <2>1. /\ stop[p].pc \in {"hard", "graceful"} /\ StopMuFree /\ run.gen \in Gen
        /\ UNCHANGED <<run, recv, proc>>
    BY <1>2, RunIs DEF StopBroadcast
  <2>2. /\ \A q \in Proc : q # p => stop'[q] = stop[q]
        /\ stop'[p].pc \in {"awaiting", "clearing"} /\ stop'[p].gen = run.gen
    BY <1>2, <1>s DEF StopBroadcast, Stopping
  <2>. QED BY <2>1, <2>2
<1>3. CASE StopAwaited(p)
  BY <1>3, <1>s DEF StopAwaited, Stopping
<1>4. CASE StopClear(p)
  BY <1>4, <1>s DEF StopClear, Stopping
<1>5. CASE StopReaped(p)
  BY <1>5, <1>s DEF StopReaped, Stopping
<1>. QED BY <1>1, <1>2, <1>3, <1>4, <1>5 DEF StopRun

LEMMA StepKeepsStops ==
    ASSUME TypeOK, Known, StopInv, Next
    PROVE  StopInv'
<1>. USE DEF workerVars, links
<1>s. stop \in [Proc -> Stopping] /\ "recv" \in Proc /\ Stopper \subseteq Proc /\ "recv" \notin Stopper
  BY Numbers DEF TypeOK
<1>1. ASSUME run'.gen = run.gen, UNCHANGED stop,
             recv'.pc = "superseding" <=> recv.pc = "superseding"
      PROVE  StopInv'
  BY <1>1 DEF StopInv, StopMuFree
<1>2. CASE Command
  <2>1. /\ recv.pc = "idle" /\ recv'.pc = "superseding" /\ UNCHANGED run
        /\ stop' = [stop EXCEPT !["recv"].pc = "hard"]
    BY <1>2 DEF Command, OnStartRun
  <2>2. stop'["recv"].pc = "hard" /\ \A q \in Proc : q # "recv" => stop'[q] = stop[q]
    BY <1>s, <2>1 DEF Stopping
  <2>. QED BY <1>s, <2>1, <2>2 DEF StopInv, Holding
<1>3. CASE Adopt
  <2>1. /\ recv.pc = "superseding" /\ stop["recv"].pc = "idle" /\ UNCHANGED stop
        /\ recv'.pc = "spawning"
    BY <1>3 DEF Adopt, TypeOK, Receiver
  <2>2. StopMuFree
    BY <2>1 DEF StopInv
  <2>. QED BY <2>1, <2>2 DEF StopInv, StopMuFree, Holding
<1>4. ASSUME NEW p \in Stopper, OnStopRun(p) PROVE StopInv'
  <2>1. /\ recv.pc = "idle" /\ stop[p].pc = "idle" /\ UNCHANGED <<run, recv>>
        /\ stop' = [stop EXCEPT ![p].pc = "graceful"]
    BY <1>4 DEF OnStopRun
  <2>2. stop'[p].pc = "graceful" /\ \A q \in Proc : q # p => stop'[q] = stop[q]
    BY <1>s, <2>1 DEF Stopping
  <2>. QED BY <1>s, <2>1, <2>2 DEF StopInv, Holding
<1>5. ASSUME NEW p \in Proc, StopRun(p) PROVE StopInv'
  <2>0. NoRun.gen = NoGen
    BY DEF NoRun
  <2>1. \A q \in Proc : q # p => stop'[q] = stop[q]
    BY <1>5, StopRunEffect
  <2>2. \A q \in Proc : stop[p].pc \in Holding /\ q # p => stop[q].pc \notin Holding
    BY DEF StopInv
  <2>3. StopMuFree => \A q \in Proc : stop[q].pc \notin Holding
    BY DEF StopMuFree, Holding
  <2>4. \A q \in Proc : q # p => stop'[q].pc \notin Holding
    BY <1>5, <2>1, <2>2, <2>3, StopRunEffect DEF Holding
  <2>5. UNCHANGED recv
    BY <1>5, StopRunEffect
  <2>6. recv.pc # "superseding" => stop'["recv"].pc = "idle"
    BY <1>5, <1>s, <2>1, StopRunEffect DEF StopInv
  <2>7. /\ stop'[p].pc \in {"awaiting", "clearing"} => run'.gen \in Gen /\ run'.gen = stop'[p].gen
        /\ stop'[p].pc = "reaping" => run'.gen = NoGen
    BY <1>5, <2>0, StopRunEffect DEF StopInv
  <2>8. ASSUME recv.pc = "superseding", stop'["recv"].pc = "idle"
        PROVE  run'.gen = NoGen /\ StopMuFree'
    <3>1. CASE p = "recv"
      <4>1. run'.gen = NoGen
        BY <1>5, <2>8, <3>1, StopRunEffect DEF StopInv
      <4>2. StopMuFree'
        BY <2>4, <2>8, <3>1 DEF StopMuFree, Holding
      <4>. QED BY <4>1, <4>2
    <3>2. CASE p # "recv"
      <4>1. run.gen = NoGen /\ StopMuFree
        BY <1>s, <2>1, <2>8, <3>2 DEF StopInv
      <4>2. run'.gen = NoGen /\ stop'[p].pc = "idle"
        BY <1>5, <2>3, <4>1, Numbers, StopRunEffect DEF Holding
      <4>3. StopMuFree'
        BY <2>4, <4>2 DEF StopMuFree, Holding
      <4>. QED BY <4>2, <4>3
    <3>. QED BY <3>1, <3>2
  <2>9. /\ \A q, r \in Proc : stop'[q].pc \in Holding /\ stop'[r].pc \in Holding => q = r
        /\ \A q \in Proc : stop'[q].pc \in {"awaiting", "clearing"} =>
              run'.gen \in Gen /\ run'.gen = stop'[q].gen
        /\ \A q \in Proc : stop'[q].pc = "reaping" => run'.gen = NoGen
    BY <2>4, <2>7 DEF Holding
  <2>. QED BY <2>5, <2>6, <2>8, <2>9 DEF StopInv
<1>. QED BY <1>1, <1>2, <1>3, <1>4, <1>5, StopFrame
-----------------------------------------------------------------------------
(***************************************************************************)
(* Starts.  A start of a run for a worker is waiting to be sent, on its    *)
(* way, or has been handled.  Due: the worker executes the run or will.    *)
(***************************************************************************)
Queued(w, g) == \E i \in DOMAIN down[w] : down[w][i].kind = "start" /\ down[w][i].gen = g
Posted(w, g) ==
    \E s \in Slot : /\ w \in DOMAIN sending[s]
                    /\ sending[s][w].kind = "start" /\ sending[s][w].gen = g

Due(w, g) == Queued(w, g) \/ Posted(w, g) \/ (Executing(w) /\ engine[w].gen = g)
Ever(w, g) == Queued(w, g) \/ Posted(w, g) \/ engine[w].gen = g

LEMMA AppendIs ==
    ASSUME NEW q \in Seq(Message), NEW m \in Message
    PROVE  /\ DOMAIN Append(q, m) = DOMAIN q \cup {Len(q) + 1} /\ Len(q) + 1 \notin DOMAIN q
           /\ \A i \in DOMAIN q : Append(q, m)[i] = q[i]
           /\ Append(q, m)[Len(q) + 1] = m
OBVIOUS

LEMMA TailIs ==
    ASSUME NEW q \in Seq(Message), q # <<>>
    PROVE  /\ 1 \in DOMAIN q /\ q[1] = Head(q) /\ Tail(q) \in Seq(Message)
           /\ \A i \in DOMAIN Tail(q) :
                  i \in Nat \ {0} /\ i + 1 \in DOMAIN q /\ Tail(q)[i] = q[i + 1]
OBVIOUS

LEMMA PrefixIs ==
    ASSUME NEW q \in Seq(Message), NEW k \in 0 .. Len(q)
    PROVE  /\ DOMAIN SubSeq(q, 1, k) \subseteq DOMAIN q
           /\ \A i \in DOMAIN SubSeq(q, 1, k) : SubSeq(q, 1, k)[i] = q[i]
OBVIOUS

(***************************************************************************)
(* What a step does to the workers and to the starts on their way.         *)
(***************************************************************************)
Undisturbed ==
    /\ UNCHANGED sending
    /\ \A w \in Worker : proc'[w] = "alive" =>
          proc[w] \in {"none", "alive"} /\ engine'[w] = engine[w] /\ down'[w] = down[w]

ToldToStop ==
    /\ UNCHANGED <<sending, engine, proc>>
    /\ \A w \in Worker : \/ down'[w] = down[w]
                         \/ \E m \in Message : m.kind = "stop" /\ down'[w] = Append(down[w], m)

Others(w) ==
    /\ UNCHANGED <<sending, proc>> /\ proc[w] = "alive"
    /\ \A v \in Worker : v # w => engine'[v] = engine[v] /\ down'[v] = down[v]

Shorter(w) ==
    /\ UNCHANGED <<proc, engine>> /\ proc[w] = "alive"
    /\ \A v \in Worker : v # w => down'[v] = down[v]
    /\ \E k \in 0 .. Len(down[w]) : down'[w] = SubSeq(down[w], 1, k)
    /\ \A s \in Slot : /\ DOMAIN sending'[s] \subseteq DOMAIN sending[s]
                       /\ \A v \in DOMAIN sending'[s] : sending'[s][v] = sending[s][v]

Begins(w) ==
    /\ Others(w) /\ down[w] # <<>> /\ Head(down[w]).kind = "start"
    /\ down'[w] = Tail(down[w]) /\ engine'[w].gen = Head(down[w]).gen

GoesOn(w) ==
    /\ Others(w) /\ engine'[w].gen = engine[w].gen /\ (Executing(w)' => Executing(w))
    /\ down'[w] = down[w] \/ (down[w] # <<>> /\ down'[w] = Tail(down[w]))

LEMMA Effects ==
    ASSUME TypeOK, Known, ProcInv, Next
    PROVE  \/ Undisturbed \/ ToldToStop
           \/ \E w \in Worker : Begins(w) \/ GoesOn(w) \/ Shorter(w)
           \/ \E s \in Slot : Rebalance(s) \/ RebalanceSend(s)
<1>. USE DEF agentVars, workerVars, links, reportVars
<1>u. ASSUME UNCHANGED <<sending, proc, engine, down>> PROVE Undisturbed
  BY <1>u DEF Undisturbed
<1>1. CASE Command
  BY <1>1, <1>u DEF Command, OnStartRun
<1>2. ASSUME NEW quota \in Requote, OnSetQuota(quota) PROVE Undisturbed
  BY <1>2, <1>u DEF OnSetQuota
<1>3. ASSUME NEW p \in Stopper, OnStopRun(p) PROVE Undisturbed
  BY <1>3, <1>u DEF OnStopRun
<1>4. CASE Adopt \/ SpawnFailure \/ RebalanceNothing
  BY <1>4, <1>u DEF Adopt, SpawnFailure, RebalanceNothing
<1>5. CASE Spawn
  <2>. DEFINE n == WorkerOf(recv.gen, recv.next)
  <2>1. recv.gen \in Gen /\ recv.next \in 0 .. WorkerCount - 1 /\ recv.pc = "spawning"
    BY <1>5 DEF Spawn, Known
  <2>2. recv.next >= recv.next
    BY <2>1, Numbers
  <2>3. n \in Worker /\ proc[n] = "none"
    BY <2>1, <2>2, WorkerOfType DEF ProcInv, Unspawned, Upcoming
  <2>4. proc' = [proc EXCEPT ![n] = "alive"] /\ UNCHANGED <<down, engine, sending>>
    BY <1>5 DEF Spawn
  <2>. HIDE DEF n
  <2>. QED BY <2>3, <2>4 DEF Undisturbed, TypeOK
<1>6. ASSUME NEW g \in Gen, DispatchStale(g) \/ DispatchRebalance(g) \/ DispatchNobody(g)
      PROVE  Undisturbed
  BY <1>6, <1>u DEF DispatchStale, DispatchRebalance, DispatchNobody
<1>7. ASSUME NEW p \in Proc, StopNothing(p) \/ StopAwaited(p) \/ StopClear(p) \/ StopReaped(p)
      PROVE  Undisturbed
  BY <1>7, <1>u DEF StopNothing, StopAwaited, StopClear, StopReaped
<1>8. ASSUME NEW p \in Proc, StopBroadcast(p) PROVE ToldToStop
  <2>1. run.gen \in Gen
    BY <1>8, RunIs DEF StopBroadcast
  <2>2. StopMessage \in Message /\ StopMessage.kind = "stop"
    BY <2>1 DEF StopMessage, Message
  <2>3. \A w \in Worker : down'[w] = down[w] \/ down'[w] = Append(down[w], StopMessage)
    BY <1>8 DEF StopBroadcast
  <2>4. UNCHANGED <<sending, engine, proc>>
    BY <1>8 DEF StopBroadcast
  <2>. QED BY <2>2, <2>3, <2>4 DEF ToldToStop
<1>9. ASSUME NEW w \in Worker, OnJoin(w) \/ OnLeave(w) \/ OnRunStatus(w) \/ RelayStatus(w)
      PROVE  Undisturbed
  BY <1>9, <1>u DEF OnJoin, OnLeave, OnRunStatus, RelayStatus
<1>10. ASSUME NEW w \in Worker, SuperviseWorker(w) PROVE Undisturbed
  BY <1>10 DEF SuperviseWorker, Undisturbed, TypeOK
<1>11. ASSUME NEW w \in Worker, Exit(w) \/ Crash(w) PROVE Undisturbed
  <2>1. /\ Die(w) /\ proc' = [proc EXCEPT ![w] = "exited"]
        /\ engine' = [engine EXCEPT ![w] = NotStarted]
        /\ down' = [down EXCEPT ![w] = <<>>] /\ UNCHANGED sending
    BY <1>11 DEF Exit, Crash, Die
  <2>. QED BY <2>1 DEF Undisturbed, TypeOK
<1>12. ASSUME NEW w \in Worker, WorkerHandler(w) PROVE Begins(w) \/ GoesOn(w)
  <2>e. engine[w] \in WorkerRun /\ engine \in [Worker -> WorkerRun] /\ down \in [Worker -> Seq(Message)]
    BY DEF TypeOK
  <2>0. /\ proc[w] = "alive" /\ down[w] # <<>> /\ down' = [down EXCEPT ![w] = Tail(down[w])]
        /\ UNCHANGED <<sending, proc>>
    BY <1>12 DEF WorkerHandler, WorkerStart, WorkerCannotStart, WorkerQuota, WorkerStop, Handle
  <2>1. CASE WorkerStart(w)
    <3>. DEFINE new == [gen |-> Head(down[w]).gen, quota |-> Head(down[w]).quota,
                        slice |-> Head(down[w]).slice, st |-> "running"]
    <3>1. engine' = [engine EXCEPT ![w] = new] /\ Head(down[w]).kind = "start"
      BY <2>1 DEF WorkerStart, Handle
    <3>2. new.gen = Head(down[w]).gen
      OBVIOUS
    <3>. HIDE DEF new
    <3>. QED BY <2>e, <2>0, <3>1, <3>2 DEF Begins, Others
  <2>2. CASE WorkerCannotStart(w)
    BY <2>e, <2>0, <2>2 DEF WorkerCannotStart, GoesOn, Others, Executing
  <2>3. CASE WorkerQuota(w)
    <3>. DEFINE new == [engine[w] EXCEPT !.quota = Head(down[w]).quota]
    <3>1. engine' = engine \/ engine' = [engine EXCEPT ![w] = new]
      BY <2>3 DEF WorkerQuota
    <3>2. new.gen = engine[w].gen /\ new.st = engine[w].st
      BY <2>e DEF WorkerRun
    <3>. HIDE DEF new
    <3>. QED BY <2>e, <2>0, <3>1, <3>2 DEF GoesOn, Others, Executing
  <2>4. CASE WorkerStop(w)
    <3>. DEFINE new == [engine[w] EXCEPT !.st = "stopping"]
    <3>1. engine' = engine \/ (Executing(w) /\ engine' = [engine EXCEPT ![w] = new])
      BY <2>4 DEF WorkerStop, SameRun
    <3>2. new.gen = engine[w].gen
      BY <2>e DEF WorkerRun
    <3>. HIDE DEF new
    <3>. QED BY <2>e, <2>0, <3>1, <3>2 DEF GoesOn, Others, Executing
  <2>. QED BY <1>12, <2>1, <2>2, <2>3, <2>4 DEF WorkerHandler
<1>13. ASSUME NEW w \in Worker, NEW ph \in Terminal, Execute(w, ph) PROVE GoesOn(w)
  <2>. DEFINE new == [engine[w] EXCEPT !.st = "done"]
  <2>e. engine[w] \in WorkerRun /\ engine \in [Worker -> WorkerRun]
    BY DEF TypeOK
  <2>1. Executing(w) /\ engine' = [engine EXCEPT ![w] = new] /\ UNCHANGED <<sending, proc, down>>
    BY <1>13 DEF Execute
  <2>2. new.gen = engine[w].gen
    BY <2>e DEF WorkerRun
  <2>3. proc[w] = "alive"
    BY <2>1 DEF Executing, ProcInv, DeadIdle, NotStarted
  <2>. HIDE DEF new
  <2>. QED BY <2>e, <2>1, <2>2, <2>3 DEF GoesOn, Others
<1>15. ASSUME NEW w \in Worker, StreamLost(w) PROVE Shorter(w)
  <2>1. down \in [Worker -> Seq(Message)]
    BY DEF TypeOK
  <2>2. PICK k \in 0 .. Len(down[w]) : down' = [down EXCEPT ![w] = SubSeq(down[w], 1, k)]
    BY <1>15 DEF StreamLost
  <2>3. /\ UNCHANGED <<proc, engine>> /\ proc[w] = "alive"
        /\ sending' = [s \in Slot |-> [v \in DOMAIN sending[s] \ {w} |-> sending[s][v]]]
    BY <1>15 DEF StreamLost
  <2>. QED BY <2>1, <2>2, <2>3 DEF Shorter
<1>16. ASSUME NEW w \in Worker, QueueFull(w) PROVE Shorter(w)
  <2>1. down \in [Worker -> Seq(Message)] /\ down[w] \in Seq(Message)
    BY DEF TypeOK
  <2>2. UNCHANGED <<proc, engine, sending>> /\ proc[w] = "alive"
    BY <1>16 DEF QueueFull
  <2>3. \/ down[w] # <<>> /\ down' = [down EXCEPT ![w] = SubSeq(down[w], 1, Len(down[w]) - 1)]
        \/ UNCHANGED down
    BY <1>16 DEF QueueFull
  <2>4. Len(down[w]) \in 0 .. Len(down[w]) /\ SubSeq(down[w], 1, Len(down[w])) = down[w]
    BY <2>1
  <2>5. down[w] # <<>> => Len(down[w]) - 1 \in 0 .. Len(down[w])
    BY <2>1
  <2>. QED BY <2>1, <2>2, <2>3, <2>4, <2>5 DEF Shorter
<1>14. CASE Agent
  BY <1>4, <1>5, <1>6, <1>7, <1>8, <1>14, Zenon DEF Agent, StopRun
<1>. QED BY <1>1, <1>2, <1>3, <1>9, <1>10, <1>11, <1>12, <1>13, <1>14, <1>15,
        <1>16, Zenon
     DEF Next, Session, WorkerStep

(***************************************************************************)
(* A worker whose process is not alive has been started on nothing, and so *)
(* has one that is about to be spawned.                                    *)
(***************************************************************************)
LEMMA NewcomersAreIdle ==
    ASSUME TypeOK, ProcInv, NEW w \in Worker, proc[w] = "none", NEW g \in Gen
    PROVE  ~Queued(w, g) /\ ~Posted(w, g) /\ engine[w].gen = NoGen /\ ~Ever(w, g)
<1>1. engine[w] = NotStarted /\ down[w] = <<>>
  BY DEF ProcInv, DeadIdle
<1>2. engine[w].gen = NoGen /\ NoGen \notin Gen
  BY <1>1, Numbers DEF NotStarted
<1>3. \A s \in Slot : w \notin DOMAIN sending[s]
  BY DEF ProcInv, Strangers
<1>4. ~Queued(w, g)
  BY <1>1 DEF Queued
<1>5. ~Posted(w, g)
  BY <1>3 DEF Posted
<1>. QED BY <1>2, <1>4, <1>5 DEF Ever

LEMMA RebalancePosts ==
    ASSUME TypeOK, Known, NEW s \in Slot, Rebalance(s)
    PROVE  /\ run.gen \in Gen /\ UNCHANGED <<proc, engine, down, joined>>
           /\ linked \subseteq joined
           /\ DOMAIN sending[s] = {} /\ DOMAIN sending'[s] = linked
           /\ \A w \in linked : /\ sending'[s][w] = MessageTo(w) /\ MessageTo(w).gen = run.gen
                                /\ MessageTo(w).kind = "start" => w \notin run.dispatched
           /\ \A t \in Slot : t # s => sending'[t] = sending[t]
<1>. USE DEF workerVars, links
<1>1. run.gen \in Gen
  BY RunIs DEF Rebalance
<1>2. run.quota \in Nat /\ joined \subseteq Worker
  <2>1. run \in AgentRun /\ joined \subseteq Worker
    BY DEF TypeOK
  <2>. QED BY <2>1 DEF AgentRun
<1>8. linked \subseteq joined
  BY DEF TypeOK
<1>3. \A w \in joined : MessageTo(w).gen = run.gen
  BY <1>1, <1>2, MessageType
<1>4. \A w \in joined : MessageTo(w).kind = "start" => w \notin run.dispatched
  BY DEF MessageTo
<1>5. /\ sending' = [sending EXCEPT ![s] = [w \in linked |-> MessageTo(w)]]
      /\ UNCHANGED <<proc, engine, down, joined>> /\ DOMAIN sending[s] = {}
  BY DEF Rebalance
<1>6. DOMAIN sending = Slot
  BY DEF TypeOK
<1>7. sending'[s] = [w \in linked |-> MessageTo(w)] /\ \A t \in Slot : t # s => sending'[t] = sending[t]
  BY <1>5, <1>6
<1>. QED BY <1>1, <1>3, <1>4, <1>5, <1>7, <1>8

LEMMA SendMoves ==
    ASSUME TypeOK, NEW s \in Slot, RebalanceSend(s)
    PROVE  \E w \in DOMAIN sending[s] :
             /\ w \in Worker /\ sending[s][w] \in Message
             /\ \A v \in Worker : v # w \/ proc[v] # "alive" => down'[v] = down[v]
             /\ proc[w] = "alive" => down'[w] = Append(down[w], sending[s][w])
             /\ DOMAIN sending'[s] = DOMAIN sending[s] \ {w}
             /\ \A v \in DOMAIN sending'[s] : sending'[s][v] = sending[s][v]
             /\ \A t \in Slot : t # s => sending'[t] = sending[t]
             /\ UNCHANGED <<proc, engine>>
<1>. USE DEF agentVars
<1>1. PICK w \in DOMAIN sending[s] :
           /\ w \in Worker /\ sending[s][w] \in Message
           /\ down' = IF proc[w] = "alive" THEN [down EXCEPT ![w] = Append(down[w], sending[s][w])]
                      ELSE down
           /\ sending' = [sending EXCEPT ![s] =
                            [v \in DOMAIN sending[s] \ {w} |-> sending[s][v]]]
  BY RebalanceSendTyped
<1>2. DOMAIN sending = Slot /\ down \in [Worker -> Seq(Message)]
  BY DEF TypeOK
<1>3. /\ sending'[s] = [v \in DOMAIN sending[s] \ {w} |-> sending[s][v]]
      /\ \A t \in Slot : t # s => sending'[t] = sending[t]
  BY <1>1, <1>2
<1>4. /\ \A v \in Worker : v # w \/ proc[v] # "alive" => down'[v] = down[v]
      /\ proc[w] = "alive" => down'[w] = Append(down[w], sending[s][w])
  BY <1>1, <1>2
<1>5. UNCHANGED <<proc, engine>>
  BY DEF RebalanceSend
<1>6. /\ DOMAIN sending'[s] = DOMAIN sending[s] \ {w}
      /\ \A v \in DOMAIN sending'[s] : sending'[s][v] = sending[s][v]
  BY <1>3
<1>. QED BY <1>1, <1>3, <1>4, <1>5, <1>6

(***************************************************************************)
(* Only a rebalance makes a new start, for a worker that has joined and    *)
(* for the agent's run.                                                    *)
(***************************************************************************)
LEMMA StartsComeFromRebalance ==
    ASSUME TypeOK, Known, ProcInv, Next, NEW w \in Worker, proc'[w] = "alive", NEW g \in Gen
    PROVE  /\ Due(w, g)' => proc[w] = "alive"
                            /\ (Due(w, g) \/ \E s \in Slot : Rebalance(s) /\ g = run.gen)
           /\ Ever(w, g)' => proc[w] = "alive"
                             /\ (Ever(w, g) \/ \E s \in Slot : Rebalance(s) /\ g = run.gen
                                                              /\ w \in joined)
<1>. DEFINE Goal == /\ Due(w, g)' => proc[w] = "alive" /\ Due(w, g)
                    /\ Ever(w, g)' => proc[w] = "alive" /\ Ever(w, g)
<1>q. down[w] \in Seq(Message)
  BY DEF TypeOK
<1>e. ASSUME engine'[w] = engine[w], proc[w] = "alive",
             Queued(w, g)' => Queued(w, g) \/ Posted(w, g), Posted(w, g)' => Posted(w, g)
      PROVE  Goal
  BY <1>e DEF Due, Ever, Executing
<1>p. ASSUME UNCHANGED sending PROVE Posted(w, g)' <=> Posted(w, g)
  BY <1>p DEF Posted
<1>d. ASSUME down'[w] = down[w] PROVE Queued(w, g)' <=> Queued(w, g)
  BY <1>d DEF Queued
<1>t. ASSUME down[w] # <<>>, down'[w] = Tail(down[w]) PROVE Queued(w, g)' => Queued(w, g)
  BY <1>q, <1>t, TailIs DEF Queued
<1>1. CASE Undisturbed
  <2>1. /\ proc[w] \in {"none", "alive"} /\ engine'[w] = engine[w] /\ down'[w] = down[w]
        /\ UNCHANGED sending
    BY <1>1 DEF Undisturbed
  <2>2. CASE proc[w] = "none"
    <3>1. ~Queued(w, g) /\ ~Posted(w, g) /\ engine[w].gen = NoGen /\ NoGen \notin Gen
      BY <2>2, NewcomersAreIdle, Numbers
    <3>. QED BY <1>p, <1>d, <2>1, <3>1 DEF Due, Ever
  <2>. QED BY <1>e, <1>p, <1>d, <2>1, <2>2
<1>2. CASE ToldToStop
  <2>1. UNCHANGED <<sending, engine, proc>>
    BY <1>2 DEF ToldToStop
  <2>2. CASE down'[w] = down[w]
    BY <1>e, <1>p, <1>d, <2>1, <2>2
  <2>3. ASSUME NEW m \in Message, m.kind = "stop", down'[w] = Append(down[w], m)
        PROVE  Queued(w, g)' => Queued(w, g)
    BY <1>q, <2>3, AppendIs DEF Queued
  <2>. QED BY <1>2, <1>e, <1>p, <2>1, <2>2, <2>3 DEF ToldToStop
<1>3. ASSUME NEW v \in Worker, Begins(v) PROVE Goal
  <2>1. UNCHANGED <<sending, proc>>
    BY <1>3 DEF Begins, Others
  <2>2. CASE v # w
    BY <1>3, <1>e, <1>p, <1>d, <2>1, <2>2 DEF Begins, Others
  <2>3. CASE v = w
    <3>1. /\ down[w] # <<>> /\ Head(down[w]).kind = "start" /\ down'[w] = Tail(down[w])
          /\ engine'[w].gen = Head(down[w]).gen
      BY <1>3, <2>3 DEF Begins
    <3>2. engine'[w].gen = g => Queued(w, g)
      BY <1>q, <3>1, TailIs DEF Queued
    <3>. QED BY <1>p, <1>t, <2>1, <3>1, <3>2 DEF Due, Ever
  <2>. QED BY <2>2, <2>3
<1>4. ASSUME NEW v \in Worker, GoesOn(v) PROVE Goal
  <2>1. UNCHANGED <<sending, proc>>
    BY <1>4 DEF GoesOn, Others
  <2>2. CASE v # w
    BY <1>4, <1>e, <1>p, <1>d, <2>1, <2>2 DEF GoesOn, Others
  <2>3. CASE v = w
    BY <1>4, <1>p, <1>d, <1>t, <2>1, <2>3 DEF GoesOn, Due, Ever
  <2>. QED BY <2>2, <2>3
<1>5. ASSUME NEW s \in Slot, RebalanceSend(s) PROVE Goal
  <2>1. PICK x \in DOMAIN sending[s] :
             /\ x \in Worker /\ sending[s][x] \in Message
             /\ \A v \in Worker : v # x \/ proc[v] # "alive" => down'[v] = down[v]
             /\ proc[x] = "alive" => down'[x] = Append(down[x], sending[s][x])
             /\ DOMAIN sending'[s] = DOMAIN sending[s] \ {x}
             /\ \A v \in DOMAIN sending'[s] : sending'[s][v] = sending[s][v]
             /\ \A t \in Slot : t # s => sending'[t] = sending[t]
             /\ UNCHANGED <<proc, engine>>
    BY <1>5, SendMoves
  <2>2. Posted(w, g)' => Posted(w, g)
    BY <2>1 DEF Posted
  <2>3. CASE x # w
    BY <1>e, <1>d, <2>1, <2>2, <2>3
  <2>4. CASE x = w
    <3>1. down'[w] = Append(down[w], sending[s][w]) /\ sending[s][w] \in Message
      BY <2>1, <2>4
    <3>2. Queued(w, g)' => Queued(w, g) \/ (sending[s][w].kind = "start" /\ sending[s][w].gen = g)
      BY <1>q, <3>1, AppendIs DEF Queued
    <3>3. Queued(w, g)' => Queued(w, g) \/ Posted(w, g)
      BY <2>1, <2>4, <3>2 DEF Posted
    <3>. QED BY <1>e, <2>1, <2>2, <3>3
  <2>. QED BY <2>3, <2>4
<1>6. ASSUME NEW s \in Slot, Rebalance(s)
      PROVE  /\ proc[w] = "alive" /\ (Due(w, g)' => Due(w, g) \/ g = run.gen)
             /\ Ever(w, g)' => Ever(w, g) \/ (g = run.gen /\ w \in joined)
  <2>1. Posted(w, g)' => Posted(w, g) \/ (g = run.gen /\ w \in joined)
    BY <1>6, RebalancePosts DEF Posted
  <2>2. proc[w] = "alive" /\ engine'[w] = engine[w] /\ (Queued(w, g)' <=> Queued(w, g))
    BY <1>6, <1>d, RebalancePosts
  <2>. QED BY <2>1, <2>2 DEF Due, Ever, Executing
<1>7. ASSUME NEW v \in Worker, Shorter(v) PROVE Goal
  <2>1. Posted(w, g)' => Posted(w, g)
    BY <1>7 DEF Shorter, Posted
  <2>2. CASE v # w
    BY <1>7, <1>e, <1>d, <2>1, <2>2 DEF Shorter
  <2>3. CASE v = w
    <3>1. PICK k \in 0 .. Len(down[w]) : down'[w] = SubSeq(down[w], 1, k)
      BY <1>7, <2>3 DEF Shorter
    <3>2. Queued(w, g)' => Queued(w, g)
      BY <1>q, <3>1, PrefixIs DEF Queued
    <3>. QED BY <1>7, <1>e, <2>1, <3>2 DEF Shorter
  <2>. QED BY <2>2, <2>3
<1>. QED BY <1>1, <1>2, <1>3, <1>4, <1>5, <1>6, <1>7, Effects
-----------------------------------------------------------------------------
(***************************************************************************)
(* A worker is started on a run once.  The generations of its starts, the  *)
(* ones waiting, the ones on their way and the one handled last, all       *)
(* differ; a worker the agent's run has not been dispatched to has no      *)
(* start of that run; and no start is newer than the receive loop's.       *)
(***************************************************************************)
IsStart(m, g) == m.kind = "start" /\ m.gen = g

Unique(w) ==
    \A g \in Gen :
        /\ Queued(w, g) => engine[w].gen # g
        /\ Posted(w, g) => engine[w].gen # g /\ ~Queued(w, g)
        /\ \A i, j \in DOMAIN down[w] : IsStart(down[w][i], g) /\ IsStart(down[w][j], g) => i = j
        /\ \A s, t \in Slot :
              /\ w \in DOMAIN sending[s] /\ w \in DOMAIN sending[t]
              /\ IsStart(sending[s][w], g) /\ IsStart(sending[t][w], g)
              => s = t

UniqueInv == \A w \in Worker : proc[w] = "alive" /\ w \notin forgotten => Unique(w)

FreshInv ==
    \A w \in Worker : proc[w] = "alive" /\ w \notin forgotten /\ run.gen \in Gen /\ w \notin run.dispatched =>
        ~Ever(w, run.gen)

(***************************************************************************)
(* What has been forgotten stays so.                                       *)
(***************************************************************************)
LEMMA ForgottenGrows ==
    ASSUME Next
    PROVE  forgotten \subseteq forgotten'
<1>. USE DEF agentVars, workerVars, links, reportVars
<1>1. ASSUME Command \/ (\E quota \in Requote : OnSetQuota(quota)) \/ (\E p \in Stopper : OnStopRun(p))
      PROVE  UNCHANGED forgotten
  BY <1>1 DEF Command, OnStartRun, OnSetQuota, OnStopRun
<1>2. CASE Adopt \/ Spawn \/ SpawnFailure \/ RebalanceNothing
  BY <1>2 DEF Adopt, Spawn, SpawnFailure, RebalanceNothing
<1>3. ASSUME NEW g \in Gen, DispatchStale(g) \/ DispatchRebalance(g) \/ DispatchNobody(g)
      PROVE  UNCHANGED forgotten
  BY <1>3 DEF DispatchStale, DispatchRebalance, DispatchNobody
<1>4. ASSUME NEW s \in Slot, Rebalance(s) \/ RebalanceSend(s) PROVE UNCHANGED forgotten
  BY <1>4 DEF Rebalance, RebalanceSend
<1>5. ASSUME NEW p \in Proc, StopRun(p) PROVE UNCHANGED forgotten
  BY <1>5 DEF StopRun, StopNothing, StopBroadcast, StopAwaited, StopClear, StopReaped
<1>6. ASSUME NEW w \in Worker,
             OnJoin(w) \/ StreamLost(w) \/ QueueFull(w) \/ Exit(w) \/ Crash(w) \/ WorkerStep(w)
      PROVE  UNCHANGED forgotten
  BY <1>6 DEF OnJoin, StreamLost, QueueFull, Exit, Crash, Die, WorkerStep, WorkerHandler, WorkerStart,
              WorkerCannotStart, WorkerQuota, WorkerStop, Execute
<1>7. ASSUME NEW w \in Worker, Session(w) PROVE forgotten \subseteq forgotten'
  BY <1>7 DEF Session, SuperviseWorker, OnLeave, OnRunStatus, RelayStatus
<1>8. CASE Agent
  BY <1>2, <1>3, <1>4, <1>5, <1>8 DEF Agent
<1>. QED BY <1>1, <1>6, <1>7, <1>8 DEF Next

LEMMA StepKeepsUnique ==
    ASSUME TypeOK, Known, ProcInv, UniqueInv, FreshInv, Next
    PROVE  UniqueInv'
<1>. SUFFICES ASSUME NEW w \in Worker, proc'[w] = "alive", w \notin forgotten', NEW g \in Gen
              PROVE  (/\ Queued(w, g) => engine[w].gen # g
                      /\ Posted(w, g) => engine[w].gen # g /\ ~Queued(w, g)
                      /\ \A i, j \in DOMAIN down[w] :
                            IsStart(down[w][i], g) /\ IsStart(down[w][j], g) => i = j
                      /\ \A s, t \in Slot :
                            /\ w \in DOMAIN sending[s] /\ w \in DOMAIN sending[t]
                            /\ IsStart(sending[s][w], g) /\ IsStart(sending[t][w], g)
                            => s = t)'
  BY DEF UniqueInv, Unique
<1>. DEFINE Apart == \A i, j \in DOMAIN down[w] :
                        IsStart(down[w][i], g) /\ IsStart(down[w][j], g) => i = j
            OnePost == \A s, t \in Slot :
                          /\ w \in DOMAIN sending[s] /\ w \in DOMAIN sending[t]
                          /\ IsStart(sending[s][w], g) /\ IsStart(sending[t][w], g)
                          => s = t
            Goal == /\ Queued(w, g)' => engine'[w].gen # g
                    /\ Posted(w, g)' => engine'[w].gen # g /\ ~Queued(w, g)'
                    /\ Apart' /\ OnePost'
<1>. SUFFICES Goal
  OBVIOUS
<1>q. down[w] \in Seq(Message)
  BY DEF TypeOK
<1>f. w \notin forgotten
  BY ForgottenGrows
<1>a. proc[w] = "alive" => /\ Queued(w, g) => engine[w].gen # g
                           /\ Posted(w, g) => engine[w].gen # g /\ ~Queued(w, g)
                           /\ Apart /\ OnePost
  BY <1>f DEF UniqueInv, Unique
<1>p. ASSUME UNCHANGED sending PROVE (Posted(w, g)' <=> Posted(w, g)) /\ (OnePost => OnePost')
  BY <1>p DEF Posted
<1>d. ASSUME down'[w] = down[w] PROVE (Queued(w, g)' <=> Queued(w, g)) /\ (Apart => Apart')
  BY <1>d DEF Queued
<1>t. ASSUME down[w] # <<>>, down'[w] = Tail(down[w])
      PROVE  (Queued(w, g)' => Queued(w, g)) /\ (Apart => Apart')
  <2>1. \A i \in DOMAIN Tail(down[w]) :
            i \in Nat /\ i + 1 \in DOMAIN down[w] /\ Tail(down[w])[i] = down[w][i + 1]
    BY <1>q, <1>t, TailIs
  <2>2. Queued(w, g)' => Queued(w, g)
    BY <1>t, <2>1 DEF Queued
  <2>3. ASSUME Apart, NEW i \in DOMAIN Tail(down[w]), NEW j \in DOMAIN Tail(down[w]),
               IsStart(Tail(down[w])[i], g), IsStart(Tail(down[w])[j], g)
        PROVE  i = j
    <3>1. i + 1 = j + 1
      BY <2>1, <2>3
    <3>. QED BY <2>1, <3>1
  <2>. QED BY <1>t, <2>2, <2>3
<1>1. CASE Undisturbed
  <2>1. /\ proc[w] \in {"none", "alive"} /\ engine'[w] = engine[w] /\ down'[w] = down[w]
        /\ UNCHANGED sending
    BY <1>1 DEF Undisturbed
  <2>2. CASE proc[w] = "none"
    <3>1. ~Queued(w, g) /\ ~Posted(w, g)
      BY <2>2, NewcomersAreIdle
    <3>2. Apart /\ OnePost
      BY <3>1 DEF Queued, Posted, IsStart
    <3>. QED BY <1>p, <1>d, <2>1, <3>1, <3>2
  <2>3. CASE proc[w] = "alive"
    BY <1>a, <1>p, <1>d, <2>1, <2>3
  <2>. QED BY <2>1, <2>2, <2>3
<1>2. CASE ToldToStop
  <2>1. UNCHANGED <<sending, engine, proc>>
    BY <1>2 DEF ToldToStop
  <2>2. CASE down'[w] = down[w]
    BY <1>a, <1>p, <1>d, <2>1, <2>2
  <2>3. ASSUME NEW m \in Message, m.kind = "stop", down'[w] = Append(down[w], m)
        PROVE  (Queued(w, g)' => Queued(w, g)) /\ (Apart => Apart')
    BY <1>q, <2>3, AppendIs DEF Queued, IsStart
  <2>4. CASE down'[w] # down[w]
    BY <1>2, <1>a, <1>p, <2>1, <2>3, <2>4 DEF ToldToStop
  <2>. QED BY <2>2, <2>4
<1>3. ASSUME NEW v \in Worker, Begins(v) PROVE Goal
  <2>1. UNCHANGED <<sending, proc>> /\ proc[w] = "alive"
    BY <1>3 DEF Begins, Others
  <2>2. CASE v # w
    BY <1>3, <1>a, <1>p, <1>d, <2>1, <2>2 DEF Begins, Others
  <2>3. CASE v = w
    <3>1. /\ down[w] # <<>> /\ Head(down[w]).kind = "start" /\ down'[w] = Tail(down[w])
          /\ engine'[w].gen = Head(down[w]).gen
      BY <1>3, <2>3 DEF Begins
    <3>2. CASE Head(down[w]).gen = g
      <4>1. 1 \in DOMAIN down[w] /\ IsStart(down[w][1], g)
        BY <1>q, <3>1, <3>2, TailIs DEF IsStart
      <4>2. Queued(w, g) /\ ~Posted(w, g)
        BY <1>a, <2>1, <4>1 DEF Queued, IsStart
      <4>3. \A i \in DOMAIN Tail(down[w]) : ~IsStart(Tail(down[w])[i], g)
        <5>. SUFFICES ASSUME NEW i \in DOMAIN Tail(down[w]), IsStart(Tail(down[w])[i], g)
                      PROVE  FALSE
          OBVIOUS
        <5>1. i \in Nat \ {0} /\ i + 1 \in DOMAIN down[w] /\ IsStart(down[w][i + 1], g)
          BY <1>q, <3>1, TailIs
        <5>2. i + 1 = 1
          BY <1>a, <2>1, <4>1, <5>1
        <5>. QED BY <5>1, <5>2
      <4>4. ~Queued(w, g)'
        BY <3>1, <4>3 DEF Queued, IsStart
      <4>. QED BY <1>a, <1>p, <1>t, <2>1, <3>1, <4>2, <4>4
    <3>3. CASE Head(down[w]).gen # g
      BY <1>a, <1>p, <1>t, <2>1, <3>1, <3>3
    <3>. QED BY <3>2, <3>3
  <2>. QED BY <2>2, <2>3
<1>4. ASSUME NEW v \in Worker, GoesOn(v) PROVE Goal
  <2>1. UNCHANGED <<sending, proc>> /\ proc[w] = "alive"
    BY <1>4 DEF GoesOn, Others
  <2>2. engine'[w].gen = engine[w].gen
    BY <1>4 DEF GoesOn, Others
  <2>3. (Queued(w, g)' => Queued(w, g)) /\ (Apart => Apart')
    BY <1>4, <1>d, <1>t DEF GoesOn, Others
  <2>. QED BY <1>a, <1>p, <2>1, <2>2, <2>3
<1>5. ASSUME NEW s \in Slot, RebalanceSend(s) PROVE Goal
  <2>1. PICK x \in DOMAIN sending[s] :
             /\ x \in Worker /\ sending[s][x] \in Message
             /\ \A v \in Worker : v # x \/ proc[v] # "alive" => down'[v] = down[v]
             /\ proc[x] = "alive" => down'[x] = Append(down[x], sending[s][x])
             /\ DOMAIN sending'[s] = DOMAIN sending[s] \ {x}
             /\ \A v \in DOMAIN sending'[s] : sending'[s][v] = sending[s][v]
             /\ \A t \in Slot : t # s => sending'[t] = sending[t]
             /\ UNCHANGED <<proc, engine>>
    BY <1>5, SendMoves
  <2>2. (Posted(w, g)' => Posted(w, g)) /\ (OnePost => OnePost')
    BY <2>1 DEF Posted
  <2>3. CASE x # w
    BY <1>a, <1>d, <2>1, <2>2, <2>3
  <2>4. CASE x = w
    <3>1. /\ down'[w] = Append(down[w], sending[s][w]) /\ sending[s][w] \in Message
          /\ proc[w] = "alive" /\ engine'[w] = engine[w] /\ w \in DOMAIN sending[s]
      BY <2>1, <2>4
    <3>2. CASE IsStart(sending[s][w], g)
      <4>1. Posted(w, g) /\ engine[w].gen # g /\ ~Queued(w, g)
        BY <1>a, <3>1, <3>2 DEF Posted, IsStart
      <4>2. ~Posted(w, g)'
        <5>. SUFFICES ASSUME NEW t \in Slot, w \in DOMAIN sending'[t], IsStart(sending'[t][w], g)
                      PROVE  FALSE
          BY DEF Posted, IsStart
        <5>1. t # s
          BY <2>1, <2>4
        <5>2. w \in DOMAIN sending[t] /\ IsStart(sending[t][w], g)
          BY <2>1, <5>1
        <5>. QED BY <1>a, <3>1, <3>2, <5>1, <5>2
      <4>3. \A i \in DOMAIN down[w] : ~IsStart(down[w][i], g)
        BY <4>1 DEF Queued, IsStart
      <4>4. Apart'
        BY <1>q, <3>1, <4>3, AppendIs
      <4>. QED BY <1>a, <2>2, <3>1, <4>1, <4>2, <4>4
    <3>3. CASE ~IsStart(sending[s][w], g)
      <4>1. (Queued(w, g)' => Queued(w, g)) /\ (Apart => Apart')
        BY <1>q, <3>1, <3>3, AppendIs DEF Queued, IsStart
      <4>. QED BY <1>a, <2>2, <3>1, <4>1
    <3>. QED BY <3>2, <3>3
  <2>. QED BY <2>3, <2>4
<1>6. ASSUME NEW s \in Slot, Rebalance(s) PROVE Goal
  <2>1. /\ run.gen \in Gen /\ UNCHANGED <<proc, engine, down, joined>>
        /\ DOMAIN sending[s] = {} /\ DOMAIN sending'[s] = linked
        /\ \A v \in linked : /\ sending'[s][v] = MessageTo(v) /\ MessageTo(v).gen = run.gen
                             /\ MessageTo(v).kind = "start" => v \notin run.dispatched
        /\ \A t \in Slot : t # s => sending'[t] = sending[t]
    BY <1>6, RebalancePosts
  <2>2. CASE w \in linked /\ IsStart(MessageTo(w), g)
    <3>1. g = run.gen /\ w \notin run.dispatched
      BY <2>1, <2>2 DEF IsStart
    <3>2. ~Queued(w, g) /\ ~Posted(w, g) /\ engine[w].gen # g
      BY <1>f, <2>1, <3>1 DEF FreshInv, Ever
    <3>3. \A t \in Slot : w \in DOMAIN sending'[t] /\ IsStart(sending'[t][w], g) => t = s
      BY <2>1, <3>2 DEF Posted, IsStart
    <3>. QED BY <1>a, <1>d, <2>1, <3>2, <3>3
  <2>3. CASE ~(w \in linked /\ IsStart(MessageTo(w), g))
    <3>1. \A t \in Slot : w \in DOMAIN sending'[t] /\ IsStart(sending'[t][w], g) =>
              t # s /\ w \in DOMAIN sending[t] /\ IsStart(sending[t][w], g)
      BY <2>1, <2>3
    <3>2. (Posted(w, g)' => Posted(w, g)) /\ (OnePost => OnePost')
      BY <3>1 DEF Posted, IsStart
    <3>. QED BY <1>a, <1>d, <2>1, <3>2
  <2>. QED BY <2>2, <2>3
<1>7. ASSUME NEW v \in Worker, Shorter(v) PROVE Goal
  <2>1. UNCHANGED <<proc, engine>> /\ proc[w] = "alive"
    BY <1>7 DEF Shorter
  <2>2. (Posted(w, g)' => Posted(w, g)) /\ (OnePost => OnePost')
    BY <1>7 DEF Shorter, Posted
  <2>3. (Queued(w, g)' => Queued(w, g)) /\ (Apart => Apart')
    <3>1. CASE v # w
      BY <1>7, <1>d, <3>1 DEF Shorter
    <3>2. CASE v = w
      <4>1. PICK k \in 0 .. Len(down[w]) : down'[w] = SubSeq(down[w], 1, k)
        BY <1>7, <3>2 DEF Shorter
      <4>. QED BY <1>q, <4>1, PrefixIs DEF Queued
    <3>. QED BY <3>1, <3>2
  <2>. QED BY <1>a, <2>1, <2>2, <2>3
<1>. QED BY <1>1, <1>2, <1>3, <1>4, <1>5, <1>6, <1>7, Effects

OrderInv ==
    /\ run.gen <= recv.gen /\ (recv.pc = "superseding" => run.gen < recv.gen)
    /\ \A w \in Worker, g \in Gen : proc[w] = "alive" /\ Ever(w, g) =>
          g <= recv.gen /\ (recv.pc = "superseding" => g < recv.gen)

(***************************************************************************)
(* How the agent's run and the generation of its receive loop change.      *)
(***************************************************************************)
LEMMA RunFrame ==
    ASSUME TypeOK, Known, StopInv, Next
    PROVE  \/ /\ run'.gen = run.gen /\ recv'.gen = recv.gen
              /\ recv'.pc = "superseding" => recv.pc = "superseding"
              /\ \A p \in Proc : stop[p].pc = "reaping" => stop'[p] = stop[p]
           \/ /\ UNCHANGED run /\ recv.pc # "superseding" /\ recv'.gen = recv.gen + 1
              /\ \A p \in Proc : stop[p].pc = "reaping" => stop'[p] = stop[p]
           \/ /\ recv.pc = "superseding" /\ recv'.pc = "spawning" /\ run.gen = NoGen
              /\ run'.gen = recv.gen /\ recv'.gen = recv.gen /\ StopMuFree /\ UNCHANGED stop
           \/ \E p \in Proc :
                /\ stop[p].pc = "clearing" /\ stop'[p].pc = "reaping" /\ stop'[p].gen = stop[p].gen
                /\ stop'[p].victims = Procs /\ run.gen = stop[p].gen
                /\ run'.gen = NoGen /\ UNCHANGED <<recv, proc>>
                /\ \A q \in Proc : q # p => stop'[q] = stop[q]
           \/ \E p \in Proc :
                /\ stop[p].pc = "reaping" /\ UNCHANGED <<run, recv, proc>>
                /\ \A w \in stop[p].victims : proc[w] # "alive"
                /\ \A q \in Proc : q # p => stop'[q] = stop[q]
<1>. USE DEF workerVars, links
<1>s. stop \in [Proc -> Stopping] /\ "recv" \in Proc /\ Stopper \subseteq Proc /\ recv \in Receiver
  BY Numbers DEF TypeOK
<1>1. ASSUME run'.gen = run.gen, UNCHANGED stop,
             recv'.pc = "superseding" <=> recv.pc = "superseding", recv'.gen = recv.gen
      PROVE  /\ run'.gen = run.gen /\ recv'.gen = recv.gen
             /\ recv'.pc = "superseding" => recv.pc = "superseding"
             /\ \A p \in Proc : stop[p].pc = "reaping" => stop'[p] = stop[p]
  BY <1>1
<1>2. CASE Command
  <2>1. /\ recv.pc = "idle" /\ recv'.gen = recv.gen + 1 /\ UNCHANGED run
        /\ stop' = [stop EXCEPT !["recv"].pc = "hard"]
    BY <1>2 DEF Command, OnStartRun
  <2>2. stop["recv"].pc = "idle"
    BY <2>1 DEF StopInv
  <2>3. \A q \in Proc : q # "recv" => stop'[q] = stop[q]
    BY <1>s, <2>1
  <2>. QED BY <2>1, <2>2, <2>3
<1>3. CASE Adopt
  <2>1. /\ recv.pc = "superseding" /\ stop["recv"].pc = "idle" /\ UNCHANGED stop
        /\ run'.gen = recv.gen
    BY <1>3 DEF Adopt
  <2>2. recv'.pc = "spawning" /\ recv'.gen = recv.gen
    BY <1>3, <1>s DEF Adopt, Receiver
  <2>3. run.gen = NoGen /\ StopMuFree
    BY <2>1 DEF StopInv
  <2>. QED BY <2>1, <2>2, <2>3
<1>4. ASSUME NEW p \in Stopper, OnStopRun(p)
      PROVE  /\ UNCHANGED <<run, recv>>
             /\ \A q \in Proc : stop[q].pc = "reaping" => stop'[q] = stop[q]
  BY <1>4, <1>s DEF OnStopRun
<1>5. ASSUME NEW p \in Proc, StopRun(p)
      PROVE  \/ /\ UNCHANGED <<run, recv>>
                /\ \A q \in Proc : stop[q].pc = "reaping" => stop'[q] = stop[q]
             \/ /\ stop[p].pc = "clearing" /\ stop'[p].pc = "reaping" /\ stop'[p].gen = stop[p].gen
                /\ stop'[p].victims = Procs /\ run.gen = stop[p].gen
                /\ run'.gen = NoGen /\ UNCHANGED <<recv, proc>>
                /\ \A q \in Proc : q # p => stop'[q] = stop[q]
             \/ /\ stop[p].pc = "reaping" /\ UNCHANGED <<run, recv, proc>>
                /\ \A w \in stop[p].victims : proc[w] # "alive"
                /\ \A q \in Proc : q # p => stop'[q] = stop[q]
  <2>1. NoRun.gen = NoGen
    BY DEF NoRun
  <2>2. stop[p].pc = "clearing" => run.gen = stop[p].gen
    BY DEF StopInv
  <2>. QED BY <1>5, <2>1, <2>2, StopRunEffect
<1>6. \/ recv'.gen = recv.gen \/ Command
  <2>. USE DEF agentVars, workerVars, links, reportVars
  <2>1. ASSUME NEW quota \in Requote, OnSetQuota(quota) PROVE UNCHANGED recv
    BY <2>1 DEF OnSetQuota
  <2>2. ASSUME NEW p \in Stopper, OnStopRun(p) PROVE UNCHANGED recv
    BY <2>2 DEF OnStopRun
  <2>3. CASE Adopt \/ Spawn \/ SpawnFailure
    BY <2>3, <1>s DEF Adopt, Spawn, SpawnFailure, Receiver
  <2>4. ASSUME NEW g \in Gen, DispatchStale(g) \/ DispatchRebalance(g) \/ DispatchNobody(g)
        PROVE  UNCHANGED recv
    BY <2>4 DEF DispatchStale, DispatchRebalance, DispatchNobody
  <2>5. ASSUME NEW s \in Slot, Rebalance(s) \/ RebalanceSend(s) PROVE UNCHANGED recv
    BY <2>5 DEF Rebalance, RebalanceSend
  <2>6. ASSUME NEW p \in Proc, StopRun(p) PROVE UNCHANGED recv
    BY <2>6, StopRunEffect
  <2>7. ASSUME NEW w \in Worker,
               OnJoin(w) \/ StreamLost(w) \/ QueueFull(w) \/ Exit(w) \/ Crash(w) \/ WorkerStep(w)
        PROVE  UNCHANGED recv
    BY <2>7 DEF OnJoin, StreamLost, QueueFull, Exit, Crash, Die, WorkerStep, WorkerHandler, WorkerStart,
                WorkerCannotStart, WorkerQuota, WorkerStop, Execute
  <2>8. ASSUME NEW w \in Worker, Session(w) PROVE UNCHANGED recv
    BY <2>8 DEF Session, SuperviseWorker, OnLeave, OnRunStatus, RelayStatus
  <2>9. CASE RebalanceNothing
    BY <2>9 DEF RebalanceNothing
  <2>10. CASE Agent
    BY <2>3, <2>4, <2>5, <2>6, <2>9, <2>10 DEF Agent
  <2>. QED BY <2>1, <2>2, <2>7, <2>8, <2>10 DEF Next
<1>7. CASE Command \/ Adopt \/ (\E p \in Stopper : OnStopRun(p)) \/ (\E p \in Proc : StopRun(p))
  BY <1>2, <1>3, <1>4, <1>5, <1>7
<1>8. CASE ~(Command \/ Adopt \/ (\E p \in Stopper : OnStopRun(p)) \/ (\E p \in Proc : StopRun(p)))
  BY <1>1, <1>6, <1>8, StopFrame
<1>. QED BY <1>7, <1>8

LEMMA Generations ==
    ASSUME TypeOK
    PROVE  run.gen \in Nat /\ recv.gen \in Nat
<1>1. run \in AgentRun /\ recv \in Receiver
  BY DEF TypeOK
<1>2. run.gen \in Gen \cup {NoGen} /\ recv.gen \in Gen \cup {NoGen}
  BY <1>1 DEF AgentRun, Receiver
<1>3. \A x \in Gen \cup {NoGen} : x \in Nat
  BY Numbers
<1>. QED BY <1>2, <1>3, Zenon

LEMMA StepKeepsOrder ==
    ASSUME TypeOK, Known, ProcInv, StopInv, OrderInv, Next, TypeOK'
    PROVE  OrderInv'
<1>n. run.gen \in Nat /\ recv.gen \in Nat /\ NoGen = 0
  BY Generations
<1>1. run'.gen <= recv'.gen /\ (recv'.pc = "superseding" => run'.gen < recv'.gen)
  <2>1. run.gen <= recv.gen /\ (recv.pc = "superseding" => run.gen < recv.gen)
    BY DEF OrderInv
  <2>2. CASE \E p \in Proc : stop[p].pc = "clearing" /\ run'.gen = NoGen /\ UNCHANGED recv
    <3>1. PICK p \in Proc : stop[p].pc = "clearing" /\ run'.gen = NoGen /\ UNCHANGED recv
      BY <2>2
    <3>2. run.gen \in Gen
      BY <3>1 DEF StopInv
    <3>3. run.gen > 0
      BY <1>n, <3>2, Numbers
    <3>. QED BY <1>n, <2>1, <3>1, <3>3
  <2>. QED BY <1>n, <2>1, <2>2, RunFrame
<1>2. /\ recv.gen <= recv'.gen
      /\ recv'.pc = "superseding" => recv.pc = "superseding" \/ recv.gen < recv'.gen
  BY <1>n, RunFrame
<1>3. ASSUME NEW w \in Worker, NEW g \in Gen, proc'[w] = "alive", Ever(w, g)'
      PROVE  g <= recv'.gen /\ (recv'.pc = "superseding" => g < recv'.gen)
  <2>1. proc[w] = "alive" /\ (Ever(w, g) \/ g = run.gen)
    BY <1>3, StartsComeFromRebalance
  <2>2. g <= recv.gen /\ (recv.pc = "superseding" => g < recv.gen)
    BY <2>1 DEF OrderInv
  <2>3. g \in Nat /\ recv'.gen \in Nat
    BY Numbers, Generations, <1>n, RunFrame
  <2>. QED BY <1>n, <1>2, <2>2, <2>3
<1>. QED BY <1>1, <1>3 DEF OrderInv

LEMMA StepKeepsFresh ==
    ASSUME TypeOK, Known, ProcInv, StopInv, OrderInv, FreshInv, Next
    PROVE  FreshInv'
<1>. SUFFICES ASSUME NEW w \in Worker, NEW g \in Gen, proc'[w] = "alive", run'.gen = g,
                     w \notin forgotten',
                     w \notin run'.dispatched, Ever(w, g)'
              PROVE  FALSE
  BY DEF FreshInv, Ever, Queued, Posted
<1>f. w \notin forgotten
  BY ForgottenGrows
<1>n. run.gen \in Nat /\ recv.gen \in Nat /\ NoGen \notin Gen
  BY Generations, Numbers
<1>1. proc[w] = "alive" /\ (Ever(w, g) \/ \E s \in Slot : Rebalance(s) /\ g = run.gen /\ w \in joined)
  BY StartsComeFromRebalance
<1>2. \A s \in Slot : Rebalance(s) => w \notin joined
  BY DEF Rebalance, TypeOK, AgentRun
<1>3. Ever(w, g)
  BY <1>1, <1>2
<1>4. CASE run'.gen # run.gen
  <2>1. recv.pc = "superseding" /\ g = recv.gen
    BY <1>4, <1>n, RunFrame
  <2>2. g < recv.gen
    BY <1>1, <1>3, <2>1 DEF OrderInv
  <2>. QED BY <1>n, <2>1, <2>2
<1>5. CASE run'.gen = run.gen
  <2>1. w \in run.dispatched
    BY <1>1, <1>3, <1>5, <1>f DEF FreshInv
  <2>2. Adopt => run.gen = NoGen
    BY DEF Adopt, StopInv
  <2>3. ASSUME NEW p \in Proc, StopClear(p) PROVE FALSE
    <3>1. run.gen = stop[p].gen /\ run'.gen = NoGen
      BY <2>3 DEF StopClear, StopInv, NoRun
    <3>. QED BY <1>n, <3>1
  <2>4. ~Adopt
    BY <1>5, <1>n, <2>2
  <2>. USE DEF agentVars, workerVars, links, reportVars
  <2>r. run \in AgentRun
    BY DEF TypeOK
  <2>5. \A v \in Worker : OnLeave(v) => v # w
    BY <1>1 DEF OnLeave
  <2>6. ASSUME NEW v \in Worker, OnLeave(v) PROVE w \in run'.dispatched
    BY <2>1, <2>5, <2>6, <2>r DEF OnLeave, AgentRun
  <2>7. ASSUME NEW s \in Slot, Rebalance(s) PROVE w \in run'.dispatched
    BY <2>1, <2>7, <2>r DEF Rebalance, AgentRun
  <2>8. ASSUME NEW quota \in Requote, OnSetQuota(quota) PROVE run'.dispatched = run.dispatched
    BY <2>8, <2>r DEF OnSetQuota, AgentRun
  <2>9. CASE Command
    BY <2>1, <2>9 DEF Command, OnStartRun
  <2>10. ASSUME NEW p \in Stopper, OnStopRun(p) PROVE FALSE
    BY <2>1, <2>10 DEF OnStopRun
  <2>11. ASSUME NEW v \in Worker,
                \/ OnJoin(v) \/ StreamLost(v) \/ QueueFull(v) \/ Exit(v) \/ Crash(v) \/ SuperviseWorker(v) \/ OnRunStatus(v)
                \/ RelayStatus(v) \/ WorkerStep(v)
         PROVE  UNCHANGED run
    BY <2>11 DEF OnJoin, StreamLost, QueueFull, Exit, Crash, Die, SuperviseWorker, OnRunStatus, RelayStatus, WorkerStep,
                 WorkerHandler, WorkerStart, WorkerCannotStart, WorkerQuota, WorkerStop, Execute
  <2>12. CASE Spawn \/ SpawnFailure \/ RebalanceNothing
    BY <2>1, <2>12 DEF Spawn, SpawnFailure, RebalanceNothing
  <2>13. ASSUME NEW h \in Gen, DispatchStale(h) \/ DispatchRebalance(h) \/ DispatchNobody(h)
         PROVE  UNCHANGED run
    BY <2>13 DEF DispatchStale, DispatchRebalance, DispatchNobody
  <2>14. ASSUME NEW s \in Slot, RebalanceSend(s) PROVE UNCHANGED run
    BY <2>14 DEF RebalanceSend
  <2>15. ASSUME NEW p \in Proc, StopRun(p) PROVE UNCHANGED run
    BY <2>3, <2>15 DEF StopRun, StopNothing, StopBroadcast, StopAwaited, StopReaped
  <2>16. CASE Agent
    BY <2>1, <2>4, <2>7, <2>12, <2>13, <2>14, <2>15, <2>16 DEF Agent
  <2>. QED BY <2>1, <2>6, <2>8, <2>9, <2>10, <2>11, <2>16 DEF Next, Session
<1>. QED BY <1>4, <1>5
-----------------------------------------------------------------------------
(***************************************************************************)
(* One run at a time.  A worker that executes a run, or will, does so for  *)
(* the agent's run, or is about to be killed by the stop that has cleared  *)
(* that run; the next run is adopted after that stop has seen it dead.     *)
(***************************************************************************)
Doomed(w, g) == \E p \in Proc : stop[p].pc = "reaping" /\ w \in stop[p].victims /\ stop[p].gen = g

WorkInv ==
    \A w \in Worker, g \in Gen : proc[w] = "alive" /\ Due(w, g) => run.gen = g \/ Doomed(w, g)

LEMMA StepKeepsWork ==
    ASSUME TypeOK, Known, ProcInv, StopInv, WorkInv, Next
    PROVE  WorkInv'
<1>. SUFFICES ASSUME NEW w \in Worker, NEW g \in Gen, proc'[w] = "alive", Due(w, g)'
              PROVE  run'.gen = g \/ Doomed(w, g)'
  BY DEF WorkInv
<1>n. NoGen \notin Gen
  BY Numbers
<1>1. proc[w] = "alive" /\ (Due(w, g) \/ g = run.gen)
  BY StartsComeFromRebalance
<1>2. run.gen = g \/ Doomed(w, g)
  BY <1>1 DEF WorkInv
<1>3. CASE run.gen = g
  <2>1. CASE \E p \in Proc :
                /\ stop'[p].pc = "reaping" /\ stop'[p].gen = stop[p].gen
                /\ stop'[p].victims = Procs /\ run.gen = stop[p].gen
    <3>1. w \in Procs
      BY <1>1 DEF Procs
    <3>. QED BY <1>3, <2>1, <3>1 DEF Doomed
  <2>2. CASE run'.gen = run.gen
    BY <1>3, <2>2
  <2>. QED BY <1>n, <1>3, <2>1, <2>2, RunFrame
<1>4. CASE Doomed(w, g)
  <2>1. PICK p \in Proc : stop[p].pc = "reaping" /\ w \in stop[p].victims /\ stop[p].gen = g
    BY <1>4 DEF Doomed
  <2>2. stop'[p] = stop[p]
    <3>1. ASSUME NEW q \in Proc, stop[q].pc \in {"clearing", "reaping"} PROVE q = p
      BY <2>1, <3>1 DEF StopInv, Holding
    <3>2. ~StopMuFree
      BY <2>1 DEF StopMuFree
    <3>. QED BY <1>1, <2>1, <3>1, <3>2, RunFrame
  <2>. QED BY <2>1, <2>2 DEF Doomed
<1>. QED BY <1>2, <1>3, <1>4

(***************************************************************************)
(* A run that a stop has taken and cleared is never the agent's again, and *)
(* no other stop takes it: every later run has a later generation.         *)
(***************************************************************************)
DoneInv ==
    /\ \A p \in Proc : /\ stop[p].gen <= recv.gen
                       /\ recv.pc = "superseding" => stop[p].gen < recv.gen
    /\ \A p \in Proc : stop[p].pc \notin Holding /\ stop[p].gen \in Gen => run.gen # stop[p].gen
    /\ \A p, q \in Proc : stop[p].pc \notin Holding /\ stop[p].gen \in Gen /\ stop[q].pc \in Holding =>
          stop[q].gen # stop[p].gen

LEMMA StopMoves ==
    ASSUME TypeOK, Known, StopInv, Next
    PROVE  \/ \A p \in Proc : /\ stop'[p].gen = stop[p].gen
                              /\ stop'[p].pc \in Holding <=> stop[p].pc \in Holding
           \/ /\ UNCHANGED <<run, recv>>
              /\ \E q \in Proc :
                    /\ \A p \in Proc : p # q => stop'[p] = stop[p]
                    /\ \/ /\ stop[q].pc \notin Holding /\ stop'[q].pc \in Holding
                          /\ run.gen \in Gen /\ stop'[q].gen = run.gen
                       \/ /\ stop[q].pc = "reaping" /\ stop'[q].pc \notin Holding
                          /\ stop'[q].gen = stop[q].gen
<1>s. stop \in [Proc -> Stopping] /\ "recv" \in Proc /\ Stopper \subseteq Proc
  BY Numbers DEF TypeOK
<1>1. CASE Command
  <2>1. recv.pc = "idle" /\ stop' = [stop EXCEPT !["recv"].pc = "hard"]
    BY <1>1 DEF Command, OnStartRun
  <2>2. stop["recv"].pc = "idle"
    BY <2>1 DEF StopInv
  <2>3. stop'["recv"].pc = "hard" /\ stop'["recv"].gen = stop["recv"].gen
    BY <1>s, <2>1 DEF Stopping
  <2>4. \A q \in Proc : q # "recv" => stop'[q] = stop[q]
    BY <1>s, <2>1
  <2>. QED BY <2>2, <2>3, <2>4 DEF Holding
<1>2. CASE Adopt
  BY <1>2 DEF Adopt
<1>3. ASSUME NEW p \in Stopper, OnStopRun(p)
      PROVE  \A q \in Proc : /\ stop'[q].gen = stop[q].gen
                             /\ stop'[q].pc \in Holding <=> stop[q].pc \in Holding
  <2>1. stop[p].pc = "idle" /\ stop' = [stop EXCEPT ![p].pc = "graceful"] /\ p \in Proc
    BY <1>3, <1>s DEF OnStopRun
  <2>2. stop'[p].pc = "graceful" /\ stop'[p].gen = stop[p].gen
    BY <1>s, <2>1 DEF Stopping
  <2>3. \A q \in Proc : q # p => stop'[q] = stop[q]
    BY <1>s, <2>1
  <2>. QED BY <2>1, <2>2, <2>3 DEF Holding
<1>4. ASSUME NEW q \in Proc, StopRun(q)
      PROVE  \/ \A p \in Proc : /\ stop'[p].gen = stop[p].gen
                                /\ stop'[p].pc \in Holding <=> stop[p].pc \in Holding
             \/ /\ UNCHANGED <<run, recv>>
                /\ \A p \in Proc : p # q => stop'[p] = stop[p]
                /\ \/ /\ stop[q].pc \notin Holding /\ stop'[q].pc \in Holding
                      /\ run.gen \in Gen /\ stop'[q].gen = run.gen
                   \/ /\ stop[q].pc = "reaping" /\ stop'[q].pc \notin Holding
                      /\ stop'[q].gen = stop[q].gen
  BY <1>4, StopRunEffect DEF Holding
<1>5. CASE ~(Command \/ Adopt \/ (\E p \in Stopper : OnStopRun(p)) \/ (\E p \in Proc : StopRun(p)))
  BY <1>5, StopFrame
<1>. QED BY <1>1, <1>2, <1>3, <1>4, <1>5

LEMMA StepKeepsDone ==
    ASSUME TypeOK, Known, StopInv, OrderInv, DoneInv, Next, TypeOK'
    PROVE  DoneInv'
<1>n. /\ run.gen \in Nat /\ recv.gen \in Nat /\ recv'.gen \in Nat /\ NoGen \notin Gen
      /\ \A p \in Proc : stop[p].gen \in Nat
  <2>1. stop \in [Proc -> Stopping] /\ recv' \in Receiver
    BY DEF TypeOK
  <2>2. recv'.gen \in Gen \cup {NoGen} /\ \A p \in Proc : stop[p].gen \in Gen \cup {NoGen}
    BY <2>1 DEF Stopping, Receiver
  <2>3. \A x \in Gen \cup {NoGen} : x \in Nat
    BY Numbers
  <2>. QED BY <2>2, <2>3, Generations, Numbers
<1>1. /\ recv.gen <= recv'.gen
      /\ recv'.pc = "superseding" => recv.pc = "superseding" \/ recv.gen < recv'.gen
  BY <1>n, RunFrame
<1>2. \/ run'.gen = run.gen \/ run'.gen = NoGen
      \/ recv.pc = "superseding" /\ run'.gen = recv.gen
  BY RunFrame
<1>3. ASSUME NEW p \in Proc
      PROVE  stop'[p].gen <= recv'.gen /\ (recv'.pc = "superseding" => stop'[p].gen < recv'.gen)
  <2>1. stop'[p].gen = stop[p].gen \/ (stop'[p].gen = run.gen /\ UNCHANGED recv)
    BY StopMoves, Zenon
  <2>2. /\ stop[p].gen <= recv.gen /\ (recv.pc = "superseding" => stop[p].gen < recv.gen)
        /\ run.gen <= recv.gen /\ (recv.pc = "superseding" => run.gen < recv.gen)
    BY Zenon DEF DoneInv, OrderInv
  <2>. QED BY <1>n, <1>1, <2>1, <2>2
<1>4. ASSUME NEW p \in Proc, stop'[p].pc \notin Holding, stop'[p].gen \in Gen
      PROVE  run'.gen # stop'[p].gen
  <2>1. stop'[p].gen = stop[p].gen
        /\ (stop[p].pc \notin Holding \/ (stop[p].pc = "reaping" /\ UNCHANGED run))
    BY <1>4, StopMoves, Zenon
  <2>2. run.gen # stop[p].gen
    BY <1>4, <1>n, <2>1 DEF DoneInv, StopInv
  <2>3. recv.pc = "superseding" => stop[p].gen < recv.gen
    BY Zenon DEF DoneInv
  <2>. QED BY <1>2, <1>4, <1>n, <2>1, <2>2, <2>3
<1>5. ASSUME NEW p \in Proc, NEW q \in Proc, stop'[p].pc \notin Holding, stop'[p].gen \in Gen,
             stop'[q].pc \in Holding
      PROVE  stop'[q].gen # stop'[p].gen
  <2>1. CASE stop[q].pc \in Holding
    <3>1. stop'[q].gen = stop[q].gen /\ stop'[p].gen = stop[p].gen
          /\ (stop[p].pc \notin Holding \/ (stop[p].pc = "reaping" /\ stop'[q] = stop[q]))
      BY <1>5, <2>1, StopMoves, Zenon
    <3>2. stop[p].pc # "reaping"
      BY <1>5, <2>1, <3>1 DEF StopInv, Holding
    <3>. QED BY <1>5, <2>1, <3>1, <3>2 DEF DoneInv
  <2>2. CASE stop[q].pc \notin Holding
    <3>1. stop'[q].gen = run.gen /\ stop'[p] = stop[p]
      BY <1>5, <2>2, StopMoves, Zenon DEF Holding
    <3>. QED BY <1>5, <3>1 DEF DoneInv
  <2>. QED BY <2>1, <2>2
<1>. QED BY <1>3, <1>4, <1>5 DEF DoneInv

AgentInv ==
    /\ TypeOK /\ Known /\ ProcInv /\ StopInv
    /\ OrderInv /\ FreshInv /\ UniqueInv /\ WorkInv /\ DoneInv

LEMMA InitAgentInv == Init => AgentInv
<1>. SUFFICES ASSUME Init PROVE AgentInv
  OBVIOUS
<1>0. TypeOK /\ Known
  BY InitTyped
<1>1. /\ \A w \in Worker : proc[w] = "none" /\ down[w] = <<>> /\ engine[w] = NotStarted
      /\ joined = {} /\ \A s \in Slot : sending[s] = <<>>
  BY DEF Init
<1>2. ProcInv
  <2>1. \A s \in Slot : DOMAIN sending[s] = {}
    BY <1>1
  <2>2. DeadIdle /\ Strangers
    BY <1>1, <2>1 DEF DeadIdle, Strangers
  <2>3. Unspawned
    BY <1>1, WorkerOfType DEF Unspawned
  <2>. QED BY <2>2, <2>3 DEF ProcInv
<1>3. run.gen = 0 /\ recv.gen = 0 /\ recv.pc = "idle" /\ \A p \in Proc : stop[p].pc = "idle"
  BY DEF Init, NoRun, NotStopping
<1>4. StopInv
  BY <1>3, Numbers DEF StopInv, Holding
<1>5. OrderInv /\ FreshInv /\ UniqueInv /\ WorkInv
  <2>1. \A w \in Worker : proc[w] # "alive"
    BY <1>1
  <2>. QED BY <1>3, <2>1 DEF OrderInv, FreshInv, UniqueInv, WorkInv
<1>6. DoneInv
  <2>1. \A p \in Proc : stop[p].gen = NoGen
    BY DEF Init, NotStopping
  <2>2. NoGen = 0 /\ NoGen \notin Gen
    BY Numbers DEF NoGen
  <2>. QED BY <1>3, <2>1, <2>2 DEF DoneInv
<1>. QED BY <1>0, <1>2, <1>4, <1>5, <1>6 DEF AgentInv

LEMMA AgentInvHolds == Spec => []AgentInv
<1>1. AgentInv /\ [Next]_vars /\ TypeOK' /\ Known' => AgentInv'
  <2>. SUFFICES ASSUME AgentInv, [Next]_vars, TypeOK', Known' PROVE AgentInv'
    OBVIOUS
  <2>1. CASE Next
    <3>1. TypeOK /\ Known /\ ProcInv /\ StopInv /\ OrderInv /\ FreshInv /\ UniqueInv /\ WorkInv
          /\ DoneInv
      BY DEF AgentInv
    <3>2. ProcInv' /\ StopInv' /\ OrderInv' /\ FreshInv' /\ UniqueInv' /\ WorkInv' /\ DoneInv'
      BY <2>1, <3>1, StepKeepsProcs, StepKeepsStops, StepKeepsOrder, StepKeepsFresh,
         StepKeepsUnique, StepKeepsWork, StepKeepsDone
    <3>. QED BY <3>2 DEF AgentInv
  <2>2. CASE UNCHANGED vars
    <3>. USE <2>2 DEF vars, AgentInv
    <3>1. ProcInv'
      BY DEF ProcInv, DeadIdle, Strangers, Unspawned, Upcoming
    <3>2. StopInv'
      BY DEF StopInv, StopMuFree
    <3>3. OrderInv' /\ FreshInv'
      BY DEF OrderInv, FreshInv, Ever, Queued, Posted
    <3>4. UniqueInv'
      BY DEF UniqueInv, Unique, Queued, Posted
    <3>5. WorkInv'
      BY DEF WorkInv, Due, Queued, Posted, Executing, Doomed
    <3>6. DoneInv'
      BY DEF DoneInv
    <3>. QED BY <3>1, <3>2, <3>3, <3>4, <3>5, <3>6 DEF AgentInv
  <2>. QED BY <2>1, <2>2
<1>. QED BY <1>1, InitAgentInv, AgentTypes, PTL DEF Spec

(***************************************************************************)
(* The host executes one run at a time: a stop, graceful or because of the *)
(* next start, has seen every process of the previous run dead before the  *)
(* agent has the next run, whatever is still on its way to a worker.       *)
(***************************************************************************)
THEOREM TheHostRunsOneRun == Spec => []HostRunsOneRun
<1>1. AgentInv => HostRunsOneRun
  <2>. SUFFICES ASSUME AgentInv, NEW v \in Worker, NEW w \in Worker, Executing(v), Executing(w)
                PROVE  engine[v].gen = engine[w].gen
    BY DEF HostRunsOneRun
  <2>1. engine[v].gen \in Gen /\ engine[w].gen \in Gen
    BY DEF AgentInv, Known
  <2>2. proc[v] = "alive" /\ proc[w] = "alive"
    BY DEF AgentInv, ProcInv, DeadIdle, Executing, NotStarted
  <2>3. Due(v, engine[v].gen) /\ Due(w, engine[w].gen)
    BY DEF Due
  <2>4. /\ run.gen = engine[v].gen \/ Doomed(v, engine[v].gen)
        /\ run.gen = engine[w].gen \/ Doomed(w, engine[w].gen)
    BY <2>1, <2>2, <2>3 DEF AgentInv, WorkInv
  <2>5. \A p, q \in Proc : stop[p].pc = "reaping" /\ stop[q].pc = "reaping" =>
            p = q /\ run.gen = NoGen
    BY DEF AgentInv, StopInv, Holding
  <2>. QED BY <2>1, <2>4, <2>5, Numbers DEF Doomed
<1>. QED BY <1>1, AgentInvHolds, PTL

(***************************************************************************)
(* Of all the rebalances that joins, quota commands, deaths and broken     *)
(* streams bring about, in any order and several at a time, one at most    *)
(* starts a worker on a run, as long as OnLeave has not removed the        *)
(* session of that worker while it was alive.                              *)
(***************************************************************************)
THEOREM EachIsStartedOnce == Spec => []StartedOnce
<1>1. AgentInv => StartedOnce
  <2>. SUFFICES ASSUME AgentInv, NEW w \in Worker \ forgotten, NEW i \in 1 .. Len(down[w]),
                       down[w][i].kind = "start"
                PROVE  /\ down[w][i].gen # engine[w].gen
                       /\ \A j \in 1 .. i - 1 :
                             down[w][j].kind = "start" => down[w][j].gen # down[w][i].gen
    BY DEF StartedOnce, StartsOnce
  <2>1. down[w] \in Seq(Message)
    BY DEF AgentInv, TypeOK
  <2>2. DOMAIN down[w] = 1 .. Len(down[w]) /\ Len(down[w]) \in Nat /\ down[w] # <<>>
    BY <2>1
  <2>3. down[w][i] \in Message
    BY <2>1, <2>2
  <2>4. down[w][i].gen \in Gen
    BY <2>3 DEF Message
  <2>5. proc[w] = "alive"
    BY <2>2 DEF AgentInv, ProcInv, DeadIdle
  <2>6. Unique(w)
    BY <2>5 DEF AgentInv, UniqueInv
  <2>7. Queued(w, down[w][i].gen)
    BY <2>2 DEF Queued
  <2>8. down[w][i].gen # engine[w].gen
    BY <2>4, <2>6, <2>7 DEF Unique
  <2>9. ASSUME NEW j \in 1 .. i - 1, down[w][j].kind = "start", down[w][j].gen = down[w][i].gen
        PROVE  FALSE
    <3>1. j \in DOMAIN down[w] /\ i \in DOMAIN down[w] /\ i # j
      BY <2>2
    <3>2. j = i
      BY <2>4, <2>6, <2>9, <3>1 DEF Unique, IsStart
    <3>. QED BY <3>1, <3>2
  <2>. QED BY <2>8, <2>9
<1>. QED BY <1>1, AgentInvHolds, PTL

(***************************************************************************)
(* Once stopRun has returned, the run it took is not the agent's again and *)
(* nobody executes it, whichever stop took it, while its workers were      *)
(* spawned or after, and however many others are on their way.             *)
(***************************************************************************)
THEOREM AStopIsFinal == Spec => []StopEndsRun
<1>1. AgentInv => StopEndsRun
  <2>. SUFFICES ASSUME AgentInv, NEW p \in Proc, NEW g \in Gen, stop[p].pc = "idle", stop[p].gen = g
                PROVE  run.gen # g /\ \A w \in Worker : ~(Executing(w) /\ engine[w].gen = g)
    BY DEF StopEndsRun
  <2>1. run.gen # g
    BY DEF AgentInv, DoneInv, Holding
  <2>2. ASSUME NEW w \in Worker, Executing(w), engine[w].gen = g PROVE FALSE
    <3>1. proc[w] = "alive"
      BY <2>2 DEF AgentInv, ProcInv, DeadIdle, Executing, NotStarted
    <3>2. Due(w, g)
      BY <2>2 DEF Due
    <3>3. Doomed(w, g)
      BY <2>1, <3>1, <3>2 DEF AgentInv, WorkInv
    <3>. QED BY <3>3 DEF AgentInv, DoneInv, Doomed, Holding
  <2>. QED BY <2>1, <2>2
<1>. QED BY <1>1, AgentInvHolds, PTL
-----------------------------------------------------------------------------
(***************************************************************************)
(* What an agent divides among its workers is its part of what the         *)
(* coordinator divided.  The two divisions are exact and the first one is  *)
(* the fairest there is: for every fleet, every capacity, every number of  *)
(* workers and every total.                                                *)
(***************************************************************************)
USE SplitAssumption DEF SplitAssumption

(***************************************************************************)
(* The capacities are positive once dispatch has made weights of them, and *)
(* the totals are natural numbers.                                         *)
(***************************************************************************)
SplitInv ==
    /\ weight \in [Fleet -> Nat \ {0}]
    /\ workers \in [Fleet -> 1 .. MaxWorkers]
    /\ peak \in Nat /\ cap \in Nat

LEMMA SplitInvariant == SplitSpec => []SplitInv
<1>1. SplitInit => SplitInv
  <2> SUFFICES ASSUME SplitInit PROVE SplitInv
    OBVIOUS
  <2>1. {IF v > 1 THEN v ELSE 1 : v \in 0 .. MaxWeight} \subseteq Nat \ {0}
    OBVIOUS
  <2> QED BY <2>1 DEF SplitInit, SplitInv
<1>2. SplitInv /\ [SplitNext]_splitVars => SplitInv'
  BY DEF SplitInv, SplitNext, StartRun, Clamped, ScaleRun, splitVars
<1> QED BY <1>1, <1>2, PTL DEF SplitSpec

(***************************************************************************)
(* Every total can be divided among the agents, and among the workers of   *)
(* any one of them.                                                        *)
(***************************************************************************)
LEMMA AmongAgents ==
    ASSUME SplitInv, NEW total \in Nat
    PROVE  Divisible(total, weight) /\ Claimants(weight) = Fleet /\ DOMAIN weight = Fleet
<1>1. DOMAIN weight = Fleet /\ \A a \in Fleet : weight[a] \in Int /\ weight[a] > 0
  BY DEF SplitInv
<1>2. Claimants(weight) = Fleet
  BY <1>1 DEF Claimants
<1>3. weight \in [Fleet -> Int] /\ Fleet \subseteq Int
  BY DEF SplitInv
<1> QED BY <1>1, <1>2, <1>3 DEF Divisible

Ones(n) == [i \in 0 .. n - 1 |-> 1]

LEMMA AmongWorkers ==
    ASSUME NEW total \in Nat, NEW n \in Nat \ {0}
    PROVE  Divisible(total, Ones(n)) /\ DOMAIN Ones(n) = 0 .. n - 1
<1>1. 0 \in Claimants(Ones(n))
  BY DEF Claimants, Ones
<1>2. IsFiniteSet(0 .. n - 1)
  BY FS_Interval
<1> QED BY <1>1, <1>2 DEF Divisible, Ones

(***************************************************************************)
(* The sums of the model, over operators, as sums over functions.          *)
(***************************************************************************)
Parts(total) == [w \in FleetWorker |-> WorkerShare(total, w[1], w[2])]

LEMMA PartsSum ==
    ASSUME NEW total
    PROVE  MapThenSumSet(LAMBDA w : WorkerShare(total, w[1], w[2]), FleetWorker)
             = SumFunctionOnSet(Parts(total), FleetWorker)
<1> DEFINE S == FleetWorker
           f == Parts(total)
           A(g) == g = [s \in SUBSET S |->
                          IF s = {} THEN 0
                          ELSE WorkerShare(total, Pick(s)[1], Pick(s)[2]) + g[s \ {Pick(s)}]]
<1>1. MapThenSumSet(LAMBDA w : WorkerShare(total, w[1], w[2]), FleetWorker) = (CHOOSE g : A(g))[S]
  BY DEF MapThenSumSet, MapThenFoldSet, Pick
<1>2. ASSUME NEW g PROVE A(g) <=> IsSums(g, f, S)
  <2>1. \A s \in SUBSET S : s # {} => f[Pick(s)] = WorkerShare(total, Pick(s)[1], Pick(s)[2])
    BY PickIn DEF Parts
  <2> HIDE DEF f, S
  <2>2. [s \in SUBSET S |-> IF s = {} THEN 0
                             ELSE WorkerShare(total, Pick(s)[1], Pick(s)[2]) + g[s \ {Pick(s)}]]
          = [s \in SUBSET S |-> IF s = {} THEN 0 ELSE f[Pick(s)] + g[s \ {Pick(s)}]]
    BY <2>1
  <2> QED BY <2>2 DEF IsSums
<1> HIDE DEF A, f, S
<1>3. (CHOOSE g : A(g)) = Sums(f, S)
  BY <1>2, Zenon DEF Sums
<1> QED BY <1>1, <1>3, SumUnfolds DEF S, f

LEMMA DistanceSum ==
    ASSUME SplitInv, NEW d
    PROVE  Distance(d) = SumFunctionOnSet(Gaps(d, peak, weight), Fleet)
<1> DEFINE S == Fleet
           gap(a) == Abs(d[a] * TotalWeight(weight) - peak * weight[a])
           f == Gaps(d, peak, weight)
           A(g) == g = [s \in SUBSET S |->
                          IF s = {} THEN 0 ELSE gap(Pick(s)) + g[s \ {Pick(s)}]]
<1>1. Distance(d) = (CHOOSE g : A(g))[S]
  BY DEF Distance, MapThenSumSet, MapThenFoldSet, Pick, Abs
<1>2. ASSUME NEW g PROVE A(g) <=> IsSums(g, f, S)
  <2>1. \A s \in SUBSET S : s # {} => f[Pick(s)] = gap(Pick(s))
    BY PickIn DEF Gaps, SplitInv
  <2> HIDE DEF f, S, gap
  <2>2. [s \in SUBSET S |-> IF s = {} THEN 0 ELSE gap(Pick(s)) + g[s \ {Pick(s)}]]
          = [s \in SUBSET S |-> IF s = {} THEN 0 ELSE f[Pick(s)] + g[s \ {Pick(s)}]]
    BY <2>1
  <2> QED BY <2>2 DEF IsSums
<1> HIDE DEF A, f, S
<1>3. (CHOOSE g : A(g)) = Sums(f, S)
  BY <1>2, Zenon DEF Sums
<1> QED BY <1>1, <1>3, SumUnfolds DEF S, f

(***************************************************************************)
(* Both divisions together lose nothing: the workers' parts add up to      *)
(* their agent's share, and the shares to the total.                       *)
(***************************************************************************)
LEMMA BothExact ==
    ASSUME SplitInv, NEW total \in Nat
    PROVE  SumFunctionOnSet(Parts(total), FleetWorker) = total
<1> DEFINE K == [a \in Fleet |-> 0 .. workers[a] - 1]
           f == Parts(total)
           row == Largest(total, weight)
<1>1. row \in [Fleet -> Nat] /\ SumFunctionOnSet(row, Fleet) = total
  BY AmongAgents, LargestIsProportional, LargestIsExact DEF SumFunction
<1>2. FleetWorker = Pairs(Fleet, K)
  <2>1. \A a \in Fleet : workers[a] \in 1 .. MaxWorkers
    BY DEF SplitInv
  <2>2. ASSUME NEW w \in FleetWorker PROVE w \in Pairs(Fleet, K)
    <3>1. /\ w[1] \in Fleet /\ w[2] \in 0 .. MaxWorkers - 1 /\ w = <<w[1], w[2]>>
          /\ w[2] < workers[w[1]]
      BY DEF FleetWorker
    <3>2. w[2] \in K[w[1]]
      BY <2>1, <3>1
    <3>3. w \in Row(w[1], K[w[1]])
      BY <3>1, <3>2 DEF Row
    <3> QED BY <3>1, <3>3 DEF Pairs
  <2>3. ASSUME NEW w \in Pairs(Fleet, K) PROVE w \in FleetWorker
    <3>1. PICK a \in Fleet : w \in Row(a, K[a])
      BY DEF Pairs
    <3>2. PICK i \in 0 .. workers[a] - 1 : w = <<a, i>>
      BY <3>1 DEF Row
    <3>3. i \in 0 .. MaxWorkers - 1 /\ i < workers[a]
      BY <2>1
    <3> QED BY <3>2, <3>3 DEF FleetWorker
  <2> QED BY <2>2, <2>3
<1>3. IsFiniteSet(FleetWorker)
  <2>1. IsFiniteSet(Fleet) /\ IsFiniteSet(0 .. MaxWorkers - 1)
    BY FS_Interval
  <2>2. IsFiniteSet(Fleet \X (0 .. MaxWorkers - 1))
    BY <2>1, FS_Product
  <2>3. FleetWorker \in SUBSET (Fleet \X (0 .. MaxWorkers - 1))
    BY DEF FleetWorker
  <2> QED BY <2>2, <2>3, FS_Subset
<1>4. ASSUME NEW a \in Fleet
      PROVE  /\ IsFiniteSet(K[a])
             /\ \A i \in K[a] : f[<<a, i>>] \in Int
             /\ SumFunctionOnSet(f, Row(a, K[a])) = row[a]
  <2> DEFINE n == workers[a]
             e == Largest(row[a], Ones(n))
  <2>1. n \in Nat \ {0} /\ row[a] \in Nat /\ K[a] = 0 .. n - 1
    BY <1>1 DEF SplitInv
  <2>2. IsFiniteSet(0 .. n - 1)
    <3>1. 0 \in Int /\ n - 1 \in Int
      BY <2>1
    <3> QED BY <3>1, FS_Interval
  <2>3. e \in [0 .. n - 1 -> Nat] /\ SumFunctionOnSet(e, 0 .. n - 1) = row[a]
    <3> HIDE DEF n, row
    <3>1. Divisible(row[a], Ones(n)) /\ DOMAIN Ones(n) = 0 .. n - 1
      BY <2>1, AmongWorkers
    <3>2. e \in [DOMAIN Ones(n) -> Nat]
      BY <3>1, LargestIsProportional
    <3>3. SumFunction(e) = row[a]
      BY <3>1, LargestIsExact
    <3> HIDE DEF e
    <3>4. DOMAIN e = 0 .. n - 1
      BY <3>1, <3>2
    <3> QED BY <3>1, <3>2, <3>3, <3>4 DEF SumFunction
  <2>4. \A i \in K[a] : <<a, i>> \in FleetWorker
    BY <2>1 DEF FleetWorker, SplitInv
  <2>5. \A i \in K[a] : f[<<a, i>>] = e[i]
    BY <2>4 DEF Parts, WorkerShare, AgentShare, Equal, Ones
  <2> HIDE DEF e, n, row, f, K
  <2>6. \A i \in K[a] : e[i] \in Int /\ f[<<a, i>>] = e[i]
    BY <2>1, <2>3, <2>5
  <2>7. SumFunctionOnSet(f, Row(a, K[a])) = SumFunctionOnSet(e, K[a])
    <3>1. IsFiniteSet(K[a])
      BY <2>1, <2>2
    <3> QED BY <2>6, <3>1, SumRow
  <2> QED BY <2>1, <2>2, <2>3, <2>6, <2>7
<1> HIDE DEF K, f, row
<1>5. SumFunctionOnSet(f, Pairs(Fleet, K)) = SumFunctionOnSet(row, Fleet)
  <2>1. \A a \in Fleet : row[a] \in Int
    BY <1>1
  <2>2. \A a \in Fleet : IsFiniteSet(K[a]) /\ row[a] \in Int
    BY <1>4, <2>1, Zenon
  <2>3. \A a \in Fleet : \A i \in K[a] : f[<<a, i>>] \in Int
    BY <1>4, Zenon
  <2>4. \A a \in Fleet : SumFunctionOnSet(f, Row(a, K[a])) = row[a]
    BY <1>4, Zenon
  <2>5. IsFiniteSet(Fleet) /\ IsFiniteSet(Pairs(Fleet, K))
    BY <1>2, <1>3
  <2> QED BY <2>2, <2>3, <2>4, <2>5, SumRows, ZenonT(40)
<1>6. SumFunctionOnSet(f, FleetWorker) = total
  BY <1>1, <1>2, <1>5
<1> QED BY <1>6 DEF f

(***************************************************************************)
(* Starting and scaling a run divide its load exactly and fairly: the      *)
(* parts that reach the engines add up to the whole, and no other exact    *)
(* division among the agents is nearer to the proportional one.            *)
(***************************************************************************)
THEOREM TheLoadIsDividedFairly == SplitSpec => []DividedFairly
<1>1. SplitInv => DividedFairly
  <2> SUFFICES ASSUME SplitInv PROVE DividedFairly
    OBVIOUS
  <2>1. PartsAddUp
    BY PartsSum, BothExact DEF PartsAddUp, SplitInv
  <2>2. ASSUME NEW d \in Divisions PROVE Distance(Largest(peak, weight)) <= Distance(d)
    <3>1. /\ Divisible(peak, weight) /\ Claimants(weight) = Fleet /\ DOMAIN weight = Fleet
      BY AmongAgents DEF SplitInv
    <3>2. d \in [Fleet -> Int] /\ SumFunction(d) = peak
      BY DEF Divisions, SplitInv
    <3>3. SumFunctionOnSet(Gaps(Largest(peak, weight), peak, weight), Fleet)
            <= SumFunctionOnSet(Gaps(d, peak, weight), Fleet)
      BY <3>1, <3>2, LargestIsNearest
    <3> QED BY <3>3, DistanceSum
  <2> QED BY <2>1, <2>2 DEF DividedFairly
<1> QED BY <1>1, SplitInvariant, PTL

-----------------------------------------------------------------------------
(***************************************************************************)
(* The control sessions.                                                   *)
(***************************************************************************)
(***************************************************************************)
(* The inductive invariant.  NoGhosts alone is not inductive: Add needs to *)
(* know that the session it displaces is another one, and Dial that the    *)
(* connection it uses is fresh.                                            *)
(***************************************************************************)
RegistryInv == SessionsTypeOK /\ NoGhosts /\ Unused /\ RegisteredWasAdded

USE SessionsAssumption DEF SessionsAssumption

(***************************************************************************)
(* The initial state has no sessions at all.                               *)
(***************************************************************************)
LEMMA InitRegistry == SessionsInit => RegistryInv
  BY DEF SessionsInit, RegistryInv, SessionsTypeOK, NoGhosts, Unused, RegisteredWasAdded, Accepted, Conn, NoConn,
         Stage

(***************************************************************************)
(* The connection after one that is not the last.                          *)
(***************************************************************************)
LEMMA NextConn ==
    ASSUME NEW k \in Conn \cup {NoConn}, k < MaxConn
    PROVE  /\ k + 1 \in Conn
           /\ \A d \in Conn : d > k + 1 => d > k /\ d # k + 1
           /\ k + 1 > k
  BY DEF Conn, NoConn

(***************************************************************************)
(* Every step keeps the types.                                             *)
(***************************************************************************)
LEMMA TypesKept == ASSUME SessionsTypeOK, [SessionsNext]_sessionVars PROVE SessionsTypeOK'
<1> USE DEF SessionsTypeOK
<1>1. ASSUME NEW n \in Node, Redial(n) PROVE SessionsTypeOK'
  <2> DEFINE c == dialled[n] + 1
  <2>1. /\ dialled[n] < MaxConn
        /\ dialled' = [dialled EXCEPT ![n] = c]
        /\ nodeEnd' = [nodeEnd EXCEPT ![n] = @ \cup {c}]
        /\ srvEnd' = [srvEnd EXCEPT ![n] = @ \cup {c}]
        /\ stage' = [stage EXCEPT ![n][c] = "hello"]
        /\ UNCHANGED <<displaced, closed, quiet, registry, listed, stalled, stalls>>
    BY <1>1 DEF Redial, Dial
  <2>2. c \in Conn /\ "hello" \in Stage
    BY <2>1, NextConn DEF Stage
  <2> HIDE DEF c
  <2> QED BY <2>1, <2>2
<1>2. ASSUME NEW n \in Node, Stall(n) \/ Resume(n) PROVE SessionsTypeOK'
  <2>1. CASE Stall(n)
    BY <2>1 DEF Stall
  <2>2. CASE Resume(n)
    BY <2>2 DEF Resume
  <2> QED BY <1>2, <2>1, <2>2
<1>3. ASSUME NEW n \in Node, NEW c \in Conn,
             NodeLosesStream(n, c) \/ ServerLosesStream(n, c)
      PROVE  SessionsTypeOK'
  <2>1. CASE NodeLosesStream(n, c)
    BY <2>1 DEF NodeLosesStream
  <2>2. CASE ServerLosesStream(n, c)
    BY <2>2 DEF ServerLosesStream
  <2> QED BY <1>3, <2>1, <2>2
<1>4. ASSUME NEW n \in Node, NEW c \in Conn, Join(n, c) PROVE SessionsTypeOK'
  <2>1. CASE Add(n, c)
    BY <2>1 DEF Add, transport, Stage
  <2>2. CASE CloseDisplaced(n, c)
    BY <2>2 DEF CloseDisplaced, transport, Stage, NoConn
  <2>3. CASE ListAgent(n, c)
    BY <2>3 DEF ListAgent, transport, Stage
  <2>4. CASE EndSession(n, c)
    BY <2>4 DEF EndSession, transport, Stage
  <2>5. CASE Remove(n, c)
    <3>1. /\ registry' \in {registry, [registry EXCEPT ![n] = NoConn]}
          /\ stage' \in {[stage EXCEPT ![n][c] = "removed"], [stage EXCEPT ![n][c] = "gone"]}
          /\ UNCHANGED <<transport, displaced, closed, quiet, listed>>
      BY <2>5 DEF Remove
    <3>2. registry' \in [Node -> Conn \cup {NoConn}]
      BY <3>1
    <3>3. "removed" \in Stage /\ "gone" \in Stage
      BY DEF Stage
    <3>4. stage' \in [Node -> [Conn -> Stage]]
      <4>1. CASE stage' = [stage EXCEPT ![n][c] = "removed"]
        BY <3>3, <4>1
      <4>2. CASE stage' = [stage EXCEPT ![n][c] = "gone"]
        BY <3>3, <4>2
      <4> QED BY <3>1, <4>1, <4>2
    <3> QED BY <3>1, <3>2, <3>4 DEF transport
  <2>6. CASE DelistAgent(n, c)
    BY <2>6 DEF DelistAgent, transport, Stage
  <2> QED BY <1>4, <2>1, <2>2, <2>3, <2>4, <2>5, <2>6 DEF Join
<1>5. ASSUME NEW n \in Node, NEW c \in Conn,
             Receive(n, c) \/ FallQuiet(n, c) \/ Expire(n, c)
      PROVE  SessionsTypeOK'
  <2>1. CASE Receive(n, c)
    BY <2>1 DEF Receive, transport
  <2>2. CASE FallQuiet(n, c)
    BY <2>2 DEF FallQuiet, transport
  <2>3. CASE Expire(n, c)
    BY <2>3 DEF Expire, transport
  <2> QED BY <1>5, <2>1, <2>2, <2>3
<1>6. CASE UNCHANGED sessionVars
  BY <1>6 DEF sessionVars
<1> QED BY <1>1, <1>2, <1>3, <1>4, <1>5, <1>6 DEF SessionsNext

(***************************************************************************)
(* Steps that leave stages, displacements and the registry alone can only  *)
(* close sessions, which NoGhosts allows.                                  *)
(***************************************************************************)
LEMMA OnlyCloses ==
    ASSUME RegistryInv, UNCHANGED <<stage, displaced, registry, dialled>>,
           \A n \in Node, c \in Conn : c \in closed[n] => c \in closed'[n]
    PROVE  (NoGhosts /\ Unused /\ RegisteredWasAdded)'
  BY DEF RegistryInv, NoGhosts, Unused, RegisteredWasAdded, Accepted

(***************************************************************************)
(* The value of a nested update at every place.                            *)
(***************************************************************************)
LEMMA NestedUpdate ==
    ASSUME NEW Q, NEW f \in [Node -> [Conn -> Q]], NEW n \in Node, NEW c \in Conn, NEW v
    PROVE  \A m \in Node, d \in Conn :
             [f EXCEPT ![n][c] = v][m][d] = IF m = n /\ d = c THEN v ELSE f[m][d]
  OBVIOUS

(***************************************************************************)
(* A step that moves one accepted session on, still accepted or not, with  *)
(* the registry and all other sessions as they were.  If the session was   *)
(* displacing another, that one is closed by the step.                     *)
(***************************************************************************)
LEMMA MovesOn ==
    ASSUME RegistryInv, NEW n \in Node, NEW c \in Conn, NEW st \in Stage \ {"unused", "hello", "added"},
           stage[n][c] \in Stage \ {"unused", "hello"},
           stage' = [stage EXCEPT ![n][c] = st],
           UNCHANGED <<displaced, registry, dialled>>,
           \A m \in Node, d \in Conn : d \in closed[m] => d \in closed'[m],
           stage[n][c] = "added" /\ displaced[n][c] \in Conn => displaced[n][c] \in closed'[n],
           st \in {"listing", "serving"} => stage[n][c] \in {"added", "listing", "serving"}
    PROVE  (NoGhosts /\ Unused /\ RegisteredWasAdded)'
<1>1. \A m \in Node, d \in Conn : stage'[m][d] = IF m = n /\ d = c THEN st ELSE stage[m][d]
  BY NestedUpdate DEF RegistryInv, SessionsTypeOK
<1>2. Unused'
  BY <1>1 DEF RegistryInv, Unused
<1>3. RegisteredWasAdded'
  BY <1>1 DEF RegistryInv, RegisteredWasAdded
<1>4. NoGhosts'
  <2> SUFFICES ASSUME NEW m \in Node, NEW d \in Conn, Accepted(m, d)', d \notin closed'[m],
                      registry'[m] # d
               PROVE  \E e \in Conn : e # d /\ stage'[m][e] = "added" /\ displaced'[m][e] = d
    BY DEF NoGhosts
  <2>1. Accepted(m, d)
    BY <1>1 DEF Accepted
  <2>2. PICK e \in Conn : e # d /\ stage[m][e] = "added" /\ displaced[m][e] = d
    BY <2>1 DEF RegistryInv, NoGhosts
  <2>3. ~(m = n /\ e = c)
    BY <2>2
  <2> QED BY <1>1, <2>2, <2>3
<1> QED BY <1>2, <1>3, <1>4

(***************************************************************************)
(* Add: the entry it replaces is another session, which it now displaces.  *)
(***************************************************************************)
LEMMA AddKeeps ==
    ASSUME RegistryInv, NEW n \in Node, NEW c \in Conn, Add(n, c)
    PROVE  (NoGhosts /\ Unused /\ RegisteredWasAdded)'
<1>1. \A m \in Node, d \in Conn : stage'[m][d] = IF m = n /\ d = c THEN "added" ELSE stage[m][d]
  BY NestedUpdate DEF RegistryInv, SessionsTypeOK, Add
<1>2. \A m \in Node, d \in Conn :
        displaced'[m][d] = IF m = n /\ d = c THEN registry[n] ELSE displaced[m][d]
  BY NestedUpdate DEF RegistryInv, SessionsTypeOK, Add
<1>3. \A m \in Node : registry'[m] = IF m = n THEN c ELSE registry[m]
  BY DEF RegistryInv, SessionsTypeOK, Add
<1>4. stage[n][c] = "hello" /\ registry[n] # c /\ closed' = closed /\ dialled' = dialled
  BY DEF RegistryInv, RegisteredWasAdded, Add, transport
<1>5. Unused'
  BY <1>1, <1>4 DEF RegistryInv, Unused
<1>6. RegisteredWasAdded'
  BY <1>1, <1>3 DEF RegistryInv, RegisteredWasAdded
<1>7. NoGhosts'
  <2> SUFFICES ASSUME NEW m \in Node, NEW d \in Conn, Accepted(m, d)', d \notin closed'[m],
                      registry'[m] # d
               PROVE  \E e \in Conn : e # d /\ stage'[m][e] = "added" /\ displaced'[m][e] = d
    BY DEF NoGhosts
  <2>1. ~(m = n /\ d = c) /\ Accepted(m, d) /\ d \notin closed[m]
    BY <1>1, <1>3, <1>4 DEF Accepted
  <2>2. CASE m = n /\ registry[n] = d
    BY <1>1, <1>2, <1>4, <2>2
  <2>3. CASE ~(m = n /\ registry[n] = d)
    <3>1. PICK e \in Conn : e # d /\ stage[m][e] = "added" /\ displaced[m][e] = d
      BY <1>3, <2>1, <2>3 DEF RegistryInv, NoGhosts
    <3>2. ~(m = n /\ e = c)
      BY <1>4, <3>1
    <3> QED BY <1>1, <1>2, <3>1, <3>2
  <2> QED BY <2>2, <2>3
<1> QED BY <1>5, <1>6, <1>7

(***************************************************************************)
(* Dial: the connection is fresh.                                          *)
(***************************************************************************)
LEMMA DialKeeps ==
    ASSUME RegistryInv, NEW n \in Node, Redial(n)
    PROVE  (NoGhosts /\ Unused /\ RegisteredWasAdded)'
<1> DEFINE c == dialled[n] + 1
<1>0. dialled[n] < MaxConn /\ dialled' = [dialled EXCEPT ![n] = c]
  BY DEF Redial, Dial
<1>1. c \in Conn /\ c > dialled[n] /\ \A d \in Conn : d > c => d > dialled[n] /\ d # c
  BY <1>0, NextConn DEF RegistryInv, SessionsTypeOK
<1>2. stage[n][c] = "unused" /\ registry[n] # c
  BY <1>1 DEF RegistryInv, Unused, RegisteredWasAdded
<1>3. stage' = [stage EXCEPT ![n][c] = "hello"]
  BY DEF Redial, Dial
<1>4. \A m \in Node, d \in Conn : stage'[m][d] = IF m = n /\ d = c THEN "hello" ELSE stage[m][d]
  BY <1>1, <1>3, NestedUpdate DEF RegistryInv, SessionsTypeOK
<1>5. UNCHANGED <<displaced, closed, registry>>
  BY DEF Redial, Dial
<1> HIDE DEF c
<1>6. \A m \in Node : dialled'[m] = IF m = n THEN c ELSE dialled[m]
  BY <1>0 DEF RegistryInv, SessionsTypeOK
<1>7. \A m \in Node, d \in Conn : d > dialled'[m] => d > dialled[m] /\ ~(m = n /\ d = c)
  BY <1>1, <1>6
<1>8. Unused'
  BY <1>4, <1>7 DEF RegistryInv, Unused
<1>9. RegisteredWasAdded'
  BY <1>2, <1>4, <1>5 DEF RegistryInv, RegisteredWasAdded
<1>10. NoGhosts'
  <2> SUFFICES ASSUME NEW m \in Node, NEW d \in Conn, Accepted(m, d)', d \notin closed'[m],
                      registry'[m] # d
               PROVE  \E e \in Conn : e # d /\ stage'[m][e] = "added" /\ displaced'[m][e] = d
    BY DEF NoGhosts
  <2>1. Accepted(m, d)
    BY <1>4 DEF Accepted
  <2>2. PICK e \in Conn : e # d /\ stage[m][e] = "added" /\ displaced[m][e] = d
    BY <1>5, <2>1 DEF RegistryInv, NoGhosts
  <2> QED BY <1>2, <1>4, <1>5, <2>2
<1> QED BY <1>8, <1>9, <1>10

(***************************************************************************)
(* Remove: the session is not accepted any more, and giving up its         *)
(* registry entry bares no other one.                                      *)
(***************************************************************************)
LEMMA RemoveKeeps ==
    ASSUME RegistryInv, NEW n \in Node, NEW c \in Conn, Remove(n, c)
    PROVE  (NoGhosts /\ Unused /\ RegisteredWasAdded)'
<1>1. stage[n][c] = "ending" /\ UNCHANGED <<displaced, closed, dialled>>
  BY DEF Remove, transport
<1>2. CASE registry[n] # c
  <2>1. stage' = [stage EXCEPT ![n][c] = "gone"] /\ registry' = registry
    BY <1>2 DEF Remove
  <2> QED BY <1>1, <2>1, MovesOn DEF Stage
<1>3. CASE registry[n] = c
  <2>1. stage' = [stage EXCEPT ![n][c] = "removed"]
    BY <1>3 DEF Remove
  <2>2. \A m \in Node, d \in Conn :
          stage'[m][d] = IF m = n /\ d = c THEN "removed" ELSE stage[m][d]
    BY <2>1, NestedUpdate DEF RegistryInv, SessionsTypeOK
  <2>3. \A m \in Node : registry'[m] = IF m = n THEN NoConn ELSE registry[m]
    BY <1>3 DEF RegistryInv, SessionsTypeOK, Remove
  <2>4. Unused'
    BY <1>1, <2>2 DEF RegistryInv, Unused
  <2>5. NoConn \notin Conn
    BY DEF NoConn, Conn
  <2>6. RegisteredWasAdded'
    BY <2>2, <2>3, <2>5 DEF RegistryInv, RegisteredWasAdded
  <2>7. NoGhosts'
    <3> SUFFICES ASSUME NEW m \in Node, NEW d \in Conn, Accepted(m, d)', d \notin closed'[m],
                        registry'[m] # d
                 PROVE  \E e \in Conn : e # d /\ stage'[m][e] = "added" /\ displaced'[m][e] = d
      BY DEF NoGhosts
    <3>1. Accepted(m, d) /\ ~(m = n /\ d = c) /\ registry[m] # d /\ d \notin closed[m]
      BY <1>1, <1>3, <2>2, <2>3 DEF Accepted
    <3>2. PICK e \in Conn : e # d /\ stage[m][e] = "added" /\ displaced[m][e] = d
      BY <3>1 DEF RegistryInv, NoGhosts
    <3> QED BY <1>1, <2>2, <3>2
  <2> QED BY <2>4, <2>6, <2>7
<1> QED BY <1>2, <1>3

(***************************************************************************)
(* Every step keeps the rest of the invariant.                             *)
(***************************************************************************)
LEMMA RegistryKept ==
    ASSUME RegistryInv, [SessionsNext]_sessionVars
    PROVE  (NoGhosts /\ Unused /\ RegisteredWasAdded)'
<1>1. ASSUME NEW n \in Node, Stall(n) \/ Resume(n)
      PROVE  (NoGhosts /\ Unused /\ RegisteredWasAdded)'
  BY <1>1, OnlyCloses DEF Stall, Resume
<1>2. ASSUME NEW n \in Node, NEW c \in Conn,
             NodeLosesStream(n, c) \/ ServerLosesStream(n, c)
      PROVE  (NoGhosts /\ Unused /\ RegisteredWasAdded)'
  BY <1>2, OnlyCloses DEF NodeLosesStream, ServerLosesStream
<1>3. ASSUME NEW n \in Node, NEW c \in Conn, Receive(n, c) \/ FallQuiet(n, c)
      PROVE  (NoGhosts /\ Unused /\ RegisteredWasAdded)'
  BY <1>3, OnlyCloses DEF Receive, FallQuiet, transport
<1>4. ASSUME NEW n \in Node, NEW c \in Conn, Expire(n, c)
      PROVE  (NoGhosts /\ Unused /\ RegisteredWasAdded)'
  <2>1. \A m \in Node, d \in Conn : d \in closed[m] => d \in closed'[m]
    BY <1>4 DEF Expire, RegistryInv, SessionsTypeOK
  <2> QED BY <1>4, <2>1, OnlyCloses DEF Expire, transport
<1>5. ASSUME NEW n \in Node, NEW c \in Conn, Join(n, c)
      PROVE  (NoGhosts /\ Unused /\ RegisteredWasAdded)'
  <2>1. CASE CloseDisplaced(n, c)
    <3>1. \A m \in Node, d \in Conn : d \in closed[m] => d \in closed'[m]
      BY <2>1 DEF CloseDisplaced, RegistryInv, SessionsTypeOK
    <3>2. displaced[n][c] \in Conn => displaced[n][c] \in closed'[n]
      BY <2>1 DEF CloseDisplaced, RegistryInv, SessionsTypeOK, Conn, NoConn
    <3> QED BY <2>1, <3>1, <3>2, MovesOn DEF CloseDisplaced, transport, Stage
  <2>2. CASE EndSession(n, c)
    <3>1. \A m \in Node, d \in Conn : d \in closed[m] => d \in closed'[m]
      BY <2>2 DEF EndSession, RegistryInv, SessionsTypeOK
    <3> QED BY <2>2, <3>1, MovesOn DEF EndSession, transport, Stage
  <2>3. CASE ListAgent(n, c)
    BY <2>3, MovesOn DEF ListAgent, transport, Stage
  <2>4. CASE DelistAgent(n, c)
    BY <2>4, MovesOn DEF DelistAgent, transport, Stage
  <2> QED BY <1>5, <2>1, <2>2, <2>3, <2>4, AddKeeps, RemoveKeeps DEF Join
<1>6. CASE UNCHANGED sessionVars
  BY <1>6, OnlyCloses DEF sessionVars
<1> QED BY <1>1, <1>2, <1>3, <1>4, <1>5, <1>6, DialKeeps DEF SessionsNext

(***************************************************************************)
(* Whatever the order in which the goroutines of old and new connections   *)
(* run through Add, Close, Remove and the end of their streams, a session  *)
(* that is accepted and open is the registry's, or is about to be closed   *)
(* by the one that displaced it.                                           *)
(***************************************************************************)
THEOREM RegistryHasNoGhosts == SessionsSpec => []NoGhosts
<1>1. SessionsInit => RegistryInv
  BY InitRegistry
<1>2. RegistryInv /\ [SessionsNext]_sessionVars => RegistryInv'
  BY TypesKept, RegistryKept DEF RegistryInv
<1>3. RegistryInv => NoGhosts
  BY DEF RegistryInv
<1> QED BY <1>1, <1>2, <1>3, PTL DEF SessionsSpec
-----------------------------------------------------------------------------
(***************************************************************************)
(* Under PromptJoin a node has at most one connection that is still        *)
(* joining, its newest, which is the registry's from Add on.  This is what *)
(* ListAgent and Add rely on and the code nowhere checks: without          *)
(* PromptJoin a slow OnJoin of an old connection breaks what is proved     *)
(* below.                                                                  *)
(***************************************************************************)
Joining == {"hello", "added", "listing"}

JoiningIsNewest ==
    \A n \in Node, c \in Conn :
        stage[n][c] \in Joining =>
            /\ c = dialled[n]
            /\ stage[n][c] # "hello" => registry[n] = c

ListInv == RegistryInv /\ JoiningIsNewest /\ ListedAreConnected

(***************************************************************************)
(* A step that moves one session on, out of "hello" and out of "removed"   *)
(* not at all, leaves the registry and the list alone.                     *)
(***************************************************************************)
LEMMA StaysListed ==
    ASSUME ListInv, NEW n \in Node, NEW c \in Conn, NEW st \in Stage,
           stage' = [stage EXCEPT ![n][c] = st],
           UNCHANGED <<registry, dialled, listed>>,
           stage[n][c] # "removed",
           st \in Joining => stage[n][c] \in Joining \ {"hello"}
    PROVE  (JoiningIsNewest /\ ListedAreConnected)'
<1>1. \A m \in Node, d \in Conn : stage'[m][d] = IF m = n /\ d = c THEN st ELSE stage[m][d]
  BY NestedUpdate DEF ListInv, RegistryInv, SessionsTypeOK
<1>2. JoiningIsNewest'
  BY <1>1 DEF ListInv, JoiningIsNewest
<1>3. listed \subseteq Node
  BY DEF ListInv, RegistryInv, SessionsTypeOK
<1>4. ListedAreConnected'
  BY <1>1, <1>3 DEF ListInv, ListedAreConnected
<1> QED BY <1>2, <1>4

(***************************************************************************)
(* Dial: with PromptJoin nobody else of the node is joining.               *)
(***************************************************************************)
LEMMA DialStaysListed ==
    ASSUME PromptJoin, ListInv, NEW n \in Node, Redial(n)
    PROVE  (JoiningIsNewest /\ ListedAreConnected)'
<1> DEFINE c == dialled[n] + 1
<1>1. /\ dialled[n] < MaxConn
      /\ \A d \in Conn : stage[n][d] \notin Joining
      /\ dialled' = [dialled EXCEPT ![n] = c]
      /\ stage' = [stage EXCEPT ![n][c] = "hello"]
      /\ UNCHANGED <<registry, listed>>
  BY DEF Redial, Backoff, Dial, Joining
<1>2. c \in Conn /\ c > dialled[n]
  BY <1>1, NextConn DEF ListInv, RegistryInv, SessionsTypeOK
<1>3. stage[n][c] = "unused"
  BY <1>2 DEF ListInv, RegistryInv, Unused
<1>4. \A m \in Node, d \in Conn : stage'[m][d] = IF m = n /\ d = c THEN "hello" ELSE stage[m][d]
  BY <1>1, <1>2, NestedUpdate DEF ListInv, RegistryInv, SessionsTypeOK
<1> HIDE DEF c
<1>5. \A m \in Node : dialled'[m] = IF m = n THEN c ELSE dialled[m]
  BY <1>1 DEF ListInv, RegistryInv, SessionsTypeOK
<1>6. JoiningIsNewest'
  BY <1>1, <1>4, <1>5 DEF ListInv, JoiningIsNewest
<1>7. listed \subseteq Node
  BY DEF ListInv, RegistryInv, SessionsTypeOK
<1>8. ListedAreConnected'
  BY <1>1, <1>3, <1>4, <1>7 DEF ListInv, ListedAreConnected
<1> QED BY <1>6, <1>8

(***************************************************************************)
(* Add: the connection is the node's newest.                               *)
(***************************************************************************)
LEMMA AddStaysListed ==
    ASSUME ListInv, NEW n \in Node, NEW c \in Conn, Add(n, c)
    PROVE  (JoiningIsNewest /\ ListedAreConnected)'
<1>1. \A m \in Node, d \in Conn : stage'[m][d] = IF m = n /\ d = c THEN "added" ELSE stage[m][d]
  BY NestedUpdate DEF ListInv, RegistryInv, SessionsTypeOK, Add
<1>2. \A m \in Node : registry'[m] = IF m = n THEN c ELSE registry[m]
  BY DEF ListInv, RegistryInv, SessionsTypeOK, Add
<1>3. stage[n][c] = "hello" /\ UNCHANGED <<dialled, listed>> /\ c # NoConn /\ listed \subseteq Node
  BY DEF Add, transport, Conn, NoConn, ListInv, RegistryInv, SessionsTypeOK
<1>4. c = dialled[n]
  BY <1>3 DEF ListInv, JoiningIsNewest, Joining
<1>5. \A d \in Conn : stage[n][d] \in Joining => d = c
  BY <1>4 DEF ListInv, JoiningIsNewest
<1>6. JoiningIsNewest'
  BY <1>1, <1>2, <1>3, <1>4, <1>5 DEF ListInv, JoiningIsNewest
<1>7. ListedAreConnected'
  BY <1>1, <1>2, <1>3 DEF ListInv, ListedAreConnected
<1> QED BY <1>6, <1>7

(***************************************************************************)
(* OnLeave: a session that gives up the registry's entry is not joining,   *)
(* and is "removed" until it has taken the node off the list.              *)
(***************************************************************************)
LEMMA LeaveStaysListed ==
    ASSUME ListInv, NEW n \in Node, NEW c \in Conn, Remove(n, c) \/ DelistAgent(n, c)
    PROVE  (JoiningIsNewest /\ ListedAreConnected)'
<1>0. listed \subseteq Node
  BY DEF ListInv, RegistryInv, SessionsTypeOK
<1>1. CASE Remove(n, c) /\ registry[n] # c
  <2>1. /\ stage[n][c] = "ending" /\ stage' = [stage EXCEPT ![n][c] = "gone"]
        /\ UNCHANGED <<registry, dialled, listed>>
    BY <1>1 DEF Remove, transport
  <2> QED BY <2>1, StaysListed DEF Stage, Joining
<1>2. CASE Remove(n, c) /\ registry[n] = c
  <2>1. /\ stage[n][c] = "ending" /\ stage' = [stage EXCEPT ![n][c] = "removed"]
        /\ registry' = [registry EXCEPT ![n] = NoConn]
        /\ UNCHANGED <<dialled, listed>>
    BY <1>2 DEF Remove, transport
  <2>2. \A m \in Node, d \in Conn :
          stage'[m][d] = IF m = n /\ d = c THEN "removed" ELSE stage[m][d]
    BY <2>1, NestedUpdate DEF ListInv, RegistryInv, SessionsTypeOK
  <2>3. \A m \in Node : registry'[m] = IF m = n THEN NoConn ELSE registry[m]
    BY <2>1 DEF ListInv, RegistryInv, SessionsTypeOK
  <2>4. \A d \in Conn : d # c /\ stage[n][d] \in Joining => stage[n][d] = "hello"
    BY <1>2 DEF ListInv, JoiningIsNewest
  <2>5. JoiningIsNewest'
    BY <2>1, <2>2, <2>3, <2>4 DEF ListInv, JoiningIsNewest, Joining
  <2>6. ListedAreConnected'
    BY <1>0, <2>1, <2>2, <2>3 DEF ListInv, ListedAreConnected
  <2> QED BY <2>5, <2>6
<1>3. CASE DelistAgent(n, c)
  <2>1. /\ stage[n][c] = "removed" /\ stage' = [stage EXCEPT ![n][c] = "gone"]
        /\ listed' = listed \ {n} /\ UNCHANGED <<registry, dialled>>
    BY <1>3 DEF DelistAgent, transport
  <2>2. \A m \in Node, d \in Conn : stage'[m][d] = IF m = n /\ d = c THEN "gone" ELSE stage[m][d]
    BY <2>1, NestedUpdate DEF ListInv, RegistryInv, SessionsTypeOK
  <2>3. JoiningIsNewest'
    BY <2>1, <2>2 DEF ListInv, JoiningIsNewest, Joining
  <2>4. ListedAreConnected'
    BY <1>0, <2>1, <2>2 DEF ListInv, ListedAreConnected
  <2> QED BY <2>3, <2>4
<1> QED BY <1>1, <1>2, <1>3

(***************************************************************************)
(* ListAgent: the session that lists the node is the registry's.           *)
(***************************************************************************)
LEMMA ListAgentStaysListed ==
    ASSUME ListInv, NEW n \in Node, NEW c \in Conn, ListAgent(n, c)
    PROVE  (JoiningIsNewest /\ ListedAreConnected)'
<1>1. /\ stage[n][c] = "listing" /\ stage' = [stage EXCEPT ![n][c] = "serving"]
      /\ listed' = listed \cup {n} /\ UNCHANGED <<registry, dialled>>
  BY DEF ListAgent, transport
<1>2. \A m \in Node, d \in Conn : stage'[m][d] = IF m = n /\ d = c THEN "serving" ELSE stage[m][d]
  BY <1>1, NestedUpdate DEF ListInv, RegistryInv, SessionsTypeOK
<1>3. registry[n] = c /\ c # NoConn /\ listed \subseteq Node
  BY <1>1 DEF ListInv, JoiningIsNewest, Joining, Conn, NoConn, RegistryInv, SessionsTypeOK
<1>4. JoiningIsNewest'
  BY <1>1, <1>2 DEF ListInv, JoiningIsNewest, Joining
<1>5. ListedAreConnected'
  BY <1>1, <1>2, <1>3 DEF ListInv, ListedAreConnected
<1> QED BY <1>4, <1>5

(***************************************************************************)
(* Every step keeps the list and the registry together.                    *)
(***************************************************************************)
LEMMA ListKept ==
    ASSUME PromptJoin, ListInv, [SessionsNext]_sessionVars
    PROVE  (JoiningIsNewest /\ ListedAreConnected)'
<1>1. ASSUME UNCHANGED <<stage, registry, dialled, listed>>
      PROVE  (JoiningIsNewest /\ ListedAreConnected)'
  BY <1>1 DEF ListInv, JoiningIsNewest, ListedAreConnected
<1>2. ASSUME NEW n \in Node, Stall(n) \/ Resume(n)
      PROVE  (JoiningIsNewest /\ ListedAreConnected)'
  BY <1>1, <1>2 DEF Stall, Resume
<1>3. ASSUME NEW n \in Node, NEW c \in Conn,
             \/ NodeLosesStream(n, c) \/ ServerLosesStream(n, c)
             \/ Receive(n, c) \/ FallQuiet(n, c) \/ Expire(n, c)
      PROVE  (JoiningIsNewest /\ ListedAreConnected)'
  BY <1>1, <1>3 DEF NodeLosesStream, ServerLosesStream, Receive, FallQuiet, Expire, transport
<1>4. ASSUME NEW n \in Node, NEW c \in Conn, CloseDisplaced(n, c)
      PROVE  (JoiningIsNewest /\ ListedAreConnected)'
  BY <1>4, StaysListed DEF CloseDisplaced, transport, Stage, Joining
<1>5. ASSUME NEW n \in Node, NEW c \in Conn, EndSession(n, c)
      PROVE  (JoiningIsNewest /\ ListedAreConnected)'
  BY <1>5, StaysListed DEF EndSession, transport, Stage, Joining
<1>6. ASSUME NEW n \in Node, NEW c \in Conn, Join(n, c)
      PROVE  (JoiningIsNewest /\ ListedAreConnected)'
  BY <1>4, <1>5, <1>6, AddStaysListed, LeaveStaysListed, ListAgentStaysListed DEF Join
<1>7. CASE UNCHANGED sessionVars
  BY <1>1, <1>7 DEF sessionVars
<1> QED BY <1>2, <1>3, <1>6, <1>7, DialStaysListed DEF SessionsNext

(***************************************************************************)
(* The invariant holds in every state, if joins are prompt.                *)
(***************************************************************************)
LEMMA ListInvariant == ASSUME PromptJoin PROVE SessionsSpec => []ListInv
<1>1. SessionsInit => ListInv
  <2> SUFFICES ASSUME SessionsInit PROVE ListInv
    OBVIOUS
  <2>1. JoiningIsNewest
    BY DEF SessionsInit, JoiningIsNewest, Joining
  <2>2. ListedAreConnected
    BY DEF SessionsInit, ListedAreConnected
  <2> QED BY <2>1, <2>2, InitRegistry DEF ListInv
<1>2. ListInv /\ [SessionsNext]_sessionVars => ListInv'
  BY TypesKept, RegistryKept, ListKept DEF ListInv, RegistryInv
<1> QED BY <1>1, <1>2, PTL DEF SessionsSpec

(***************************************************************************)
(* With a backoff that outlasts OnJoin, the list of agents keeps nobody    *)
(* who is gone: a listed node has a registered session, or the OnLeave     *)
(* that removed it is about to take the node off the list.                 *)
(***************************************************************************)
THEOREM TheListedAreConnected == ASSUME PromptJoin PROVE SessionsSpec => []ListedAreConnected
<1>1. ListInv => ListedAreConnected
  BY DEF ListInv
<1> QED BY <1>1, ListInvariant, PTL
=============================================================================
