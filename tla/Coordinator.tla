---------------------------- MODULE Coordinator ----------------------------
(***************************************************************************)
(* internal/coordinator: the runs a coordinator keeps, the agents taking   *)
(* part in them, and the goroutines that work on both at the same time:    *)
(* callers of StartRun, StopRun and ScaleRun, the `go rebalance` of every  *)
(* join and leave, the per-session receive loops and the ticker.           *)
(*                                                                         *)
(* A Go mutex region is one step.  StartRun and rebalance release their    *)
(* locks between reading the fleet, sending to each agent and recording    *)
(* the roster, so each of those is a step of its own, taken by a goroutine *)
(* slot `p \in Proc`.  Agents are modelled by what they do to the          *)
(* coordinator: accept commands in order and report phases.                *)
(***************************************************************************)
EXTENDS Integers, Sequences, FiniteSets, FiniteSetsExt, Apportion, IdSpace

CONSTANTS
    Agent,          \* agent ids: naturals, in the order their id strings sort
    Fleet,          \* the agents connected at the start
    Slot,           \* goroutine slots for StartRun, ScaleRun and `go rebalance`
    Weight,         \* Weight[a]: the VU capacity agent a advertises
    MaxRuns,        \* bound: runs created in a behaviour
    Peak,           \* the peak VU count of every plan
    ScaledPeaks,    \* peaks an operator may scale a run to
    Outcomes,       \* what evaluating the plan's thresholds may yield
    QueueSize,      \* capacity of a session's command queue
    ReportQueue,    \* capacity of an agent's upstream queue
    StopLimit,      \* grace budget plus margin, in ticks
    MaxRunHistory,  \* retained runs
    Budget          \* bound: how often each environment event may happen

ASSUME AgentAssumption == Agent \subseteq Nat /\ IsFiniteSet(Agent) /\ Fleet \subseteq Agent
ASSUME BoundAssumption ==
    /\ MaxRuns \in Nat /\ QueueSize \in Nat /\ ReportQueue \in Nat
    /\ StopLimit \in Nat \ {0} /\ MaxRunHistory \in Nat \ {0}
ASSUME LoadAssumption ==
    /\ Peak \in Nat /\ ScaledPeaks \subseteq Nat /\ Weight \in [Agent -> Nat \ {0}]
    /\ "pass" \in Outcomes /\ Outcomes \subseteq {"pass", "breach", "abort"}
Event == {"joins", "leaves", "restarts", "expiries", "stops", "scales"}
ASSUME BudgetAssumption ==
    Budget \in [Event -> Nat]
ASSUME SlotAssumption == "ticker" \notin Slot

Proc == Slot \cup {"ticker"}
Run == 1 .. MaxRuns
NoRun == 0

Terminal == {"completed", "failed", "aborted"}
Phase == {"pending", "starting", "running", "stopping"} \cup Terminal
NotStopping == -1

VARIABLES
    run,        \* run[r]: the coordinator's record of run r
    active,     \* c.active: the newest run, or NoRun; never cleared
    order,      \* c.order: retained run ids, oldest first (c.runs has the same keys)
    session,    \* session[a]: the registry's session of agent a and its connection number
    down,       \* down[a]: commands queued for a on its current session
    up,         \* up[a]: status reports of a not yet handled
    proc,       \* proc[p]: what goroutine p is doing
    tick,       \* how far the ticker is in the current tick, and the run it looks at
    agent,      \* agent[a]: what agent a is executing
    budget,     \* remaining environment events
    witness     \* history: which agents have reported which terminal phases

runVars == <<run, active, order>>
netVars == <<session, down, up>>
vars == <<run, active, order, session, down, up, proc, tick, agent, budget, witness>>
-----------------------------------------------------------------------------
(***************************************************************************)
(* Data.  A quota is recorded as the claim it was computed from: the peak  *)
(* and the agents it was divided among; ShareOf evaluates it.  An id block *)
(* is likewise the set of agents whose sorted list gave the agent its      *)
(* index.                                                                  *)
(***************************************************************************)
Claim == [peak : Nat, among : SUBSET Agent]
NoClaim == [peak |-> 0, among |-> {}]

ShareOf(claim, a) ==
    IF a \in claim.among
    THEN Largest(claim.peak, [b \in claim.among |-> Weight[b]])[a]
    ELSE 0

IndexIn(among, a) == Cardinality({b \in among : b < a})

Participant == [phase : Phase \cup {"absent"}, dispatched : BOOLEAN, claim : Claim]
Absent == [phase |-> "absent", dispatched |-> FALSE, claim |-> NoClaim]

RunRecord == [phase : Phase \cup {"none"}, stopping : NotStopping .. StopLimit, breached : BOOLEAN,
              peakVUs : Nat, participants : [Agent -> Participant]]
NoRecord == [phase |-> "none", stopping |-> NotStopping, breached |-> FALSE,
             peakVUs |-> 0, participants |-> [a \in Agent |-> Absent]]

Command == [kind : {"StartRun", "SetQuota", "StopRun"}, run : Run, claim : Claim]
Report == [run : Run, phase : {"running", "completed", "failed"}]

Worker == [pc : {"idle", "lock", "begin", "snapshot", "send", "record", "starting", "broadcast"},
           op : {"none", "start", "rebalance", "stop"}, run : Run \cup {NoRun},
           view : [Agent -> Nat], todo : SUBSET Agent, peak : Nat,
           known : SUBSET Agent, failed : SUBSET Agent]
Idle == [pc |-> "idle", op |-> "none", run |-> NoRun, view |-> [a \in Agent |-> 0],
         todo |-> {}, peak |-> 0, known |-> {}, failed |-> {}]

AgentState == [run : Run \cup {NoRun}, claim : Claim, block : SUBSET Agent,
               st : {"none", "spawning", "running", "done", "stopping"}]
NoWork == [run |-> NoRun, claim |-> NoClaim, block |-> {}, st |-> "none"]

Ticker == [pc : {"idle", "expired", "judged", "waiting", "completed", "failed"},
           run : Run \cup {NoRun}]
NotTicking == [pc |-> "idle", run |-> NoRun]
-----------------------------------------------------------------------------
(***************************************************************************)
(* run.go: the operations on one run, each under run.mu.                   *)
(***************************************************************************)
IsTerminal(phase) == phase \in Terminal

Active(r) == ~IsTerminal(run[r].phase)

(***************************************************************************)
(* setPhase without its terminal guard.                                    *)
(***************************************************************************)
SetPhaseUnguarded(rec, phase) ==
    [rec EXCEPT
       !.phase = phase,
       !.stopping = IF phase = "stopping" /\ @ = NotStopping THEN 0 ELSE @]

SetPhase(rec, phase) ==
    IF IsTerminal(rec.phase) THEN rec
    ELSE [rec EXCEPT
            !.phase = phase,
            !.stopping = IF phase = "stopping" /\ @ = NotStopping THEN 0 ELSE @]

UpdateParticipant(rec, a, phase) ==
    [rec EXCEPT !.participants[a].phase = phase]

SetParticipants(rec, parts) == [rec EXCEPT !.participants = parts]

SetThresholds(rec, failing) == [rec EXCEPT !.breached = @ \/ failing]

NewRun == [NoRecord EXCEPT !.phase = "pending", !.peakVUs = Peak]

(***************************************************************************)
(* Sessions.  healthySessions drops the closed ones; Send fails on a       *)
(* closed or superseded session and on a full queue.                       *)
(***************************************************************************)
Healthy == {a \in Agent : session[a].st = "open"}

View == [a \in Agent |-> IF a \in Healthy THEN session[a].epoch ELSE 0]

InView(view) == {a \in Agent : view[a] # 0}

CanSend(a, epoch) ==
    /\ session[a].st = "open" /\ session[a].epoch = epoch
    /\ Len(down[a]) < QueueSize

Broadcast(cmd) ==
    down' = [a \in Agent |-> IF CanSend(a, session[a].epoch)
                             THEN Append(down[a], cmd) ELSE down[a]]

(***************************************************************************)
(* `go c.rebalance(run)`: a fresh goroutine for the active run, if any.    *)
(***************************************************************************)
Rebalancer(r) == [Idle EXCEPT !.pc = "begin", !.op = "rebalance", !.run = r]

SpawnRebalance ==
    IF active = NoRun THEN UNCHANGED proc
    ELSE \E p \in Slot :
           /\ proc[p].pc = "idle"
           /\ proc' = [proc EXCEPT ![p] = Rebalancer(active)]

Spend(event) ==
    /\ budget[event] > 0
    /\ budget' = [budget EXCEPT ![event] = @ - 1]
-----------------------------------------------------------------------------
Init ==
    /\ run = [r \in Run |-> NoRecord]
    /\ active = NoRun
    /\ order = <<>>
    /\ session = [a \in Agent |-> IF a \in Fleet THEN [st |-> "open", epoch |-> 1]
                                  ELSE [st |-> "gone", epoch |-> 0]]
    /\ down = [a \in Agent |-> <<>>]
    /\ up = [a \in Agent |-> <<>>]
    /\ proc = [p \in Proc |-> Idle]
    /\ tick = NotTicking
    /\ agent = [a \in Agent |-> NoWork]
    /\ budget = Budget
    /\ witness = [r \in Run |-> [ph \in {"completed", "failed"} |-> {}]]
-----------------------------------------------------------------------------
(***************************************************************************)
(* StartRun, from reading the fleet to announcing the start.  The fleet is *)
(* read before c.mu is taken.                                              *)
(***************************************************************************)
StartRun(p) ==
    /\ proc[p].pc = "idle"
    /\ \E r \in Run : run[r].phase = "none"
    /\ Healthy # {}
    /\ proc' = [proc EXCEPT ![p] = [Idle EXCEPT !.pc = "lock", !.op = "start", !.view = View]]
    /\ UNCHANGED <<runVars, netVars, tick, agent, budget, witness>>

(***************************************************************************)
(* trimHistoryLocked, off by one.                                          *)
(***************************************************************************)
TrimmedLate(ids, live) ==
    LET stop(k) == Len(ids) - k <= MaxRunHistory + 1 \/ ids[k + 1] \in live
        n == CHOOSE k \in 0 .. Len(ids) : stop(k) /\ \A j \in 0 .. k - 1 : ~stop(j)
    IN  SubSeq(ids, n + 1, Len(ids))

(***************************************************************************)
(* trimHistoryLocked: evict from the front until the history fits or the   *)
(* oldest retained run is still live.                                      *)
(***************************************************************************)
Trimmed(ids, live) ==
    LET stop(k) == Len(ids) - k <= MaxRunHistory \/ ids[k + 1] \in live
        n == CHOOSE k \in 0 .. Len(ids) : stop(k) /\ \A j \in 0 .. k - 1 : ~stop(j)
    IN  SubSeq(ids, n + 1, Len(ids))

StartRefused(p) ==
    /\ proc[p].pc = "lock"
    /\ active # NoRun /\ Active(active)
    /\ proc' = [proc EXCEPT ![p] = Idle]
    /\ UNCHANGED <<runVars, netVars, tick, agent, budget, witness>>

(***************************************************************************)
(* StartRun without the check for an active run under c.mu.                *)
(***************************************************************************)
StartUnchecked(p) ==
    /\ proc[p].pc = "lock"
    /\ \E r \in Run :
         /\ run[r].phase = "none" /\ \A q \in Run : q < r => run[q].phase # "none"
         /\ run' = [run EXCEPT ![r] = NewRun]
         /\ active' = r
         /\ order' = Trimmed(Append(order, r), {q \in Run : Active(q)} \cup {r})
         /\ proc' = [proc EXCEPT ![p] = [@ EXCEPT !.pc = "send", !.run = r, !.peak = Peak,
                                                  !.todo = InView(proc[p].view)]]
    /\ UNCHANGED <<netVars, tick, agent, budget, witness>>

StartAccepted(p) ==
    /\ proc[p].pc = "lock"
    /\ active # NoRun => ~Active(active)
    /\ \E r \in Run :
         /\ run[r].phase = "none" /\ \A q \in Run : q < r => run[q].phase # "none"
         /\ run' = [run EXCEPT ![r] = NewRun]
         /\ active' = r
         /\ order' = Trimmed(Append(order, r), {q \in Run : Active(q)} \cup {r})
         /\ proc' = [proc EXCEPT ![p] = [@ EXCEPT !.pc = "send", !.run = r, !.peak = Peak,
                                                  !.todo = InView(proc[p].view)]]
    /\ UNCHANGED <<netVars, tick, agent, budget, witness>>

(***************************************************************************)
(* rebalance: return unless the run is live and someone is connected, then *)
(* read the peak and who was dispatched under run.mu.                      *)
(***************************************************************************)
RebalanceBegin(p) ==
    /\ proc[p].pc = "begin"
    /\ proc' = [proc EXCEPT ![p] =
                  IF Active(@.run) /\ Healthy # {}
                  THEN [@ EXCEPT !.pc = "snapshot", !.view = View]
                  ELSE Idle]
    /\ UNCHANGED <<runVars, netVars, tick, agent, budget, witness>>

RebalanceSnapshot(p) ==
    /\ proc[p].pc = "snapshot"
    /\ LET rec == run[proc[p].run]
       IN  proc' = [proc EXCEPT ![p] =
                      [@ EXCEPT !.pc = "send", !.peak = rec.peakVUs,
                                !.known = {a \in Agent : rec.participants[a].dispatched},
                                !.todo = InView(proc[p].view)]]
    /\ UNCHANGED <<runVars, netVars, tick, agent, budget, witness>>

(***************************************************************************)
(* One session.Send of dispatch or rebalance, in the order of agent ids.   *)
(* dispatch marks an unreachable agent failed; rebalance only logs it.     *)
(***************************************************************************)
CommandFor(w, a) ==
    [kind |-> IF w.op = "rebalance" /\ a \in w.known THEN "SetQuota" ELSE "StartRun",
     run |-> w.run,
     claim |-> [peak |-> w.peak, among |-> InView(w.view)]]

SendNext(p) ==
    /\ proc[p].pc = "send" /\ proc[p].todo # {}
    /\ LET w == proc[p]
           a == Min(w.todo)
           ok == CanSend(a, w.view[a])
       IN  /\ down' = IF ok THEN [down EXCEPT ![a] = Append(@, CommandFor(w, a))] ELSE down
           /\ proc' = [proc EXCEPT ![p] =
                         [w EXCEPT !.pc = IF w.todo = {a} THEN "record" ELSE "send",
                                   !.todo = @ \ {a},
                                   !.failed = IF ok THEN @ ELSE @ \cup {a}]]
    /\ UNCHANGED <<runVars, session, up, tick, agent, budget, witness>>

(***************************************************************************)
(* A roster that leaves the phase at Go's zero value.                      *)
(***************************************************************************)
RosterUnphased(w) ==
    LET members == InView(w.view)
    IN  [a \in Agent |->
           IF a \notin members THEN Absent
           ELSE [phase |-> IF a \in w.failed THEN "failed" ELSE "", dispatched |-> TRUE,
                 claim |-> [peak |-> w.peak, among |-> members]]]

(***************************************************************************)
(* setParticipants replaces the whole roster with the one just dispatched. *)
(***************************************************************************)
Roster(w) ==
    LET members == InView(w.view)
    IN  [a \in Agent |->
           IF a \notin members THEN Absent
           ELSE [phase |-> IF w.op = "rebalance" THEN "running"
                           ELSE IF a \in w.failed THEN "failed" ELSE "pending",
                 dispatched |-> TRUE,
                 claim |-> [peak |-> w.peak, among |-> members]]]

RecordRoster(p) ==
    /\ proc[p].pc = "record"
    /\ run' = [run EXCEPT ![proc[p].run] = SetParticipants(@, Roster(proc[p]))]
    /\ proc' = [proc EXCEPT ![p] = IF @.op = "start" THEN [@ EXCEPT !.pc = "starting"] ELSE Idle]
    /\ UNCHANGED <<active, order, netVars, tick, agent, budget, witness>>

AnnounceStarting(p) ==
    /\ proc[p].pc = "starting"
    /\ run' = [run EXCEPT ![proc[p].run] = SetPhase(@, "starting")]
    /\ proc' = [proc EXCEPT ![p] = Idle]
    /\ UNCHANGED <<active, order, netVars, tick, agent, budget, witness>>

(***************************************************************************)
(* StopRun and ScaleRun, as an operator calls them.  Only a retained run   *)
(* can be looked up.  StopRun marks the run and then broadcasts; ScaleRun  *)
(* changes the peak and then rebalances.                                   *)
(***************************************************************************)
Retained == {order[i] : i \in 1 .. Len(order)}

StopCommand(r) == [kind |-> "StopRun", run |-> r, claim |-> NoClaim]

Stopper(r) == [Idle EXCEPT !.pc = "broadcast", !.op = "stop", !.run = r]

StopRun(p, r) ==
    /\ proc[p].pc = "idle" /\ Spend("stops")
    /\ r \in Retained /\ Active(r)
    /\ run' = [run EXCEPT ![r] = SetPhase(@, "stopping")]
    /\ proc' = [proc EXCEPT ![p] = Stopper(r)]
    /\ UNCHANGED <<active, order, netVars, tick, agent, witness>>

BroadcastStop(p) ==
    /\ proc[p].pc = "broadcast"
    /\ Broadcast(StopCommand(proc[p].run))
    /\ proc' = [proc EXCEPT ![p] = Idle]
    /\ UNCHANGED <<runVars, session, up, tick, agent, budget, witness>>

ScaleRun(p, r, v) ==
    /\ proc[p].pc = "idle" /\ Spend("scales")
    /\ r \in Retained /\ Active(r)
    /\ run' = [run EXCEPT ![r].peakVUs = v]
    /\ proc' = [proc EXCEPT ![p] = Rebalancer(r)]
    /\ UNCHANGED <<active, order, netVars, tick, agent, witness>>
-----------------------------------------------------------------------------
(***************************************************************************)
(* tick, in the ticker's own goroutine.  An interval has passed, also for  *)
(* a run being stopped.  expireAgents closes the sessions that went quiet  *)
(* and rebalances before the rest of the tick.  A closed session stays     *)
(* registered until its stream breaks, and while it stays quiet it is lost *)
(* again on every tick; only the first time counts against the budget.     *)
(***************************************************************************)
Aged(rec) ==
    [rec EXCEPT !.stopping = IF @ \in 0 .. StopLimit - 1 THEN @ + 1 ELSE @]

TickExpire(lost) ==
    /\ tick.pc = "idle"
    /\ IF lost \cap Healthy = {} THEN UNCHANGED budget ELSE Spend("expiries")
    /\ session' = [a \in Agent |-> IF a \in lost THEN [session[a] EXCEPT !.st = "closed"]
                                   ELSE session[a]]
    /\ proc' = IF lost = {} \/ active = NoRun THEN proc
               ELSE [proc EXCEPT !["ticker"] = Rebalancer(active)]
    /\ run' = [r \in Run |-> Aged(run[r])]
    /\ tick' = [NotTicking EXCEPT !.pc = "expired"]
    /\ UNCHANGED <<active, order, down, up, agent, witness>>

(***************************************************************************)
(* The thresholds of the active run are evaluated, and one that asks for   *)
(* an abort stops the run.                                                 *)
(***************************************************************************)
TickJudge(verdict) ==
    /\ tick.pc = "expired" /\ proc["ticker"].pc = "idle"
    /\ IF active = NoRun
       THEN tick' = NotTicking /\ UNCHANGED <<run, proc>>
       ELSE LET seen == SetThresholds(run[active], verdict # "pass")
                abort == verdict = "abort" /\ Active(active)
            IN  /\ run' = [run EXCEPT ![active] = IF abort THEN SetPhase(seen, "stopping")
                                                  ELSE seen]
                /\ proc' = IF abort THEN [proc EXCEPT !["ticker"] = Stopper(active)] ELSE proc
                /\ tick' = [pc |-> "judged", run |-> active]
    /\ UNCHANGED <<active, order, netVars, agent, budget, witness>>

(***************************************************************************)
(* checkCompletion that takes whoever has not failed for finished.         *)
(***************************************************************************)
DecisionHasty(parts) ==
    LET members == {a \in Agent : parts[a].phase # "absent"}
        failures == {a \in members : parts[a].phase = "failed"}
    IN  IF members = {} THEN "waiting"
        ELSE IF failures = members THEN "failed" ELSE "completed"

(***************************************************************************)
(* checkCompletion reads the roster: nothing to do while it is empty or    *)
(* somebody is neither completed nor failed.                               *)
(***************************************************************************)
Decision(parts) ==
    LET members == {a \in Agent : parts[a].phase # "absent"}
        failures == {a \in members : parts[a].phase = "failed"}
    IN  IF \/ members = {}
           \/ \E a \in members : parts[a].phase \notin {"completed", "failed"}
        THEN "waiting"
        ELSE IF failures = members THEN "failed" ELSE "completed"

TickCheck ==
    /\ tick.pc = "judged" /\ proc["ticker"].pc = "idle"
    /\ tick' = IF Active(tick.run)
               THEN [tick EXCEPT !.pc = Decision(run[tick.run].participants)]
               ELSE NotTicking
    /\ UNCHANGED <<runVars, netVars, proc, agent, budget, witness>>

(***************************************************************************)
(* finish evaluates the thresholds again.  checkStopTimeout follows, also  *)
(* after a completion: setPhase then refuses.                              *)
(***************************************************************************)
Finish(rec, phase, failing) == SetPhase(SetThresholds(rec, failing), phase)

(***************************************************************************)
(* checkStopTimeout that looks at the phase instead of stoppingAt.         *)
(***************************************************************************)
CheckStopTimeoutByPhase(rec, failing) ==
    IF rec.phase = "stopping" /\ rec.stopping >= StopLimit
    THEN Finish(rec, "aborted", failing) ELSE rec

CheckStopTimeout(rec, failing) ==
    IF rec.stopping >= StopLimit THEN Finish(rec, "aborted", failing) ELSE rec

TickConclude(last) ==
    /\ tick.pc \in {"waiting", "completed", "failed"}
    /\ LET rec == run[tick.run]
           failing == last # "pass"
           done == IF tick.pc = "waiting" THEN rec ELSE Finish(rec, tick.pc, failing)
       IN  run' = [run EXCEPT ![tick.run] = CheckStopTimeout(done, failing)]
    /\ tick' = NotTicking
    /\ UNCHANGED <<active, order, netVars, proc, agent, budget, witness>>
-----------------------------------------------------------------------------
(***************************************************************************)
(* OnJoin and OnLeave, with the connection underneath.  A broken stream    *)
(* loses the queued commands and any prefix of the reports on their way;   *)
(* an agent process that has been connected before may have been restarted *)
(* while it was away.                                                      *)
(***************************************************************************)
LoseReports(a, restarted) ==
    \E k \in 0 .. Len(up[a]) :
        up' = [up EXCEPT ![a] = IF restarted THEN <<>> ELSE SubSeq(@, k + 1, Len(@))]

Join(a, restarted) ==
    /\ Spend(IF restarted THEN "restarts" ELSE "joins")
    /\ restarted => session[a].epoch > 0
    /\ session' = [session EXCEPT ![a] = [st |-> "open", epoch |-> @.epoch + 1]]
    /\ down' = [down EXCEPT ![a] = <<>>]
    /\ LoseReports(a, restarted)
    /\ agent' = IF restarted THEN [agent EXCEPT ![a] = NoWork] ELSE agent
    /\ SpawnRebalance
    /\ UNCHANGED <<runVars, tick, witness>>

Leave(a) ==
    /\ Spend("leaves")
    /\ session[a].st # "gone"
    /\ session' = [session EXCEPT ![a].st = "gone"]
    /\ down' = [down EXCEPT ![a] = <<>>]
    /\ LoseReports(a, FALSE)
    /\ SpawnRebalance
    /\ UNCHANGED <<runVars, tick, agent, witness>>

(***************************************************************************)
(* OnRunStatus: the report updates, or creates, the agent's roster entry,  *)
(* and a running report moves the run to running.  The receive loop of a   *)
(* session closed by expireAgents still delivers.                          *)
(***************************************************************************)
OnRunStatus(a) ==
    /\ up[a] # <<>> /\ session[a].st # "gone"
    /\ up' = [up EXCEPT ![a] = Tail(@)]
    /\ LET r == Head(up[a]).run
           phase == Head(up[a]).phase
           seen == UpdateParticipant(run[r], a, phase)
       IN  IF r \notin Retained THEN UNCHANGED <<run, witness>>
           ELSE /\ run' = [run EXCEPT ![r] = IF phase = "running" THEN SetPhase(seen, "running")
                                             ELSE seen]
                /\ witness' = IF phase = "running" THEN witness
                              ELSE [witness EXCEPT ![r][phase] = @ \cup {a}]
    /\ UNCHANGED <<active, order, session, down, proc, tick, agent, budget>>
-----------------------------------------------------------------------------
(***************************************************************************)
(* Agents, as far as the coordinator can tell.  Client.Send drops a report *)
(* when its queue is full.                                                 *)
(***************************************************************************)
SendReport(a, r, phase) ==
    up' = IF Len(up[a]) < ReportQueue
          THEN [up EXCEPT ![a] = Append(@, [run |-> r, phase |-> phase])]
          ELSE up

(***************************************************************************)
(* A start command supersedes whatever the agent was doing.  A graceful    *)
(* stop in progress holds stopMu, so the command waits for it.  A worker   *)
(* hard-stopped this way may or may not get its last report out.           *)
(***************************************************************************)
AgentStartRun(a) ==
    /\ session[a].st # "gone" /\ down[a] # <<>>
    /\ Head(down[a]).kind = "StartRun" /\ agent[a].st # "stopping"
    /\ LET cmd == Head(down[a])
       IN  agent' = [agent EXCEPT ![a] = [run |-> cmd.run, claim |-> cmd.claim,
                                          block |-> cmd.claim.among, st |-> "spawning"]]
    /\ \/ agent[a].st \in {"spawning", "running"} /\ SendReport(a, agent[a].run, "completed")
       \/ UNCHANGED up
    /\ down' = [down EXCEPT ![a] = Tail(@)]
    /\ UNCHANGED <<runVars, session, proc, tick, budget, witness>>

AgentSetQuota(a) ==
    /\ session[a].st # "gone" /\ down[a] # <<>>
    /\ Head(down[a]).kind = "SetQuota"
    /\ agent' = IF agent[a].run = Head(down[a]).run
                THEN [agent EXCEPT ![a].claim = Head(down[a]).claim]
                ELSE agent
    /\ down' = [down EXCEPT ![a] = Tail(@)]
    /\ UNCHANGED <<runVars, session, up, proc, tick, budget, witness>>

(***************************************************************************)
(* The agent's OnStopRun does not look at the run id.                      *)
(***************************************************************************)
AgentStopRun(a) ==
    /\ session[a].st # "gone" /\ down[a] # <<>>
    /\ Head(down[a]).kind = "StopRun"
    /\ agent' = CASE agent[a].st \in {"spawning", "running"} ->
                       [agent EXCEPT ![a].st = "stopping"]
                  [] agent[a].st = "done" -> [agent EXCEPT ![a] = NoWork]
                  [] OTHER -> agent
    /\ down' = [down EXCEPT ![a] = Tail(@)]
    /\ UNCHANGED <<runVars, session, up, proc, tick, budget, witness>>

(***************************************************************************)
(* The agent reports: its workers are running; they finished or failed, or *)
(* never came up; or it has wound down after a stop, with or without a     *)
(* worker's last word.                                                     *)
(***************************************************************************)
AgentRunning(a) ==
    /\ agent[a].st = "spawning"
    /\ agent' = [agent EXCEPT ![a].st = "running"]
    /\ SendReport(a, agent[a].run, "running")
    /\ UNCHANGED <<runVars, session, down, proc, tick, budget, witness>>

AgentFinished(a, phase) ==
    /\ agent[a].st = "running" \/ (agent[a].st = "spawning" /\ phase = "failed")
    /\ agent' = [agent EXCEPT ![a].st = "done"]
    /\ SendReport(a, agent[a].run, phase)
    /\ UNCHANGED <<runVars, session, down, proc, tick, budget, witness>>

AgentStopped(a) ==
    /\ agent[a].st = "stopping"
    /\ agent' = [agent EXCEPT ![a] = NoWork]
    /\ \/ \E phase \in {"completed", "failed"} : SendReport(a, agent[a].run, phase)
       \/ UNCHANGED up
    /\ UNCHANGED <<runVars, session, down, proc, tick, budget, witness>>
-----------------------------------------------------------------------------
Goroutine(p) ==
    \/ StartRefused(p) \/ StartAccepted(p)
    \/ RebalanceBegin(p) \/ RebalanceSnapshot(p)
    \/ SendNext(p)
    \/ RecordRoster(p) \/ AnnounceStarting(p) \/ BroadcastStop(p)

Tick ==
    \/ \E lost \in SUBSET {a \in Agent : session[a].st # "gone"} : TickExpire(lost)
    \/ \E verdict \in Outcomes : TickJudge(verdict) \/ TickConclude(verdict)
    \/ TickCheck

AgentStep(a) ==
    \/ AgentStartRun(a) \/ AgentSetQuota(a) \/ AgentStopRun(a)
    \/ AgentRunning(a) \/ AgentStopped(a)
    \/ \E phase \in {"completed", "failed"} : AgentFinished(a, phase)

Next ==
    \/ \E p \in Slot : StartRun(p)
    \/ \E p \in Proc : Goroutine(p)
    \/ \E p \in Slot, r \in Run : \/ StopRun(p, r)
                                \/ \E v \in ScaledPeaks : ScaleRun(p, r, v)
    \/ Tick
    \/ \E a \in Agent : \/ \E restarted \in BOOLEAN : Join(a, restarted)
                        \/ Leave(a)
                        \/ OnRunStatus(a)
                        \/ AgentStep(a)

Spec == Init /\ [][Next]_vars

(***************************************************************************)
(* The ticker fires every interval and a started goroutine keeps going.    *)
(***************************************************************************)
TickerFairness ==
    /\ WF_vars(Tick)
    /\ \A p \in Proc : WF_vars(Goroutine(p))

FairSpec == Spec /\ TickerFairness
=============================================================================
