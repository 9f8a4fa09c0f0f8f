----------------------- MODULE CoordinatorProperties -----------------------
(***************************************************************************)
(* What the coordinator promises about its runs.                           *)
(***************************************************************************)
EXTENDS Coordinator

(***************************************************************************)
(* Every variable has its type; a Go map entry that is missing is Absent.  *)
(***************************************************************************)
TypeOK ==
    /\ run \in [Run -> RunRecord]
    /\ active \in Run \cup {NoRun}
    /\ order \in Seq(Run)
    /\ session \in [Agent -> [st : {"gone", "open", "closed"}, epoch : Nat]]
    /\ down \in [Agent -> Seq(Command)]
    /\ up \in [Agent -> Seq(Report)]
    /\ proc \in [Proc -> Worker]
    /\ tick \in Ticker
    /\ agent \in [Agent -> AgentState]
    /\ budget \in [Event -> Nat]
    /\ witness \in [Run -> [{"completed", "failed"} -> SUBSET Agent]]

(***************************************************************************)
(* A goroutine past its first lock, an agent at work and a tick that has   *)
(* judged its run each have a run.                                         *)
(***************************************************************************)
Wired ==
    /\ \A p \in Proc : proc[p].pc \notin {"idle", "lock"} => proc[p].run \in Run
    /\ \A a \in Agent : agent[a].st # "none" => agent[a].run \in Run
    /\ tick.pc \notin {"idle", "expired"} => tick.run \in Run

(***************************************************************************)
(* Only one run is live at a time, and it is c.active: two concurrent      *)
(* callers of StartRun, both of which read the fleet before taking c.mu,   *)
(* never both get a run.                                                   *)
(***************************************************************************)
OneLiveRun ==
    \A r \in Run : run[r].phase # "none" /\ Active(r) => r = active

(***************************************************************************)
(* trimHistoryLocked keeps the history within MaxRunHistory and still      *)
(* never evicts the active run, so Lookup finds it for every report.       *)
(***************************************************************************)
HistoryBounded ==
    /\ Len(order) <= MaxRunHistory
    /\ active # NoRun => active \in Retained

(***************************************************************************)
(* What keeps those two true.  Whoever refers to a run refers to one that  *)
(* was created: no goroutine or tick ever writes to a record that does not *)
(* exist yet, so that one is neither breached nor asked to stop.           *)
(***************************************************************************)
Born(r) == run[r].phase # "none"

RefersToBorn ==
    /\ active # NoRun => Born(active)
    /\ \A r \in Retained : Born(r)
    /\ \A p \in Proc : proc[p].pc \notin {"idle", "lock"} => Born(proc[p].run)
    /\ tick.pc \notin {"idle", "expired"} => Born(tick.run)
    /\ \A r \in Run : ~Born(r) => run[r].stopping = NotStopping /\ ~run[r].breached

(***************************************************************************)
(* A run ends completed only if some agent really reported completed for   *)
(* it, however often the roster was rewritten by rebalances in between.    *)
(***************************************************************************)
CompletedWitnessed ==
    \A r \in Run : run[r].phase = "completed" => witness[r]["completed"] # {}

(***************************************************************************)
(* A run reaches a terminal phase exactly once and never leaves it, and a  *)
(* breached threshold and a stop request are never forgotten: stragglers,  *)
(* late roster updates and further ticks cannot rewrite the verdict.       *)
(***************************************************************************)
VerdictFinal ==
    [][\A r \in Run :
         /\ IsTerminal(run[r].phase) => run'[r].phase = run[r].phase
         /\ run[r].breached => run'[r].breached
         /\ run[r].stopping # NotStopping => run'[r].stopping >= run[r].stopping]_vars

(***************************************************************************)
(* A run that was asked to stop ends, whatever the agents do: reports that *)
(* are lost, agents that die, and a straggler whose running report moves   *)
(* the phase back out of stopping cannot keep it alive.                    *)
(***************************************************************************)
StopTerminates ==
    \A r \in Run : run[r].stopping # NotStopping ~> IsTerminal(run[r].phase)

-----------------------------------------------------------------------------
(***************************************************************************)
(* The agents executing run r, and the quiet states in which nothing is    *)
(* under way between them and the coordinator.                             *)
(***************************************************************************)
Executing(r) == {a \in Agent : agent[a].run = r /\ agent[a].st \in {"spawning", "running"}}

Quiet == /\ \A p \in Proc : proc[p].pc = "idle"
         /\ \A a \in Agent : down[a] = <<>> /\ up[a] = <<>>

(***************************************************************************)
(* The id blocks of two agents executing the same run never overlap.       *)
(***************************************************************************)
IdBlocksDisjoint ==
    \A r \in Run : \A a, b \in Executing(r) :
        a # b => AgentBase(IndexIn(agent[a].block, a)) # AgentBase(IndexIn(agent[b].block, b))

(***************************************************************************)
(* No agent has come, gone or expired; one may have been restarted.        *)
(***************************************************************************)
FleetUnchanged == \A e \in {"joins", "leaves", "expiries"} : budget[e] = Budget[e]

(***************************************************************************)
(* The blocks are disjoint as long as the fleet stays the same, also when  *)
(* start commands are lost, and when a restarted agent is started again by *)
(* a rebalance.                                                            *)
(***************************************************************************)
IdBlocksDisjointIfFixed == FleetUnchanged => IdBlocksDisjoint

(***************************************************************************)
(* The fleet carries the load that was asked for: once the goroutines and  *)
(* queues are quiet and every connected agent is executing the live run,   *)
(* the VU shares they hold add up to the run's peak.  The code does not    *)
(* have it: two rebalances that overlap send to the agents in either       *)
(* order, and each agent keeps what it was sent last.                      *)
(***************************************************************************)
SharesAddUp ==
    \A r \in Run :
        /\ Quiet /\ tick.pc = "idle" /\ r = active /\ Active(r)
        /\ Executing(r) = Healthy /\ Healthy # {}
        => MapThenSumSet(LAMBDA a : ShareOf(agent[a].claim, a), Healthy) = run[r].peakVUs

(***************************************************************************)
(* checkCompletion finishes a run once every participating agent has       *)
(* reported a terminal phase: when StartRun has returned and every agent   *)
(* still connected is on the roster as completed or failed, the loss of    *)
(* another agent does not leave the run hanging.                           *)
(***************************************************************************)
SurvivorsReported(r) ==
    /\ run[r].phase = "running" /\ Healthy # {}
    /\ \A p \in Proc : proc[p].op # "start"
    /\ \A a \in Healthy : run[r].participants[a].phase \in {"completed", "failed"}

SurvivorsFinish == \A r \in Run : SurvivorsReported(r) ~> IsTerminal(run[r].phase)
-----------------------------------------------------------------------------
(***************************************************************************)
(* The ledger of runs that the coordinator implements: a run is live from  *)
(* its creation to its terminal phase, and asked to stop from the moment   *)
(* stoppingAt is set.                                                      *)
(***************************************************************************)
LedgerState ==
    [r \in Run |-> IF run[r].phase = "none" THEN "unborn"
                   ELSE IF IsTerminal(run[r].phase) THEN run[r].phase ELSE "live"]

LedgerAsked == {r \in Run : run[r].stopping # NotStopping}

Ledger == INSTANCE RunLedger WITH state <- LedgerState, asked <- LedgerAsked

(***************************************************************************)
(* Runs are opened one at a time and in order, each is concluded once with *)
(* a verdict that never changes, and only a live run can be asked to stop. *)
(***************************************************************************)
ImplementsLedger == Ledger!Spec

(***************************************************************************)
(* The same, and every run asked to stop is eventually concluded.          *)
(***************************************************************************)
ImplementsFairLedger == Ledger!FairSpec
=============================================================================
