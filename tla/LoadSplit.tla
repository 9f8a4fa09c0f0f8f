----------------------------- MODULE LoadSplit -----------------------------
(***************************************************************************)
(* How the fleet-wide numbers of a plan reach the engines: the coordinator *)
(* divides the peak VU count and the cap on iterations (in total, or per   *)
(* second) among its agents by weight, every agent divides its parts       *)
(* equally among its workers, and a worker's engine takes them as its      *)
(* quotas.  Starting and scaling a run divide anew.                        *)
(***************************************************************************)
EXTENDS Apportion

CONSTANTS
    Fleet,          \* agent indexes, in the order of their ids
    MaxWeight,      \* bound: the VU capacities agents advertise
    MaxWorkers,     \* bound: worker processes per agent
    MaxTotal,       \* bound: the numbers divided
    MaxCount        \* the most iterations that are divided: 1<<31

ASSUME SplitAssumption ==
    /\ Fleet \subseteq Nat /\ IsFiniteSet(Fleet) /\ Fleet # {}
    /\ MaxWeight \in Nat \ {0} /\ MaxWorkers \in Nat \ {0} /\ MaxTotal \in Nat
    /\ MaxCount \in Nat

VARIABLES
    weight,     \* weight[a]: what dispatch makes of the capacity a advertised
    workers,    \* workers[a]: how many workers are connected to a
    peak,       \* the run's peak VU count
    cap         \* the plan's maxIterationRate, or its clamped iterations; zero is no cap

splitVars == <<weight, workers, peak, cap>>

(***************************************************************************)
(* dispatch and rebalance of the coordinator; max(1, MaxVus) is the        *)
(* weight.                                                                 *)
(***************************************************************************)
AgentShare(total, a) == Largest(total, weight)[a]

(***************************************************************************)
(* rebalance of the agent: every worker has weight one.                    *)
(***************************************************************************)
WorkerShare(total, a, i) == Equal(AgentShare(total, a), workers[a])[i]

FleetWorker == {w \in Fleet \X (0 .. MaxWorkers - 1) : w[2] < workers[w[1]]}

(***************************************************************************)
(* The engine's rate limiter and iteration budget: zero means unlimited.   *)
(***************************************************************************)
Limited(a, i) == WorkerShare(cap, a, i) > 0

(***************************************************************************)
(* dispatch divides min(iterations, 1<<31); what an agent divides again is *)
(* a part of that, so that the same clamp there changes nothing.           *)
(***************************************************************************)
Clamped(c) == IF c < MaxCount THEN c ELSE MaxCount

SplitInit ==
    /\ weight \in [Fleet -> {IF v > 1 THEN v ELSE 1 : v \in 0 .. MaxWeight}]
    /\ workers \in [Fleet -> 1 .. MaxWorkers]
    /\ peak = 0 /\ cap = 0

StartRun(v, c) ==
    /\ peak' = v /\ cap' \in {c, Clamped(c)}
    /\ UNCHANGED <<weight, workers>>

ScaleRun(v) ==
    /\ peak' = v
    /\ UNCHANGED <<weight, workers, cap>>

SplitNext ==
    \/ \E v, c \in 0 .. MaxTotal : StartRun(v, c)
    \/ \E v \in 0 .. MaxTotal : ScaleRun(v)

SplitSpec == SplitInit /\ [][SplitNext]_splitVars
-----------------------------------------------------------------------------
(***************************************************************************)
(* No virtual user is lost or invented on the way to the engines: the      *)
(* parts add back up to the whole after both divisions.                    *)
(***************************************************************************)
PartsAddUp ==
    \A total \in {peak, cap} :
        MapThenSumSet(LAMBDA w : WorkerShare(total, w[1], w[2]), FleetWorker) = total

(***************************************************************************)
(* The reference for Largest: all the ways to divide the peak, and how far *)
(* one is from the exact proportional shares, scaled by the total weight.  *)
(***************************************************************************)
Divisions == {d \in [Fleet -> 0 .. peak] : SumFunction(d) = peak}

Distance(d) ==
    MapThenSumSet(LAMBDA a : LET gap == d[a] * TotalWeight(weight) - peak * weight[a]
                             IN  IF gap < 0 THEN -gap ELSE gap, Fleet)

(***************************************************************************)
(* Largest, at the coordinator and again at every agent, divides a total   *)
(* exactly, and no other exact division of the peak among the agents is    *)
(* nearer to the proportional one.                                         *)
(***************************************************************************)
DividedFairly ==
    /\ PartsAddUp
    /\ \A d \in Divisions : Distance(Largest(peak, weight)) <= Distance(d)

(***************************************************************************)
(* A fleet-wide cap that is not zero caps every engine that has virtual    *)
(* users: `iterations` and `maxIterationRate` hold across every node.      *)
(***************************************************************************)
CapReachesEveryEngine ==
    cap > 0 => \A w \in FleetWorker : WorkerShare(peak, w[1], w[2]) > 0 => Limited(w[1], w[2])
=============================================================================
