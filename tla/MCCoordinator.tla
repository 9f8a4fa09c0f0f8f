--------------------------- MODULE MCCoordinator ---------------------------
(***************************************************************************)
(* Small instances of Coordinator for TLC.                                 *)
(***************************************************************************)
EXTENDS CoordinatorProperties

EqualWeights == [a \in Agent |-> 1]
UnequalWeights == [a \in Agent |-> a]

Events(joins, leaves, restarts, expiries, stops, scales) ==
    [joins |-> joins, leaves |-> leaves, restarts |-> restarts,
     expiries |-> expiries, stops |-> stops, scales |-> scales]

FixedFleet == Events(0, 0, 0, 0, 0, 0)
Churn == Events(1, 1, 1, 0, 0, 0)
OneLoss == Events(0, 1, 0, 0, 0, 0)
StopsAndLosses == Events(0, 1, 0, 1, 1, 1)

(***************************************************************************)
(* Two operators scale at the same time, which SharesAddUp fails with.     *)
(***************************************************************************)
TwoScales == Events(0, 0, 0, 0, 0, 2)
=============================================================================
