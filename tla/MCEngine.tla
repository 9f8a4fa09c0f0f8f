------------------------------ MODULE MCEngine ------------------------------
(***************************************************************************)
(* The scenarios and the load profiles of the engine's runs.               *)
(***************************************************************************)
EXTENDS Engine

TwoScenarios == <<1, 3>>
NoRefs == <<>>

RampUpAndHold ==
    [executor |-> "ramping-vus", vus |-> 0, duration |-> 0, iterations |-> 2,
     stages |-> <<[duration |-> 2, target |-> 4], [duration |-> 2, target |-> 2]>>]
=============================================================================
