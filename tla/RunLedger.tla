----------------------------- MODULE RunLedger -----------------------------
(***************************************************************************)
(* What the coordinator promises its callers about runs, with no agents,   *)
(* sessions or goroutines: runs are opened one at a time and in order,     *)
(* each is concluded with exactly one verdict that never changes, and a    *)
(* run somebody asked to stop is eventually concluded.                     *)
(***************************************************************************)
EXTENDS Integers

CONSTANT Run    \* run numbers, in order of creation

Verdict == {"completed", "failed", "aborted"}

VARIABLES
    state,      \* state[r]: "unborn", "live" or the verdict of run r
    asked       \* the runs somebody has asked to stop

ledger == <<state, asked>>

TypeOK == /\ state \in [Run -> {"unborn", "live"} \cup Verdict]
          /\ asked \subseteq Run

Init == /\ state = [r \in Run |-> "unborn"]
        /\ asked = {}

Open(r) ==
    /\ state[r] = "unborn"
    /\ \A q \in Run : state[q] # "live" /\ (q < r => state[q] # "unborn")
    /\ state' = [state EXCEPT ![r] = "live"]
    /\ UNCHANGED asked

(***************************************************************************)
(* A stop request, and a conclusion; one step may do both, since a tick    *)
(* can ask for a stop and find everybody finished.                         *)
(***************************************************************************)
Ask(r) ==
    /\ state[r] = "live"
    /\ asked' = asked \cup {r}
    /\ UNCHANGED state

Conclude(r) ==
    /\ state[r] = "live"
    /\ \E v \in Verdict : state' = [state EXCEPT ![r] = v]
    /\ asked' \in {asked, asked \cup {r}}

Next == \E r \in Run : Open(r) \/ Ask(r) \/ Conclude(r)

Spec == Init /\ [][Next]_ledger

FairSpec == Spec /\ \A r \in Run : WF_ledger(r \in asked /\ Conclude(r))
=============================================================================
