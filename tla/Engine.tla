------------------------------- MODULE Engine -------------------------------
(***************************************************************************)
(* internal/engine/engine.go: one node's engine.  Run calls every          *)
(* scenario's Setup, waits for the agreed start, and then a control loop   *)
(* resizes the pool of virtual users to the profile until the profile or   *)
(* the iteration budget is over, Stop is called or the context ends.       *)
(* shutdown drains the pool, aborts what outlives the grace period, and    *)
(* Teardown runs last.  Every virtual user is a goroutine of its own.      *)
(*                                                                         *)
(* now is the elapsed time the profile is expressed against; it is         *)
(* negative before the agreed start.  Scenario names are numbers, in the   *)
(* order the names sort in; virtual users are numbered from VUIDBase.      *)
(***************************************************************************)
EXTENDS Executor, Apportion

CONSTANTS
    Registered,     \* Registered[s]: the Weight scenario s was registered with
    Refs,           \* the plan's scenario references
    Profile,        \* the plan's load profile
    VUQuota,        \* this node's share of the peak
    IterationQuota, \* completed iterations after which the node stops; 0: none
    Limited,        \* whether the plan caps the arrival rate
    Graceful,       \* the grace period
    Lead,           \* how long before the agreed start Run is called
    Requotas,       \* the quotas SetQuota may be called with
    Ramps,          \* the ramps SetQuota may be called with
    MaxRequotas,    \* bound: calls of SetQuota
    MaxVUs,         \* bound: virtual users ever started
    LastTick        \* bound: the latest time a tick reaches the control loop

ASSUME EngineAssumption ==
    /\ Registered \in Seq(Int) /\ Registered # <<>>
    /\ Refs \in Seq([name : DOMAIN Registered, weight : Nat])
    /\ ProfileTyped(Profile) /\ ProfileAccepted(Profile)
    /\ VUQuota \in Nat /\ IterationQuota \in Nat /\ Limited \in BOOLEAN
    /\ Graceful \in Nat \ {0} /\ Lead \in Nat /\ MaxVUs \in Nat /\ LastTick \in Nat
    /\ Requotas \subseteq Nat /\ IsFiniteSet(Requotas)
    /\ Ramps \subseteq Nat /\ MaxRequotas \in Nat

\* The profile has an end, and the bound on time lets the loop see it.
ASSUME ProfileEnds == NewExecutor(Profile).duration \in 1 .. LastTick

VARIABLES
    now,        \* elapsed time since the agreed start
    phase,      \* where Run is
    hooks,      \* how many scenarios have been set up, and torn down
    executor,   \* the scaled executor
    pool,       \* pool[g]: the handles of group g, oldest first
    vu,         \* vu[v]: where the goroutine of v is, and how it is to end
    started,    \* nextVUID - VUIDBase
    iterations, \* iterations completed
    stop,       \* the stop channel: what Stop put there, if anything
    stopped,    \* stopOnce: Stop has been called
    cancelled,  \* the context Run was given is done
    aborted,    \* hardCancel has been called
    drainBy,    \* when the grace period of shutdown ends
    requotas    \* calls of SetQuota so far

vars == <<now, phase, hooks, executor, pool, vu, started, iterations, stop, stopped,
          cancelled, aborted, drainBy, requotas>>

vuVars == <<vu, iterations>>
runVars == <<phase, hooks, pool, started, aborted, drainBy>>
requestVars == <<stop, stopped, cancelled, executor, requotas>>

VU == 1 .. MaxVUs
MaxTime == LastTick + Graceful
Never == MaxTime + Graceful + 1
-----------------------------------------------------------------------------
(***************************************************************************)
(* resolveScenarios: no references means every registered scenario, once.  *)
(* A reference with no weight takes the scenario's own.                    *)
(***************************************************************************)
EffectiveWeight(s) == IF Registered[s] <= 0 THEN 1 ELSE Registered[s]

Resolved == IF Refs = <<>>
            THEN [i \in DOMAIN Registered |-> [name |-> i, weight |-> 1]]
            ELSE Refs

weights == [g \in DOMAIN Resolved |->
               IF Resolved[g].weight > 0 THEN Resolved[g].weight
               ELSE EffectiveWeight(Resolved[g].name)]

Group == DOMAIN weights

(***************************************************************************)
(* Where a virtual user is: its start hook, the checks before an           *)
(* iteration, the rate limiter, an iteration, its stop hook, gone.         *)
(***************************************************************************)
Places == {"absent", "starting", "check", "limited", "running", "stopping", "exited"}

Absent == [at |-> "absent", soft |-> FALSE, hardAt |-> Never]

Live(v) == vu[v].at \notin {"absent", "exited"}

(***************************************************************************)
(* The contexts.  hardCtx of Run is a child of the context Run was given;  *)
(* a virtual user's hard context a child of hardCtx, and the soft one of   *)
(* the hard one.  hardAt is when the timer of retireVU calls hard.         *)
(***************************************************************************)
RunCtxDone == aborted \/ cancelled

Hard(v) == RunCtxDone \/ now >= vu[v].hardAt

Soft(v) == vu[v].soft \/ Hard(v)

Init ==
    /\ now = -Lead
    /\ phase = "setup"
    /\ hooks = [up |-> 0, down |-> 0]
    /\ executor = NewScaled(NewExecutor(Profile), VUQuota)
    /\ pool = [g \in Group |-> <<>>]
    /\ vu = [v \in VU |-> Absent]
    /\ started = 0 /\ iterations = 0 /\ requotas = 0
    /\ stop = "none" /\ stopped = FALSE /\ cancelled = FALSE /\ aborted = FALSE
    /\ drainBy = Never
-----------------------------------------------------------------------------
(***************************************************************************)
(* setup: an error of any hook ends Run at once, before teardown has been  *)
(* deferred.                                                               *)
(***************************************************************************)
SetupHook(ok) ==
    /\ phase = "setup"
    /\ hooks' = [hooks EXCEPT !.up = IF ok THEN @ + 1 ELSE @]
    /\ phase' = CASE ~ok -> "failed"
                  [] ok /\ hooks'.up < Cardinality(Group) -> "setup"
                  [] OTHER -> IF now >= 0 THEN "control" ELSE "await"
    /\ UNCHANGED <<now, vuVars, requestVars, pool, started, aborted, drainBy>>

(***************************************************************************)
(* awaitStart: the start instant, or a reason not to start at all.         *)
(***************************************************************************)
AwaitStart ==
    /\ phase = "await"
    /\ \/ now >= 0 /\ phase' = "control" /\ UNCHANGED stop
       \/ RunCtxDone /\ phase' = "teardown" /\ UNCHANGED stop
       \/ stop # "none" /\ phase' = "teardown" /\ stop' = "none"
    /\ UNCHANGED <<now, vuVars, hooks, executor, pool, started, stopped, cancelled, aborted,
                   drainBy, requotas>>

(***************************************************************************)
(* shutdown: every handle is asked to stop, softly or hard.                *)
(***************************************************************************)
Handles == UNION {Range(pool[g]) : g \in Group}

Shutdown(graceful) ==
    /\ phase' = "drain"
    /\ vu' = [v \in VU |-> IF v \in Handles THEN [vu[v] EXCEPT !.soft = TRUE] ELSE vu[v]]
    /\ pool' = [g \in Group |-> <<>>]
    /\ aborted' = (aborted \/ ~graceful)
    /\ drainBy' = now + Graceful

(***************************************************************************)
(* retireVU without its backstop.                                          *)
(***************************************************************************)
RetiredSoftly(v) == [vu[v] EXCEPT !.soft = TRUE]

(***************************************************************************)
(* retireVU: a soft cancel now, a hard one when the grace period is over.  *)
(***************************************************************************)
Retired(v) == [vu[v] EXCEPT !.soft = TRUE, !.hardAt = now + Graceful]

(***************************************************************************)
(* resize and startVU: each group grows to its share with new virtual      *)
(* users, or sheds its youngest handles.                                   *)
(***************************************************************************)
Resize(total) ==
    LET want == Largest(total, weights)
        missing == [g \in Group |-> NonNegative(want[g] - Len(pool[g]))]
        first(g) == started + SumFunctionOnSet(missing, 1 .. g - 1)
        all == SumFunctionOnSet(missing, Group)
        shed == UNION {{pool[g][i] : i \in want[g] + 1 .. Len(pool[g])} : g \in Group}
    IN  /\ started + all <= MaxVUs
        /\ started' = started + all
        /\ pool' = [g \in Group |->
                      [i \in 1 .. want[g] |->
                         IF i <= Len(pool[g]) THEN pool[g][i] ELSE first(g) + i - Len(pool[g])]]
        /\ vu' = [v \in VU |->
                    CASE v \in shed -> Retired(v)
                      [] v \in started + 1 .. started + all -> [Absent EXCEPT !.at = "starting"]
                      [] OTHER -> vu[v]]

(***************************************************************************)
(* control: one iteration of the loop per case of its select.  The ticker  *)
(* case ends the run or follows the profile.                               *)
(***************************************************************************)
ProfileOver ==
    \/ executor.inner.duration > 0 /\ now >= executor.inner.duration
    \/ IterationQuota > 0 /\ iterations >= IterationQuota

Tick ==
    /\ phase = "control"
    /\ \/ ProfileOver /\ Shutdown(TRUE) /\ UNCHANGED started
       \/ /\ ~ProfileOver
          /\ Resize(TargetAt(executor, now))
          /\ UNCHANGED <<phase, aborted, drainBy>>
    /\ UNCHANGED <<now, hooks, iterations, requestVars>>

StopReceived ==
    /\ phase = "control"
    /\ \/ stop # "none" /\ Shutdown(stop = "graceful") /\ stop' = "none"
       \/ RunCtxDone /\ Shutdown(FALSE) /\ UNCHANGED stop
    /\ UNCHANGED <<now, hooks, iterations, started, executor, stopped, cancelled, requotas>>

(***************************************************************************)
(* The wait of shutdown: for the last goroutine, with a hard cancel when   *)
(* the grace period ends or the context is done.                           *)
(***************************************************************************)
DrainTimeoutIgnored ==
    /\ phase = "drain" /\ ~aborted
    /\ cancelled
    /\ aborted' = TRUE
    /\ UNCHANGED <<now, vuVars, requestVars, phase, hooks, pool, started, drainBy>>

DrainTimeout ==
    /\ phase = "drain" /\ ~aborted
    /\ now >= drainBy \/ cancelled
    /\ aborted' = TRUE
    /\ UNCHANGED <<now, vuVars, requestVars, phase, hooks, pool, started, drainBy>>

(***************************************************************************)
(* Waiting only for the virtual users that have not been retired.          *)
(***************************************************************************)
DrainedButRetired ==
    /\ phase = "drain"
    /\ \A v \in VU : vu[v].hardAt = Never => ~Live(v)
    /\ phase' = "teardown"
    /\ UNCHANGED <<now, vuVars, requestVars, hooks, pool, started, aborted, drainBy>>

Drained ==
    /\ phase = "drain"
    /\ \A v \in VU : ~Live(v)
    /\ phase' = "teardown"
    /\ UNCHANGED <<now, vuVars, requestVars, hooks, pool, started, aborted, drainBy>>

(***************************************************************************)
(* teardown: one hook after the other; errors are logged.                  *)
(***************************************************************************)
TeardownHook ==
    /\ phase = "teardown"
    /\ hooks' = [hooks EXCEPT !.down = @ + 1]
    /\ phase' = IF hooks'.down < Cardinality(Group) THEN "teardown" ELSE "returned"
    /\ UNCHANGED <<now, vuVars, requestVars, pool, started, aborted, drainBy>>
-----------------------------------------------------------------------------
(***************************************************************************)
(* driveVU and iterate.  A hook that panics has failed (guard).            *)
(***************************************************************************)
Move(v, place) ==
    /\ vu' = [vu EXCEPT ![v].at = place]
    /\ UNCHANGED <<now, runVars, requestVars>>

OnVUStart(v) ==
    /\ vu[v].at = "starting"
    /\ \E place \in {"check", "exited"} : Move(v, place)
    /\ UNCHANGED iterations

(***************************************************************************)
(* The checks before an iteration, without the one of the budget.          *)
(***************************************************************************)
BeforeIterationUnbounded(v) ==
    /\ vu[v].at = "check"
    /\ Move(v, CASE Soft(v) -> "stopping"
                 [] OTHER -> IF Limited THEN "limited" ELSE "running")
    /\ UNCHANGED iterations

BeforeIteration(v) ==
    /\ vu[v].at = "check"
    /\ Move(v, CASE Soft(v) \/ (IterationQuota > 0 /\ iterations >= IterationQuota) -> "stopping"
                 [] OTHER -> IF Limited THEN "limited" ELSE "running")
    /\ UNCHANGED iterations

(***************************************************************************)
(* limiter.Wait on the soft context.  The bucket it draws from is external *)
(* and grants a token at any time.                                         *)
(***************************************************************************)
LimiterWait(v) ==
    /\ vu[v].at = "limited"
    /\ Move(v, IF Soft(v) THEN "stopping" ELSE "running")
    /\ UNCHANGED iterations

EndIteration(v) ==
    /\ vu[v].at = "running"
    /\ Move(v, "check")
    /\ iterations' = iterations + 1

OnVUStop(v) ==
    /\ vu[v].at = "stopping"
    /\ Move(v, "exited")
    /\ UNCHANGED iterations
-----------------------------------------------------------------------------
(***************************************************************************)
(* What the worker calls while Run goes on.                                *)
(***************************************************************************)
Ended == phase \in {"failed", "returned"}

Stop(request) ==
    /\ ~stopped /\ ~Ended
    /\ stopped' = TRUE
    /\ stop' = request
    /\ UNCHANGED <<now, vuVars, runVars, executor, cancelled, requotas>>

SetQuota(quota, ramp) ==
    /\ requotas < MaxRequotas /\ ~Ended
    /\ requotas' = requotas + 1
    /\ executor' = Rescale(executor, quota, now, ramp)
    /\ UNCHANGED <<now, vuVars, runVars, stop, stopped, cancelled>>

Cancel ==
    /\ ~cancelled /\ ~Ended
    /\ cancelled' = TRUE
    /\ UNCHANGED <<now, vuVars, runVars, stop, stopped, executor, requotas>>

(***************************************************************************)
(* Time passes; the loop is scheduled, if late, by LastTick.               *)
(***************************************************************************)
Advance ==
    /\ ~Ended
    /\ now < IF phase \in {"drain", "teardown"} THEN MaxTime ELSE LastTick
    /\ now' = now + 1
    /\ UNCHANGED <<vuVars, runVars, requestVars>>

Next ==
    \/ \E ok \in BOOLEAN : SetupHook(ok)
    \/ AwaitStart \/ Tick \/ StopReceived \/ DrainTimeout \/ Drained \/ TeardownHook
    \/ \E v \in VU : OnVUStart(v) \/ BeforeIteration(v) \/ LimiterWait(v) \/ EndIteration(v)
                     \/ OnVUStop(v)
    \/ \E request \in {"graceful", "hard"} : Stop(request)
    \/ \E quota \in Requotas, ramp \in Ramps : SetQuota(quota, ramp)
    \/ Cancel
    \/ Advance

Spec == Init /\ [][Next]_vars

(***************************************************************************)
(* Time passes and the goroutines of the engine run; of the ticks, only    *)
(* one that finds the profile over is relied on.  A start hook and an      *)
(* iteration need only return once their context is done: an endpoint may  *)
(* never answer.  A stop hook has a deadline of its own.                   *)
(***************************************************************************)
RunStep == SetupHook(TRUE) \/ AwaitStart \/ (ProfileOver /\ Tick) \/ StopReceived \/ DrainTimeout \/ Drained
           \/ TeardownHook

VUStep(v) == \/ BeforeIteration(v) \/ OnVUStop(v)
             \/ Soft(v) /\ LimiterWait(v)
             \/ Hard(v) /\ (OnVUStart(v) \/ EndIteration(v))

FairSpec == /\ Spec
            /\ WF_vars(Advance)
            /\ WF_vars(RunStep)
            /\ \A v \in VU : WF_vars(VUStep(v))
-----------------------------------------------------------------------------
(***************************************************************************)
(* Every variable has its type.                                            *)
(***************************************************************************)
TypeOK ==
    /\ now \in -Lead .. MaxTime
    /\ phase \in {"setup", "await", "control", "drain", "teardown", "returned", "failed"}
    /\ hooks.up \in 0 .. Cardinality(Group) /\ hooks.down \in 0 .. Cardinality(Group)
    /\ pool \in [Group -> Seq(VU)]
    /\ vu \in [VU -> [at : Places, soft : BOOLEAN, hardAt : Int]]
    /\ started \in 0 .. MaxVUs /\ iterations \in Nat /\ drainBy \in Int
    /\ stop \in {"none", "graceful", "hard"}
    /\ stopped \in BOOLEAN /\ cancelled \in BOOLEAN /\ aborted \in BOOLEAN
    /\ requotas \in 0 .. MaxRequotas

(***************************************************************************)
(* The node never carries more virtual users than the largest quota it was *)
(* given, whatever ramps cross: the handles that are not on their way out  *)
(* stay within it.                                                         *)
(***************************************************************************)
PoolWithinQuota == Cardinality(Handles) <= Max({VUQuota} \cup Requotas)

(***************************************************************************)
(* Teardown runs after all virtual users have stopped, the ones that were  *)
(* retired by a scale-down and forgotten by the pool included.             *)
(***************************************************************************)
TeardownLast == hooks.down > 0 => \A v \in VU : ~Live(v)

(***************************************************************************)
(* A virtual user that is no longer in the pool cannot hold it open: it    *)
(* has been asked to stop, and will be aborted within the grace period, by *)
(* the timer of retireVU or by the one of shutdown.                        *)
(***************************************************************************)
StopsHaveDeadlines ==
    \A v \in VU : Live(v) /\ v \notin Handles =>
        /\ Soft(v)
        /\ \/ Hard(v)
           \/ vu[v].hardAt <= now + Graceful
           \/ phase = "drain" /\ drainBy <= now + Graceful

(***************************************************************************)
(* The iteration budget is checked before an iteration and counted after   *)
(* it, so it is overshot; by less than one iteration per virtual user that *)
(* was ever started.                                                       *)
(***************************************************************************)
BudgetOvershootBounded ==
    IterationQuota > 0 /\ started > 0 => iterations < IterationQuota + started

(***************************************************************************)
(* A ramped quota change never makes the load jump: two changes in quick   *)
(* succession ease from where the quota is, not from where it was heading. *)
(***************************************************************************)
EasesFromCurrent ==
    [][executor' # executor /\ executor'.rampTo > executor'.rampFrom
         => QuotaAt(executor', now) = QuotaAt(executor, now)]_vars

(***************************************************************************)
(* A profile of finite duration ends: Run returns, whatever the iterations *)
(* do until their context is done.                                         *)
(***************************************************************************)
RunReturns == <>(phase \in {"returned", "failed"})
=============================================================================
