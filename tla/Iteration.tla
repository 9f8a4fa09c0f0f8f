------------------------------ MODULE Iteration ------------------------------
(***************************************************************************)
(* One virtual user running a declarative scenario: from the configuration *)
(* the command line accepts and the worker builds, through the iterations  *)
(* of internal/scenario/declarative.go, to the requests of HTTPClient.Do   *)
(* and the samples of pkg/loadwave.                                        *)
(*                                                                         *)
(* Time is relative: clock since the iteration began, age since the        *)
(* request's own context was made, waited since the pause began.  busy and *)
(* gap observe where the time went: on the network, and since the last     *)
(* request was over.                                                       *)
(***************************************************************************)
EXTENDS ScenarioConfig

CONSTANTS
    Files,          \* configuration files
    FlagSets,       \* command line flags
    Replies,        \* what the server may answer
    NetErrors,      \* how an exchange may fail other than by its context
    MaxIterations,  \* bound: iterations of the virtual user
    MaxClock        \* bound: duration of an iteration, and of a gap

ASSUME InputsAssumption == (\A file \in Files : Config(file)) /\ FlagSets \subseteq PlanFlags

VARIABLES
    plan,       \* what the command line made of the configuration
    state,      \* "new", "refused", "built" or "failed": the worker's build
    scenario,   \* the scenario this virtual user runs
    opts,       \* the options of its HTTP client
    pc,         \* where its goroutine is
    n,          \* iterations begun
    at,         \* the index of the step
    vars,       \* the variables of the iteration
    resp,       \* the response Do will return
    wait,       \* the pause being waited out
    clock, age, waited, thinkTime,
    cancelled,  \* the hard context of the virtual user is done
    samples,    \* what the iteration recorded, in order
    busy,       \* observed: time on the network in this iteration
    gap,        \* observed: time since the last request was over
    owed,       \* observed: the least pause that was due after it
    cut         \* observed: whether the context of the pause ended it

fixedVars == <<plan, state, scenario, opts>>
timeVars == <<clock, age, waited, thinkTime, busy, gap>>
vuVars == <<pc, n, at, vars, resp, wait, samples, owed, cut>>
allVars == <<fixedVars, timeVars, vuVars, cancelled>>

NoPlan == [load |-> [executor |-> "none"]]
NoScenario == [name |-> "none", steps |-> <<>>]
NoOptions == [base |-> "none"]
NoResponse == [err |-> "none", status |-> 0, body |-> [kind |-> "empty"]]

Init ==
    /\ plan = NoPlan /\ state = "new" /\ scenario = NoScenario /\ opts = NoOptions
    /\ pc = "idle" /\ n = 0 /\ at = 0 /\ vars = <<>> /\ resp = NoResponse /\ wait = 0
    /\ clock = 0 /\ age = 0 /\ waited = 0 /\ thinkTime = 0 /\ busy = 0 /\ gap = 0
    /\ owed = 0 /\ cut = FALSE /\ cancelled = FALSE /\ samples = <<>>
-----------------------------------------------------------------------------
(***************************************************************************)
(* planFlags.load, verifyScenarios and Plan on the command line.           *)
(***************************************************************************)
Submit(file, flags) ==
    /\ state = "new" /\ plan = NoPlan
    /\ IF CommandAccepts(file, flags)
       THEN plan' = Plan(Loaded(file, flags)) /\ UNCHANGED state
       ELSE state' = "refused" /\ UNCHANGED plan
    /\ UNCHANGED <<scenario, opts, timeVars, vuVars, cancelled>>

(***************************************************************************)
(* build in the worker, and a virtual user of one of the scenarios.        *)
(***************************************************************************)
Build ==
    /\ state = "new" /\ plan # NoPlan
    /\ \/ ~WorkerBuilds(plan) /\ state' = "failed" /\ UNCHANGED <<scenario, opts>>
       \/ /\ WorkerBuilds(plan)
          /\ state' = "built"
          /\ scenario' \in BuildScenarios(FromPlan(plan)) \cup {NoScenario : c \in Compiled}
          /\ opts' = HTTPOptions(FromPlan(plan))
    /\ UNCHANGED <<plan, timeVars, vuVars, cancelled>>

Step == scenario.steps[at]

(***************************************************************************)
(* BeginIteration of the engine's loop and the start of declarative.run:   *)
(* the variables are the declared ones, whatever the last iteration        *)
(* captured.                                                               *)
(***************************************************************************)
BeginIterationKeepingVars ==
    /\ state = "built" /\ scenario # NoScenario
    /\ pc = "idle" /\ ~cancelled /\ n < MaxIterations
    /\ n' = n + 1
    /\ pc' = "step" /\ at' = 1
    /\ vars' = IF n = 0 THEN NewVars(scenario.vars) ELSE vars
    /\ clock' = 0 /\ thinkTime' = 0 /\ busy' = 0 /\ samples' = <<>>
    /\ UNCHANGED <<fixedVars, resp, wait, age, waited, gap, owed, cut, cancelled>>

BeginIteration ==
    /\ state = "built" /\ scenario # NoScenario
    /\ pc = "idle" /\ ~cancelled /\ n < MaxIterations
    /\ n' = n + 1
    /\ pc' = "step" /\ at' = 1
    /\ vars' = NewVars(scenario.vars)
    /\ clock' = 0 /\ thinkTime' = 0 /\ busy' = 0 /\ samples' = <<>>
    /\ UNCHANGED <<fixedVars, resp, wait, age, waited, gap, owed, cut, cancelled>>

(***************************************************************************)
(* Where the goroutine goes from a step that went well, or that did not.   *)
(***************************************************************************)
Proceed(ok) ==
    IF ok /\ at < Len(scenario.steps) THEN pc' = "step" /\ at' = at + 1
    ELSE pc' = (IF ok THEN "done" ELSE "erred") /\ UNCHANGED at

(***************************************************************************)
(* ThinkBetween: no pause at all when nothing is drawn.                    *)
(***************************************************************************)
ThinkStep ==
    /\ pc = "step" /\ Step.isThink
    /\ \E d \in Draws(Step.think) :
         IF d <= 0 THEN Proceed(TRUE) /\ UNCHANGED <<wait, waited>>
         ELSE pc' = "think" /\ wait' = d /\ waited' = 0 /\ UNCHANGED at
    /\ UNCHANGED <<fixedVars, n, vars, resp, clock, age, thinkTime, samples, busy, gap, owed, cut,
                   cancelled>>
-----------------------------------------------------------------------------
(***************************************************************************)
(* pace: the step's own pause or else the run's, waited out before Do      *)
(* returns.                                                                *)
(***************************************************************************)
PauseOf(step) == IF step.pace = NoPause THEN opts.pause ELSE step.pace

Pace ==
    /\ \E d \in Draws(PauseOf(Step)) :
         /\ wait' = d
         /\ pc' = IF IsZero(PauseOf(Step)) \/ d <= 0 THEN "answered" ELSE "pause"
    /\ waited' = 0 /\ gap' = 0 /\ cut' = FALSE
    /\ owed' = Min(Draws(PauseOf(Step)))

PaceSkipped ==
    /\ pc' = "answered" /\ wait' = 0 /\ waited' = 0 /\ gap' = 0 /\ cut' = FALSE
    /\ owed' = Min(Draws(PauseOf(Step)))

(***************************************************************************)
(* resolve refuses an empty URL, and a relative one when there is no base; *)
(* encodeBody more than one body.                                          *)
(***************************************************************************)
Relative(url) == url # <<>> /\ Head(url).text # "https:"

Malformed(url) ==
    \/ url = <<>> \/ (Relative(url) /\ opts.base = "none")
    \/ Cardinality(Step.bodies) > 1

(***************************************************************************)
(* Do with a request that never reaches the network.                       *)
(***************************************************************************)
RefuseRequestUnpaced ==
    /\ pc = "step" /\ ~Step.isThink
    /\ Malformed(Render(Step.url, vars))
    /\ resp' = [NoResponse EXCEPT !.err = "malformed"]
    /\ age' = 0
    /\ PaceSkipped
    /\ UNCHANGED <<fixedVars, n, at, vars, clock, thinkTime, samples, busy, cancelled>>

RefuseRequest ==
    /\ pc = "step" /\ ~Step.isThink
    /\ Malformed(Render(Step.url, vars))
    /\ resp' = [NoResponse EXCEPT !.err = "malformed"]
    /\ age' = 0
    /\ Pace
    /\ UNCHANGED <<fixedVars, n, at, vars, clock, thinkTime, samples, busy, cancelled>>

(***************************************************************************)
(* Do up to the exchange.  What was sent is kept as a sample.              *)
(***************************************************************************)
SendRequest ==
    /\ pc = "step" /\ ~Step.isThink
    /\ ~Malformed(Render(Step.url, vars))
    /\ pc' = "exchange"
    /\ age' = 0
    /\ samples' = Append(samples, [metric |-> "sent", step |-> at, url |-> Render(Step.url, vars)])
    /\ UNCHANGED <<fixedVars, n, at, vars, resp, wait, clock, waited, thinkTime, busy, gap, owed,
                   cut, cancelled>>

(***************************************************************************)
(* The context of the request, which has the step's timeout if the step    *)
(* has one, and the timeout of the client.                                 *)
(***************************************************************************)
DeadlineOver == Step.timeout > 0 /\ age >= Step.timeout

CtxDone == cancelled \/ (resp.err # "malformed" /\ DeadlineOver)

(***************************************************************************)
(* CheckRedirect and readBody: what becomes of a reply.  A body beyond the *)
(* cap is cut, and no longer a document.                                   *)
(***************************************************************************)
Redirected(reply) ==
    CASE reply.hops > 0 /\ ~opts.followRedirects -> [NoResponse EXCEPT !.status = 302]
      [] reply.hops >= opts.maxRedirects /\ opts.followRedirects ->
             [NoResponse EXCEPT !.err = "stopped after"]
      [] OTHER -> [err |-> "none", status |-> reply.status, body |-> reply.body]

ReadBody(r, truncated) ==
    CASE opts.discardBody -> [r EXCEPT !.body = [kind |-> "empty"]]
      [] truncated /\ ~opts.discardBody -> [r EXCEPT !.body = [kind |-> "text"]]
      [] OTHER -> r

(***************************************************************************)
(* classifyError: the labels a transport error is reduced to.              *)
(***************************************************************************)
ClassifyError(err) ==
    CASE err \in {"deadline exceeded", "i/o timeout"} -> "timeout"
      [] err = "context canceled" -> "canceled"
      [] err \in {"EOF", "unexpected EOF"} -> "eof"
      [] err = "connection refused" -> "connection_refused"
      [] err = "connection reset" -> "connection_reset"
      [] err = "no such host" -> "dns"
      [] err \in {"tls:", "x509:"} -> "tls"
      [] err = "stopped after" -> "too_many_redirects"
      [] OTHER -> "unknown"

(***************************************************************************)
(* succeeded: the expected statuses, or else any status below 400.         *)
(***************************************************************************)
SucceededBelow400(step, r) == r.err = "none" /\ 100 <= r.status /\ r.status < 400

Succeeded(step, r) ==
    /\ r.err = "none"
    /\ IF step.expect # {} THEN r.status \in step.expect
       ELSE 100 <= r.status /\ r.status < 400

(***************************************************************************)
(* record and reportFailure.                                               *)
(***************************************************************************)
RequestSample(r) ==
    [metric |-> "http_req", step |-> at, status |-> r.status, failed |-> ~Succeeded(Step, r),
     error |-> IF r.err = "none" THEN "" ELSE ClassifyError(r.err)]

Exchanged(r) ==
    /\ pc = "exchange"
    /\ resp' = r
    /\ samples' = Append(samples, RequestSample(r))
    /\ Pace
    /\ UNCHANGED <<fixedVars, n, at, vars, age, clock, thinkTime, busy, cancelled>>

Reply(reply) == Exchanged(ReadBody(Redirected(reply), reply.long))

(***************************************************************************)
(* An exchange fails before there is a status, or while the body is read:  *)
(* then the status that came stays beside the error.                       *)
(***************************************************************************)
Statuses == {0} \cup {Redirected(reply).status : reply \in Replies}

BrokenOff(err) ==
    /\ pc = "exchange"
    /\ \E status \in Statuses : Exchanged([NoResponse EXCEPT !.err = err, !.status = status])

NetFailure(err) == BrokenOff(err)

TimedOut == /\ pc = "exchange" /\ (DeadlineOver \/ age >= opts.timeout)
            /\ BrokenOff("deadline exceeded")

Interrupted == cancelled /\ BrokenOff("context canceled")
-----------------------------------------------------------------------------
(***************************************************************************)
(* A pause counted at its nominal length, and one that is not interrupted. *)
(***************************************************************************)
ThinkDoneNominal(ctxDone) ==
    /\ waited >= wait \/ ctxDone
    /\ thinkTime' = thinkTime + wait

ThinkUninterrupted(ctxDone) ==
    /\ waited >= wait
    /\ thinkTime' = thinkTime + waited

(***************************************************************************)
(* Think: until the timer fires or the context is done, whatever passes of *)
(* the pause counting as think time.  The pause after a request has the    *)
(* context of that request, the pause of a think step that of the run.     *)
(***************************************************************************)
ThinkDone(ctxDone) ==
    /\ waited >= wait \/ ctxDone
    /\ thinkTime' = thinkTime + waited

ThinkOver ==
    /\ pc = "think"
    /\ ThinkDone(cancelled)
    /\ Proceed(TRUE)
    /\ wait' = 0 /\ waited' = 0
    /\ UNCHANGED <<fixedVars, n, vars, resp, clock, age, samples, busy, gap, owed, cut, cancelled>>

PauseOver ==
    /\ pc = "pause"
    /\ ThinkDone(CtxDone)
    /\ pc' = "answered"
    /\ cut' = (waited < wait)
    /\ wait' = 0 /\ waited' = 0
    /\ UNCHANGED <<fixedVars, n, at, vars, resp, clock, age, samples, busy, gap, owed, cancelled>>

(***************************************************************************)
(* runStep once Do has returned: a transport error, an unexpected status   *)
(* and a capture that fails each end the iteration.                        *)
(***************************************************************************)
Expected == Step.expect = {} \/ resp.status \in Step.expect

CheckSample == IF Step.expect = {} THEN <<>>
               ELSE <<[metric |-> "checks", step |-> at, ok |-> Expected]>>

Found(v) == IF resp.body.kind \in {"empty", "text"} THEN Missing
            ELSE Extracted(Step.capture[v], resp.body)

Captured == \A v \in DOMAIN Step.capture : Found(v) # Missing

CapturedVars ==
    [v \in DOMAIN Step.capture \cup DOMAIN vars |->
        IF v \in DOMAIN Step.capture THEN Stringify(Found(v), n) ELSE vars[v]]

Answered ==
    /\ pc = "answered"
    /\ IF resp.err # "none" THEN Proceed(FALSE) /\ UNCHANGED <<samples, vars>>
       ELSE /\ samples' = samples \o CheckSample
            /\ Proceed(Expected /\ Captured)
            /\ vars' = IF Expected /\ Captured THEN CapturedVars ELSE vars
    /\ resp' = NoResponse /\ age' = 0
    /\ UNCHANGED <<fixedVars, n, wait, clock, waited, thinkTime, busy, gap, owed, cut, cancelled>>

(***************************************************************************)
(* EndIteration: the time the iteration took without its pauses, and       *)
(* whether it failed.                                                      *)
(***************************************************************************)
EndIteration ==
    /\ pc \in {"done", "erred"}
    /\ pc' = "idle"
    /\ samples' = Append(samples, [metric |-> "iteration", failed |-> pc = "erred",
                                   duration |-> NonNegative(clock - thinkTime)])
    /\ UNCHANGED <<fixedVars, n, at, vars, resp, wait, timeVars, owed, cut, cancelled>>

(***************************************************************************)
(* The engine aborts the virtual user; time passes.                        *)
(***************************************************************************)
Cancel ==
    /\ state = "built" /\ ~cancelled
    /\ cancelled' = TRUE
    /\ UNCHANGED <<fixedVars, timeVars, vuVars>>

Waiting == pc \in {"think", "pause", "exchange"}

Advance ==
    /\ Waiting /\ clock < MaxClock /\ gap < MaxClock
    /\ clock' = clock + 1 /\ age' = (IF pc = "think" THEN age ELSE age + 1) /\ gap' = gap + 1
    /\ waited' = IF pc = "exchange" THEN waited ELSE waited + 1
    /\ busy' = IF pc = "exchange" THEN busy + 1 ELSE busy
    /\ UNCHANGED <<fixedVars, vuVars, thinkTime, cancelled>>

VUStep ==
    \/ BeginIteration \/ ThinkStep \/ RefuseRequest \/ SendRequest \/ TimedOut \/ Interrupted
    \/ ThinkOver \/ PauseOver \/ Answered \/ EndIteration

Next ==
    \/ \E file \in Files, flags \in FlagSets : Submit(file, flags)
    \/ Build
    \/ VUStep
    \/ \E reply \in Replies : Reply(reply)
    \/ \E err \in NetErrors : NetFailure(err)
    \/ Cancel
    \/ Advance

Spec == Init /\ [][Next]_allVars

(***************************************************************************)
(* The goroutine of the virtual user runs.  Nothing is assumed of the      *)
(* network, and time need not pass.                                        *)
(***************************************************************************)
FairSpec == Spec /\ WF_allVars(VUStep)
-----------------------------------------------------------------------------
(***************************************************************************)
(* A plan the command line has accepted is not refused by a worker: the    *)
(* configuration validates again after the flags, the defaults and the     *)
(* YAML have changed it, and its scenarios build.  Three gaps remain: a    *)
(* base URL that is not absolute, a proxy URL that does not parse and a    *)
(* negative duration are only noticed by the worker.                       *)
(***************************************************************************)
PlanSurvivesTheWire ==
    state = "failed" =>
        \/ plan.configYaml.baseURL = "relative"
        \/ plan.configYaml.http.proxy = "unparsable"
        \/ plan.load.duration < 0

(***************************************************************************)
(* A value captured in one iteration never reaches a request of another.   *)
(***************************************************************************)
CapturesStayInIteration ==
    \A i \in DOMAIN samples : samples[i].metric = "sent" =>
        \A j \in DOMAIN samples[i].url : samples[i].url[j].of \in {0, n}

(***************************************************************************)
(* iteration_duration is the time spent on the network: no pause counts,   *)
(* not even one that was interrupted or overslept.                         *)
(***************************************************************************)
OnlyWorkIsTimed ==
    \A i \in DOMAIN samples : samples[i].metric = "iteration" => samples[i].duration = busy

(***************************************************************************)
(* The samples of an iteration tell one story.  An iteration ends at the   *)
(* first request that errs or is not as expected; a failed check is a      *)
(* failed request and the reverse, where a status was expected and a       *)
(* response came; and an iteration with a failed check has failed.         *)
(***************************************************************************)
SamplesAgree ==
    \A i, j \in DOMAIN samples :
        /\ samples[i].metric = "http_req" /\ samples[i].error # "" /\ i < j
             => samples[j].metric = "iteration" /\ samples[j].failed
        /\ samples[i].metric = "checks" /\ ~samples[i].ok /\ i < j
             => samples[j].metric = "iteration" /\ samples[j].failed
        /\ samples[i].metric = "http_req" /\ samples[j].metric = "checks"
              /\ samples[i].step = samples[j].step
             => samples[i].failed = ~samples[j].ok

(***************************************************************************)
(* Whatever became of a request, one that never reached the network        *)
(* included, the next does not start before the pause due after it is      *)
(* over; unless the timeout of the step, or the end of the run, cut the    *)
(* pause short.                                                            *)
(***************************************************************************)
PacedUnlessCutShort ==
    [][pc = "step" /\ pc' \in {"exchange", "pause", "answered"} => gap >= owed \/ cut]_allVars

(***************************************************************************)
(* The pause is only ever cut short by the end of the run.                 *)
(***************************************************************************)
Paced == [][pc = "step" /\ pc' \in {"exchange", "pause", "answered"}
              => gap >= owed \/ cancelled]_allVars

(***************************************************************************)
(* An aborted virtual user stops promptly: without waiting for an answer,  *)
(* a timer or a pause, the iteration it is in ends.                        *)
(***************************************************************************)
StopIsPrompt == cancelled ~> pc = "idle"
=============================================================================
