--------------------------- MODULE ScenarioConfig ---------------------------
(***************************************************************************)
(* internal/scenario: what a configuration must satisfy, the plan it       *)
(* becomes, and the scenarios a worker builds from that plan, with the     *)
(* HTTP options of pkg/loadwave.                                           *)
(*                                                                         *)
(* Text is a sequence of parts.  A part of a template is a literal, the    *)
(* name of a variable (a placeholder) or one of Unparsable.  A duration    *)
(* text is a record: unset, a fixed duration, a range, or no duration.     *)
(***************************************************************************)
EXTENDS Executor, SequencesExt

CONSTANTS
    Compiled,           \* the names of the scenarios registered in the binary
    Variables,          \* the names a placeholder may have
    MaxUint32,          \* the largest count the wire format carries
    DefaultPause,       \* DefaultBetweenRequests
    DefaultTimeout,     \* DefaultHTTPTimeout
    DefaultMaxRedirects

ASSUME ConfigAssumption ==
    /\ DefaultPause \in Nat \ {0} /\ DefaultTimeout \in Nat \ {0}
    /\ DefaultMaxRedirects \in Nat \ {0} /\ MaxUint32 \in Nat

Unset == [form |-> "unset", lo |-> 0, hi |-> 0]
Fixed(d) == [form |-> "fixed", lo |-> d, hi |-> d]
Between(lo, hi) == [form |-> "range", lo |-> lo, hi |-> hi]
NoDuration == [form |-> "text", lo |-> 0, hi |-> 0]

(***************************************************************************)
(* The types of a configuration file and of the command line flags.  Of    *)
(* the headers, the query and the body a step keeps the templates.         *)
(***************************************************************************)
IsMap(f, keys, values) == DOMAIN f \subseteq keys /\ f \in [DOMAIN f -> values]

Shorthands == {"GET", "POST", "PUT", "PATCH", "DELETE", "HEAD"}

DurationText == [form : {"unset", "fixed", "range", "text"}, lo : Int, hi : Int]

Template == Seq(STRING)

Path == Seq([isIdx : BOOLEAN, field : STRING, index : Int])

StepConfig(s) ==
    /\ DOMAIN s = {"think", "method", "url", "short", "templates", "body", "expect", "capture",
                   "timeout", "betweenRequests"}
    /\ s.think \in DurationText /\ s.betweenRequests \in DurationText /\ s.timeout \in Int
    /\ s.method \in STRING /\ s.url \in Template /\ s.templates \in SUBSET Template
    /\ s.expect \in SUBSET Int
    /\ IsMap(s.short, Shorthands, Template) /\ IsMap(s.capture, Variables, Path)
    /\ s.body \in [{"json", "form", "body"} -> {"nil", "empty", "set"}]

ScenarioEntry(s) ==
    /\ DOMAIN s = {"name", "weight", "vars", "steps"}
    /\ s.name \in STRING /\ s.weight \in Int /\ IsMap(s.vars, Variables, STRING)
    /\ s.steps \in Seq(Range(s.steps)) /\ \A i \in DOMAIN s.steps : StepConfig(s.steps[i])

StageConfig == [duration : Int, target : Int]

LoadConfig(l) ==
    /\ DOMAIN l = {"executor", "vus", "duration", "stages", "rate", "iterations"}
    /\ l.vus \in Int /\ l.duration \in Int /\ l.rate \in Int /\ l.iterations \in Int
    /\ l.stages \in Seq(StageConfig)

HTTPConfig ==
    [timeout : Int, maxRedirects : Int, followRedirects : BOOLEAN, discardBody : BOOLEAN,
     proxy : {"none", "parsable", "unparsable"}]

Threshold == [stat : STRING, op : STRING, metric : STRING]

Config(c) ==
    /\ DOMAIN c = {"name", "baseURL", "workers", "betweenRequests", "load", "http",
                   "thresholds", "scenarios"}
    /\ c.baseURL \in {"none", "absolute", "relative"} /\ c.workers \in Int
    /\ c.betweenRequests \in DurationText /\ LoadConfig(c.load) /\ c.http \in HTTPConfig
    /\ c.thresholds \in Seq(Threshold)
    /\ c.scenarios \in Seq(Range(c.scenarios))
    /\ \A i \in DOMAIN c.scenarios : ScenarioEntry(c.scenarios[i])

PlanFlags ==
    [url : {"none", "absolute", "relative"}, vus : Int, duration : Int, iterations : Int,
     rate : Int, workers : Int, timeout : Int, stages : Seq(StageConfig),
     betweenRequests : DurationText, scenarios : Seq([name : STRING, weight : Int]),
     thresholds : Seq(Threshold)]
-----------------------------------------------------------------------------
(***************************************************************************)
(* ParsePause and parseThink accept the same texts.                        *)
(***************************************************************************)
PauseParses(spec) == spec.form \in {"fixed", "range"} /\ 0 <= spec.lo /\ spec.lo <= spec.hi

ParsePause(spec) == [min |-> spec.lo, max |-> spec.hi]

IsZero(pause) == pause.min <= 0 /\ pause.max <= 0

(***************************************************************************)
(* Pause.Duration and ThinkBetween: a draw that excludes the upper bound,  *)
(* unless the two bounds are one.                                          *)
(***************************************************************************)
Draws(pause) ==
    IF pause.max <= pause.min THEN {NonNegative(pause.min)}
    ELSE NonNegative(pause.min) .. pause.max - 1

(***************************************************************************)
(* ParseTemplate and Render.  An unknown name renders as nothing.          *)
(***************************************************************************)
Unparsable == {"${", "${}"}

TemplateParses(t) == \A i \in DOMAIN t : t[i] \notin Unparsable

Text(part, of) == <<[text |-> part, of |-> of]>>

(***************************************************************************)
(* NewVars and Vars.Get: the scenario's own values before the built-ins.   *)
(* Texts carry the iteration they were captured in; 0 for all others.      *)
(***************************************************************************)
Builtins == {"__vu", "__iteration", "__shard", "__shards", "__random", "__uuid", "__timestamp",
             "__unixMilli"}

NewVars(declared) == [v \in DOMAIN declared |-> Text(declared[v], 0)]

Get(vars, name) ==
    CASE name \in DOMAIN vars -> vars[name]
      [] name \in Builtins \ DOMAIN vars -> Text(name, 0)
      [] OTHER -> <<>>

Render(t, vars) ==
    FlattenSeq([i \in DOMAIN t |-> IF t[i] \in Variables THEN Get(vars, t[i]) ELSE Text(t[i], 0)])

(***************************************************************************)
(* ParsePath and Extract.  A path is a sequence of fields and indexes, a   *)
(* document a tree of objects, arrays and values.                          *)
(***************************************************************************)
Field(name) == [isIdx |-> FALSE, field |-> name, index |-> 0]
Index(i) == [isIdx |-> TRUE, field |-> "", index |-> i]

PathParses(path) == path # <<>> /\ \A i \in DOMAIN path : path[i].isIdx => path[i].index >= 0

Missing == [kind |-> "missing"]

ApplyStep(node, step) ==
    CASE step.isIdx /\ node.kind = "array" ->
             IF step.index < Len(node.items) THEN node.items[step.index + 1] ELSE Missing
      [] ~step.isIdx /\ node.kind = "object" ->
             IF step.field \in DOMAIN node.fields THEN node.fields[step.field] ELSE Missing
      [] OTHER -> Missing

Stringify(node, of) == IF node.kind = "null" THEN <<>> ELSE Text(node.kind, of)

Extracted(path, doc) == FoldLeft(ApplyStep, doc, path)
-----------------------------------------------------------------------------
(***************************************************************************)
(* StepConfig.resolve: the method and the URL, from the explicit fields or *)
(* from the one shorthand that is set.                                     *)
(***************************************************************************)
Resolves(s) ==
    /\ Cardinality(DOMAIN s.short) <= 1
    /\ DOMAIN s.short = {} \/ s.url = <<>>

Method(s) == CASE DOMAIN s.short # {} -> CHOOSE m \in DOMAIN s.short : TRUE
               [] DOMAIN s.short = {} /\ s.method = "" -> "GET"
               [] OTHER -> s.method

Target(s) == IF DOMAIN s.short # {} THEN s.short[Method(s)] ELSE s.url

(***************************************************************************)
(* The body forms that count as set: all by nil-ness, or, as in the code,  *)
(* the json by nil-ness and the others by emptiness.                       *)
(***************************************************************************)
BodiesNotNil(s) == {b \in DOMAIN s.body : s.body[b] # "nil"}

Bodies(s) == {b \in DOMAIN s.body : s.body[b] = "set" \/ (b = "json" /\ s.body[b] = "empty")}

(***************************************************************************)
(* StepConfig.validate.  Templates are not looked at.                      *)
(***************************************************************************)
StepAccepted(s) ==
    IF s.think # Unset
    THEN PauseParses(s.think) /\ s.url = <<>> /\ s.method = "" /\ DOMAIN s.short = {}
    ELSE /\ Resolves(s) /\ Target(s) # <<>>
         /\ Cardinality(Bodies(s)) <= 1
         /\ \A v \in DOMAIN s.capture : PathParses(s.capture[v])
         /\ s.betweenRequests # Unset => PauseParses(s.betweenRequests)

ScenarioAccepted(s) ==
    s.name # "" /\ s.weight >= 0 /\ \A i \in DOMAIN s.steps : StepAccepted(s.steps[i])

(***************************************************************************)
(* LoadConfig.validate: the defaults it fills in, and what it refuses.     *)
(***************************************************************************)
LoadDefaults(l) ==
    LET executor == IF l.executor = "" THEN "constant-vus" ELSE l.executor
    IN  [l EXCEPT !.executor = executor,
                  !.vus = IF executor = "constant-vus" /\ @ <= 0 THEN 1 ELSE @]

LoadAccepted(l) ==
    /\ \/ /\ l.executor = "constant-vus"
          /\ l.duration > 0 \/ l.iterations > 0
          /\ l.stages = <<>>
       \/ /\ l.executor = "ramping-vus"
          /\ \A i \in DOMAIN l.stages : l.stages[i].duration > 0 /\ l.stages[i].target >= 0
          /\ \E i \in DOMAIN l.stages : l.stages[i].target > 0
    /\ l.rate >= 0

(***************************************************************************)
(* Config.Validate, which also rewrites the configuration.                 *)
(***************************************************************************)
Stats == {"count", "rate", "avg", "mean", "min", "max", "p50", "med", "p90", "p95", "p99", "p999"}
Ops == {"<", "lt", "<=", "le", ">", "gt", ">=", "ge"}

Validated(c) == [c EXCEPT !.name = IF @ = "" THEN "loadwave" ELSE @, !.load = LoadDefaults(@)]

Validates(c) ==
    /\ LoadAccepted(LoadDefaults(c.load))
    /\ \A i \in DOMAIN c.scenarios : ScenarioAccepted(c.scenarios[i])
    /\ \A i, j \in DOMAIN c.scenarios : c.scenarios[i].name = c.scenarios[j].name => i = j
    /\ c.betweenRequests # Unset => PauseParses(c.betweenRequests)
    /\ \A i \in DOMAIN c.thresholds :
         c.thresholds[i].stat \in Stats /\ c.thresholds[i].op \in Ops /\ c.thresholds[i].metric # ""
-----------------------------------------------------------------------------
(***************************************************************************)
(* planFlags.apply: the command line overrides the file.  A scenario named *)
(* on the command line keeps its definition in the file, if it has one.    *)
(***************************************************************************)
Overridden(value, flag) == IF flag > 0 THEN flag ELSE value

Selected(c, pick) ==
    LET defined == {i \in DOMAIN c.scenarios : c.scenarios[i].name = pick.name}
    IN  IF defined # {} THEN [c.scenarios[Min(defined)] EXCEPT !.weight = pick.weight]
        ELSE [name |-> pick.name, weight |-> pick.weight, vars |-> <<>>, steps |-> <<>>]

ApplyLoad(l, flags) ==
    [l EXCEPT !.vus = Overridden(@, flags.vus),
              !.rate = Overridden(@, flags.rate),
              !.duration = Overridden(@, flags.duration),
              !.iterations = Overridden(@, flags.iterations),
              !.stages = IF flags.stages # <<>> THEN flags.stages ELSE @,
              !.executor = IF flags.stages # <<>> THEN "ramping-vus" ELSE @]

ApplyHTTP(h, flags) == [h EXCEPT !.timeout = Overridden(@, flags.timeout)]

Apply(c, flags) ==
    [c EXCEPT
       !.baseURL = IF flags.url # "none" THEN flags.url ELSE @,
       !.workers = Overridden(@, flags.workers),
       !.http = ApplyHTTP(@, flags),
       !.load = ApplyLoad(@, flags),
       !.thresholds = @ \o flags.thresholds,
       !.betweenRequests = IF flags.betweenRequests # Unset THEN flags.betweenRequests ELSE @,
       !.scenarios = IF flags.scenarios = <<>> THEN @
                     ELSE [i \in DOMAIN flags.scenarios |-> Selected(c, flags.scenarios[i])]]

(***************************************************************************)
(* What the flags' own parsers refuse: a pause, stages and weights of 32   *)
(* bits (parseStages, applyScenarios) and thresholds (parseThreshold).     *)
(***************************************************************************)
MaxInt32 == MaxUint32 \div 2

FlagsParse(flags) ==
    /\ flags.betweenRequests # Unset => PauseParses(flags.betweenRequests)
    /\ \A i \in DOMAIN flags.stages : flags.stages[i].target \in 0 .. MaxInt32
    /\ \A i \in DOMAIN flags.scenarios : flags.scenarios[i].weight \in 1 .. MaxInt32
    /\ \A i \in DOMAIN flags.thresholds :
         flags.thresholds[i].op \in {"<=", ">=", "<", ">"} /\ flags.thresholds[i].metric # ""

(***************************************************************************)
(* planFlags.load: a file is validated before the flags and after them.    *)
(* Without one the flags fill in an empty configuration, which says        *)
(* nothing of the load, so that they must; an empty file is refused.       *)
(***************************************************************************)
NoFile ==
    [name |-> "", baseURL |-> "none", workers |-> 0, betweenRequests |-> Unset,
     load |-> [executor |-> "", vus |-> 0, duration |-> 0, stages |-> <<>>, rate |-> 0,
               iterations |-> 0],
     http |-> [timeout |-> 0, maxRedirects |-> 0, followRedirects |-> FALSE,
               discardBody |-> FALSE, proxy |-> "none"],
     thresholds |-> <<>>, scenarios |-> <<>>]

Overlaid(file, flags) == Apply(IF file = NoFile THEN NoFile ELSE Validated(file), flags)

Loads(file, flags) ==
    /\ file # NoFile => Validates(file)
    /\ FlagsParse(flags)
    /\ LET c == Overlaid(file, flags)
       IN  /\ file = NoFile => c.load.vus # 0 \/ c.load.stages # <<>>
           /\ Validates(c)

Loaded(file, flags) == Validated(Overlaid(file, flags))

(***************************************************************************)
(* Plan and FromPlan.  The whole configuration travels as YAML, in which a *)
(* nil map becomes an empty one; the json of a step, which may be any      *)
(* value, stays nil.                                                       *)
(***************************************************************************)
FitsUint32(n) == 0 <= n /\ n <= MaxUint32

Plannable(c) ==
    /\ FitsUint32(c.load.vus) /\ FitsUint32(c.load.rate) /\ FitsUint32(c.workers)
    /\ \A i \in DOMAIN c.load.stages : FitsUint32(c.load.stages[i].target)
    /\ \A i \in DOMAIN c.scenarios : FitsUint32(Max({1, c.scenarios[i].weight}))

WireStep(s) == [s EXCEPT !.body["form"] = IF @ = "nil" THEN "empty" ELSE @]

WireScenario(s) == [s EXCEPT !.steps = [j \in DOMAIN @ |-> WireStep(@[j])]]

Wire(c) == [c EXCEPT !.scenarios = [i \in DOMAIN @ |-> WireScenario(@[i])]]

Plan(c) == [load |-> c.load, configYaml |-> Wire(c),
            refs |-> [i \in DOMAIN c.scenarios |->
                        [name |-> c.scenarios[i].name, weight |-> Max({1, c.scenarios[i].weight})]]]

FromPlan(plan) == Validated(plan.configYaml)
-----------------------------------------------------------------------------
(***************************************************************************)
(* compileStep, and the templates it parses.                               *)
(***************************************************************************)
Compiles(s) == s.think # Unset \/ \A t \in {Target(s)} \cup s.templates : TemplateParses(t)

NoPause == [min |-> -1, max |-> -1]

CompileStep(s) ==
    [isThink |-> s.think # Unset, think |-> ParsePause(s.think), method |-> Method(s),
     url |-> Target(s), bodies |-> Bodies(s), expect |-> s.expect, capture |-> s.capture,
     timeout |-> s.timeout,
     pace |-> IF s.betweenRequests = Unset THEN NoPause ELSE ParsePause(s.betweenRequests)]

Declarative(s) == [s EXCEPT !.steps = [j \in DOMAIN @ |-> CompileStep(@[j])]]

(***************************************************************************)
(* Registry.Register refuses a name that is no identifier.                 *)
(***************************************************************************)
Unregistrable == {"no identifier"}

(***************************************************************************)
(* BuildScenarios: a scenario with steps must be new to the registry, one  *)
(* without must be in it.  A configuration with none at all is a single    *)
(* GET of the base URL.                                                    *)
(***************************************************************************)
IsSmokeTest(c) == c.scenarios = <<>> /\ Compiled = {} /\ c.baseURL # "none"

Builds(c) ==
    \A i \in DOMAIN c.scenarios :
        LET s == c.scenarios[i]
        IN  IF s.steps = <<>> THEN s.name \in Compiled
            ELSE /\ s.name \notin Compiled \cup Unregistrable
                 /\ \A j \in DOMAIN s.steps : Compiles(s.steps[j])

SmokeTest ==
    [name |-> "default", weight |-> 0, vars |-> <<>>,
     steps |-> <<[isThink |-> FALSE, think |-> ParsePause(Unset), method |-> "GET",
                  url |-> <<"/">>, bodies |-> {}, expect |-> {200}, capture |-> <<>>,
                  timeout |-> 0, pace |-> NoPause]>>]

BuildScenarios(c) ==
    IF IsSmokeTest(c) THEN {SmokeTest}
    ELSE {Declarative(c.scenarios[i]) :
             i \in {k \in DOMAIN c.scenarios : c.scenarios[k].steps # <<>>}}

(***************************************************************************)
(* verifyScenarios: something must be there to run.                        *)
(***************************************************************************)
VerifyScenarios(c) == Builds(c) /\ (BuildScenarios(c) # {} \/ Compiled # {})

(***************************************************************************)
(* HTTPOptions, BetweenRequestsPause and applyDefaults.                    *)
(***************************************************************************)
BetweenRequestsPause(c) ==
    IF c.betweenRequests = Unset THEN ParsePause(Fixed(DefaultPause))
    ELSE ParsePause(c.betweenRequests)

OrDefault(value, default) == IF value <= 0 THEN default ELSE value

HTTPOptions(c) ==
    [base |-> c.baseURL, pause |-> BetweenRequestsPause(c),
     timeout |-> OrDefault(c.http.timeout, DefaultTimeout),
     maxRedirects |-> OrDefault(c.http.maxRedirects, DefaultMaxRedirects),
     followRedirects |-> c.http.followRedirects, discardBody |-> c.http.discardBody,
     proxy |-> c.http.proxy]

(***************************************************************************)
(* NewHTTPClientFactory refuses a base URL that does not parse or has no   *)
(* scheme and host, and a proxy URL that does not parse.                   *)
(***************************************************************************)
FactoryAccepts(opts) == opts.base \in {"none", "absolute"} /\ opts.proxy # "unparsable"

(***************************************************************************)
(* What load and run accept on the command line, and what build accepts in *)
(* a worker.                                                               *)
(***************************************************************************)
CommandAccepts(file, flags) ==
    /\ Loads(file, flags)
    /\ VerifyScenarios(Loaded(file, flags)) /\ Plannable(Loaded(file, flags))

WorkerBuilds(plan) ==
    /\ Validates(plan.configYaml)
    /\ Builds(FromPlan(plan))
    /\ FactoryAccepts(HTTPOptions(FromPlan(plan)))
    /\ ProfileAccepted(plan.load)
=============================================================================
