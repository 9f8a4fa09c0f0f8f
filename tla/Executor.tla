------------------------------ MODULE Executor ------------------------------
(***************************************************************************)
(* internal/engine/executor.go: the number of virtual users a load profile *)
(* asks for at an elapsed time, and the share of it one node carries.      *)
(*                                                                         *)
(* A profile is the LoadProfile of a plan.  Durations are whole numbers of *)
(* an unnamed unit; the code's float64 arithmetic is exact rationals here, *)
(* rounded where the code rounds.                                          *)
(***************************************************************************)
EXTENDS Integers, Sequences, FiniteSetsExt, Functions

(***************************************************************************)
(* math.Round of n / d for a quotient that is not negative.                *)
(***************************************************************************)
RoundedQuotient(n, d) == (2 * n + d) \div (2 * d)

(***************************************************************************)
(* A straight line from one value to another, over span, at offset.        *)
(***************************************************************************)
Interpolated(from, to, offset, span) ==
    RoundedQuotient(from * span + offset * (to - from), span)

(***************************************************************************)
(* The fields of a LoadProfile the executors read.                         *)
(***************************************************************************)
ProfileTyped(p) ==
    /\ p.vus \in Nat /\ p.duration \in Int /\ p.iterations \in Nat
    /\ p.stages \in Seq([duration : Int, target : Nat])

(***************************************************************************)
(* newConstantVUs and newRampingVUs: the profiles they refuse.             *)
(***************************************************************************)
ConstantAccepted(p) ==
    /\ p.vus > 0
    /\ p.duration >= 0
    /\ p.duration > 0 \/ p.iterations > 0

RampingAccepted(p) ==
    /\ p.stages # <<>>
    /\ \A i \in DOMAIN p.stages : p.stages[i].duration > 0
    /\ \E i \in DOMAIN p.stages : p.stages[i].target > 0

ProfileAccepted(p) ==
    CASE p.executor \in {"constant-vus", "unspecified"} -> ConstantAccepted(p)
      [] p.executor = "ramping-vus" -> RampingAccepted(p)
      [] OTHER -> FALSE

(***************************************************************************)
(* NewExecutor: the stages of a ramp resolved to absolute end offsets.     *)
(***************************************************************************)
Durations(stages) == [i \in DOMAIN stages |-> stages[i].duration]

Legs(stages) ==
    [i \in DOMAIN stages |->
        [end |-> SumFunctionOnSet(Durations(stages), 1 .. i),
         target |-> stages[i].target]]

NewExecutor(p) ==
    IF p.executor = "ramping-vus"
    THEN LET legs == Legs(p.stages)
         IN  [legs |-> legs, vus |-> 0, duration |-> legs[Len(legs)].end,
              peak |-> Max({legs[i].target : i \in DOMAIN legs})]
    ELSE [legs |-> <<>>, vus |-> p.vus, duration |-> p.duration, peak |-> p.vus]

(***************************************************************************)
(* TargetAt of constantVUs and of rampingVUs.  Every ramp starts at zero.  *)
(***************************************************************************)
ConstantTarget(e, t) ==
    IF t < 0 \/ (e.duration > 0 /\ t >= e.duration) THEN 0 ELSE e.vus

RampingTarget(e, t) ==
    IF t < 0 \/ t >= e.duration THEN 0
    ELSE LET i == Min({j \in DOMAIN e.legs : t < e.legs[j].end})
             start == IF i = 1 THEN 0 ELSE e.legs[i - 1].end
             from == IF i = 1 THEN 0 ELSE e.legs[i - 1].target
         IN  Interpolated(from, e.legs[i].target, t - start, e.legs[i].end - start)

InnerTarget(e, t) == IF e.legs = <<>> THEN ConstantTarget(e, t) ELSE RampingTarget(e, t)
-----------------------------------------------------------------------------
(***************************************************************************)
(* scaled: a curve reduced to one node's quota.  The quota itself may be   *)
(* on its way from one value to another.                                   *)
(***************************************************************************)
NonNegative(n) == IF n < 0 THEN 0 ELSE n

NewScaled(e, quota) ==
    [inner |-> e, from |-> NonNegative(quota), to |-> NonNegative(quota),
     rampFrom |-> 0, rampTo |-> 0]

QuotaAt(s, t) ==
    CASE s.rampTo <= s.rampFrom \/ t >= s.rampTo -> s.to
      [] t <= s.rampFrom /\ s.rampTo > s.rampFrom -> s.from
      [] OTHER -> Interpolated(s.from, s.to, t - s.rampFrom, s.rampTo - s.rampFrom)

(***************************************************************************)
(* A change that eases from where the previous one was heading.            *)
(***************************************************************************)
RescaleFromGoal(s, quota, t, ramp) ==
    IF ramp <= 0
    THEN [s EXCEPT !.from = NonNegative(quota), !.to = NonNegative(quota),
                   !.rampFrom = 0, !.rampTo = 0]
    ELSE [s EXCEPT !.from = s.to, !.to = NonNegative(quota),
                   !.rampFrom = t, !.rampTo = t + ramp]

(***************************************************************************)
(* Rescale: at once, or eased from where the quota is at t.                *)
(***************************************************************************)
Rescale(s, quota, t, ramp) ==
    IF ramp <= 0
    THEN [s EXCEPT !.from = NonNegative(quota), !.to = NonNegative(quota),
                   !.rampFrom = 0, !.rampTo = 0]
    ELSE [s EXCEPT !.from = QuotaAt(s, t), !.to = NonNegative(quota),
                   !.rampFrom = t, !.rampTo = t + ramp]

(***************************************************************************)
(* A share that is rounded up.                                             *)
(***************************************************************************)
TargetAtRoundedUp(s, t) ==
    LET quota == QuotaAt(s, t)
        global == InnerTarget(s.inner, t)
        share == (quota * global) \div s.inner.peak + 1
    IN  IF quota = 0 \/ global <= 0 THEN 0 ELSE share

(***************************************************************************)
(* TargetAt of scaled: the node's share of the curve, and at least one     *)
(* virtual user while both the quota and the curve are above zero.         *)
(***************************************************************************)
TargetAt(s, t) ==
    LET quota == QuotaAt(s, t)
        global == InnerTarget(s.inner, t)
        share == RoundedQuotient(quota * global, s.inner.peak)
    IN  CASE quota = 0 \/ global <= 0 -> 0
          [] quota > 0 /\ global >= s.inner.peak -> quota
          [] OTHER -> IF share = 0 THEN 1 ELSE share
=============================================================================
