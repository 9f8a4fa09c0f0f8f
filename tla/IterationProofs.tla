--------------------------- MODULE IterationProofs ---------------------------
(***************************************************************************)
(* What the samples, the pauses and the variables of a virtual user        *)
(* promise, proved for every configuration, every server and every number  *)
(* of iterations.                                                          *)
(***************************************************************************)
EXTENDS Iteration, SequenceTheorems, WellFoundedInduction, TLAPS

-----------------------------------------------------------------------------
(***************************************************************************)
(* The samples of an iteration form a list, whatever they hold.            *)
(***************************************************************************)
IsList(q) == \E S : q \in Seq(S)

LEMMA ListAppend ==
    ASSUME NEW q, IsList(q), NEW e
    PROVE  /\ IsList(Append(q, e)) /\ Len(q) \in Nat /\ DOMAIN q = 1 .. Len(q)
           /\ Len(Append(q, e)) = Len(q) + 1
           /\ DOMAIN Append(q, e) = DOMAIN q \cup {Len(q) + 1} /\ Len(q) + 1 \notin DOMAIN q
           /\ \A i \in DOMAIN q : i \in Nat /\ i < Len(q) + 1 /\ Append(q, e)[i] = q[i]
           /\ Append(q, e)[Len(q) + 1] = e
<1>1. PICK S : q \in Seq(S)
  BY DEF IsList
<1>2. q \in Seq(S \cup {e})
  BY <1>1
<1>3. Append(q, e) \in Seq(S \cup {e})
  BY <1>2
<1>. QED BY <1>2, <1>3 DEF IsList

LEMMA ListChecked ==
    ASSUME NEW q, IsList(q), NEW e
    PROVE  q \o <<>> = q /\ q \o <<e>> = Append(q, e)
<1>1. PICK S : q \in Seq(S)
  BY DEF IsList
<1>2. q \in Seq(S \cup {e}) /\ e \in S \cup {e}
  BY <1>1
<1>. QED BY <1>2

(***************************************************************************)
(* The check runStep records, where the step expects a status.             *)
(***************************************************************************)
Check == [metric |-> "checks", step |-> at, ok |-> Expected]

LEMMA CheckIsAppended ==
    ASSUME IsList(samples)
    PROVE  samples \o CheckSample = IF Step.expect = {} THEN samples ELSE Append(samples, Check)
<1>1. CASE Step.expect = {}
  BY <1>1, ListChecked DEF CheckSample
<1>2. CASE Step.expect # {}
  <2>1. CheckSample = <<Check>>
    BY <1>2 DEF CheckSample, Check
  <2>. QED BY <1>2, <2>1, ListChecked
<1>. QED BY <1>1, <1>2

LEMMA EmptyList == IsList(<<>>)
<1>1. <<>> \in Seq({})
  OBVIOUS
<1>. QED BY <1>1 DEF IsList
-----------------------------------------------------------------------------
(***************************************************************************)
(* Time.  Outside its pauses an iteration has spent its time on the        *)
(* network or thinking; a pause that is under way is not yet counted as    *)
(* thinking.                                                               *)
(***************************************************************************)
Places == {"idle", "step", "think", "exchange", "pause", "answered", "done", "erred"}

Accounted ==
    /\ pc \in {"step", "exchange", "answered", "done", "erred"} => clock = thinkTime + busy
    /\ pc \in {"think", "pause"} => clock = thinkTime + busy + waited

Timed ==
    \A i \in DOMAIN samples : samples[i].metric = "iteration" =>
        pc = "idle" /\ samples[i].duration = busy

Clocks == clock \in Nat /\ thinkTime \in Nat /\ waited \in Nat /\ busy \in Nat /\ gap \in Nat

TimeInv == IsList(samples) /\ pc \in Places /\ Clocks /\ Accounted /\ Timed

LEMMA PaceGoes ==
    ASSUME Pace
    PROVE  pc' \in {"pause", "answered"} /\ waited' = 0 /\ gap' = 0
BY DEF Pace

LEMMA ProceedGoes ==
    ASSUME NEW ok, Proceed(ok)
    PROVE  pc' \in {"step", "done", "erred"}
BY DEF Proceed

LEMMA StepKeepsTime ==
    ASSUME TimeInv, [Next]_allVars
    PROVE  TimeInv'
<1>. USE DEF fixedVars, timeVars, vuVars
<1>0. IsList(samples) /\ pc \in Places /\ Clocks /\ Accounted /\ Timed
  BY DEF TimeInv
<1>u. ASSUME UNCHANGED <<samples, pc, clock, thinkTime, waited, busy, gap>> PROVE TimeInv'
  BY <1>u, <1>0 DEF TimeInv, Clocks, Accounted, Timed
<1>a. ASSUME NEW e, samples' = Append(samples, e), e.metric # "iteration", pc # "idle"
      PROVE  IsList(samples)' /\ Timed'
  BY <1>a, <1>0, ListAppend DEF Timed
<1>s. ASSUME UNCHANGED samples, pc # "idle" PROVE IsList(samples)' /\ Timed'
  BY <1>s, <1>0 DEF Timed
<1>1. CASE UNCHANGED allVars
  BY <1>1, <1>u DEF allVars
<1>2. ASSUME NEW file \in Files, NEW flags \in FlagSets, Submit(file, flags) PROVE TimeInv'
  BY <1>2, <1>u DEF Submit
<1>3. CASE Build
  BY <1>3, <1>u DEF Build
<1>4. CASE Cancel
  BY <1>4, <1>u DEF Cancel
<1>5. CASE BeginIteration
  <2>1. /\ pc' = "step" /\ clock' = 0 /\ thinkTime' = 0 /\ busy' = 0 /\ samples' = <<>>
        /\ UNCHANGED <<waited, gap>>
    BY <1>5 DEF BeginIteration
  <2>2. IsList(samples)' /\ Timed'
    BY <2>1, EmptyList DEF Timed
  <2>. QED BY <1>0, <2>1, <2>2 DEF TimeInv, Places, Clocks, Accounted
<1>6. CASE ThinkStep
  <2>1. pc = "step" /\ UNCHANGED <<clock, thinkTime, samples, busy, gap>>
    BY <1>6 DEF ThinkStep
  <2>2. \/ pc' \in {"step", "done", "erred"} /\ UNCHANGED waited
        \/ pc' = "think" /\ waited' = 0
    BY <1>6, ProceedGoes DEF ThinkStep
  <2>3. pc' \in Places /\ Clocks' /\ Accounted'
    BY <1>0, <2>1, <2>2 DEF Places, Clocks, Accounted
  <2>. QED BY <1>s, <2>1, <2>3 DEF TimeInv
<1>7. CASE RefuseRequest
  <2>1. pc = "step" /\ UNCHANGED <<clock, thinkTime, samples, busy>> /\ Pace
    BY <1>7 DEF RefuseRequest
  <2>2. pc' \in Places /\ Clocks' /\ Accounted'
    BY <1>0, <2>1, PaceGoes DEF Places, Clocks, Accounted
  <2>. QED BY <1>s, <2>1, <2>2 DEF TimeInv
<1>8. CASE SendRequest
  <2>1. /\ pc = "step" /\ pc' = "exchange" /\ UNCHANGED <<clock, waited, thinkTime, busy, gap>>
        /\ \E e : samples' = Append(samples, e) /\ e.metric = "sent"
    BY <1>8 DEF SendRequest
  <2>2. pc' \in Places /\ Clocks' /\ Accounted'
    BY <1>0, <2>1 DEF Places, Clocks, Accounted
  <2>. QED BY <1>a, <2>1, <2>2 DEF TimeInv
<1>9. ASSUME NEW r, Exchanged(r) PROVE TimeInv'
  <2>1. /\ pc = "exchange" /\ UNCHANGED <<clock, thinkTime, busy>> /\ Pace
        /\ samples' = Append(samples, RequestSample(r))
    BY <1>9 DEF Exchanged
  <2>2. RequestSample(r).metric # "iteration"
    BY DEF RequestSample
  <2>3. pc' \in Places /\ Clocks' /\ Accounted'
    BY <1>0, <2>1, PaceGoes DEF Places, Clocks, Accounted
  <2>. QED BY <1>a, <2>1, <2>2, <2>3 DEF TimeInv
<1>10. CASE ThinkOver
  <2>1. /\ pc = "think" /\ thinkTime' = thinkTime + waited /\ waited' = 0
        /\ UNCHANGED <<clock, samples, busy, gap>> /\ pc' \in {"step", "done", "erred"}
    BY <1>10, ProceedGoes DEF ThinkOver, ThinkDone
  <2>2. pc' \in Places /\ Clocks' /\ Accounted'
    BY <1>0, <2>1 DEF Places, Clocks, Accounted
  <2>. QED BY <1>s, <2>1, <2>2 DEF TimeInv
<1>11. CASE PauseOver
  <2>1. /\ pc = "pause" /\ thinkTime' = thinkTime + waited /\ waited' = 0
        /\ UNCHANGED <<clock, samples, busy, gap>> /\ pc' = "answered"
    BY <1>11 DEF PauseOver, ThinkDone
  <2>2. pc' \in Places /\ Clocks' /\ Accounted'
    BY <1>0, <2>1 DEF Places, Clocks, Accounted
  <2>. QED BY <1>s, <2>1, <2>2 DEF TimeInv
<1>12. CASE Answered
  <2>1. /\ pc = "answered" /\ UNCHANGED <<clock, waited, thinkTime, busy, gap>>
        /\ pc' \in {"step", "done", "erred"}
    BY <1>12, ProceedGoes DEF Answered
  <2>2. UNCHANGED samples \/ samples' = Append(samples, Check)
    BY <1>0, <1>12, CheckIsAppended DEF Answered
  <2>3. pc' \in Places /\ Clocks' /\ Accounted'
    BY <1>0, <2>1 DEF Places, Clocks, Accounted
  <2>4. Check.metric # "iteration"
    BY DEF Check
  <2>. QED BY <1>a, <1>s, <2>1, <2>2, <2>3, <2>4 DEF TimeInv
<1>13. CASE EndIteration
  <2>. DEFINE e == [metric |-> "iteration", failed |-> pc = "erred",
                    duration |-> NonNegative(clock - thinkTime)]
  <2>1. /\ pc \in {"done", "erred"} /\ pc' = "idle" /\ samples' = Append(samples, e)
        /\ UNCHANGED <<clock, waited, thinkTime, busy, gap>>
    BY <1>13 DEF EndIteration
  <2>2. e.duration = busy
    BY <1>0, <2>1 DEF Accounted, Clocks, NonNegative
  <2>. HIDE DEF e
  <2>3. IsList(samples)' /\ Timed'
    BY <1>0, <2>1, <2>2, ListAppend DEF Timed
  <2>. QED BY <1>0, <2>1, <2>3 DEF TimeInv, Places, Clocks, Accounted
<1>14. CASE Advance
  <2>1. pc \in {"think", "pause", "exchange"} /\ UNCHANGED <<pc, samples, thinkTime>>
    BY <1>14 DEF Advance, Waiting
  <2>2. /\ clock' = clock + 1 /\ gap' = gap + 1
        /\ waited' = IF pc = "exchange" THEN waited ELSE waited + 1
        /\ busy' = IF pc = "exchange" THEN busy + 1 ELSE busy
    BY <1>14 DEF Advance
  <2>3. Clocks' /\ Accounted'
    BY <1>0, <2>1, <2>2 DEF Clocks, Accounted
  <2>. QED BY <1>0, <1>s, <2>1, <2>3 DEF TimeInv
<1>15. CASE TimedOut \/ Interrupted
  BY <1>15, <1>9 DEF TimedOut, Interrupted, BrokenOff
<1>16. ASSUME NEW reply \in Replies, Reply(reply) PROVE TimeInv'
  BY <1>16, <1>9 DEF Reply
<1>17. ASSUME NEW err \in NetErrors, NetFailure(err) PROVE TimeInv'
  BY <1>17, <1>9 DEF NetFailure, BrokenOff
<1>18. CASE VUStep
  BY <1>5, <1>6, <1>7, <1>8, <1>10, <1>11, <1>12, <1>13, <1>15, <1>18 DEF VUStep
<1>. QED BY <1>1, <1>2, <1>3, <1>4, <1>14, <1>16, <1>17, <1>18 DEF Next

LEMMA InitTime == Init => TimeInv
BY EmptyList DEF Init, TimeInv, Places, Clocks, Accounted, Timed

LEMMA TimeInvHolds == Spec => []TimeInv
BY InitTime, StepKeepsTime, PTL DEF Spec

(***************************************************************************)
(* iteration_duration is the time the iteration spent on the network,      *)
(* however its pauses ended: by their timers, late, or by the context of   *)
(* the request or of the virtual user.                                     *)
(***************************************************************************)
THEOREM OnlyNetworkTimeIsReported == Spec => []OnlyWorkIsTimed
<1>1. TimeInv => OnlyWorkIsTimed
  BY DEF TimeInv, Timed, OnlyWorkIsTimed
<1>. QED BY <1>1, TimeInvHolds, PTL
-----------------------------------------------------------------------------
(***************************************************************************)
(* The story of an iteration.  The samples of its earlier steps come from  *)
(* lower step numbers; the one of the request being answered says what     *)
(* runStep is about to find in the response; and a sample that tells of    *)
(* trouble is the last one, of a request that ends the iteration.          *)
(***************************************************************************)
OfStep(s) == s.metric \in {"http_req", "checks"}

Bad(s) == (s.metric = "http_req" /\ s.error # "") \/ (s.metric = "checks" /\ ~s.ok)

Answering == pc \in {"pause", "answered"}

StepsPast ==
    \A i \in DOMAIN samples : OfStep(samples[i]) =>
        /\ samples[i].step \in Nat /\ samples[i].step <= at
        /\ pc \in {"step", "think", "exchange"} => samples[i].step < at
        /\ samples[i].metric = "checks" /\ Answering => samples[i].step < at

Answers ==
    Answering => \A i \in DOMAIN samples :
        samples[i].metric = "http_req" /\ samples[i].step = at =>
            /\ samples[i].failed = ~Succeeded(Step, resp)
            /\ samples[i].error # "" <=> resp.err # "none"

Trouble ==
    \A i \in DOMAIN samples : Bad(samples[i]) =>
        \/ pc = "idle"
        \/ i = Len(samples) /\ (pc = "erred" \/ (Answering /\ resp.err # "none"))

Running == (pc # "idle" => state = "built") /\ at \in Nat

StoryInv == Running /\ StepsPast /\ Answers /\ Trouble /\ SamplesAgree

LEMMA ProceedWhere ==
    ASSUME NEW ok, Proceed(ok)
    PROVE  \/ ok /\ pc' = "step" /\ at' = at + 1
           \/ ok /\ pc' = "done" /\ at' = at
           \/ ~ok /\ pc' = "erred" /\ at' = at
BY DEF Proceed

LEMMA RequestSampleTells ==
    ASSUME NEW r
    PROVE  LET s == RequestSample(r)
           IN  /\ s.metric = "http_req" /\ s.step = at /\ s.failed = ~Succeeded(Step, r)
               /\ s.error # "" <=> r.err # "none"
<1>1. ClassifyError(r.err) # ""
  BY DEF ClassifyError
<1>. QED BY <1>1 DEF RequestSample

Grown(e) ==
    /\ Len(samples) \in Nat /\ Len(samples') = Len(samples) + 1
    /\ DOMAIN samples' = DOMAIN samples \cup {Len(samples) + 1} /\ samples'[Len(samples) + 1] = e
    /\ \A i \in DOMAIN samples : i \in Nat /\ i < Len(samples) + 1 /\ samples'[i] = samples[i]

LEMMA AppendGrows ==
    ASSUME NEW e, IsList(samples), samples' = Append(samples, e)
    PROVE  Grown(e)
BY ListAppend DEF Grown

LEMMA GrownAgree ==
    ASSUME NEW e, Grown(e), SamplesAgree,
           \A i \in DOMAIN samples : Bad(samples[i]) => e.metric = "iteration" /\ e.failed,
           \A i \in DOMAIN samples :
              /\ samples[i].metric = "http_req" /\ e.metric = "checks" /\ samples[i].step = e.step
                    => samples[i].failed = ~e.ok
              /\ e.metric = "http_req" /\ samples[i].metric = "checks" => e.step # samples[i].step
    PROVE  SamplesAgree'
<1>. DEFINE N == Len(samples) + 1
<1>1. /\ N \in Nat /\ DOMAIN samples' = DOMAIN samples \cup {N} /\ samples'[N] = e
      /\ \A i \in DOMAIN samples : i \in Nat /\ i < N /\ samples'[i] = samples[i]
  BY DEF Grown
<1>. HIDE DEF N
<1>. DEFINE Ok(s, t, before) ==
       /\ s.metric = "http_req" /\ s.error # "" /\ before => t.metric = "iteration" /\ t.failed
       /\ s.metric = "checks" /\ ~s.ok /\ before => t.metric = "iteration" /\ t.failed
       /\ s.metric = "http_req" /\ t.metric = "checks" /\ s.step = t.step => s.failed = ~t.ok
<1>2. ASSUME NEW i \in DOMAIN samples', NEW j \in DOMAIN samples' PROVE Ok(samples'[i], samples'[j], i < j)
  <2>1. CASE i \in DOMAIN samples /\ j \in DOMAIN samples
    <3>1. Ok(samples[i], samples[j], i < j)
      BY <2>1 DEF SamplesAgree
    <3>2. samples'[i] = samples[i] /\ samples'[j] = samples[j]
      BY <1>1, <2>1
    <3>. HIDE DEF Ok
    <3>. QED BY <3>1, <3>2
  <2>2. CASE i \in DOMAIN samples /\ j = N
    BY <1>1, <2>2 DEF Bad
  <2>3. CASE i = N /\ j \in DOMAIN samples
    <3>1. ~(i < j) /\ samples'[i] = e /\ samples'[j] = samples[j]
      BY <1>1, <2>3
    <3>2. e.metric = "http_req" /\ samples[j].metric = "checks" => e.step # samples[j].step
      BY <2>3
    <3>. QED BY <3>1, <3>2
  <2>4. CASE i = N /\ j = N
    <3>1. ~(i < j) /\ samples'[i] = samples'[j]
      BY <1>1, <2>4
    <3>. QED BY <3>1
  <2>. QED BY <1>1, <2>1, <2>2, <2>3, <2>4
<1>. QED BY <1>2 DEF SamplesAgree

LEMMA StepKeepsStory ==
    ASSUME TimeInv, StoryInv, [Next]_allVars
    PROVE  StoryInv'
<1>. USE DEF fixedVars, timeVars, vuVars
<1>l. IsList(samples)
  BY DEF TimeInv
<1>0. Running /\ StepsPast /\ Answers /\ Trouble /\ SamplesAgree
  BY DEF StoryInv
<1>s. ASSUME UNCHANGED samples PROVE SamplesAgree'
  BY <1>s, <1>0, ZenonT(40) DEF SamplesAgree
<1>u. ASSUME UNCHANGED <<pc, at, samples, resp, state, scenario>> PROVE StoryInv'
  <2>1. Running' /\ StepsPast' /\ Trouble'
    BY <1>u, <1>0 DEF Running, StepsPast, Trouble, Answering
  <2>2. Step' = Step
    BY <1>u DEF Step
  <2>3. Answers'
    BY <1>u, <1>0, <2>2, ZenonT(40) DEF Answers, Answering, Succeeded
  <2>. QED BY <1>s, <1>u, <2>1, <2>3 DEF StoryInv
<1>i. ASSUME pc = "idle", UNCHANGED <<pc, at, samples>> PROVE StoryInv'
  BY <1>i, <1>0, <1>s DEF StoryInv, Running, StepsPast, Answers, Trouble, Answering
<1>p. ASSUME NEW ok, Proceed(ok), pc \in {"step", "think"}, ok, UNCHANGED <<samples, state>>
      PROVE  StoryInv'
  <2>1. (pc' = "step" /\ at' = at + 1) \/ (pc' = "done" /\ at' = at)
    BY <1>p, ProceedWhere
  <2>2. \A i \in DOMAIN samples : ~Bad(samples[i])
    BY <1>0, <1>p DEF Trouble, Answering
  <2>3. \A i \in DOMAIN samples : OfStep(samples[i]) => samples[i].step \in Nat /\ samples[i].step < at
    BY <1>0, <1>p DEF StepsPast
  <2>4. Running' /\ StepsPast'
    BY <1>0, <1>p, <2>1, <2>3 DEF Running, StepsPast, Answering
  <2>5. Answers' /\ Trouble'
    BY <1>p, <2>1, <2>2 DEF Answers, Trouble, Answering
  <2>. QED BY <1>s, <1>p, <2>4, <2>5 DEF StoryInv
<1>1. CASE UNCHANGED allVars
  BY <1>1, <1>u DEF allVars
<1>2. ASSUME NEW file \in Files, NEW flags \in FlagSets, Submit(file, flags) PROVE StoryInv'
  BY <1>2, <1>0, <1>i DEF Submit, Running
<1>3. CASE Build
  BY <1>3, <1>0, <1>i DEF Build, Running
<1>4. CASE Cancel
  BY <1>4, <1>u DEF Cancel
<1>5. CASE BeginIteration
  <2>1. pc' = "step" /\ at' = 1 /\ samples' = <<>> /\ state' = "built"
    BY <1>5 DEF BeginIteration
  <2>2. DOMAIN samples' = {}
    BY <2>1
  <2>3. Running' /\ StepsPast' /\ Answers'
    BY <2>1, <2>2 DEF Running, StepsPast, Answers, Answering
  <2>. QED BY <2>2, <2>3 DEF StoryInv, Trouble, SamplesAgree
<1>6. CASE ThinkStep
  <2>1. pc = "step" /\ UNCHANGED <<samples, state>>
    BY <1>6 DEF ThinkStep
  <2>2. CASE Proceed(TRUE)
    BY <1>p, <2>1, <2>2
  <2>3. CASE pc' = "think" /\ UNCHANGED at
    BY <1>0, <1>s, <2>1, <2>3 DEF StoryInv, Running, StepsPast, Answers, Trouble, Answering
  <2>. QED BY <1>6, <2>2, <2>3 DEF ThinkStep
<1>7. CASE RefuseRequest
  <2>1. pc = "step" /\ UNCHANGED <<samples, state, at>> /\ pc' \in {"pause", "answered"}
    BY <1>7, PaceGoes DEF RefuseRequest
  <2>2. \A i \in DOMAIN samples : /\ ~Bad(samples[i])
                                  /\ OfStep(samples[i]) => samples[i].step \in Nat
                                                           /\ samples[i].step < at
    BY <1>0, <2>1 DEF Trouble, StepsPast, Answering
  <2>3. Running' /\ StepsPast' /\ Trouble'
    BY <1>0, <2>1, <2>2 DEF Running, StepsPast, Trouble, Answering
  <2>4. Answers'
    <3>1. \A i \in DOMAIN samples : samples[i].metric = "http_req" => samples[i].step # at
      BY <1>0, <2>2 DEF OfStep, Running
    <3>. QED BY <2>1, <3>1 DEF Answers
  <2>. QED BY <1>s, <2>1, <2>3, <2>4 DEF StoryInv
<1>8. CASE SendRequest
  <2>. DEFINE e == [metric |-> "sent", step |-> at, url |-> Render(Step.url, vars)]
  <2>1. /\ pc = "step" /\ pc' = "exchange" /\ UNCHANGED <<at, state>>
        /\ samples' = Append(samples, e)
    BY <1>8 DEF SendRequest
  <2>2. e.metric = "sent"
    OBVIOUS
  <2>. HIDE DEF e
  <2>3. ~Bad(e) /\ ~OfStep(e)
    BY <2>2 DEF Bad, OfStep
  <2>4. \A i \in DOMAIN samples : ~Bad(samples[i])
    BY <1>0, <2>1 DEF Trouble, Answering
  <2>g. Grown(e)
    BY <1>l, <2>1, AppendGrows
  <2>5. Running' /\ StepsPast' /\ Answers'
    BY <1>0, <2>g, <2>1, <2>3 DEF Grown, Running, StepsPast, Answers, Answering
  <2>6. Trouble'
    BY <2>g, <2>3, <2>4 DEF Grown, Trouble
  <2>7. SamplesAgree'
    BY <1>0, <2>g, <2>2, <2>4, GrownAgree
  <2>. QED BY <2>5, <2>6, <2>7 DEF StoryInv
<1>9. ASSUME NEW r, Exchanged(r) PROVE StoryInv'
  <2>. DEFINE e == RequestSample(r)
  <2>1. /\ pc = "exchange" /\ pc' \in {"pause", "answered"} /\ UNCHANGED <<at, state, scenario>>
        /\ resp' = r /\ samples' = Append(samples, e)
    BY <1>9, PaceGoes DEF Exchanged
  <2>2. /\ e.metric = "http_req" /\ e.step = at /\ e.failed = ~Succeeded(Step, r)
        /\ e.error # "" <=> r.err # "none"
    BY RequestSampleTells
  <2>. HIDE DEF e
  <2>3. \A i \in DOMAIN samples : /\ ~Bad(samples[i])
                                  /\ OfStep(samples[i]) => samples[i].step \in Nat
                                                           /\ samples[i].step < at
    BY <1>0, <2>1 DEF Trouble, StepsPast, Answering
  <2>4. at \in Nat
    BY <1>0 DEF Running
  <2>g. Grown(e)
    BY <1>l, <2>1, AppendGrows
  <2>5. Running' /\ StepsPast'
    <3>1. \A i \in DOMAIN samples' : OfStep(samples'[i]) =>
              /\ samples'[i].step \in Nat /\ samples'[i].step <= at
              /\ samples'[i].metric = "checks" => samples'[i].step < at
      <4>. SUFFICES ASSUME NEW i \in DOMAIN samples', OfStep(samples'[i])
                    PROVE  /\ samples'[i].step \in Nat /\ samples'[i].step <= at
                           /\ samples'[i].metric = "checks" => samples'[i].step < at
        OBVIOUS
      <4>1. CASE i \in DOMAIN samples
        <5>1. samples'[i] = samples[i]
          BY <2>g, <4>1 DEF Grown
        <5>. QED BY <2>3, <2>4, <4>1, <5>1
      <4>2. CASE i \notin DOMAIN samples
        <5>1. samples'[i] = e
          BY <2>g, <4>2 DEF Grown
        <5>2. samples'[i].metric = "http_req" /\ samples'[i].step = at
          BY ONLY <5>1, <2>2
        <5>3. at <= at /\ "http_req" # "checks"
          BY <2>4
        <5>. QED BY ONLY <2>4, <5>2, <5>3
      <4>. QED BY <4>1, <4>2
    <3>. QED BY <1>0, <2>1, <2>4, <3>1 DEF Running, StepsPast
  <2>6. Step' = Step
    BY <2>1 DEF Step
  <2>7. Answers'
    <3>. SUFFICES ASSUME NEW i \in DOMAIN samples', samples'[i].metric = "http_req",
                         samples'[i].step = at'
                  PROVE  samples'[i].failed = ~Succeeded(Step, r) /\ (samples'[i].error # "" <=> r.err # "none")
      BY <2>1, <2>6, ZenonT(40) DEF Answers, Succeeded
    <3>1. i = Len(samples) + 1
      BY <2>g, <2>1, <2>3, <2>4 DEF Grown, OfStep
    <3>2. samples'[i] = e
      BY <2>g, <3>1 DEF Grown
    <3>. QED BY <2>2, <3>2
  <2>8. Trouble'
    <3>1. Bad(e) => r.err # "none"
      BY <2>2 DEF Bad
    <3>2. \A i \in DOMAIN samples' : Bad(samples'[i]) => i = Len(samples') /\ samples'[i] = e
      BY <2>g, <2>3 DEF Grown
    <3>. QED BY <2>1, <3>1, <3>2 DEF Trouble, Answering
  <2>9. SamplesAgree'
    <3>1. \A i \in DOMAIN samples : samples[i].metric = "checks" => samples[i].step # at
      BY <2>3, <2>4 DEF OfStep
    <3>2. \A i \in DOMAIN samples : ~Bad(samples[i])
      BY <2>3
    <3>. QED BY <1>0, <2>g, <2>2, <3>1, <3>2, GrownAgree
  <2>. QED BY <2>5, <2>7, <2>8, <2>9 DEF StoryInv
<1>10. CASE ThinkOver
  <2>1. pc = "think" /\ Proceed(TRUE) /\ UNCHANGED <<samples, state>>
    BY <1>10 DEF ThinkOver
  <2>. QED BY <1>p, <2>1
<1>11. CASE PauseOver
  <2>1. pc = "pause" /\ pc' = "answered" /\ UNCHANGED <<at, samples, resp, state, scenario>>
    BY <1>11 DEF PauseOver
  <2>2. Running' /\ StepsPast' /\ Trouble'
    BY <1>0, <2>1 DEF Running, StepsPast, Trouble, Answering
  <2>3. Step' = Step
    BY <2>1 DEF Step
  <2>4. Answers'
    BY <1>0, <2>1, <2>3, ZenonT(40) DEF Answers, Answering, Succeeded
  <2>. QED BY <1>s, <2>1, <2>2, <2>4 DEF StoryInv
<1>12. CASE Answered
  <2>0. pc = "answered" /\ at \in Nat /\ state = "built" /\ UNCHANGED state
    BY <1>0, <1>12 DEF Answered, Running
  <2>1. CASE resp.err # "none"
    <3>1. UNCHANGED samples /\ pc' = "erred" /\ at' = at
      BY <1>12, <2>1, ProceedWhere DEF Answered
    <3>2. \A i \in DOMAIN samples : Bad(samples[i]) => i = Len(samples)
      BY <1>0, <2>0 DEF Trouble
    <3>3. Running' /\ StepsPast' /\ Answers'
      BY <1>0, <2>0, <3>1 DEF Running, StepsPast, Answers, Answering
    <3>4. Trouble'
      BY <3>1, <3>2 DEF Trouble
    <3>. QED BY <1>s, <3>1, <3>3, <3>4 DEF StoryInv
  <2>2. CASE resp.err = "none"
    <3>. DEFINE ok == Expected /\ Captured
    <3>1. Proceed(ok) /\ samples' = IF Step.expect = {} THEN samples ELSE Append(samples, Check)
      BY <1>12, <1>l, <2>2, CheckIsAppended DEF Answered
    <3>2. \/ ok /\ pc' = "step" /\ at' = at + 1
          \/ ok /\ pc' = "done" /\ at' = at
          \/ ~ok /\ pc' = "erred" /\ at' = at
      BY <3>1, ProceedWhere
    <3>3. \A i \in DOMAIN samples : ~Bad(samples[i])
      BY <1>0, <2>0, <2>2 DEF Trouble, Answering
    <3>4. \A i \in DOMAIN samples : OfStep(samples[i]) => samples[i].step \in Nat /\ samples[i].step <= at
      BY <1>0 DEF StepsPast
    <3>5. CASE Step.expect = {}
      <4>1. UNCHANGED samples
        BY <3>1, <3>5
      <4>2. Running' /\ StepsPast'
        BY <2>0, <3>2, <3>4, <4>1 DEF Running, StepsPast, Answering
      <4>3. Answers' /\ Trouble'
        BY <3>2, <3>3, <4>1 DEF Answers, Trouble, Answering
      <4>. QED BY <1>s, <4>1, <4>2, <4>3 DEF StoryInv
    <3>6. CASE Step.expect # {}
      <4>1. samples' = Append(samples, Check)
        BY <3>1, <3>6
      <4>2. Check.metric = "checks" /\ Check.step = at /\ Check.ok = Expected
        BY DEF Check
      <4>g. Grown(Check)
        BY <1>l, <4>1, AppendGrows
      <4>3. Running' /\ StepsPast'
        BY <2>0, <3>2, <3>4, <4>g, <4>2 DEF Grown, Running, StepsPast, Answering
      <4>4. Answers'
        BY <3>2 DEF Answers, Answering
      <4>5. Trouble'
        <5>1. Bad(Check) => pc' = "erred"
          BY <3>2, <4>2 DEF Bad
        <5>2. \A i \in DOMAIN samples' : Bad(samples'[i]) => i = Len(samples') /\ samples'[i] = Check
          BY <3>3, <4>g DEF Grown
        <5>. QED BY <5>1, <5>2 DEF Trouble
      <4>6. \A i \in DOMAIN samples : samples[i].metric = "http_req" /\ samples[i].step = at =>
                samples[i].failed = ~Expected
        <5>1. Succeeded(Step, resp) <=> Expected
          BY <2>2, <3>6 DEF Succeeded, Expected
        <5>2. Succeeded(Step, resp) \in BOOLEAN /\ Expected \in BOOLEAN
          BY DEF Succeeded, Expected
        <5>3. \A i \in DOMAIN samples : samples[i].metric = "http_req" /\ samples[i].step = at =>
                  samples[i].failed = ~Succeeded(Step, resp)
          BY <1>0, <2>0 DEF Answers, Answering
        <5>4. Succeeded(Step, resp) = Expected
          BY <5>1, <5>2
        <5>. QED BY <5>3, <5>4
      <4>7. SamplesAgree'
        BY <1>0, <3>3, <4>g, <4>2, <4>6, GrownAgree
      <4>. QED BY <4>3, <4>4, <4>5, <4>7 DEF StoryInv
    <3>. QED BY <3>5, <3>6
  <2>. QED BY <2>1, <2>2
<1>13. CASE EndIteration
  <2>. DEFINE e == [metric |-> "iteration", failed |-> pc = "erred",
                    duration |-> NonNegative(clock - thinkTime)]
  <2>1. /\ pc \in {"done", "erred"} /\ pc' = "idle" /\ samples' = Append(samples, e)
        /\ UNCHANGED at
    BY <1>13 DEF EndIteration
  <2>2. e.metric = "iteration" /\ (pc = "erred" => e.failed)
    OBVIOUS
  <2>. HIDE DEF e
  <2>3. \A i \in DOMAIN samples : Bad(samples[i]) => i = Len(samples) /\ pc = "erred"
    BY <1>0, <2>1 DEF Trouble, Answering
  <2>4. Running' /\ StepsPast'
    BY <1>0, <1>l, <2>1, <2>2, ListAppend DEF Running, StepsPast, OfStep, Answering
  <2>5. Answers' /\ Trouble'
    BY <2>1 DEF Answers, Trouble, Answering
  <2>6. SamplesAgree'
    <3>1. Grown(e)
      BY <1>l, <2>1, AppendGrows
    <3>. QED BY <1>0, <2>2, <2>3, <3>1, GrownAgree
  <2>. QED BY <2>4, <2>5, <2>6 DEF StoryInv
<1>14. CASE Advance
  BY <1>14, <1>u DEF Advance
<1>15. CASE TimedOut \/ Interrupted
  BY <1>15, <1>9 DEF TimedOut, Interrupted, BrokenOff
<1>16. ASSUME NEW reply \in Replies, Reply(reply) PROVE StoryInv'
  BY <1>16, <1>9 DEF Reply
<1>17. ASSUME NEW err \in NetErrors, NetFailure(err) PROVE StoryInv'
  BY <1>17, <1>9 DEF NetFailure, BrokenOff
<1>18. CASE VUStep
  BY <1>5, <1>6, <1>7, <1>8, <1>10, <1>11, <1>12, <1>13, <1>15, <1>18 DEF VUStep
<1>. QED BY <1>1, <1>2, <1>3, <1>4, <1>14, <1>16, <1>17, <1>18 DEF Next

LEMMA StoryInvHolds == Spec => []StoryInv
<1>1. Init => StoryInv
  BY DEF Init, StoryInv, Running, StepsPast, Answers, Trouble, SamplesAgree, Answering
<1>. QED BY <1>1, StepKeepsStory, TimeInvHolds, PTL DEF Spec

(***************************************************************************)
(* The samples of an iteration tell one story: it ends, as failed, at the  *)
(* first request that errs or whose check fails, and where a response came *)
(* and a status was expected the request has failed exactly if its check   *)
(* has.                                                                    *)
(***************************************************************************)
THEOREM TheSamplesTellOneStory == Spec => []SamplesAgree
<1>1. StoryInv => SamplesAgree
  BY DEF StoryInv
<1>. QED BY <1>1, StoryInvHolds, PTL
-----------------------------------------------------------------------------
(***************************************************************************)
(* Configurations.  What the command line and the wire make of a           *)
(* configuration is a configuration.                                       *)
(***************************************************************************)
LEMMA LeastIndex ==
    ASSUME NEW S, S \subseteq Nat, S # {}
    PROVE  Min(S) \in S /\ \A k \in S : Min(S) <= k
<1>1. PICK m \in S : \A k \in S : <<k, m>> \notin OpToRel(<, Nat)
  BY NatLessThanWellFounded, WFMin, Zenon
<1>2. \A k \in S : m <= k
  <2>. SUFFICES ASSUME NEW k \in S, k < m PROVE FALSE
    OBVIOUS
  <2>1. <<k, m>> \in OpToRel(<, Nat)
    BY DEF OpToRel
  <2>. QED BY <1>1, <2>1
<1>. QED BY <1>2 DEF Min

LEMMA MappedList ==
    ASSUME NEW q, q \in Seq(Range(q)), NEW f, f = [i \in DOMAIN q |-> f[i]]
    PROVE  f \in Seq(Range(f)) /\ DOMAIN f = DOMAIN q /\ Len(f) = Len(q)
<1>1. f = [i \in 1 .. Len(q) |-> f[i]] /\ Len(q) \in Nat /\ DOMAIN q = 1 .. Len(q)
  OBVIOUS
<1>2. \A i \in 1 .. Len(q) : f[i] \in Range(f)
  BY <1>1 DEF Range
<1>. QED BY <1>1, <1>2

LEMMA ValidatedTyped ==
    ASSUME NEW c, Config(c)
    PROVE  /\ Config(Validated(c)) /\ Validated(c).load = LoadDefaults(c.load)
           /\ \A k \in DOMAIN c \ {"name", "load"} : Validated(c)[k] = c[k]
<1>1. LoadConfig(c.load) /\ DOMAIN c = {"name", "baseURL", "workers", "betweenRequests", "load",
                                       "http", "thresholds", "scenarios"}
  BY DEF Config
<1>2. LoadConfig(LoadDefaults(c.load))
  <2>. DEFINE l == c.load
              executor == IF l.executor = "" THEN "constant-vus" ELSE l.executor
              vus == IF executor = "constant-vus" /\ l.vus <= 0 THEN 1 ELSE l.vus
              d == [l EXCEPT !.executor = executor, !.vus = vus]
  <2>1. LoadDefaults(l) = d
    BY <1>1 DEF LoadDefaults, LoadConfig
  <2>. HIDE DEF executor
  <2>2. vus \in Int
    BY <1>1 DEF LoadConfig
  <2>. HIDE DEF vus
  <2>3. /\ DOMAIN d = DOMAIN l /\ d.vus = vus /\ d.duration = l.duration /\ d.rate = l.rate
        /\ d.iterations = l.iterations /\ d.stages = l.stages
    BY <1>1 DEF LoadConfig
  <2>. HIDE DEF d
  <2>. QED BY <1>1, <2>1, <2>2, <2>3 DEF LoadConfig
<1>. DEFINE v == Validated(c)
<1>3. /\ DOMAIN v = DOMAIN c /\ v.load = LoadDefaults(c.load)
      /\ \A k \in DOMAIN c \ {"name", "load"} : v[k] = c[k]
  BY <1>1 DEF Validated
<1>. HIDE DEF v
<1>4. /\ v.baseURL = c.baseURL /\ v.betweenRequests = c.betweenRequests /\ v.http = c.http
      /\ v.thresholds = c.thresholds /\ v.scenarios = c.scenarios /\ v.workers = c.workers
  BY <1>1, <1>3
<1>5. Config(v)
  BY <1>2, <1>3, <1>4 DEF Config
<1>. QED BY <1>3, <1>5 DEF v

LEMMA SelectedTyped ==
    ASSUME NEW c, Config(c), NEW pick \in [name : STRING, weight : Int]
    PROVE  ScenarioEntry(Selected(c, pick))
<1>. DEFINE defined == {i \in DOMAIN c.scenarios : c.scenarios[i].name = pick.name}
<1>1. CASE defined # {}
  <2>1. defined \subseteq Nat
    BY DEF Config
  <2>2. Min(defined) \in DOMAIN c.scenarios
    BY <1>1, <2>1, LeastIndex
  <2>. DEFINE s == c.scenarios[Min(defined)]
              t == [s EXCEPT !.weight = pick.weight]
  <2>3. ScenarioEntry(s)
    BY <2>2 DEF Config
  <2>4. Selected(c, pick) = t
    BY <1>1 DEF Selected
  <2>. HIDE DEF s
  <2>5. DOMAIN t = DOMAIN s /\ t.name = s.name /\ t.weight = pick.weight /\ t.vars = s.vars /\ t.steps = s.steps
    BY <2>3 DEF ScenarioEntry
  <2>. HIDE DEF t
  <2>6. ScenarioEntry(t)
    BY <2>3, <2>5 DEF ScenarioEntry
  <2>. QED BY <2>4, <2>6
<1>2. CASE defined = {}
  <2>1. Selected(c, pick) = [name |-> pick.name, weight |-> pick.weight, vars |-> <<>>, steps |-> <<>>]
    BY <1>2 DEF Selected
  <2>2. IsMap(<<>>, Variables, STRING)
    BY DEF IsMap
  <2>3. <<>> \in Seq(Range(<<>>)) /\ DOMAIN <<>> = {}
    OBVIOUS
  <2>. QED BY <2>1, <2>2, <2>3 DEF ScenarioEntry
<1>. QED BY <1>1, <1>2

LEMMA ApplyTyped ==
    ASSUME NEW c, Config(c), NEW flags \in PlanFlags
    PROVE  Config(Apply(c, flags))
<1>1. LoadConfig(c.load) /\ DOMAIN c = {"name", "baseURL", "workers", "betweenRequests", "load",
                                       "http", "thresholds", "scenarios"}
  BY DEF Config
<1>. DEFINE l == c.load
            vus == Overridden(l.vus, flags.vus)
            duration == Overridden(l.duration, flags.duration)
            iterations == Overridden(l.iterations, flags.iterations)
            rate == Overridden(l.rate, flags.rate)
            stages == IF flags.stages # <<>> THEN flags.stages ELSE l.stages
            pause == IF flags.betweenRequests # Unset THEN flags.betweenRequests
                     ELSE c.betweenRequests
            scenarios == IF flags.scenarios = <<>> THEN c.scenarios
                         ELSE [i \in DOMAIN flags.scenarios |-> Selected(c, flags.scenarios[i])]
            a == Apply(c, flags)
            load == a.load
<1>2. LoadConfig(load)
  <2>1. vus \in Int /\ duration \in Int /\ iterations \in Int /\ rate \in Int
    BY <1>1 DEF LoadConfig, PlanFlags, Overridden
  <2>2. stages \in Seq(StageConfig)
    BY <1>1 DEF LoadConfig, PlanFlags
  <2>a. load = ApplyLoad(l, flags)
    BY <1>1 DEF Apply
  <2>. HIDE DEF load
  <2>3. DOMAIN load = DOMAIN l
    BY <1>1, <2>a DEF ApplyLoad, LoadConfig
  <2>4. load.vus = vus
    BY <1>1, <2>a DEF ApplyLoad, LoadConfig
  <2>5. load.duration = duration
    BY <1>1, <2>a DEF ApplyLoad, LoadConfig
  <2>6. load.iterations = iterations
    BY <1>1, <2>a DEF ApplyLoad, LoadConfig
  <2>7. load.stages = stages
    BY <1>1, <2>a DEF ApplyLoad, LoadConfig
  <2>8. load.rate = rate
    BY <1>1, <2>a DEF ApplyLoad, LoadConfig
  <2>. HIDE DEF load, vus, duration, iterations, rate, stages
  <2>. QED BY <1>1, <2>1, <2>2, <2>3, <2>4, <2>5, <2>6, <2>7, <2>8 DEF LoadConfig
<1>3. pause \in DurationText
  BY DEF Config, PlanFlags
<1>4. scenarios \in Seq(Range(scenarios)) /\ \A i \in DOMAIN scenarios : ScenarioEntry(scenarios[i])
  <2>1. CASE flags.scenarios = <<>>
    BY <2>1 DEF Config
  <2>2. CASE flags.scenarios # <<>>
    <3>. DEFINE q == flags.scenarios
                f == [i \in DOMAIN q |-> Selected(c, q[i])]
    <3>1. scenarios = f
      BY <2>2
    <3>2. q \in Seq([name : STRING, weight : Int])
      BY DEF PlanFlags
    <3>3. ASSUME NEW i \in DOMAIN q PROVE ScenarioEntry(f[i])
      <4>1. q[i] \in [name : STRING, weight : Int]
        <5>. DEFINE P == [name : STRING, weight : Int]
        <5>1. q \in Seq(P)
          BY <3>2
        <5>. HIDE DEF P, q
        <5>2. q[i] \in P
          BY <5>1, <3>3
        <5>. QED BY <5>2 DEF P
      <4>2. ScenarioEntry(Selected(c, q[i]))
        BY <4>1, SelectedTyped
      <4>. QED BY <4>2
    <3>4. q \in Seq(Range(q))
      BY <3>2 DEF Range
    <3>5. f = [i \in DOMAIN q |-> f[i]]
      OBVIOUS
    <3>. HIDE DEF q, f
    <3>6. f \in Seq(Range(f)) /\ DOMAIN f = DOMAIN q
      BY <3>4, <3>5, MappedList
    <3>. QED BY <3>1, <3>3, <3>6
  <2>. QED BY <2>1, <2>2
<1>5. DOMAIN a = DOMAIN c /\ a.betweenRequests = pause /\ a.scenarios = scenarios
  <2>1. DOMAIN a = DOMAIN c
    BY <1>1 DEF Apply
  <2>3. a.betweenRequests = pause
    BY <1>1 DEF Apply
  <2>4. a.scenarios = scenarios
    BY <1>1 DEF Apply
  <2>. QED BY <2>1, <2>3, <2>4
<1>7. a.baseURL \in {"none", "absolute", "relative"} /\ a.workers \in Int
  <2>1. /\ c.baseURL \in {"none", "absolute", "relative"} /\ c.workers \in Int
        /\ flags.url \in {"none", "absolute", "relative"} /\ flags.workers \in Int
    BY DEF Config, PlanFlags
  <2>2. a.baseURL = IF flags.url # "none" THEN flags.url ELSE c.baseURL
    BY <1>1 DEF Apply
  <2>3. a.workers = Overridden(c.workers, flags.workers)
    BY <1>1 DEF Apply
  <2>. QED BY <2>1, <2>2, <2>3 DEF Overridden
<1>8. a.http \in HTTPConfig
  <2>1. c.http \in HTTPConfig /\ flags.timeout \in Int
    BY DEF Config, PlanFlags
  <2>2. a.http = ApplyHTTP(c.http, flags)
    BY <1>1 DEF Apply
  <2>. QED BY <2>1, <2>2 DEF ApplyHTTP, HTTPConfig, Overridden
<1>9. a.thresholds \in Seq(Threshold)
  <2>1. c.thresholds \in Seq(Threshold) /\ flags.thresholds \in Seq(Threshold)
    BY DEF Config, PlanFlags
  <2>2. a.thresholds = c.thresholds \o flags.thresholds
    BY <1>1 DEF Apply
  <2>. QED BY <2>1, <2>2
<1>. HIDE DEF a, load, pause, scenarios
<1>6. Config(a)
  <2>1. LoadConfig(a.load)
    BY <1>2 DEF load
  <2>. QED BY <1>1, <2>1, <1>3, <1>4, <1>5, <1>7, <1>8, <1>9 DEF Config
<1>. QED BY <1>6 DEF a

LEMMA OverlaidTyped ==
    ASSUME NEW file \in Files, NEW flags \in FlagSets
    PROVE  Config(Overlaid(file, flags))
<1>1. Config(file) /\ flags \in PlanFlags
  BY InputsAssumption
<1>2. CASE file = NoFile
  BY <1>1, <1>2, ApplyTyped DEF Overlaid
<1>3. CASE file # NoFile
  BY <1>1, <1>3, ValidatedTyped, ApplyTyped DEF Overlaid
<1>. QED BY <1>2, <1>3

(***************************************************************************)
(* The wire changes nothing of a step that its validation or its           *)
(* compilation looks at.                                                   *)
(***************************************************************************)
LEMMA WireStepSame ==
    ASSUME NEW s, StepConfig(s)
    PROVE  /\ StepConfig(WireStep(s)) /\ Bodies(WireStep(s)) = Bodies(s)
           /\ DOMAIN WireStep(s) = DOMAIN s
           /\ \A k \in DOMAIN s \ {"body"} : WireStep(s)[k] = s[k]
<1>. DEFINE b == [s.body EXCEPT !["form"] = IF @ = "nil" THEN "empty" ELSE @]
            w == WireStep(s)
<1>1. /\ s.body \in [{"json", "form", "body"} -> {"nil", "empty", "set"}]
      /\ DOMAIN s = {"think", "method", "url", "short", "templates", "body", "expect", "capture",
                     "timeout", "betweenRequests"}
  BY DEF StepConfig
<1>2. b \in [{"json", "form", "body"} -> {"nil", "empty", "set"}]
  BY <1>1
<1>3. \A k \in DOMAIN s.body : /\ b[k] = "set" <=> s.body[k] = "set"
                               /\ k = "json" => b[k] = s.body[k]
  BY <1>1
<1>4. DOMAIN w = DOMAIN s /\ w.body = b /\ \A k \in DOMAIN s \ {"body"} : w[k] = s[k]
  BY <1>1 DEF WireStep
<1>. HIDE DEF b, w
<1>5. /\ w.think = s.think /\ w.method = s.method /\ w.url = s.url /\ w.short = s.short
      /\ w.templates = s.templates /\ w.expect = s.expect /\ w.capture = s.capture
      /\ w.timeout = s.timeout /\ w.betweenRequests = s.betweenRequests
  BY <1>1, <1>4
<1>6. StepConfig(w)
  BY <1>2, <1>4, <1>5 DEF StepConfig
<1>7. Bodies(w) = Bodies(s)
  BY <1>1, <1>2, <1>3, <1>4 DEF Bodies
<1>. QED BY <1>4, <1>6, <1>7 DEF w

LEMMA WireScenarioSame ==
    ASSUME NEW s, ScenarioEntry(s)
    PROVE  /\ ScenarioEntry(WireScenario(s))
           /\ WireScenario(s).name = s.name /\ WireScenario(s).weight = s.weight
           /\ DOMAIN WireScenario(s).steps = DOMAIN s.steps
           /\ WireScenario(s).steps = <<>> <=> s.steps = <<>>
           /\ \A j \in DOMAIN s.steps : WireScenario(s).steps[j] = WireStep(s.steps[j])
<1>. DEFINE w == WireScenario(s)
            q == s.steps
            f == [j \in DOMAIN q |-> WireStep(q[j])]
<1>1. /\ DOMAIN s = {"name", "weight", "vars", "steps"} /\ q \in Seq(Range(q))
      /\ \A j \in DOMAIN q : StepConfig(q[j])
  BY DEF ScenarioEntry
<1>2. DOMAIN w = DOMAIN s /\ w.name = s.name /\ w.weight = s.weight /\ w.vars = s.vars /\ w.steps = f
  BY <1>1 DEF WireScenario
<1>3. f = [j \in DOMAIN q |-> f[j]] /\ \A j \in DOMAIN q : f[j] = WireStep(q[j])
  OBVIOUS
<1>. HIDE DEF f, w
<1>4. f \in Seq(Range(f)) /\ DOMAIN f = DOMAIN q /\ Len(f) = Len(q)
  BY <1>1, <1>3, MappedList
<1>5. \A j \in DOMAIN f : StepConfig(f[j])
  BY <1>1, <1>3, <1>4, WireStepSame
<1>6. f = <<>> <=> q = <<>>
  BY <1>1, <1>4
<1>7. ScenarioEntry(w)
  BY <1>2, <1>4, <1>5 DEF ScenarioEntry
<1>. QED BY <1>2, <1>3, <1>4, <1>6, <1>7 DEF w

LEMMA WireSame ==
    ASSUME NEW c, Config(c)
    PROVE  /\ Config(Wire(c)) /\ DOMAIN Wire(c).scenarios = DOMAIN c.scenarios
           /\ Wire(c).scenarios = <<>> <=> c.scenarios = <<>>
           /\ \A i \in DOMAIN c.scenarios : Wire(c).scenarios[i] = WireScenario(c.scenarios[i])
           /\ Wire(c).load = c.load /\ Wire(c).baseURL = c.baseURL /\ Wire(c).http = c.http
           /\ Wire(c).betweenRequests = c.betweenRequests /\ Wire(c).thresholds = c.thresholds
<1>. DEFINE w == Wire(c)
            q == c.scenarios
            f == [j \in DOMAIN q |-> WireScenario(q[j])]
<1>1. /\ DOMAIN c = {"name", "baseURL", "workers", "betweenRequests", "load", "http",
                     "thresholds", "scenarios"}
      /\ q \in Seq(Range(q)) /\ \A j \in DOMAIN q : ScenarioEntry(q[j])
  BY DEF Config
<1>2. /\ DOMAIN w = DOMAIN c /\ w.load = c.load /\ w.baseURL = c.baseURL /\ w.http = c.http
      /\ w.betweenRequests = c.betweenRequests /\ w.thresholds = c.thresholds /\ w.scenarios = f
      /\ w.workers = c.workers
  BY <1>1 DEF Wire
<1>3. f = [j \in DOMAIN q |-> f[j]] /\ \A j \in DOMAIN q : f[j] = WireScenario(q[j])
  OBVIOUS
<1>. HIDE DEF f, w
<1>4. f \in Seq(Range(f)) /\ DOMAIN f = DOMAIN q /\ Len(f) = Len(q)
  BY <1>1, <1>3, MappedList
<1>5. \A j \in DOMAIN f : ScenarioEntry(f[j])
  BY <1>1, <1>3, <1>4, WireScenarioSame
<1>6. f = <<>> <=> q = <<>>
  BY <1>1, <1>4
<1>7. Config(w)
  BY <1>2, <1>4, <1>5 DEF Config
<1>. QED BY <1>2, <1>3, <1>4, <1>6, <1>7 DEF w

LEMMA WireStepAccepted ==
    ASSUME NEW s, StepConfig(s)
    PROVE  /\ StepAccepted(WireStep(s)) <=> StepAccepted(s)
           /\ Compiles(WireStep(s)) <=> Compiles(s)
<1>. DEFINE w == WireStep(s)
<1>1. Bodies(w) = Bodies(s) /\ \A k \in DOMAIN s \ {"body"} : w[k] = s[k]
  BY WireStepSame
<1>. HIDE DEF w
<1>2. /\ w.think = s.think /\ w.method = s.method /\ w.url = s.url /\ w.short = s.short
      /\ w.templates = s.templates /\ w.capture = s.capture /\ w.betweenRequests = s.betweenRequests
  BY <1>1 DEF StepConfig
<1>3. Method(w) = Method(s)
  BY <1>2 DEF Method
<1>4. Target(w) = Target(s)
  BY <1>2, <1>3 DEF Target
<1>5. Resolves(w) <=> Resolves(s)
  BY <1>2 DEF Resolves
<1>6. StepAccepted(w) <=> StepAccepted(s)
  BY <1>1, <1>2, <1>4, <1>5 DEF StepAccepted
<1>7. Compiles(w) <=> Compiles(s)
  BY <1>2, <1>4 DEF Compiles
<1>. QED BY <1>6, <1>7 DEF w

(***************************************************************************)
(* The defaults are filled in once.                                        *)
(***************************************************************************)
LEMMA DefaultsOnce ==
    ASSUME NEW l, LoadConfig(l)
    PROVE  /\ LoadDefaults(l).duration = l.duration
           /\ LoadAccepted(LoadDefaults(l)) =>
                /\ LoadAccepted(LoadDefaults(LoadDefaults(l)))
                /\ l.duration >= 0 => ProfileAccepted(LoadDefaults(l))
<1>. DEFINE d == LoadDefaults(l)
            e == LoadDefaults(d)
<1>1. /\ DOMAIN l = {"executor", "vus", "duration", "stages", "rate", "iterations"}
      /\ l.vus \in Int /\ l.duration \in Int /\ l.stages \in Seq(StageConfig)
  BY DEF LoadConfig
<1>2. /\ DOMAIN d = DOMAIN l /\ d.duration = l.duration /\ d.stages = l.stages
      /\ d.rate = l.rate /\ d.iterations = l.iterations
      /\ d.executor = (IF l.executor = "" THEN "constant-vus" ELSE l.executor)
      /\ d.vus = (IF d.executor = "constant-vus" /\ l.vus <= 0 THEN 1 ELSE l.vus)
  BY <1>1 DEF LoadDefaults
<1>. HIDE DEF d
<1>3. /\ e.duration = d.duration /\ e.stages = d.stages /\ e.rate = d.rate
      /\ e.iterations = d.iterations
      /\ e.executor = (IF d.executor = "" THEN "constant-vus" ELSE d.executor)
  BY <1>1, <1>2 DEF LoadDefaults
<1>4. e.executor = d.executor
  BY <1>2, <1>3
<1>. HIDE DEF e
<1>5. ASSUME LoadAccepted(d) PROVE LoadAccepted(e)
  BY <1>3, <1>4, <1>5 DEF LoadAccepted
<1>6. ASSUME LoadAccepted(d), l.duration >= 0 PROVE ProfileAccepted(d)
  <2>1. CASE d.executor = "constant-vus"
    <3>1. d.vus \in Int /\ d.vus > 0
      <4>1. d.vus = IF l.vus <= 0 THEN 1 ELSE l.vus
        BY <1>2, <2>1
      <4>. QED BY <1>1, <4>1
    <3>2. d.duration > 0 \/ d.iterations > 0
      BY <1>6, <2>1 DEF LoadAccepted
    <3>. QED BY <1>2, <1>6, <2>1, <3>1, <3>2 DEF ProfileAccepted, ConstantAccepted
  <2>2. CASE d.executor = "ramping-vus"
    <3>1. /\ \A i \in DOMAIN d.stages : d.stages[i].duration > 0
          /\ \E i \in DOMAIN d.stages : d.stages[i].target > 0
      BY <1>6, <2>2 DEF LoadAccepted
    <3>2. d.stages # <<>>
      BY <3>1
    <3>3. RampingAccepted(d)
      BY <3>1, <3>2 DEF RampingAccepted
    <3>. QED BY <2>2, <3>3 DEF ProfileAccepted
  <2>. QED BY <1>6, <2>1, <2>2 DEF LoadAccepted
<1>. QED BY <1>2, <1>5, <1>6 DEF d, e

LEMMA WireAccepted ==
    ASSUME NEW c, Config(c), Validates(c), Builds(Validated(c))
    PROVE  /\ Validates(Wire(Validated(c))) /\ Builds(Validated(Wire(Validated(c))))
<1>. DEFINE v == Validated(c)
            w == Wire(v)
            x == Validated(w)
<1>1. /\ Config(v) /\ v.load = LoadDefaults(c.load) /\ v.scenarios = c.scenarios
      /\ v.betweenRequests = c.betweenRequests /\ v.thresholds = c.thresholds
      /\ LoadConfig(c.load) /\ \A i \in DOMAIN c.scenarios : ScenarioEntry(c.scenarios[i])
  BY ValidatedTyped DEF Config
<1>. HIDE DEF v
<1>2. /\ Config(w) /\ DOMAIN w.scenarios = DOMAIN c.scenarios
      /\ \A i \in DOMAIN c.scenarios : w.scenarios[i] = WireScenario(c.scenarios[i])
      /\ w.load = LoadDefaults(c.load)
      /\ w.betweenRequests = c.betweenRequests /\ w.thresholds = c.thresholds
  BY <1>1, WireSame
<1>. HIDE DEF w
<1>3. x.scenarios = w.scenarios
  BY <1>2, ValidatedTyped, ZenonT(40) DEF Config
<1>. HIDE DEF x
<1>4. ASSUME NEW i \in DOMAIN c.scenarios
      PROVE  /\ ScenarioAccepted(c.scenarios[i]) => ScenarioAccepted(w.scenarios[i])
             /\ w.scenarios[i].name = c.scenarios[i].name
             /\ w.scenarios[i].steps = <<>> <=> c.scenarios[i].steps = <<>>
             /\ DOMAIN w.scenarios[i].steps = DOMAIN c.scenarios[i].steps
             /\ \A j \in DOMAIN c.scenarios[i].steps :
                  Compiles(w.scenarios[i].steps[j]) <=> Compiles(c.scenarios[i].steps[j])
  <2>. DEFINE s == c.scenarios[i]
              t == w.scenarios[i]
  <2>1. /\ t.name = s.name /\ t.weight = s.weight /\ DOMAIN t.steps = DOMAIN s.steps
        /\ t.steps = <<>> <=> s.steps = <<>>
        /\ \A j \in DOMAIN s.steps : t.steps[j] = WireStep(s.steps[j])
        /\ \A j \in DOMAIN s.steps : StepConfig(s.steps[j])
    <3>1. ScenarioEntry(s) /\ t = WireScenario(s)
      BY <1>1, <1>2, <1>4
    <3>. HIDE DEF s, t
    <3>. QED BY <3>1, WireScenarioSame DEF ScenarioEntry
  <2>. HIDE DEF s, t
  <2>2. \A j \in DOMAIN s.steps : /\ StepAccepted(t.steps[j]) <=> StepAccepted(s.steps[j])
                                  /\ Compiles(t.steps[j]) <=> Compiles(s.steps[j])
    BY <2>1, WireStepAccepted
  <2>3. ScenarioAccepted(s) => ScenarioAccepted(t)
    BY <2>1, <2>2 DEF ScenarioAccepted
  <2>. QED BY <2>1, <2>2, <2>3 DEF s, t
<1>5. Validates(w)
  <2>1. LoadAccepted(LoadDefaults(w.load))
    BY <1>1, <1>2, DefaultsOnce DEF Validates
  <2>2. \A i \in DOMAIN w.scenarios : ScenarioAccepted(w.scenarios[i])
    BY <1>2, <1>4 DEF Validates
  <2>3. \A i, j \in DOMAIN w.scenarios : w.scenarios[i].name = w.scenarios[j].name => i = j
    BY <1>2, <1>4 DEF Validates
  <2>4. w.betweenRequests # Unset => PauseParses(w.betweenRequests)
    BY <1>2 DEF Validates
  <2>5. \A i \in DOMAIN w.thresholds :
           /\ w.thresholds[i].stat \in Stats /\ w.thresholds[i].op \in Ops
           /\ w.thresholds[i].metric # ""
    BY <1>2 DEF Validates
  <2>. QED BY <2>1, <2>2, <2>3, <2>4, <2>5 DEF Validates
<1>6. Builds(x)
  <2>. SUFFICES ASSUME NEW i \in DOMAIN c.scenarios
                PROVE  LET s == w.scenarios[i]
                       IN  IF s.steps = <<>> THEN s.name \in Compiled
                           ELSE /\ s.name \notin Compiled \cup Unregistrable
                                /\ \A j \in DOMAIN s.steps : Compiles(s.steps[j])
    BY <1>2, <1>3 DEF Builds
  <2>1. IF c.scenarios[i].steps = <<>> THEN c.scenarios[i].name \in Compiled
        ELSE /\ c.scenarios[i].name \notin Compiled \cup Unregistrable
             /\ \A j \in DOMAIN c.scenarios[i].steps : Compiles(c.scenarios[i].steps[j])
    BY <1>1 DEF Builds, v
  <2>. QED BY <1>4, <2>1
<1>. QED BY <1>5, <1>6 DEF v, w, x

(***************************************************************************)
(* What the command line accepts, a worker builds, whatever the file and   *)
(* the flags: but for a relative base URL, a proxy that does not parse and *)
(* a negative duration.                                                    *)
(***************************************************************************)
LEMMA AcceptedIsBuilt ==
    ASSUME NEW file \in Files, NEW flags \in FlagSets, CommandAccepts(file, flags),
           Loaded(file, flags).baseURL # "relative",
           Loaded(file, flags).http.proxy # "unparsable",
           Loaded(file, flags).load.duration >= 0
    PROVE  WorkerBuilds(Plan(Loaded(file, flags)))
<1>. DEFINE c == Overlaid(file, flags)
            v == Validated(c)
            w == Wire(v)
            p == Plan(v)
<1>1. Config(c)
  BY OverlaidTyped
<1>2. /\ Validates(c) /\ Builds(v) /\ v.baseURL # "relative" /\ v.load.duration >= 0
      /\ v.http.proxy # "unparsable"
  BY DEF CommandAccepts, Loads, Loaded, VerifyScenarios
<1>. HIDE DEF c
<1>3. /\ Config(v) /\ v.load = LoadDefaults(c.load) /\ LoadConfig(c.load)
      /\ LoadAccepted(LoadDefaults(c.load))
  BY <1>1, <1>2, ValidatedTyped DEF Config, Validates
<1>4. Validates(w) /\ Builds(Validated(w))
  BY <1>1, <1>2, WireAccepted
<1>. HIDE DEF v
<1>5. Config(w) /\ w.baseURL = v.baseURL /\ w.http = v.http
  BY <1>3, WireSame
<1>. HIDE DEF w
<1>6. Validated(w).baseURL = v.baseURL /\ Validated(w).http = v.http
  BY <1>5, ValidatedTyped DEF Config
<1>7. p.configYaml = w /\ p.load = v.load
  BY DEF Plan, w
<1>8. ProfileAccepted(v.load)
  BY <1>2, <1>3, DefaultsOnce
<1>9. FactoryAccepts(HTTPOptions(Validated(w)))
  <2>1. /\ HTTPOptions(Validated(w)).base = Validated(w).baseURL
        /\ HTTPOptions(Validated(w)).proxy = Validated(w).http.proxy
    BY DEF HTTPOptions
  <2>. QED BY <1>2, <1>3, <1>6, <2>1 DEF FactoryAccepts, Config
<1>. HIDE DEF p
<1>10. WorkerBuilds(p)
  BY <1>4, <1>7, <1>8, <1>9 DEF WorkerBuilds, FromPlan
<1>. QED BY <1>10 DEF p, v, c, Loaded

PlanInv ==
    /\ plan = NoPlan \/ \E file \in Files, flags \in FlagSets :
                            CommandAccepts(file, flags) /\ plan = Plan(Loaded(file, flags))
    /\ PlanSurvivesTheWire

LEMMA StepKeepsPlan ==
    ASSUME PlanInv, [Next]_allVars
    PROVE  PlanInv'
<1>u. ASSUME UNCHANGED <<plan, state>> PROVE PlanInv'
  BY <1>u DEF PlanInv, PlanSurvivesTheWire
<1>1. ASSUME NEW file \in Files, NEW flags \in FlagSets, Submit(file, flags) PROVE PlanInv'
  <2>1. state' # "failed"
    BY <1>1 DEF Submit
  <2>2. plan' = plan \/ (CommandAccepts(file, flags) /\ plan' = Plan(Loaded(file, flags)))
    BY <1>1 DEF Submit
  <2>. QED BY <2>1, <2>2 DEF PlanInv, PlanSurvivesTheWire
<1>2. CASE Build
  <2>1. plan' = plan /\ plan # NoPlan
    BY <1>2 DEF Build
  <2>2. CASE state' # "failed"
    BY <2>1, <2>2 DEF PlanInv, PlanSurvivesTheWire
  <2>3. CASE state' = "failed"
    <3>1. ~WorkerBuilds(plan)
      BY <1>2, <2>3 DEF Build
    <3>2. PICK file \in Files, flags \in FlagSets :
             CommandAccepts(file, flags) /\ plan = Plan(Loaded(file, flags))
      BY <2>1 DEF PlanInv
    <3>. DEFINE v == Loaded(file, flags)
    <3>3. v.baseURL = "relative" \/ v.http.proxy = "unparsable" \/ ~(v.load.duration >= 0)
      BY <3>1, <3>2, AcceptedIsBuilt
    <3>4. Config(v) /\ plan.configYaml = Wire(v) /\ plan.load = v.load
      BY <3>2, OverlaidTyped, ValidatedTyped DEF Plan, Loaded
    <3>. HIDE DEF v
    <3>5. /\ plan.configYaml.baseURL = v.baseURL /\ v.load.duration \in Int
          /\ plan.configYaml.http = v.http
      BY <3>4, WireSame DEF Config, LoadConfig
    <3>6. \/ plan.configYaml.baseURL = "relative" \/ plan.load.duration < 0
          \/ plan.configYaml.http.proxy = "unparsable"
      BY <3>3, <3>4, <3>5
    <3>. QED BY <2>1, <3>6 DEF PlanInv, PlanSurvivesTheWire
  <2>. QED BY <2>2, <2>3
<1>3. CASE UNCHANGED allVars
  BY <1>3, <1>u DEF allVars, fixedVars
<1>4. CASE VUStep \/ Cancel \/ Advance
  BY <1>4, <1>u DEF VUStep, BeginIteration, ThinkStep, RefuseRequest, SendRequest, TimedOut,
        Interrupted, BrokenOff, Exchanged, ThinkOver, PauseOver, Answered, EndIteration, Cancel, Advance, fixedVars
<1>5. ASSUME NEW reply \in Replies, Reply(reply) PROVE PlanInv'
  BY <1>5, <1>u DEF Reply, Exchanged, fixedVars
<1>6. ASSUME NEW err \in NetErrors, NetFailure(err) PROVE PlanInv'
  BY <1>6, <1>u DEF NetFailure, BrokenOff, Exchanged, fixedVars
<1>. QED BY <1>1, <1>2, <1>3, <1>4, <1>5, <1>6 DEF Next

(***************************************************************************)
(* A plan that the command line has accepted is built by every worker,     *)
(* whatever the configuration and the flags, unless its base URL is        *)
(* relative, its proxy URL does not parse or its duration is negative:     *)
(* validating, filling in defaults, overriding by flags and the way        *)
(* through YAML keep what is accepted acceptable.                          *)
(***************************************************************************)
THEOREM AcceptedPlansAreBuilt == Spec => []PlanSurvivesTheWire
<1>1. Init => PlanInv
  BY DEF Init, PlanInv, PlanSurvivesTheWire
<1>2. PlanInv /\ [Next]_allVars => PlanInv'
  BY StepKeepsPlan
<1>3. PlanInv => PlanSurvivesTheWire
  BY DEF PlanInv
<1>. QED BY <1>1, <1>2, <1>3, PTL DEF Spec
-----------------------------------------------------------------------------
(***************************************************************************)
(* The scenario a virtual user runs, and where in it the user is.          *)
(***************************************************************************)
Ready(step) ==
    /\ step.url \in Seq(Range(step.url))
    /\ step.pace.min \in Int /\ step.pace.max \in Int

BuiltInv ==
    /\ pc \in Places
    /\ pc # "idle" => state = "built" /\ scenario # NoScenario /\ at \in DOMAIN scenario.steps
    /\ state = "built" => opts.pause.min \in Int /\ opts.pause.max \in Int
    /\ state = "built" /\ scenario # NoScenario =>
          /\ scenario.steps \in Seq(Range(scenario.steps)) /\ scenario.steps # <<>>
          /\ \A j \in DOMAIN scenario.steps : Ready(scenario.steps[j])

LEMMA CompiledReady ==
    ASSUME NEW s, StepConfig(s)
    PROVE  Ready(CompileStep(s))
<1>. DEFINE t == CompileStep(s)
<1>1. t.url = Target(s) /\ t.pace = IF s.betweenRequests = Unset THEN NoPause ELSE ParsePause(s.betweenRequests)
  BY DEF CompileStep
<1>. HIDE DEF t
<1>2. Target(s) \in Seq(STRING)
  <2>1. CASE DOMAIN s.short = {}
    BY <2>1 DEF Target, StepConfig, Template
  <2>2. CASE DOMAIN s.short # {}
    <3>1. Method(s) \in DOMAIN s.short
      BY <2>2 DEF Method
    <3>2. s.short \in [DOMAIN s.short -> Template]
      BY DEF StepConfig, IsMap
    <3>3. s.short[Method(s)] \in Template
      BY <3>1, <3>2
    <3>. QED BY <2>2, <3>3 DEF Target, Template
  <2>. QED BY <2>1, <2>2
<1>3. t.url \in Seq(Range(t.url))
  BY <1>1, <1>2 DEF Range
<1>4. t.pace.min \in Int /\ t.pace.max \in Int
  <2>1. s.betweenRequests.lo \in Int /\ s.betweenRequests.hi \in Int
    BY DEF StepConfig, DurationText
  <2>2. NoPause.min \in Int /\ NoPause.max \in Int
    BY DEF NoPause
  <2>3. /\ ParsePause(s.betweenRequests).min \in Int
        /\ ParsePause(s.betweenRequests).max \in Int
    BY <2>1 DEF ParsePause
  <2>. QED BY <1>1, <2>2, <2>3
<1>. QED BY <1>3, <1>4 DEF Ready, t

LEMMA BuiltReady ==
    ASSUME NEW c, Config(c), NEW s \in BuildScenarios(c)
    PROVE  /\ s.steps \in Seq(Range(s.steps)) /\ s.steps # <<>>
           /\ \A j \in DOMAIN s.steps : Ready(s.steps[j])
<1>1. CASE s = SmokeTest
  <2>. DEFINE u == [isThink |-> FALSE, think |-> ParsePause(Unset), method |-> "GET",
                    url |-> <<"/">>, bodies |-> {}, expect |-> {200}, capture |-> <<>>,
                    timeout |-> 0, pace |-> NoPause]
  <2>1. s.steps = <<u>>
    BY <1>1 DEF SmokeTest
  <2>2. Ready(u)
    <3>1. u.url = <<"/">> /\ u.pace = NoPause
      OBVIOUS
    <3>2. <<"/">> \in Seq(Range(<<"/">>))
      BY DEF Range
    <3>3. NoPause.min \in Int /\ NoPause.max \in Int
      BY DEF NoPause
    <3>. HIDE DEF u
    <3>. QED BY <3>1, <3>2, <3>3 DEF Ready
  <2>. HIDE DEF u
  <2>3. <<u>> \in Seq(Range(<<u>>)) /\ <<u>> # <<>> /\ \A j \in DOMAIN <<u>> : <<u>>[j] = u
    BY DEF Range
  <2>. QED BY <2>1, <2>2, <2>3
<1>2. ASSUME NEW i \in DOMAIN c.scenarios, c.scenarios[i].steps # <<>>, s = Declarative(c.scenarios[i])
      PROVE  /\ s.steps \in Seq(Range(s.steps)) /\ s.steps # <<>>
             /\ \A j \in DOMAIN s.steps : Ready(s.steps[j])
  <2>. DEFINE e == c.scenarios[i]
              q == e.steps
              f == [j \in DOMAIN q |-> CompileStep(q[j])]
  <2>1. ScenarioEntry(e)
    BY <1>2 DEF Config
  <2>. HIDE DEF e
  <2>2. q \in Seq(Range(q)) /\ \A j \in DOMAIN q : StepConfig(q[j])
    BY <2>1 DEF ScenarioEntry
  <2>3. s.steps = f
    BY <1>2, <2>1 DEF Declarative, ScenarioEntry, e
  <2>4. f = [j \in DOMAIN q |-> f[j]] /\ \A j \in DOMAIN q : f[j] = CompileStep(q[j])
    OBVIOUS
  <2>. HIDE DEF f
  <2>5. f \in Seq(Range(f)) /\ DOMAIN f = DOMAIN q /\ Len(f) = Len(q)
    BY <2>2, <2>4, MappedList
  <2>6. f # <<>>
    BY <1>2, <2>2, <2>5 DEF e
  <2>7. \A j \in DOMAIN f : Ready(f[j])
    BY <2>2, <2>4, <2>5, CompiledReady
  <2>. QED BY <2>3, <2>5, <2>6, <2>7
<1>3. s = SmokeTest \/ \E i \in DOMAIN c.scenarios :
                          c.scenarios[i].steps # <<>> /\ s = Declarative(c.scenarios[i])
  BY DEF BuildScenarios
<1>. QED BY <1>1, <1>2, <1>3

LEMMA ProceedPlaces ==
    ASSUME BuiltInv, pc # "idle", NEW ok, Proceed(ok), UNCHANGED fixedVars
    PROVE  BuiltInv'
<1>1. /\ state = "built" /\ scenario # NoScenario /\ at \in DOMAIN scenario.steps
      /\ scenario.steps \in Seq(Range(scenario.steps))
  BY DEF BuiltInv
<1>2. at' \in DOMAIN scenario.steps
  <2>1. CASE at' = at
    BY <1>1, <2>1
  <2>2. CASE at' = at + 1 /\ at < Len(scenario.steps)
    BY <1>1, <2>2
  <2>. QED BY <2>1, <2>2 DEF Proceed
<1>3. pc' \in Places
  BY ProceedGoes DEF Places
<1>. QED BY <1>1, <1>2, <1>3 DEF BuiltInv, fixedVars

LEMMA StepKeepsBuilt ==
    ASSUME BuiltInv, PlanInv, [Next]_allVars
    PROVE  BuiltInv'
<1>. USE DEF fixedVars
<1>s. ASSUME UNCHANGED <<fixedVars, at>>, pc' \in Places, pc # "idle" PROVE BuiltInv'
  BY <1>s DEF BuiltInv
<1>u. ASSUME UNCHANGED <<fixedVars, at, pc>> PROVE BuiltInv'
  BY <1>u DEF BuiltInv
<1>1. ASSUME NEW file \in Files, NEW flags \in FlagSets, Submit(file, flags) PROVE BuiltInv'
  <2>1. state = "new" /\ state' # "built" /\ UNCHANGED pc
    BY <1>1 DEF Submit, vuVars
  <2>2. pc = "idle"
    BY <2>1 DEF BuiltInv
  <2>. QED BY <2>1, <2>2 DEF BuiltInv
<1>2. CASE Build
  <2>1. state = "new" /\ plan # NoPlan /\ UNCHANGED pc
    BY <1>2 DEF Build, vuVars
  <2>2. pc = "idle" /\ pc' = "idle"
    BY <2>1 DEF BuiltInv
  <2>3. CASE state' # "built"
    BY <2>2, <2>3 DEF BuiltInv, Places
  <2>4. CASE state' = "built"
    <3>. DEFINE c == FromPlan(plan)
    <3>1. Config(c)
      <4>1. PICK file \in Files, flags \in FlagSets : plan = Plan(Loaded(file, flags))
        BY <2>1 DEF PlanInv
      <4>2. Config(Loaded(file, flags))
        BY OverlaidTyped, ValidatedTyped DEF Loaded
      <4>3. plan.configYaml = Wire(Loaded(file, flags))
        BY <4>1 DEF Plan
      <4>. QED BY <4>2, <4>3, WireSame, ValidatedTyped DEF FromPlan
    <3>2. /\ scenario' \in BuildScenarios(c) \cup {NoScenario : k \in Compiled}
          /\ opts' = HTTPOptions(c)
      BY <1>2, <2>4 DEF Build
    <3>. HIDE DEF c
    <3>3. opts'.pause.min \in Int /\ opts'.pause.max \in Int
      <4>1. opts'.pause = BetweenRequestsPause(c)
        BY <3>2 DEF HTTPOptions
      <4>2. c.betweenRequests.lo \in Int /\ c.betweenRequests.hi \in Int
        BY <3>1 DEF Config, DurationText
      <4>3. /\ ParsePause(c.betweenRequests).min \in Int
            /\ ParsePause(c.betweenRequests).max \in Int
        BY <4>2 DEF ParsePause
      <4>4. ParsePause(Fixed(DefaultPause)).min \in Int /\ ParsePause(Fixed(DefaultPause)).max \in Int
        BY ConfigAssumption DEF ParsePause, Fixed
      <4>. QED BY <4>1, <4>3, <4>4 DEF BetweenRequestsPause
    <3>4. scenario' # NoScenario =>
            /\ scenario'.steps \in Seq(Range(scenario'.steps)) /\ scenario'.steps # <<>>
            /\ \A j \in DOMAIN scenario'.steps : Ready(scenario'.steps[j])
      BY <3>1, <3>2, BuiltReady
    <3>. QED BY <2>2, <2>4, <3>3, <3>4 DEF BuiltInv, Places
  <2>. QED BY <2>3, <2>4
<1>3. CASE UNCHANGED allVars
  BY <1>3, <1>u DEF allVars, vuVars
<1>4. CASE Cancel \/ Advance
  BY <1>4, <1>u DEF Cancel, Advance, vuVars
<1>5. CASE BeginIteration
  <2>1. /\ state = "built" /\ scenario # NoScenario /\ pc' = "step" /\ at' = 1
        /\ UNCHANGED fixedVars
    BY <1>5 DEF BeginIteration
  <2>2. scenario.steps \in Seq(Range(scenario.steps)) /\ scenario.steps # <<>>
    BY <2>1 DEF BuiltInv
  <2>3. 1 \in DOMAIN scenario.steps
    BY <2>2
  <2>. QED BY <2>1, <2>3 DEF BuiltInv, Places
<1>6. CASE ThinkStep
  <2>1. pc = "step" /\ UNCHANGED fixedVars
    BY <1>6 DEF ThinkStep
  <2>2. Proceed(TRUE) \/ (pc' = "think" /\ UNCHANGED at)
    BY <1>6 DEF ThinkStep
  <2>. QED BY <2>1, <2>2, <1>s, ProceedPlaces DEF Places
<1>7. CASE RefuseRequest
  BY <1>7, <1>s, PaceGoes DEF RefuseRequest, Places
<1>8. CASE SendRequest
  BY <1>8, <1>s DEF SendRequest, Places
<1>9. ASSUME NEW r, Exchanged(r) PROVE BuiltInv'
  BY <1>9, <1>s, PaceGoes DEF Exchanged, Places
<1>10. CASE ThinkOver
  BY <1>10, ProceedPlaces DEF ThinkOver
<1>11. CASE PauseOver
  BY <1>11, <1>s DEF PauseOver, Places
<1>12. CASE Answered
  <2>1. pc = "answered" /\ UNCHANGED fixedVars /\ \E ok \in BOOLEAN : Proceed(ok)
    <3>1. pc = "answered" /\ UNCHANGED fixedVars
      BY <1>12 DEF Answered
    <3>2. (Expected /\ Captured) \in BOOLEAN
      OBVIOUS
    <3>3. Proceed(FALSE) \/ Proceed(Expected /\ Captured)
      BY <1>12 DEF Answered
    <3>. QED BY <3>1, <3>2, <3>3
  <2>. QED BY <2>1, ProceedPlaces
<1>13. CASE EndIteration
  BY <1>13, <1>s DEF EndIteration, Places
<1>14. CASE VUStep
  BY <1>14, <1>5, <1>6, <1>7, <1>8, <1>9, <1>10, <1>11, <1>12, <1>13 DEF VUStep, TimedOut, Interrupted, BrokenOff
<1>. QED BY <1>1, <1>2, <1>3, <1>4, <1>9, <1>14 DEF Next, Reply, NetFailure, BrokenOff

LEMMA BuiltInvHolds == Spec => [](PlanInv /\ BuiltInv)
<1>1. Init => PlanInv /\ BuiltInv
  BY DEF Init, PlanInv, PlanSurvivesTheWire, BuiltInv, Places
<1>2. PlanInv /\ BuiltInv /\ [Next]_allVars => (PlanInv /\ BuiltInv)'
  BY StepKeepsPlan, StepKeepsBuilt
<1>. QED BY <1>1, <1>2, PTL DEF Spec
-----------------------------------------------------------------------------
(***************************************************************************)
(* Pacing.  No pause is drawn that is shorter than the least one owed.     *)
(***************************************************************************)
LEMMA LeastDraw ==
    ASSUME NEW p, p.min \in Int, p.max \in Int, NEW d \in Draws(p)
    PROVE  /\ d \in Int /\ Min(Draws(p)) \in Nat /\ Min(Draws(p)) <= d
           /\ IsZero(p) => Min(Draws(p)) = 0
<1>. DEFINE low == NonNegative(p.min)
<1>1. low \in Nat /\ (p.min <= 0 => low = 0)
  BY DEF NonNegative
<1>. HIDE DEF low
<1>2. CASE p.max <= p.min
  <2>1. Draws(p) = {low}
    BY <1>2 DEF Draws, low
  <2>2. Min({low}) = low
    BY <1>1 DEF Min
  <2>. QED BY <1>1, <2>1, <2>2 DEF IsZero
<1>3. CASE p.max > p.min
  <2>1. Draws(p) = low .. p.max - 1
    BY <1>3 DEF Draws, low
  <2>2. d \in Int /\ low <= d /\ d <= p.max - 1
    BY <1>1, <2>1
  <2>3. low \in Draws(p) /\ \A x \in Draws(p) : low <= x /\ x \in Int
    BY <1>1, <2>1, <2>2
  <2>4. Min(Draws(p)) = low
    <3>. DEFINE D == Draws(p)
                m == Min(D)
    <3>1. low \in D /\ \A x \in D : low <= x /\ x \in Int
      BY <2>3
    <3>. HIDE DEF D
    <3>2. m \in D /\ \A x \in D : m <= x
      BY <3>1 DEF Min
    <3>3. m <= low /\ low <= m /\ m \in Int /\ low \in Int
      BY <3>1, <3>2
    <3>. HIDE DEF m
    <3>4. m = low
      BY <3>3
    <3>. QED BY <3>4 DEF m, D
  <2>. QED BY <1>1, <2>2, <2>4 DEF IsZero
<1>. QED BY <1>2, <1>3

PaceInv ==
    /\ gap \in Nat /\ waited \in Nat /\ owed \in Nat /\ pc \in Places
    /\ pc \notin {"exchange", "pause"} => gap >= owed \/ cut
    /\ pc = "pause" => wait \in Int /\ gap >= waited /\ wait >= owed

LEMMA PauseTyped ==
    ASSUME BuiltInv, pc # "idle"
    PROVE  PauseOf(Step).min \in Int /\ PauseOf(Step).max \in Int
<1>1. state = "built" /\ Ready(Step)
  BY DEF BuiltInv, Step
<1>. QED BY <1>1 DEF BuiltInv, Ready, PauseOf

LEMMA PaceKeepsPace ==
    ASSUME BuiltInv, pc # "idle", Pace
    PROVE  PaceInv'
<1>. DEFINE p == PauseOf(Step)
<1>1. p.min \in Int /\ p.max \in Int
  BY PauseTyped
<1>2. PICK d \in Draws(p) : wait' = d /\ pc' = IF IsZero(p) \/ d <= 0 THEN "answered" ELSE "pause"
  BY DEF Pace
<1>3. waited' = 0 /\ gap' = 0 /\ owed' = Min(Draws(p))
  BY DEF Pace
<1>. HIDE DEF p
<1>4. d \in Int /\ owed' \in Nat /\ owed' <= d /\ (IsZero(p) => owed' = 0)
  BY <1>1, <1>3, LeastDraw
<1>5. CASE IsZero(p) \/ d <= 0
  <2>1. pc' = "answered" /\ owed' = 0
    BY <1>2, <1>4, <1>5
  <2>. QED BY <1>3, <2>1 DEF PaceInv, Places
<1>6. CASE ~(IsZero(p) \/ d <= 0)
  <2>1. pc' = "pause"
    BY <1>2, <1>6
  <2>. QED BY <1>2, <1>3, <1>4, <2>1 DEF PaceInv, Places
<1>. QED BY <1>5, <1>6

LEMMA StepKeepsPace ==
    ASSUME PaceInv, BuiltInv, [Next]_allVars
    PROVE  PaceInv'
<1>. USE DEF fixedVars, timeVars, vuVars
<1>0. /\ gap \in Nat /\ waited \in Nat /\ owed \in Nat /\ pc \in Places
      /\ pc \notin {"exchange", "pause"} => gap >= owed \/ cut
      /\ pc = "pause" => wait \in Int /\ gap >= waited /\ wait >= owed
  BY DEF PaceInv
<1>u. ASSUME UNCHANGED <<gap, waited, owed, pc, cut, wait>> PROVE PaceInv'
  BY <1>u DEF PaceInv
<1>s. ASSUME UNCHANGED <<gap, owed, cut>>, pc \notin {"exchange", "pause"}, pc' \in Places,
             pc' # "pause", waited' \in Nat
      PROVE  PaceInv'
  BY <1>s, <1>0 DEF PaceInv
<1>1. ASSUME NEW file \in Files, NEW flags \in FlagSets, Submit(file, flags) PROVE PaceInv'
  BY <1>1, <1>u DEF Submit
<1>2. CASE Build \/ Cancel
  BY <1>2, <1>u DEF Build, Cancel
<1>3. CASE UNCHANGED allVars
  BY <1>3, <1>u DEF allVars
<1>4. CASE Advance
  <2>1. /\ gap' = gap + 1 /\ waited' \in {waited, waited + 1} /\ UNCHANGED <<pc, owed, cut, wait>>
    BY <1>4 DEF Advance
  <2>2. Waiting
    BY <1>4 DEF Advance
  <2>. QED BY <1>0, <2>1, <2>2 DEF PaceInv, Waiting
<1>5. CASE BeginIteration
  BY <1>5, <1>0, <1>s DEF BeginIteration, Places
<1>6. CASE ThinkStep
  <2>1. pc = "step" /\ UNCHANGED <<gap, owed, cut>> /\ waited' \in {0, waited}
    BY <1>6 DEF ThinkStep
  <2>2. pc' \in {"step", "done", "erred", "think"}
    BY <1>6, ProceedGoes DEF ThinkStep
  <2>. QED BY <1>0, <1>s, <2>1, <2>2 DEF Places
<1>7. CASE RefuseRequest
  BY <1>7, PaceKeepsPace DEF RefuseRequest
<1>8. CASE SendRequest
  BY <1>8, <1>0, <1>s DEF SendRequest, Places
<1>9. ASSUME NEW r, Exchanged(r) PROVE PaceInv'
  BY <1>9, PaceKeepsPace DEF Exchanged
<1>10. CASE ThinkOver
  <2>1. pc = "think" /\ UNCHANGED <<gap, owed, cut>> /\ waited' = 0
    BY <1>10 DEF ThinkOver
  <2>2. pc' \in {"step", "done", "erred"}
    BY <1>10, ProceedGoes DEF ThinkOver
  <2>. QED BY <1>s, <2>1, <2>2 DEF Places
<1>11. CASE PauseOver
  <2>1. pc = "pause" /\ pc' = "answered" /\ UNCHANGED <<gap, owed>> /\ waited' = 0
    BY <1>11 DEF PauseOver
  <2>2. cut' = (waited < wait)
    BY <1>11 DEF PauseOver
  <2>3. gap >= owed \/ waited < wait
    BY <1>0, <2>1
  <2>. QED BY <1>0, <2>1, <2>2, <2>3 DEF PaceInv, Places
<1>12. CASE Answered
  <2>1. pc = "answered" /\ UNCHANGED <<gap, owed, cut, waited>>
    BY <1>12 DEF Answered
  <2>2. pc' \in {"step", "done", "erred"}
    BY <1>12, ProceedGoes DEF Answered
  <2>. QED BY <1>0, <1>s, <2>1, <2>2 DEF Places
<1>13. CASE EndIteration
  BY <1>13, <1>0, <1>s DEF EndIteration, Places
<1>14. CASE VUStep
  BY <1>14, <1>5, <1>6, <1>7, <1>8, <1>9, <1>10, <1>11, <1>12, <1>13 DEF VUStep, TimedOut, Interrupted, BrokenOff
<1>. QED BY <1>1, <1>2, <1>3, <1>4, <1>9, <1>14 DEF Next, Reply, NetFailure, BrokenOff

(***************************************************************************)
(* Whatever the configuration, no request starts before the pause due      *)
(* after the previous one is over, unless a context cut that pause short:  *)
(* HTTPClient.Do paces on every path.                                      *)
(***************************************************************************)
THEOREM RequestsArePaced == Spec => PacedUnlessCutShort
<1>1. Init => PaceInv
  BY DEF Init, PaceInv, Places
<1>2. PaceInv /\ BuiltInv /\ [Next]_allVars => PaceInv'
  BY StepKeepsPace
<1>3. PaceInv => (pc = "step" /\ pc' \in {"exchange", "pause", "answered"} => gap >= owed \/ cut)
  BY DEF PaceInv
<1>. QED BY <1>1, <1>2, <1>3, BuiltInvHolds, PTL DEF Spec, PacedUnlessCutShort
-----------------------------------------------------------------------------
(***************************************************************************)
(* Rendering.  Flattening a sequence of sequences over S is a sequence     *)
(* over S.  Induction over the numbers is stated with a set of good        *)
(* numbers in place of a predicate.                                        *)
(***************************************************************************)
LEMMA NumberInduction ==
    ASSUME NEW G, 0 \in G, \A k \in Nat : k \in G => k + 1 \in G
    PROVE  Nat \subseteq G
<1>. DEFINE Wrong == Nat \ G
<1>. SUFFICES ASSUME Wrong # {} PROVE FALSE
  OBVIOUS
<1>. DEFINE m == Min(Wrong)
<1>1. m \in Wrong /\ \A k \in Wrong : m <= k
  <2>1. Wrong \subseteq Nat
    OBVIOUS
  <2>. HIDE DEF Wrong
  <2>. QED BY <2>1, LeastIndex
<1>. HIDE DEF m
<1>2. m # 0 /\ m \in Nat
  BY <1>1
<1>3. m - 1 \in Nat /\ m - 1 \notin Wrong
  BY <1>1, <1>2
<1>4. (m - 1) + 1 \in G
  BY <1>3
<1>. QED BY <1>1, <1>2, <1>4

IsFlat(f, ss, k) ==
    f = [i \in 1 .. k |-> IF i = 1 THEN ss[i] ELSE f[i - 1] \o ss[i]]

LEMMA FlatExists ==
    ASSUME NEW ss
    PROVE  \A k \in Nat : \E f : IsFlat(f, ss, k)
<1>. DEFINE G == {k \in Nat : \E f : IsFlat(f, ss, k)}
<1>1. 0 \in G
  <2>1. IsFlat([i \in 1 .. 0 |-> ss[i]], ss, 0)
    BY DEF IsFlat
  <2>. QED BY <2>1
<1>2. ASSUME NEW k \in Nat, k \in G PROVE k + 1 \in G
  <2>1. PICK f : IsFlat(f, ss, k)
    BY <1>2
  <2>. DEFINE last == IF k + 1 = 1 THEN ss[k + 1] ELSE f[k] \o ss[k + 1]
              g == [i \in 1 .. k + 1 |-> IF i = k + 1 THEN last ELSE f[i]]
              rhs(i) == IF i = 1 THEN ss[i] ELSE g[i - 1] \o ss[i]
  <2>2. ASSUME NEW i \in 1 .. k + 1 PROVE g[i] = rhs(i)
    <3>1. CASE i = k + 1
      <4>1. g[i] = last
        BY <3>1
      <4>2. CASE k = 0
        BY <3>1, <4>1, <4>2
      <4>3. CASE k # 0
        <5>1. g[i - 1] = f[k] /\ i # 1
          BY <3>1, <4>3
        <5>. QED BY <3>1, <4>1, <5>1
      <4>. QED BY <4>2, <4>3
    <3>2. CASE i # k + 1
      <4>1. i \in 1 .. k
        BY <3>2
      <4>2. g[i] = f[i]
        BY <3>2
      <4>3. f[i] = IF i = 1 THEN ss[i] ELSE f[i - 1] \o ss[i]
        <5>. DEFINE r(j) == IF j = 1 THEN ss[j] ELSE f[j - 1] \o ss[j]
        <5>1. f = [j \in 1 .. k |-> r(j)]
          BY <2>1 DEF IsFlat
        <5>. HIDE DEF r
        <5>2. f[i] = r(i)
          BY <4>1, <5>1
        <5>. QED BY <5>2 DEF r
      <4>4. i # 1 => g[i - 1] = f[i - 1]
        BY <4>1
      <4>. QED BY <4>2, <4>3, <4>4
    <3>. QED BY <3>1, <3>2
  <2>3. g = [i \in 1 .. k + 1 |-> g[i]]
    OBVIOUS
  <2>. HIDE DEF g
  <2>4. g = [i \in 1 .. k + 1 |-> rhs(i)]
    <3>. HIDE DEF rhs
    <3>. QED BY <2>2, <2>3
  <2>5. IsFlat(g, ss, k + 1)
    BY <2>4 DEF IsFlat
  <2>. QED BY <2>5
<1>. HIDE DEF G
<1>3. Nat \subseteq G
  BY <1>1, <1>2, NumberInduction
<1>. QED BY <1>3 DEF G

LEMMA FlattenTyped ==
    ASSUME NEW S, NEW ss \in Seq(Seq(S))
    PROVE  FlattenSeq(ss) \in Seq(S)
<1>1. CASE Len(ss) = 0
  BY <1>1 DEF FlattenSeq
<1>2. CASE Len(ss) # 0
  <2>. DEFINE f == CHOOSE g : IsFlat(g, ss, Len(ss))
  <2>1. FlattenSeq(ss) = f[Len(ss)]
    BY <1>2 DEF FlattenSeq, IsFlat
  <2>2. IsFlat(f, ss, Len(ss))
    <3>1. Len(ss) \in Nat
      OBVIOUS
    <3>2. \E g : IsFlat(g, ss, Len(ss))
      BY <3>1, FlatExists
    <3>. QED BY <3>2
  <2>. HIDE DEF f
  <2>3. \A i \in 1 .. Len(ss) : f[i] = IF i = 1 THEN ss[i] ELSE f[i - 1] \o ss[i]
    <3>. DEFINE r(j) == IF j = 1 THEN ss[j] ELSE f[j - 1] \o ss[j]
    <3>1. f = [j \in 1 .. Len(ss) |-> r(j)]
      BY <2>2 DEF IsFlat
    <3>. HIDE DEF r
    <3>2. \A i \in 1 .. Len(ss) : f[i] = r(i)
      BY <3>1
    <3>. QED BY <3>2 DEF r
  <2>. DEFINE G == {k \in Nat : k \in 1 .. Len(ss) => f[k] \in Seq(S)}
  <2>4. 0 \in G
    OBVIOUS
  <2>5. ASSUME NEW k \in Nat, k \in G PROVE k + 1 \in G
    <3>. SUFFICES ASSUME k + 1 \in 1 .. Len(ss) PROVE f[k + 1] \in Seq(S)
      OBVIOUS
    <3>1. ss[k + 1] \in Seq(S)
      OBVIOUS
    <3>2. CASE k = 0
      BY <2>3, <3>1, <3>2
    <3>3. CASE k # 0
      <4>1. f[k] \in Seq(S)
        BY <2>5, <3>3
      <4>2. f[k + 1] = f[k] \o ss[k + 1]
        <5>1. (k + 1) - 1 = k /\ k + 1 # 1
          BY <3>3
        <5>2. f[k + 1] = f[(k + 1) - 1] \o ss[k + 1]
          BY <2>3, <5>1
        <5>. QED BY <5>1, <5>2
      <4>. QED BY <3>1, <4>1, <4>2
    <3>. QED BY <3>2, <3>3
  <2>. HIDE DEF G
  <2>6. Nat \subseteq G
    BY <2>4, <2>5, NumberInduction
  <2>7. Len(ss) \in Nat /\ Len(ss) \in 1 .. Len(ss)
    BY <1>2
  <2>. QED BY <2>1, <2>6, <2>7 DEF G
<1>. QED BY <1>1, <1>2

(***************************************************************************)
(* Texts of this iteration, or of none.                                    *)
(***************************************************************************)
Own(q) == q \in Seq(Range(q)) /\ \A j \in DOMAIN q : q[j].of \in {0, n}

VarsInv == \A v \in DOMAIN vars : Own(vars[v])

LEMMA TextOwn == ASSUME NEW part, NEW of \in {0, n} PROVE Own(Text(part, of))
BY DEF Own, Text, Range

LEMMA EmptyOwn == Own(<<>>)
BY DEF Own, Range

LEMMA RenderOwn ==
    ASSUME VarsInv, NEW t, t \in Seq(Range(t))
    PROVE  Own(Render(t, vars))
<1>. DEFINE p(i) == IF t[i] \in Variables THEN Get(vars, t[i]) ELSE Text(t[i], 0)
            ss == [i \in DOMAIN t |-> p(i)]
            S == UNION {Range(ss[i]) : i \in DOMAIN t}
<1>1. \A i \in DOMAIN t : Own(p(i))
  <2>. SUFFICES ASSUME NEW i \in DOMAIN t PROVE Own(p(i))
    OBVIOUS
  <2>1. CASE t[i] \in Variables
    <3>1. \/ t[i] \in DOMAIN vars /\ Get(vars, t[i]) = vars[t[i]]
          \/ Get(vars, t[i]) = Text(t[i], 0)
          \/ Get(vars, t[i]) = <<>>
      BY DEF Get
    <3>2. Own(Text(t[i], 0))
      BY TextOwn
    <3>3. Own(Get(vars, t[i]))
      BY <3>1, <3>2, EmptyOwn, Zenon DEF VarsInv
    <3>. QED BY <2>1, <3>3
  <2>2. CASE t[i] \notin Variables
    BY <2>2, TextOwn
  <2>. QED BY <2>1, <2>2
<1>2. Render(t, vars) = FlattenSeq(ss)
  BY DEF Render
<1>3. \A i \in DOMAIN t : Own(ss[i])
  BY <1>1
<1>4. ss = [i \in 1 .. Len(t) |-> ss[i]] /\ Len(t) \in Nat /\ DOMAIN t = 1 .. Len(t)
  OBVIOUS
<1>. HIDE DEF ss
<1>5. \A i \in DOMAIN t : ss[i] \in Seq(S)
  <2>. SUFFICES ASSUME NEW i \in DOMAIN t PROVE ss[i] \in Seq(S)
    OBVIOUS
  <2>1. ss[i] \in Seq(Range(ss[i])) /\ Range(ss[i]) \subseteq S
    BY <1>3 DEF Own
  <2>. HIDE DEF S
  <2>. QED BY <2>1
<1>6. \A e \in S : e.of \in {0, n}
  BY <1>3, ZenonT(40) DEF Own, Range
<1>. HIDE DEF S
<1>7. ss \in Seq(Seq(S))
  BY <1>4, <1>5
<1>. DEFINE f == FlattenSeq(ss)
<1>8. f \in Seq(S)
  BY <1>7, FlattenTyped
<1>. HIDE DEF f
<1>9. Own(f)
  BY <1>6, <1>8 DEF Own, Range
<1>. QED BY <1>2, <1>9 DEF f

(***************************************************************************)
(* A step of the iteration keeps the variables its own, or gives them      *)
(* values it has just captured.                                            *)
(***************************************************************************)
LEMMA SameVarsOwn ==
    ASSUME VarsInv, UNCHANGED <<vars, n>>
    PROVE  VarsInv'
BY DEF VarsInv, Own

LEMMA CapturedOwn ==
    ASSUME VarsInv, UNCHANGED n, vars' = CapturedVars
    PROVE  VarsInv'
<1>1. ASSUME NEW v \in DOMAIN vars' PROVE Own(vars'[v])
  <2>1. CASE v \in DOMAIN Step.capture
    <3>1. vars'[v] = Stringify(Found(v), n)
      BY <1>1, <2>1 DEF CapturedVars
    <3>2. vars'[v] = <<>> \/ vars'[v] = Text(Found(v).kind, n)
      BY <3>1 DEF Stringify
    <3>3. Own(Text(Found(v).kind, n))
      BY TextOwn
    <3>. QED BY <3>2, <3>3, EmptyOwn, Zenon
  <2>2. CASE v \notin DOMAIN Step.capture
    <3>1. v \in DOMAIN vars /\ vars'[v] = vars[v]
      BY <1>1, <2>2 DEF CapturedVars
    <3>. QED BY <3>1 DEF VarsInv
  <2>. QED BY <2>1, <2>2
<1>. QED BY <1>1 DEF VarsInv, Own

OwnInv == VarsInv /\ CapturesStayInIteration

LEMMA StepKeepsOwn ==
    ASSUME OwnInv, BuiltInv, IsList(samples), [Next]_allVars
    PROVE  OwnInv'
<1>. USE DEF fixedVars, timeVars, vuVars
<1>0. VarsInv /\ CapturesStayInIteration
  BY DEF OwnInv
<1>c. ASSUME UNCHANGED <<samples, n>> PROVE CapturesStayInIteration'
  BY <1>c, <1>0 DEF CapturesStayInIteration
<1>a. ASSUME NEW e, samples' = Append(samples, e), UNCHANGED n,
             e.metric = "sent" => \A j \in DOMAIN e.url : e.url[j].of \in {0, n}
      PROVE  CapturesStayInIteration'
  <2>. SUFFICES ASSUME NEW i \in DOMAIN samples', samples'[i].metric = "sent"
                PROVE  \A j \in DOMAIN samples'[i].url : samples'[i].url[j].of \in {0, n}
    BY <1>a DEF CapturesStayInIteration
  <2>1. CASE i \in DOMAIN samples
    <3>1. samples'[i] = samples[i]
      BY <1>a, <2>1, ListAppend
    <3>. QED BY <1>0, <2>1, <3>1 DEF CapturesStayInIteration
  <2>2. CASE i \notin DOMAIN samples
    <3>1. samples'[i] = e
      BY <1>a, <2>2, ListAppend
    <3>. QED BY <1>a, <3>1
  <2>. QED BY <2>1, <2>2
<1>u. ASSUME UNCHANGED <<samples, n, vars>> PROVE OwnInv'
  BY <1>u, <1>c, <1>0, SameVarsOwn DEF OwnInv
<1>1. ASSUME NEW file \in Files, NEW flags \in FlagSets, Submit(file, flags) PROVE OwnInv'
  BY <1>1, <1>u DEF Submit
<1>2. CASE Build \/ Cancel \/ Advance
  BY <1>2, <1>u DEF Build, Cancel, Advance
<1>3. CASE UNCHANGED allVars
  BY <1>3, <1>u DEF allVars
<1>4. CASE ThinkStep \/ RefuseRequest \/ ThinkOver \/ PauseOver
  BY <1>4, <1>u DEF ThinkStep, RefuseRequest, ThinkOver, PauseOver
<1>5. CASE BeginIteration
  <2>1. samples' = <<>> /\ vars' = NewVars(scenario.vars)
    BY <1>5 DEF BeginIteration
  <2>2. CapturesStayInIteration'
    BY <2>1 DEF CapturesStayInIteration
  <2>3. \A v \in DOMAIN vars' : \E part : vars'[v] = Text(part, 0)
    BY <2>1 DEF NewVars
  <2>4. \A v \in DOMAIN vars' : Own(vars[v])'
    BY <2>3 DEF Own, Text, Range
  <2>. QED BY <2>2, <2>4 DEF OwnInv, VarsInv
<1>6. CASE SendRequest
  <2>. DEFINE e == [metric |-> "sent", step |-> at, url |-> Render(Step.url, vars)]
  <2>1. pc = "step" /\ samples' = Append(samples, e) /\ UNCHANGED <<vars, n>>
    BY <1>6 DEF SendRequest
  <2>2. Ready(Step)
    BY <2>1 DEF BuiltInv, Step
  <2>3. Own(Render(Step.url, vars))
    BY <1>0, <2>2, RenderOwn DEF Ready
  <2>4. e.url = Render(Step.url, vars)
    OBVIOUS
  <2>. HIDE DEF e
  <2>5. CapturesStayInIteration'
    BY <1>a, <2>1, <2>3, <2>4 DEF Own
  <2>. QED BY <1>0, <2>1, <2>5, SameVarsOwn DEF OwnInv
<1>7. ASSUME NEW r, Exchanged(r) PROVE OwnInv'
  <2>. DEFINE e == RequestSample(r)
  <2>1. samples' = Append(samples, e) /\ UNCHANGED <<vars, n>>
    BY <1>7 DEF Exchanged
  <2>2. e.metric = "http_req"
    BY DEF RequestSample
  <2>. HIDE DEF e
  <2>3. CapturesStayInIteration'
    BY <1>a, <2>1, <2>2
  <2>. QED BY <1>0, <2>1, <2>3, SameVarsOwn DEF OwnInv
<1>8. CASE Answered
  <2>1. UNCHANGED n
    BY <1>8 DEF Answered
  <2>2. CapturesStayInIteration'
    <3>1. UNCHANGED samples \/ samples' = samples \o CheckSample
      BY <1>8 DEF Answered
    <3>2. UNCHANGED samples \/ samples' = Append(samples, Check)
      BY <3>1, CheckIsAppended
    <3>3. Check.metric = "checks"
      BY DEF Check
    <3>. QED BY <1>a, <1>c, <2>1, <3>2, <3>3
  <2>3. VarsInv'
    <3>1. vars' = vars \/ vars' = CapturedVars
      BY <1>8 DEF Answered
    <3>. QED BY <1>0, <2>1, <3>1, SameVarsOwn, CapturedOwn
  <2>. QED BY <2>2, <2>3 DEF OwnInv
<1>9. CASE EndIteration
  <2>. DEFINE e == [metric |-> "iteration", failed |-> pc = "erred",
                    duration |-> NonNegative(clock - thinkTime)]
  <2>1. samples' = Append(samples, e) /\ UNCHANGED <<vars, n>>
    BY <1>9 DEF EndIteration
  <2>2. e.metric = "iteration"
    OBVIOUS
  <2>. HIDE DEF e
  <2>3. CapturesStayInIteration'
    BY <1>a, <2>1, <2>2
  <2>. QED BY <1>0, <2>1, <2>3, SameVarsOwn DEF OwnInv
<1>10. CASE VUStep
  BY <1>10, <1>4, <1>5, <1>6, <1>7, <1>8, <1>9 DEF VUStep, TimedOut, Interrupted, BrokenOff
<1>. QED BY <1>1, <1>2, <1>3, <1>7, <1>10 DEF Next, Reply, NetFailure, BrokenOff

(***************************************************************************)
(* Whatever the steps capture, the URL of a request holds no value that    *)
(* another iteration captured: every iteration begins with new variables.  *)
(***************************************************************************)
THEOREM CapturesAreOwn == Spec => []CapturesStayInIteration
<1>1. Init => OwnInv /\ TimeInv
  BY EmptyList DEF Init, OwnInv, VarsInv, CapturesStayInIteration, TimeInv, Places, Clocks, Accounted, Timed
<1>2. OwnInv /\ BuiltInv /\ TimeInv /\ [Next]_allVars => OwnInv' /\ TimeInv'
  BY StepKeepsOwn, StepKeepsTime DEF TimeInv
<1>3. OwnInv => CapturesStayInIteration
  BY DEF OwnInv
<1>. QED BY <1>1, <1>2, <1>3, BuiltInvHolds, PTL DEF Spec
=============================================================================
