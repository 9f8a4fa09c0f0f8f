------------------------- MODULE CoordinatorProofs -------------------------
(***************************************************************************)
(* What the coordinator promises about its runs, proved for every fleet,   *)
(* every number of goroutines, runs and events.                            *)
(***************************************************************************)
EXTENDS CoordinatorProperties, ApportionProofs, SequenceTheorems

USE DEF NotStopping, NoRun

(***************************************************************************)
(* Min chooses an element of a nonempty set of naturals.                   *)
(***************************************************************************)
LEMMA MinIn ==
    ASSUME NEW S, S \subseteq Nat, S # {}
    PROVE  Min(S) \in S
BY LeastNat DEF Min

(***************************************************************************)
(* The operations on a run record return run records.                      *)
(***************************************************************************)
LEMMA SetPhaseType ==
    ASSUME NEW rec \in RunRecord, NEW phase \in Phase
    PROVE  SetPhase(rec, phase) \in RunRecord
<1>1. CASE IsTerminal(rec.phase)
  BY <1>1 DEF SetPhase
<1>2. CASE ~IsTerminal(rec.phase)
  <2>1. rec.stopping \in -1 .. StopLimit /\ 0 \in -1 .. StopLimit
    BY BoundAssumption DEF BoundAssumption, RunRecord
  <2>2. \A s \in -1 .. StopLimit :
          [rec EXCEPT !.phase = phase, !.stopping = s] \in RunRecord
    BY DEF RunRecord
  <2>. QED BY <1>2, <2>1, <2>2 DEF SetPhase
<1>. QED BY <1>1, <1>2

LEMMA UpdateParticipantType ==
    ASSUME NEW rec \in RunRecord, NEW a \in Agent, NEW phase \in Phase
    PROVE  UpdateParticipant(rec, a, phase) \in RunRecord
BY SMTT(30) DEF UpdateParticipant, RunRecord, Participant

LEMMA SetThresholdsType ==
    ASSUME NEW rec \in RunRecord, NEW failing \in BOOLEAN
    PROVE  SetThresholds(rec, failing) \in RunRecord
BY DEF SetThresholds, RunRecord

LEMMA AgedType ==
    ASSUME NEW rec \in RunRecord
    PROVE  Aged(rec) \in RunRecord
BY BoundAssumption DEF BoundAssumption, Aged, RunRecord

LEMMA FinishType ==
    ASSUME NEW rec \in RunRecord, NEW phase \in Phase, NEW failing \in BOOLEAN
    PROVE  Finish(rec, phase, failing) \in RunRecord
BY SetThresholdsType, SetPhaseType DEF Finish

LEMMA DecisionType ==
    ASSUME NEW parts
    PROVE  Decision(parts) \in {"waiting", "completed", "failed"}
BY DEF Decision

LEMMA CheckStopTimeoutType ==
    ASSUME NEW rec \in RunRecord, NEW failing \in BOOLEAN
    PROVE  CheckStopTimeout(rec, failing) \in RunRecord
BY FinishType DEF CheckStopTimeout, Phase, Terminal

(***************************************************************************)
(* What a goroutine reads, sends and records is well typed.                *)
(***************************************************************************)
LEMMA ViewType ==
    ASSUME TypeOK
    PROVE  View \in [Agent -> Nat]
BY DEF TypeOK, View

LEMMA CommandForType ==
    ASSUME NEW w \in Worker, w.run \in Run, NEW a
    PROVE  CommandFor(w, a) \in Command
BY DEF CommandFor, Command, Claim, InView, Worker

LEMMA RosterType ==
    ASSUME NEW w \in Worker
    PROVE  Roster(w) \in [Agent -> Participant]
<1>1. NoClaim \in Claim /\ [peak |-> w.peak, among |-> InView(w.view)] \in Claim
  BY DEF NoClaim, Claim, InView, Worker
<1>. QED BY <1>1 DEF Roster, Participant, Absent, Phase, Terminal

LEMMA SetParticipantsType ==
    ASSUME NEW rec \in RunRecord, NEW w \in Worker
    PROVE  SetParticipants(rec, Roster(w)) \in RunRecord
<1>1. \A parts \in [Agent -> Participant] : SetParticipants(rec, parts) \in RunRecord
  BY DEF SetParticipants, RunRecord
<1>. QED BY <1>1, RosterType

LEMMA IdleType == Idle \in Worker
BY DEF Idle, Worker

LEMMA RebalancerType ==
    ASSUME NEW r \in Run
    PROVE  Rebalancer(r) \in Worker /\ Rebalancer(r).run = r
BY IdleType DEF Rebalancer, Worker

LEMMA StopperType ==
    ASSUME NEW r \in Run
    PROVE  Stopper(r) \in Worker /\ Stopper(r).run = r
BY IdleType DEF Stopper, Worker

LEMMA StopCommandType ==
    ASSUME NEW r \in Run
    PROVE  StopCommand(r) \in Command
BY DEF StopCommand, Command, NoClaim, Claim

LEMMA NoRecordType == NoRecord \in RunRecord
<1>1. Absent \in Participant
  BY DEF Absent, Participant, NoClaim, Claim
<1>2. -1 \in -1 .. StopLimit
  BY BoundAssumption DEF BoundAssumption
<1>. QED BY <1>1, <1>2 DEF NoRecord, RunRecord

(***************************************************************************)
(* trimHistoryLocked keeps a suffix, and stops at the first point where    *)
(* the history fits or its oldest run is live.                             *)
(***************************************************************************)
LEMMA TrimmedIsSuffix ==
    ASSUME NEW S, NEW ids \in Seq(S), NEW live
    PROVE  \E n \in 0 .. Len(ids) :
             /\ Trimmed(ids, live) = SubSeq(ids, n + 1, Len(ids))
             /\ Len(ids) - n <= MaxRunHistory \/ ids[n + 1] \in live
             /\ \A j \in 0 .. n - 1 : ~(Len(ids) - j <= MaxRunHistory \/ ids[j + 1] \in live)
<1>. DEFINE stop(k) == Len(ids) - k <= MaxRunHistory \/ ids[k + 1] \in live
            stops == {k \in 0 .. Len(ids) : stop(k)}
<1>1. Len(ids) \in stops
  BY BoundAssumption DEF BoundAssumption
<1>2. PICK n \in stops : \A k \in stops : n <= k
  <2>1. stops \subseteq Nat /\ stops # {}
    BY <1>1
  <2>. HIDE DEF stops
  <2>. QED BY <2>1, LeastNat
<1>3. n \in 0 .. Len(ids) /\ stop(n) /\ \A j \in 0 .. n - 1 : ~stop(j)
  <2>. HIDE DEF stop
  <2>1. n \in 0 .. Len(ids) /\ stop(n)
    OBVIOUS
  <2>2. ASSUME NEW j \in 0 .. n - 1, stop(j) PROVE FALSE
    <3>1. Len(ids) \in Nat
      OBVIOUS
    <3>2. j \in 0 .. Len(ids) /\ ~(n <= j)
      BY <2>1, <3>1
    <3>3. j \in stops
      BY <2>2, <3>2
    <3>. QED BY <1>2, <3>2, <3>3
  <2>. QED BY <2>1, <2>2
<1>. DEFINE m == CHOOSE k \in 0 .. Len(ids) : stop(k) /\ \A j \in 0 .. k - 1 : ~stop(j)
<1>4. m \in 0 .. Len(ids) /\ stop(m) /\ \A j \in 0 .. m - 1 : ~stop(j)
  BY <1>3
<1>5. Trimmed(ids, live) = SubSeq(ids, m + 1, Len(ids))
  BY DEF Trimmed
<1>. QED BY <1>4, <1>5

LEMMA TrimmedType ==
    ASSUME NEW S, NEW ids \in Seq(S), NEW live
    PROVE  Trimmed(ids, live) \in Seq(S)
<1>1. PICK n \in 0 .. Len(ids) : Trimmed(ids, live) = SubSeq(ids, n + 1, Len(ids))
  BY TrimmedIsSuffix
<1>2. \A i \in n + 1 .. Len(ids) : ids[i] \in S
  OBVIOUS
<1>. QED BY <1>1, <1>2, SubSeqProperties
-----------------------------------------------------------------------------
(***************************************************************************)
(* Type correctness.  TypeOK is not inductive alone: the commands and      *)
(* reports a step sends are typed only because the goroutine or agent that *)
(* sends them has a run, which is what Wired says.                         *)
(***************************************************************************)
LEMMA BroadcastType ==
    ASSUME TypeOK, NEW cmd \in Command, Broadcast(cmd)
    PROVE  down' \in [Agent -> Seq(Command)]
BY AppendProperties DEF TypeOK, Broadcast

LEMMA SendReportType ==
    ASSUME TypeOK, NEW a \in Agent, NEW r \in Run,
           NEW phase \in {"running", "completed", "failed"}, SendReport(a, r, phase)
    PROVE  up' \in [Agent -> Seq(Report)]
<1>1. [run |-> r, phase |-> phase] \in Report
  BY DEF Report
<1>. QED BY <1>1, AppendProperties DEF TypeOK, SendReport

LEMMA LoseReportsType ==
    ASSUME TypeOK, NEW a \in Agent, NEW restarted \in BOOLEAN, LoseReports(a, restarted)
    PROVE  up' \in [Agent -> Seq(Report)]
<1>1. PICK k \in 0 .. Len(up[a]) :
        up' = [up EXCEPT ![a] = IF restarted THEN <<>> ELSE SubSeq(up[a], k + 1, Len(up[a]))]
  BY DEF LoseReports
<1>2. up[a] \in Seq(Report)
  BY DEF TypeOK
<1>3. SubSeq(up[a], k + 1, Len(up[a])) \in Seq(Report)
  <2>1. \A i \in k + 1 .. Len(up[a]) : up[a][i] \in Report
    BY <1>2
  <2>. QED BY <1>2, <2>1, SubSeqProperties
<1>. QED BY <1>1, <1>3 DEF TypeOK

LEMMA TailType ==
    ASSUME TypeOK, NEW a \in Agent
    PROVE  /\ down[a] # <<>> => /\ Head(down[a]) \in Command
                                /\ [down EXCEPT ![a] = Tail(down[a])] \in [Agent -> Seq(Command)]
           /\ up[a] # <<>> => /\ Head(up[a]) \in Report
                              /\ [up EXCEPT ![a] = Tail(up[a])] \in [Agent -> Seq(Report)]
BY HeadTailProperties DEF TypeOK

LEMMA SpendType ==
    ASSUME TypeOK, NEW event \in Event, Spend(event)
    PROVE  budget' \in [Event -> Nat]
BY DEF TypeOK, Spend

LEMMA WitnessType ==
    ASSUME TypeOK, NEW r \in Run, NEW a \in Agent, NEW phase \in {"completed", "failed"}
    PROVE  [witness EXCEPT ![r][phase] = witness[r][phase] \cup {a}]
             \in [Run -> [{"completed", "failed"} -> SUBSET Agent]]
BY DEF TypeOK

LEMMA SpawnType ==
    ASSUME TypeOK, Wired, SpawnRebalance
    PROVE  /\ proc' \in [Proc -> Worker]
           /\ \A p \in Proc : proc'[p].pc \notin {"idle", "lock"} => proc'[p].run \in Run
<1>1. CASE active = NoRun
  BY <1>1 DEF SpawnRebalance, TypeOK, Wired
<1>2. CASE active # NoRun
  <2>1. PICK p \in Slot : proc' = [proc EXCEPT ![p] = Rebalancer(active)]
    BY <1>2 DEF SpawnRebalance
  <2>2. active \in Run /\ p \in Proc
    BY <1>2 DEF TypeOK, Proc
  <2>. QED BY <2>1, <2>2, RebalancerType DEF TypeOK, Wired
<1>. QED BY <1>1, <1>2

LEMMA GoroutineType ==
    ASSUME TypeOK, Wired, NEW p \in Proc, Goroutine(p) \/ (p \in Slot /\ StartRun(p))
    PROVE  TypeOK' /\ Wired'
<1>. USE DEF Wired
<1>w. proc[p] \in Worker
  BY DEF TypeOK
<1>v. View \in [Agent -> Nat] /\ InView(proc[p].view) \subseteq Agent
  BY ViewType DEF InView
<1>i. Idle \in Worker /\ Idle.pc = "idle"
  BY IdleType DEF Idle
<1>1. CASE StartRun(p)
  <2>1. [Idle EXCEPT !.pc = "lock", !.op = "start", !.view = View] \in Worker
    BY <1>v, IdleType DEF Worker
  <2>. QED BY <1>1, <2>1 DEF StartRun, TypeOK, runVars, netVars
<1>2. CASE StartRefused(p)
  BY <1>2, <1>i DEF StartRefused, TypeOK, runVars, netVars
<1>3. CASE StartAccepted(p)
  <2>1. PICK r \in Run :
          /\ run' = [run EXCEPT ![r] = NewRun]
          /\ active' = r
          /\ order' = Trimmed(Append(order, r), {q \in Run : Active(q)} \cup {r})
          /\ proc' = [proc EXCEPT ![p] = [proc[p] EXCEPT !.pc = "send", !.run = r,
                                            !.peak = Peak, !.todo = InView(proc[p].view)]]
    BY <1>3 DEF StartAccepted
  <2>2. NewRun \in RunRecord
    BY NoRecordType, LoadAssumption DEF LoadAssumption, NewRun, RunRecord, Phase
  <2>3. order' \in Seq(Run)
    BY <2>1, TrimmedType, AppendProperties DEF TypeOK
  <2>4. [proc[p] EXCEPT !.pc = "send", !.run = r, !.peak = Peak,
                        !.todo = InView(proc[p].view)] \in Worker
    BY <1>w, <1>v, LoadAssumption DEF LoadAssumption, Worker
  <2>. QED BY <1>3, <2>1, <2>2, <2>3, <2>4 DEF StartAccepted, TypeOK, netVars
<1>4. CASE RebalanceBegin(p)
  <2>1. [proc[p] EXCEPT !.pc = "snapshot", !.view = View] \in Worker
    BY <1>w, <1>v DEF Worker
  <2>. QED BY <1>4, <2>1, <1>w, <1>i DEF RebalanceBegin, TypeOK, runVars, netVars
<1>5. CASE RebalanceSnapshot(p)
  <2>. DEFINE rec == run[proc[p].run]
              known == {a \in Agent : rec.participants[a].dispatched}
  <2>1. proc[p].run \in Run /\ rec.peakVUs \in Nat
    BY <1>5 DEF RebalanceSnapshot, TypeOK, RunRecord
  <2>. DEFINE new == [proc[p] EXCEPT !.pc = "send", !.peak = rec.peakVUs, !.known = known,
                                     !.todo = InView(proc[p].view)]
  <2>2. new \in Worker /\ new.run = proc[p].run
    BY <1>w, <1>v, <2>1 DEF Worker
  <2>3. /\ proc' = [proc EXCEPT ![p] = new]
        /\ UNCHANGED <<runVars, netVars, tick, agent, budget, witness>>
    BY <1>5, Zenon DEF RebalanceSnapshot
  <2>. HIDE DEF new
  <2>. QED BY <2>1, <2>2, <2>3 DEF TypeOK, Wired, runVars, netVars
<1>6. CASE SendNext(p)
  <2>. DEFINE a == Min(proc[p].todo)
              ok == CanSend(a, proc[p].view[a])
              w == [proc[p] EXCEPT !.pc = IF proc[p].todo = {a} THEN "record" ELSE "send",
                                   !.todo = proc[p].todo \ {a},
                                   !.failed = IF ok THEN proc[p].failed
                                              ELSE proc[p].failed \cup {a}]
  <2>1. /\ proc[p].pc = "send" /\ proc[p].todo # {}
        /\ down' = IF ok THEN [down EXCEPT ![a] = Append(down[a], CommandFor(proc[p], a))]
                   ELSE down
        /\ proc' = [proc EXCEPT ![p] = w]
        /\ UNCHANGED <<runVars, session, up, tick, agent, budget, witness>>
    BY <1>6, Zenon DEF SendNext
  <2>2. a \in Agent
    BY <1>w, <2>1, MinIn, AgentAssumption DEF AgentAssumption, Worker
  <2>3. proc[p].run \in Run
    BY <2>1
  <2>. HIDE DEF a
  <2>4. down' \in [Agent -> Seq(Command)]
    <3>1. CommandFor(proc[p], a) \in Command
      BY <1>w, <2>3, CommandForType
    <3>2. Append(down[a], CommandFor(proc[p], a)) \in Seq(Command)
      BY <2>2, <3>1, AppendProperties DEF TypeOK
    <3>. QED BY <2>1, <3>2 DEF TypeOK
  <2>5. w \in Worker /\ w.run = proc[p].run
    BY <1>w, <2>2 DEF Worker
  <2>. QED BY <2>1, <2>3, <2>4, <2>5 DEF TypeOK, runVars
<1>7. CASE RecordRoster(p)
  <2>1. run' \in [Run -> RunRecord]
    <3>1. \A rec \in RunRecord : SetParticipants(rec, Roster(proc[p])) \in RunRecord
      BY <1>w, SetParticipantsType
    <3>. QED BY <1>7, <3>1 DEF RecordRoster, TypeOK
  <2>2. proc' \in [Proc -> Worker] /\ (proc'[p].pc # "idle" => proc'[p].run = proc[p].run)
    <3>1. [proc[p] EXCEPT !.pc = "starting"] \in Worker
      BY <1>w DEF Worker
    <3>. QED BY <1>7, <1>w, <3>1, <1>i DEF RecordRoster, TypeOK
  <2>. QED BY <1>7, <2>1, <2>2 DEF RecordRoster, TypeOK, netVars
<1>8. CASE AnnounceStarting(p)
  <2>1. run' \in [Run -> RunRecord]
    BY <1>8, SetPhaseType DEF AnnounceStarting, TypeOK, Phase
  <2>. QED BY <1>8, <2>1, <1>i DEF AnnounceStarting, TypeOK, netVars
<1>9. CASE BroadcastStop(p)
  <2>1. down' \in [Agent -> Seq(Command)]
    BY <1>9, StopCommandType, BroadcastType DEF BroadcastStop
  <2>. QED BY <1>9, <2>1, <1>i DEF BroadcastStop, TypeOK, runVars
<1>. QED BY <1>1, <1>2, <1>3, <1>4, <1>5, <1>6, <1>7, <1>8, <1>9 DEF Goroutine

LEMMA OperatorType ==
    ASSUME TypeOK, Wired, NEW p \in Slot, NEW r \in Run,
           StopRun(p, r) \/ \E v \in ScaledPeaks : ScaleRun(p, r, v)
    PROVE  TypeOK' /\ Wired'
<1>. USE DEF Wired
<1>0. p \in Proc /\ run[r] \in RunRecord
  BY DEF Proc, TypeOK
<1>1. CASE StopRun(p, r)
  <2>1. run' \in [Run -> RunRecord]
    BY <1>1, SetPhaseType DEF StopRun, TypeOK, Phase
  <2>2. budget' \in [Event -> Nat]
    BY <1>1, SpendType DEF StopRun, Event
  <2>. QED BY <1>0, <1>1, <2>1, <2>2, StopperType DEF StopRun, TypeOK, netVars
<1>2. ASSUME NEW v \in ScaledPeaks, ScaleRun(p, r, v) PROVE TypeOK' /\ Wired'
  <2>1. v \in Nat
    BY LoadAssumption DEF LoadAssumption
  <2>2. [run[r] EXCEPT !.peakVUs = v] \in RunRecord
    BY <1>0, <2>1 DEF RunRecord
  <2>3. run' \in [Run -> RunRecord]
    BY <1>2, <2>2 DEF ScaleRun, TypeOK
  <2>4. budget' \in [Event -> Nat]
    BY <1>2, SpendType DEF ScaleRun, Event
  <2>. QED BY <1>0, <1>2, <2>3, <2>4, RebalancerType DEF ScaleRun, TypeOK, netVars
<1>. QED BY <1>1, <1>2

LEMMA TickType ==
    ASSUME TypeOK, Wired, Tick
    PROVE  TypeOK' /\ Wired'
<1>. USE DEF Wired
<1>t. "ticker" \in Proc /\ NotTicking \in Ticker /\ NotTicking.pc = "idle"
  BY DEF Proc, NotTicking, Ticker
<1>1. ASSUME NEW lost \in SUBSET Agent, TickExpire(lost) PROVE TypeOK' /\ Wired'
  <2>1. /\ proc' \in [Proc -> Worker]
        /\ \A p \in Proc : proc'[p].pc \notin {"idle", "lock"} => proc'[p].run \in Run
    <3>1. CASE lost = {} \/ active = NoRun
      BY <1>1, <3>1 DEF TickExpire, TypeOK
    <3>2. CASE ~(lost = {} \/ active = NoRun)
      BY <1>1, <1>t, <3>2, RebalancerType DEF TickExpire, TypeOK
    <3>. QED BY <3>1, <3>2
  <2>2. budget' \in [Event -> Nat]
    BY <1>1, SpendType DEF TickExpire, Event, TypeOK
  <2>3. session' \in [Agent -> [st : {"gone", "open", "closed"}, epoch : Nat]]
    BY <1>1, ZenonT(40) DEF TickExpire, TypeOK
  <2>4. run' \in [Run -> RunRecord]
    BY <1>1, AgedType DEF TickExpire, TypeOK
  <2>5. tick' \in Ticker /\ tick'.pc = "expired"
    BY <1>1 DEF TickExpire, Ticker, NotTicking
  <2>. QED BY <1>1, <2>1, <2>2, <2>3, <2>4, <2>5 DEF TickExpire, TypeOK
<1>2. ASSUME NEW verdict \in Outcomes, TickJudge(verdict) PROVE TypeOK' /\ Wired'
  <2>1. CASE active = NoRun
    BY <1>2, <2>1, <1>t DEF TickJudge, TypeOK, netVars
  <2>2. CASE active # NoRun
    <3>. DEFINE seen == SetThresholds(run[active], verdict # "pass")
                abort == verdict = "abort" /\ Active(active)
    <3>1. active \in Run
      BY <2>2 DEF TypeOK
    <3>2. seen \in RunRecord
      BY <3>1, SetThresholdsType DEF TypeOK
    <3>3. SetPhase(seen, "stopping") \in RunRecord
      BY <3>2, SetPhaseType DEF Phase
    <3>4. /\ run' = [run EXCEPT ![active] = IF abort THEN SetPhase(seen, "stopping") ELSE seen]
          /\ proc' = IF abort THEN [proc EXCEPT !["ticker"] = Stopper(active)] ELSE proc
          /\ tick' = [pc |-> "judged", run |-> active]
      BY <1>2, <2>2 DEF TickJudge
    <3>. HIDE DEF seen, abort
    <3>5. run' \in [Run -> RunRecord]
      BY <3>1, <3>2, <3>3, <3>4 DEF TypeOK
    <3>6. /\ proc' \in [Proc -> Worker]
          /\ \A p \in Proc : proc'[p].pc \notin {"idle", "lock"} => proc'[p].run \in Run
      BY <3>1, <3>4, <1>t, StopperType DEF TypeOK
    <3>7. tick' \in Ticker /\ tick'.run \in Run
      BY <3>1, <3>4 DEF Ticker
    <3>. QED BY <1>2, <3>5, <3>6, <3>7 DEF TickJudge, TypeOK, netVars
  <2>. QED BY <2>1, <2>2
<1>3. CASE TickCheck
  <2>1. tick.run \in Run /\ tick \in Ticker
    BY <1>3 DEF TickCheck, TypeOK
  <2>2. tick' \in Ticker /\ (tick'.pc = "idle" \/ tick'.run \in Run)
    BY <1>3, <1>t, <2>1, DecisionType DEF TickCheck, Ticker
  <2>. QED BY <1>3, <2>2 DEF TickCheck, TypeOK, runVars, netVars
<1>4. ASSUME NEW last \in Outcomes, TickConclude(last) PROVE TypeOK' /\ Wired'
  <2>. DEFINE rec == run[tick.run]
              failing == last # "pass"
              done == IF tick.pc = "waiting" THEN rec ELSE Finish(rec, tick.pc, failing)
  <2>1. tick.run \in Run /\ rec \in RunRecord
    BY <1>4 DEF TickConclude, TypeOK
  <2>2. done \in RunRecord
    BY <1>4, <2>1, FinishType DEF TickConclude, Phase, Terminal
  <2>3. CheckStopTimeout(done, failing) \in RunRecord
    BY <2>2, CheckStopTimeoutType
  <2>4. run' = [run EXCEPT ![tick.run] = CheckStopTimeout(done, failing)]
    BY <1>4 DEF TickConclude
  <2>. HIDE DEF done, failing
  <2>5. run' \in [Run -> RunRecord]
    BY <2>1, <2>3, <2>4 DEF TypeOK
  <2>. QED BY <1>4, <1>t, <2>5 DEF TickConclude, TypeOK, netVars
<1>. QED BY <1>1, <1>2, <1>3, <1>4 DEF Tick

LEMMA FleetType ==
    ASSUME TypeOK, Wired, NEW a \in Agent,
           \/ \E restarted \in BOOLEAN : Join(a, restarted)
           \/ Leave(a) \/ OnRunStatus(a)
    PROVE  TypeOK' /\ Wired'
<1>1. ASSUME NEW restarted \in BOOLEAN, Join(a, restarted) PROVE TypeOK' /\ Wired'
  <2>1. NoWork \in AgentState /\ NoWork.st = "none"
    BY DEF NoWork, AgentState, NoClaim, Claim
  <2>2. agent' \in [Agent -> AgentState] /\ \A b \in Agent : agent'[b].st # "none" => agent'[b].run \in Run
    BY <1>1, <2>1 DEF Join, TypeOK, Wired
  <2>3. budget' \in [Event -> Nat]
    BY <1>1, SpendType DEF Join, Event
  <2>4. session' \in [Agent -> [st : {"gone", "open", "closed"}, epoch : Nat]]
    BY <1>1 DEF Join, TypeOK
  <2>5. down' \in [Agent -> Seq(Command)]
    BY <1>1 DEF Join, TypeOK
  <2>6. up' \in [Agent -> Seq(Report)]
    BY <1>1, LoseReportsType DEF Join
  <2>. QED BY <1>1, <2>2, <2>3, <2>4, <2>5, <2>6, SpawnType DEF Join, TypeOK, Wired, runVars
<1>2. CASE Leave(a)
  <2>3. budget' \in [Event -> Nat]
    BY <1>2, SpendType DEF Leave, Event
  <2>4. session' \in [Agent -> [st : {"gone", "open", "closed"}, epoch : Nat]]
    BY <1>2 DEF Leave, TypeOK
  <2>5. down' \in [Agent -> Seq(Command)]
    BY <1>2 DEF Leave, TypeOK
  <2>6. up' \in [Agent -> Seq(Report)]
    BY <1>2, LoseReportsType DEF Leave
  <2>. QED BY <1>2, <2>3, <2>4, <2>5, <2>6, SpawnType DEF Leave, TypeOK, Wired, runVars
<1>3. CASE OnRunStatus(a)
  <2>. DEFINE r == Head(up[a]).run
              phase == Head(up[a]).phase
              seen == UpdateParticipant(run[r], a, phase)
  <2>1. r \in Run /\ phase \in {"running", "completed", "failed"} /\ phase \in Phase
    BY <1>3, TailType DEF OnRunStatus, Report, Phase, Terminal
  <2>2. seen \in RunRecord
    BY <2>1, UpdateParticipantType DEF TypeOK
  <2>3. SetPhase(seen, "running") \in RunRecord
    BY <2>2, SetPhaseType DEF Phase
  <2>4. \/ UNCHANGED <<run, witness>>
        \/ /\ run' = [run EXCEPT ![r] = IF phase = "running" THEN SetPhase(seen, "running") ELSE seen]
           /\ witness' = IF phase = "running" THEN witness
                         ELSE [witness EXCEPT ![r][phase] = witness[r][phase] \cup {a}]
    BY <1>3, Zenon DEF OnRunStatus
  <2>. HIDE DEF seen
  <2>5. run' \in [Run -> RunRecord]
    BY <2>1, <2>2, <2>3, <2>4 DEF TypeOK
  <2>6. witness' \in [Run -> [{"completed", "failed"} -> SUBSET Agent]]
    <3>1. witness \in [Run -> [{"completed", "failed"} -> SUBSET Agent]]
      BY DEF TypeOK
    <3>2. CASE witness' = witness
      BY <3>1, <3>2, Zenon
    <3>3. CASE witness' # witness
      <4>1. /\ phase # "running"
            /\ witness' = [witness EXCEPT ![r][phase] = witness[r][phase] \cup {a}]
        BY <2>4, <3>3, Zenon
      <4>2. phase \in {"completed", "failed"}
        BY <2>1, <4>1
      <4>3. [witness EXCEPT ![r][phase] = witness[r][phase] \cup {a}]
              \in [Run -> [{"completed", "failed"} -> SUBSET Agent]]
        BY <2>1, <4>2, WitnessType, ZenonT(40)
      <4>. QED BY <4>1, <4>3, Zenon
    <3>. QED BY <3>2, <3>3
  <2>7. up' \in [Agent -> Seq(Report)]
    BY <1>3, TailType DEF OnRunStatus
  <2>. QED BY <1>3, <2>5, <2>6, <2>7, SMTT(30) DEF OnRunStatus, TypeOK, Wired
<1>. QED BY <1>1, <1>2, <1>3

LEMMA AgentType ==
    ASSUME TypeOK, Wired, NEW a \in Agent, AgentStep(a)
    PROVE  TypeOK' /\ Wired'
<1>. USE DEF Wired
<1>n. NoWork \in AgentState /\ NoWork.st = "none"
  BY DEF NoWork, AgentState, NoClaim, Claim
<1>c. down[a] # <<>> => /\ Head(down[a]) \in Command
                        /\ [down EXCEPT ![a] = Tail(down[a])] \in [Agent -> Seq(Command)]
  BY TailType
<1>1. CASE AgentStartRun(a)
  <2>1. agent' \in [Agent -> AgentState] /\ \A b \in Agent : agent'[b].st # "none" => agent'[b].run \in Run
    BY <1>1, <1>c, ZenonT(40) DEF AgentStartRun, TypeOK, AgentState, Command, Claim
  <2>2. up' \in [Agent -> Seq(Report)]
    BY <1>1, SendReportType DEF AgentStartRun, TypeOK
  <2>. QED BY <1>1, <1>c, <2>1, <2>2 DEF AgentStartRun, TypeOK, runVars
<1>2. CASE AgentSetQuota(a)
  <2>1. agent' \in [Agent -> AgentState] /\ \A b \in Agent : agent'[b].st = agent[b].st /\ agent'[b].run = agent[b].run
    <3>1. Head(down[a]).claim \in Claim /\ agent[a] \in AgentState
      BY <1>2, <1>c DEF AgentSetQuota, Command, TypeOK
    <3>2. [agent[a] EXCEPT !.claim = Head(down[a]).claim] \in AgentState
      BY <3>1 DEF AgentState
    <3>3. CASE agent[a].run = Head(down[a]).run
      <4>1. agent' = [agent EXCEPT ![a] = [agent[a] EXCEPT !.claim = Head(down[a]).claim]]
        BY <1>2, <3>3 DEF AgentSetQuota
      <4>. QED BY <3>1, <3>2, <4>1 DEF TypeOK, AgentState
    <3>4. CASE agent[a].run # Head(down[a]).run
      BY <1>2, <3>4 DEF AgentSetQuota, TypeOK
    <3>. QED BY <3>3, <3>4
  <2>. QED BY <1>2, <1>c, <2>1 DEF AgentSetQuota, TypeOK, runVars
<1>3. CASE AgentStopRun(a)
  <2>1. agent' \in [Agent -> AgentState] /\ \A b \in Agent : agent'[b].st # "none" => agent'[b].run \in Run
    BY <1>3, <1>n, ZenonT(40) DEF AgentStopRun, TypeOK, AgentState
  <2>. QED BY <1>3, <1>c, <2>1 DEF AgentStopRun, TypeOK, runVars
<1>4. CASE AgentRunning(a)
  <2>1. agent' \in [Agent -> AgentState] /\ \A b \in Agent : agent'[b].st # "none" => agent'[b].run \in Run
    BY <1>4, ZenonT(40) DEF AgentRunning, TypeOK, AgentState
  <2>2. up' \in [Agent -> Seq(Report)]
    BY <1>4, SendReportType DEF AgentRunning
  <2>. QED BY <1>4, <2>1, <2>2 DEF AgentRunning, TypeOK, runVars
<1>5. ASSUME NEW phase \in {"completed", "failed"}, AgentFinished(a, phase)
      PROVE  TypeOK' /\ Wired'
  <2>1. agent' \in [Agent -> AgentState] /\ \A b \in Agent : agent'[b].st # "none" => agent'[b].run \in Run
    BY <1>5, ZenonT(40) DEF AgentFinished, TypeOK, AgentState
  <2>2. up' \in [Agent -> Seq(Report)]
    BY <1>5, SendReportType DEF AgentFinished
  <2>. QED BY <1>5, <2>1, <2>2 DEF AgentFinished, TypeOK, runVars
<1>6. CASE AgentStopped(a)
  <2>1. agent' \in [Agent -> AgentState] /\ \A b \in Agent : agent'[b].st # "none" => agent'[b].run \in Run
    BY <1>6, <1>n DEF AgentStopped, TypeOK, AgentState
  <2>2. up' \in [Agent -> Seq(Report)]
    BY <1>6, SendReportType DEF AgentStopped, TypeOK
  <2>. QED BY <1>6, <2>1, <2>2 DEF AgentStopped, TypeOK, runVars
<1>. QED BY <1>1, <1>2, <1>3, <1>4, <1>5, <1>6 DEF AgentStep

LEMMA InitType == Init => TypeOK /\ Wired
<1>. SUFFICES ASSUME Init PROVE TypeOK /\ Wired
  OBVIOUS
<1>1. run \in [Run -> RunRecord]
  BY NoRecordType DEF Init
<1>2. proc \in [Proc -> Worker] /\ \A p \in Proc : proc[p].pc = "idle"
  BY IdleType DEF Init, Idle
<1>3. NoWork \in AgentState /\ NoWork.st = "none"
  BY DEF NoWork, AgentState, NoClaim, Claim
<1>4. session \in [Agent -> [st : {"gone", "open", "closed"}, epoch : Nat]]
  BY DEF Init
<1>5. down \in [Agent -> Seq(Command)] /\ up \in [Agent -> Seq(Report)] /\ order \in Seq(Run)
  BY DEF Init
<1>6. agent \in [Agent -> AgentState] /\ \A a \in Agent : agent[a].st = "none"
  BY <1>3 DEF Init
<1>7. tick \in Ticker /\ tick.pc = "idle"
  BY DEF Init, NotTicking, Ticker
<1>8. witness \in [Run -> [{"completed", "failed"} -> SUBSET Agent]]
  BY DEF Init
<1>9. active \in Run \cup {NoRun} /\ budget \in [Event -> Nat]
  BY BudgetAssumption DEF BudgetAssumption, Init
<1>. QED BY <1>1, <1>2, <1>4, <1>5, <1>6, <1>7, <1>8, <1>9 DEF TypeOK, Wired

(***************************************************************************)
(* The variables of the coordinator, its goroutines, its sessions and the  *)
(* agents always have their types.                                         *)
(***************************************************************************)
THEOREM TypeCorrect == Spec => [](TypeOK /\ Wired)
<1>1. Init => TypeOK /\ Wired
  BY InitType
<1>2. TypeOK /\ Wired /\ [Next]_vars => TypeOK' /\ Wired'
  <2>. SUFFICES ASSUME TypeOK, Wired, [Next]_vars PROVE TypeOK' /\ Wired'
    OBVIOUS
  <2>1. CASE UNCHANGED vars
    BY <2>1 DEF vars, TypeOK, Wired
  <2>2. CASE Next
    BY <2>2, GoroutineType, OperatorType, TickType, FleetType, AgentType, Zenon DEF Next, Proc
  <2>. QED BY <2>1, <2>2
<1>. QED BY <1>1, <1>2, PTL DEF Spec
-----------------------------------------------------------------------------
(***************************************************************************)
(* How one run record may change in a step that does not create it: it     *)
(* keeps its verdict, its breach and its stop request, and only a live run *)
(* can be asked to stop.                                                   *)
(***************************************************************************)
Evolves(old, new) ==
    /\ old.phase = "none" <=> new.phase = "none"
    /\ IsTerminal(old.phase) => new.phase = old.phase
    /\ old.breached => new.breached
    /\ old.phase = "none" /\ new.breached => old.breached
    /\ old.stopping # NotStopping => new.stopping >= old.stopping
    /\ old.stopping = NotStopping /\ new.stopping # NotStopping =>
         old.phase # "none" /\ ~IsTerminal(old.phase)

LEMMA EvolvesReflexive ==
    ASSUME NEW rec \in RunRecord
    PROVE  Evolves(rec, rec)
BY DEF Evolves, RunRecord

LEMMA EvolvesTransitive ==
    ASSUME NEW r1 \in RunRecord, NEW r2 \in RunRecord, NEW r3 \in RunRecord,
           Evolves(r1, r2), Evolves(r2, r3)
    PROVE  Evolves(r1, r3)
BY BoundAssumption DEF BoundAssumption, Evolves, RunRecord, IsTerminal, Terminal

LEMMA SetPhaseEvolves ==
    ASSUME NEW rec \in RunRecord, NEW phase \in Phase, rec.phase # "none"
    PROVE  Evolves(rec, SetPhase(rec, phase)) /\ SetPhase(rec, phase).phase # "none"
<1>1. CASE IsTerminal(rec.phase)
  BY <1>1, EvolvesReflexive DEF SetPhase
<1>2. CASE ~IsTerminal(rec.phase)
  <2>. DEFINE new == SetPhase(rec, phase)
  <2>1. /\ new.phase = phase /\ new.breached = rec.breached
        /\ new.stopping = IF phase = "stopping" /\ rec.stopping = NotStopping THEN 0
                          ELSE rec.stopping
    BY <1>2 DEF SetPhase, RunRecord
  <2>2. phase # "none"
    BY DEF Phase, Terminal
  <2>3. rec.stopping \in Int
    BY BoundAssumption DEF BoundAssumption, RunRecord
  <2>. HIDE DEF new
  <2>4. rec.stopping # NotStopping => new.stopping >= rec.stopping
    BY <2>1, <2>3
  <2>5. Evolves(rec, new) /\ new.phase # "none"
    BY <1>2, <2>1, <2>2, <2>4 DEF Evolves
  <2>. QED BY <2>5 DEF new
<1>. QED BY <1>1, <1>2

LEMMA SetThresholdsEvolves ==
    ASSUME NEW rec \in RunRecord, NEW failing \in BOOLEAN, rec.phase # "none"
    PROVE  /\ Evolves(rec, SetThresholds(rec, failing))
           /\ SetThresholds(rec, failing).phase = rec.phase
BY BoundAssumption DEF BoundAssumption, Evolves, SetThresholds, RunRecord

LEMMA FinishEvolves ==
    ASSUME NEW rec \in RunRecord, NEW phase \in Phase, NEW failing \in BOOLEAN,
           rec.phase # "none"
    PROVE  Evolves(rec, Finish(rec, phase, failing)) /\ Finish(rec, phase, failing).phase # "none"
<1>. DEFINE mid == SetThresholds(rec, failing)
<1>1. mid \in RunRecord /\ Evolves(rec, mid) /\ mid.phase # "none"
  BY SetThresholdsType, SetThresholdsEvolves
<1>2. Finish(rec, phase, failing) = SetPhase(mid, phase)
  BY DEF Finish
<1>. HIDE DEF mid
<1>3. /\ SetPhase(mid, phase) \in RunRecord
      /\ Evolves(mid, SetPhase(mid, phase)) /\ SetPhase(mid, phase).phase # "none"
  BY <1>1, SetPhaseType, SetPhaseEvolves
<1>. QED BY <1>1, <1>2, <1>3, EvolvesTransitive

LEMMA CheckStopTimeoutEvolves ==
    ASSUME NEW rec \in RunRecord, NEW failing \in BOOLEAN, rec.phase # "none"
    PROVE  Evolves(rec, CheckStopTimeout(rec, failing))
BY FinishEvolves, EvolvesReflexive DEF CheckStopTimeout, Phase, Terminal

LEMMA AgedEvolves ==
    ASSUME NEW rec \in RunRecord
    PROVE  Evolves(rec, Aged(rec))
<1>1. /\ Aged(rec).phase = rec.phase /\ Aged(rec).breached = rec.breached
      /\ Aged(rec).stopping = IF rec.stopping \in 0 .. StopLimit - 1 THEN rec.stopping + 1
                              ELSE rec.stopping
  BY DEF Aged, RunRecord
<1>2. rec.stopping \in Int
  BY BoundAssumption DEF BoundAssumption, RunRecord
<1>3. rec.stopping # -1 => Aged(rec).stopping >= rec.stopping
  BY <1>1, <1>2
<1>4. rec.stopping = -1 => Aged(rec).stopping = -1
  BY <1>1, BoundAssumption DEF BoundAssumption
<1>. QED BY <1>1, <1>3, <1>4 DEF Evolves

LEMMA UpdateParticipantEvolves ==
    ASSUME NEW rec \in RunRecord, NEW a \in Agent, NEW phase \in Phase
    PROVE  /\ Evolves(rec, UpdateParticipant(rec, a, phase))
           /\ UpdateParticipant(rec, a, phase).phase = rec.phase
BY DEF UpdateParticipant, Evolves, RunRecord

LEMMA SetParticipantsEvolves ==
    ASSUME NEW rec \in RunRecord, NEW parts
    PROVE  Evolves(rec, SetParticipants(rec, parts))
BY DEF SetParticipants, Evolves, RunRecord

LEMMA RetainedRuns ==
    ASSUME TypeOK
    PROVE  Retained \subseteq Run
BY DEF TypeOK, Retained

(***************************************************************************)
(* Every step but the creation of a run is ordinary: the records only      *)
(* evolve, and goroutines and the ticker take up runs that exist.          *)
(***************************************************************************)
Existing(r) == r \in Run /\ Born(r)

Ordinary ==
    /\ active' = active /\ order' = order
    /\ \A r \in Run : Evolves(run[r], run'[r])
    /\ \A p \in Proc : proc'[p].pc \notin {"idle", "lock"} => Existing(proc'[p].run)
    /\ tick'.pc \notin {"idle", "expired"} => Existing(tick'.run)

LEMMA ExistingNow ==
    ASSUME TypeOK, Wired, RefersToBorn
    PROVE  /\ \A r \in Run : Evolves(run[r], run[r])
           /\ \A p \in Proc : proc[p].pc \notin {"idle", "lock"} => Existing(proc[p].run)
           /\ tick.pc \notin {"idle", "expired"} => Existing(tick.run)
           /\ active # NoRun => Existing(active)
           /\ \A r \in Retained : Existing(r)
<1>1. \A r \in Run : Evolves(run[r], run[r])
  BY EvolvesReflexive DEF TypeOK
<1>. QED BY <1>1, RetainedRuns DEF TypeOK, Wired, RefersToBorn, Existing

LEMMA OneRunEvolves ==
    ASSUME TypeOK, NEW r \in Run, NEW rec \in RunRecord,
           Evolves(run[r], rec), run' = [run EXCEPT ![r] = rec]
    PROVE  \A q \in Run : Evolves(run[q], run'[q])
BY EvolvesReflexive DEF TypeOK

LEMMA GoroutineOrdinary ==
    ASSUME TypeOK, Wired, RefersToBorn, NEW p \in Proc,
           (Goroutine(p) /\ ~StartAccepted(p)) \/ StartRun(p)
    PROVE  Ordinary
<1>. USE ExistingNow DEF Ordinary
<1>w. proc[p] \in Worker /\ proc \in [Proc -> Worker] /\ Idle.pc = "idle"
  BY DEF TypeOK, Idle
<1>1. CASE StartRun(p)
  <2>1. [Idle EXCEPT !.pc = "lock", !.op = "start", !.view = View].pc = "lock"
    BY DEF Idle
  <2>. QED BY <1>1, <1>w, <2>1 DEF StartRun, runVars
<1>2. CASE StartRefused(p)
  BY <1>2, <1>w DEF StartRefused, runVars
<1>3. CASE RebalanceBegin(p)
  <2>1. [proc[p] EXCEPT !.pc = "snapshot", !.view = View].run = proc[p].run
    BY <1>w DEF Worker
  <2>. QED BY <1>3, <1>w, <2>1 DEF RebalanceBegin, runVars
<1>4. CASE RebalanceSnapshot(p)
  <2>. DEFINE w == [proc[p] EXCEPT !.pc = "send", !.peak = run[proc[p].run].peakVUs,
                      !.known = {a \in Agent : run[proc[p].run].participants[a].dispatched},
                      !.todo = InView(proc[p].view)]
  <2>1. w.run = proc[p].run
    BY <1>w DEF Worker
  <2>2. proc' = [proc EXCEPT ![p] = w] /\ proc[p].pc = "snapshot"
    BY <1>4 DEF RebalanceSnapshot
  <2>. HIDE DEF w
  <2>. QED BY <1>4, <1>w, <2>1, <2>2 DEF RebalanceSnapshot, runVars
<1>5. CASE SendNext(p)
  <2>. DEFINE a == Min(proc[p].todo)
              ok == CanSend(a, proc[p].view[a])
              w == [proc[p] EXCEPT !.pc = IF proc[p].todo = {a} THEN "record" ELSE "send",
                                   !.todo = proc[p].todo \ {a},
                                   !.failed = IF ok THEN proc[p].failed
                                              ELSE proc[p].failed \cup {a}]
  <2>1. /\ proc[p].pc = "send"
        /\ proc' = [proc EXCEPT ![p] = w]
        /\ UNCHANGED <<runVars, session, up, tick, agent, budget, witness>>
    BY <1>5, Zenon DEF SendNext
  <2>2. w.run = proc[p].run
    BY <1>w DEF Worker
  <2>. HIDE DEF w
  <2>. QED BY <1>w, <2>1, <2>2 DEF runVars
<1>6. CASE RecordRoster(p)
  <2>1. Existing(proc[p].run)
    BY <1>6 DEF RecordRoster
  <2>2. \A r \in Run : Evolves(run[r], run'[r])
    <3>1. SetParticipants(run[proc[p].run], Roster(proc[p])) \in RunRecord
      BY <1>w, <2>1, SetParticipantsType DEF TypeOK, Existing
    <3>. QED BY <1>6, <2>1, <3>1, OneRunEvolves, SetParticipantsEvolves
         DEF RecordRoster, TypeOK, Existing
  <2>3. [proc[p] EXCEPT !.pc = "starting"].run = proc[p].run
    BY <1>w DEF Worker
  <2>. QED BY <1>6, <1>w, <2>1, <2>2, <2>3 DEF RecordRoster
<1>7. CASE AnnounceStarting(p)
  <2>1. Existing(proc[p].run)
    BY <1>7 DEF AnnounceStarting
  <2>2. \A r \in Run : Evolves(run[r], run'[r])
    BY <1>7, <2>1, OneRunEvolves, SetPhaseEvolves, SetPhaseType
       DEF AnnounceStarting, TypeOK, Existing, Born, Phase
  <2>. QED BY <1>7, <1>w, <2>2 DEF AnnounceStarting
<1>8. CASE BroadcastStop(p)
  BY <1>8, <1>w DEF BroadcastStop, runVars
<1>. QED BY <1>1, <1>2, <1>3, <1>4, <1>5, <1>6, <1>7, <1>8 DEF Goroutine

LEMMA OperatorOrdinary ==
    ASSUME TypeOK, Wired, RefersToBorn, NEW p \in Slot, NEW r \in Run,
           StopRun(p, r) \/ \E v \in ScaledPeaks : ScaleRun(p, r, v)
    PROVE  Ordinary
<1>. USE ExistingNow DEF Ordinary
<1>0. p \in Proc /\ proc \in [Proc -> Worker] /\ run[r] \in RunRecord
  BY DEF Proc, TypeOK
<1>1. CASE StopRun(p, r)
  <2>1. Existing(r)
    BY <1>1 DEF StopRun
  <2>2. \A q \in Run : Evolves(run[q], run'[q])
    BY <1>0, <1>1, <2>1, OneRunEvolves, SetPhaseEvolves, SetPhaseType
       DEF StopRun, Existing, Born, Phase
  <2>. QED BY <1>0, <1>1, <2>1, <2>2, StopperType DEF StopRun
<1>2. ASSUME NEW v \in ScaledPeaks, ScaleRun(p, r, v) PROVE Ordinary
  <2>1. Existing(r)
    BY <1>2 DEF ScaleRun
  <2>2. [run[r] EXCEPT !.peakVUs = v] \in RunRecord
    BY <1>0, LoadAssumption DEF LoadAssumption, RunRecord
  <2>3. Evolves(run[r], [run[r] EXCEPT !.peakVUs = v])
    BY <1>0 DEF Evolves, RunRecord
  <2>4. run' = [run EXCEPT ![r] = [run[r] EXCEPT !.peakVUs = v]]
    BY <1>2 DEF ScaleRun
  <2>5. \A q \in Run : Evolves(run[q], run'[q])
    BY <2>2, <2>3, <2>4, OneRunEvolves
  <2>. QED BY <1>0, <1>2, <2>1, <2>5, RebalancerType DEF ScaleRun
<1>. QED BY <1>1, <1>2

LEMMA TickOrdinary ==
    ASSUME TypeOK, Wired, RefersToBorn, Tick
    PROVE  Ordinary
<1>. USE ExistingNow DEF Ordinary
<1>t. "ticker" \in Proc /\ proc \in [Proc -> Worker] /\ NotTicking.pc = "idle"
  BY DEF Proc, NotTicking, TypeOK
<1>1. ASSUME NEW lost \in SUBSET Agent, TickExpire(lost) PROVE Ordinary
  <2>1. \A r \in Run : Evolves(run[r], run'[r])
    BY <1>1, AgedEvolves DEF TickExpire, TypeOK
  <2>2. tick'.pc = "expired"
    BY <1>1 DEF TickExpire, NotTicking
  <2>3. \A p \in Proc : proc'[p].pc \notin {"idle", "lock"} => Existing(proc'[p].run)
    <3>1. CASE lost = {} \/ active = NoRun
      BY <1>1, <3>1 DEF TickExpire
    <3>2. CASE ~(lost = {} \/ active = NoRun)
      <4>1. Existing(active) /\ active \in Run
        BY <3>2 DEF Existing
      <4>. QED BY <1>1, <1>t, <3>2, <4>1, RebalancerType DEF TickExpire
    <3>. QED BY <3>1, <3>2
  <2>. QED BY <1>1, <2>1, <2>2, <2>3 DEF TickExpire
<1>2. ASSUME NEW verdict \in Outcomes, TickJudge(verdict) PROVE Ordinary
  <2>1. CASE active = NoRun
    BY <1>2, <2>1, <1>t DEF TickJudge
  <2>2. CASE active # NoRun
    <3>. DEFINE seen == SetThresholds(run[active], verdict # "pass")
                abort == verdict = "abort" /\ Active(active)
                new == IF abort THEN SetPhase(seen, "stopping") ELSE seen
    <3>1. Existing(active) /\ active \in Run /\ run[active] \in RunRecord
      BY <2>2 DEF TypeOK, Existing
    <3>2. seen \in RunRecord /\ Evolves(run[active], seen) /\ seen.phase # "none"
      BY <3>1, SetThresholdsType, SetThresholdsEvolves DEF Existing, Born
    <3>3. /\ run' = [run EXCEPT ![active] = new]
          /\ proc' = IF abort THEN [proc EXCEPT !["ticker"] = Stopper(active)] ELSE proc
          /\ tick' = [pc |-> "judged", run |-> active]
      BY <1>2, <2>2 DEF TickJudge
    <3>. HIDE DEF seen, abort
    <3>4. new \in RunRecord /\ Evolves(run[active], new)
      <4>1. SetPhase(seen, "stopping") \in RunRecord /\ Evolves(seen, SetPhase(seen, "stopping"))
        BY <3>2, SetPhaseType, SetPhaseEvolves DEF Phase
      <4>. QED BY <3>1, <3>2, <4>1, EvolvesTransitive
    <3>. HIDE DEF new
    <3>5. \A r \in Run : Evolves(run[r], run'[r])
      BY <3>1, <3>3, <3>4, OneRunEvolves
    <3>6. \A p \in Proc : proc'[p].pc \notin {"idle", "lock"} => Existing(proc'[p].run)
      BY <3>1, <3>3, <1>t, StopperType
    <3>. QED BY <1>2, <3>1, <3>3, <3>5, <3>6 DEF TickJudge
  <2>. QED BY <2>1, <2>2
<1>3. CASE TickCheck
  <2>1. tick'.pc = "idle" \/ tick'.run = tick.run
    BY <1>3, <1>t DEF TickCheck, TypeOK, Ticker
  <2>. QED BY <1>3, <2>1 DEF TickCheck, runVars
<1>4. ASSUME NEW last \in Outcomes, TickConclude(last) PROVE Ordinary
  <2>. DEFINE rec == run[tick.run]
              failing == last # "pass"
              done == IF tick.pc = "waiting" THEN rec ELSE Finish(rec, tick.pc, failing)
  <2>1. tick.run \in Run /\ rec \in RunRecord /\ rec.phase # "none"
    BY <1>4 DEF TickConclude, TypeOK, Existing, Born
  <2>2. done \in RunRecord /\ Evolves(rec, done) /\ done.phase # "none"
    BY <1>4, <2>1, FinishType, FinishEvolves, EvolvesReflexive DEF TickConclude, Phase, Terminal
  <2>3. run' = [run EXCEPT ![tick.run] = CheckStopTimeout(done, failing)]
    BY <1>4 DEF TickConclude
  <2>4. failing \in BOOLEAN
    OBVIOUS
  <2>. HIDE DEF done, failing
  <2>5. /\ CheckStopTimeout(done, failing) \in RunRecord
        /\ Evolves(rec, CheckStopTimeout(done, failing))
    BY <2>1, <2>2, <2>4, CheckStopTimeoutType, CheckStopTimeoutEvolves, EvolvesTransitive
  <2>6. \A r \in Run : Evolves(run[r], run'[r])
    BY <2>1, <2>3, <2>5, OneRunEvolves
  <2>. QED BY <1>4, <1>t, <2>6 DEF TickConclude
<1>. QED BY <1>1, <1>2, <1>3, <1>4 DEF Tick

LEMMA FleetOrdinary ==
    ASSUME TypeOK, Wired, RefersToBorn, NEW a \in Agent,
           \/ \E restarted \in BOOLEAN : Join(a, restarted)
           \/ Leave(a) \/ OnRunStatus(a) \/ AgentStep(a)
    PROVE  Ordinary
<1>. USE ExistingNow DEF Ordinary
<1>s. ASSUME SpawnRebalance
      PROVE  \A p \in Proc : proc'[p].pc \notin {"idle", "lock"} => Existing(proc'[p].run)
  <2>1. CASE active = NoRun
    BY <1>s, <2>1 DEF SpawnRebalance
  <2>2. CASE active # NoRun
    <3>1. Existing(active) /\ active \in Run /\ proc \in [Proc -> Worker]
      BY <2>2 DEF Existing, TypeOK
    <3>2. PICK p \in Slot : proc' = [proc EXCEPT ![p] = Rebalancer(active)]
      BY <1>s, <2>2 DEF SpawnRebalance
    <3>. QED BY <3>1, <3>2, RebalancerType DEF Proc
  <2>. QED BY <2>1, <2>2
<1>1. ASSUME NEW restarted \in BOOLEAN, Join(a, restarted) PROVE Ordinary
  BY <1>1, <1>s DEF Join, runVars
<1>2. CASE Leave(a)
  BY <1>2, <1>s DEF Leave, runVars
<1>3. CASE OnRunStatus(a)
  <2>. DEFINE r == Head(up[a]).run
              phase == Head(up[a]).phase
              seen == UpdateParticipant(run[r], a, phase)
              new == IF phase = "running" THEN SetPhase(seen, "running") ELSE seen
  <2>1. r \in Run /\ phase \in Phase
    BY <1>3, TailType DEF OnRunStatus, Report, Phase, Terminal
  <2>2. CASE r \notin Retained
    BY <1>3, <2>2 DEF OnRunStatus
  <2>3. CASE r \in Retained
    <3>1. Existing(r) /\ run[r] \in RunRecord
      BY <2>1, <2>3 DEF TypeOK
    <3>2. seen \in RunRecord /\ Evolves(run[r], seen) /\ seen.phase # "none"
      BY <2>1, <3>1, UpdateParticipantType, UpdateParticipantEvolves DEF Existing, Born
    <3>3. run' = [run EXCEPT ![r] = new]
      BY <1>3, <2>3, Zenon DEF OnRunStatus
    <3>. HIDE DEF seen
    <3>4. new \in RunRecord /\ Evolves(run[r], new)
      <4>1. SetPhase(seen, "running") \in RunRecord /\ Evolves(seen, SetPhase(seen, "running"))
        BY <3>2, SetPhaseType, SetPhaseEvolves DEF Phase
      <4>. QED BY <3>1, <3>2, <4>1, EvolvesTransitive
    <3>. HIDE DEF new, r
    <3>5. \A q \in Run : Evolves(run[q], run'[q])
      BY <2>1, <3>3, <3>4, OneRunEvolves
    <3>. QED BY <1>3, <3>5 DEF OnRunStatus
  <2>. QED BY <2>2, <2>3
<1>4. CASE AgentStep(a)
  <2>1. UNCHANGED <<runVars, proc, tick>>
    BY <1>4 DEF AgentStep, AgentStartRun, AgentSetQuota, AgentStopRun, AgentRunning,
                AgentStopped, AgentFinished
  <2>. QED BY <2>1 DEF runVars
<1>. QED BY <1>1, <1>2, <1>3, <1>4

LEMMA StepOrdinary ==
    ASSUME TypeOK, Wired, RefersToBorn, Next
    PROVE  Ordinary \/ \E p \in Proc : StartAccepted(p)
BY GoroutineOrdinary, OperatorOrdinary, TickOrdinary, FleetOrdinary, Zenon DEF Next, Proc
-----------------------------------------------------------------------------
(***************************************************************************)
(* The inductive invariant: nobody refers to a run that does not exist,    *)
(* only c.active is live, and the history is bounded and holds c.active.   *)
(***************************************************************************)
LedgerInv == RefersToBorn /\ OneLiveRun /\ HistoryBounded

LEMMA OrdinaryKeeps ==
    ASSUME TypeOK, TypeOK', LedgerInv, Ordinary
    PROVE  LedgerInv'
<1>. USE DEF LedgerInv, Ordinary
<1>1. \A r \in Run : Born(r) <=> Born(r)'
  BY DEF Evolves, Born
<1>2. Retained' = Retained /\ Retained \subseteq Run
  BY RetainedRuns DEF Retained
<1>3. RefersToBorn'
  <2>1. \A r \in Run : ~Born(r)' => run'[r].stopping = NotStopping /\ ~run'[r].breached
    <3>. SUFFICES ASSUME NEW r \in Run, ~Born(r)'
                  PROVE  run'[r].stopping = NotStopping /\ ~run'[r].breached
      OBVIOUS
    <3>1. run[r].stopping = NotStopping /\ ~run[r].breached /\ run[r].phase = "none"
      BY <1>1 DEF RefersToBorn, Born
    <3>. QED BY <3>1 DEF Evolves
  <2>2. active' # NoRun => Born(active)'
    BY <1>1 DEF RefersToBorn, TypeOK, Born
  <2>3. \A r \in Retained' : Born(r)'
    BY <1>1, <1>2 DEF RefersToBorn
  <2>4. \A p \in Proc : proc'[p].pc \notin {"idle", "lock"} => Born(proc[p].run)'
    BY <1>1 DEF Existing, Born
  <2>5. tick'.pc \notin {"idle", "expired"} => Born(tick.run)'
    BY <1>1 DEF Existing, Born
  <2>. QED BY <2>1, <2>2, <2>3, <2>4, <2>5 DEF RefersToBorn
<1>4. OneLiveRun'
  BY DEF OneLiveRun, Active, Evolves
<1>5. HistoryBounded'
  BY <1>2 DEF HistoryBounded
<1>. QED BY <1>3, <1>4, <1>5

(***************************************************************************)
(* The creation of a run.  c.active, if any, is finished, so the new run   *)
(* is the only live one in the history and trimming stops at it at the     *)
(* latest.                                                                 *)
(***************************************************************************)
LEMMA NewRunShape ==
    /\ NewRun.phase = "pending" /\ NewRun.stopping = NotStopping
    /\ ~IsTerminal("pending")
BY DEF NewRun, NoRecord, IsTerminal, Terminal

LEMMA HistoryTrimmed ==
    ASSUME NEW ids \in Seq(Run), NEW live, Len(ids) > 0,
           ids[Len(ids)] \in live,
           \A i \in 1 .. Len(ids) - 1 : ids[i] \notin live,
           NEW kept, kept = Trimmed(ids, live)
    PROVE  /\ Len(kept) <= MaxRunHistory
           /\ \E i \in 1 .. Len(kept) : kept[i] = ids[Len(ids)]
           /\ \A i \in 1 .. Len(kept) : \E j \in 1 .. Len(ids) : kept[i] = ids[j]
<1>1. PICK n \in 0 .. Len(ids) :
        /\ kept = SubSeq(ids, n + 1, Len(ids))
        /\ Len(ids) - n <= MaxRunHistory \/ ids[n + 1] \in live
        /\ \A j \in 0 .. n - 1 : ~(Len(ids) - j <= MaxRunHistory \/ ids[j + 1] \in live)
  BY TrimmedIsSuffix
<1>2. n < Len(ids)
  <2>. SUFFICES ASSUME n = Len(ids) PROVE FALSE
    OBVIOUS
  <2>1. n - 1 \in 0 .. n - 1 /\ (n - 1) + 1 = Len(ids)
    OBVIOUS
  <2>. QED BY <1>1, <2>1
<1>3. /\ Len(kept) = Len(ids) - n
      /\ \A i \in 1 .. Len(kept) : kept[i] = ids[n + i]
  BY <1>1, <1>2, SubSeqProperties
<1>4. Len(kept) <= MaxRunHistory
  <2>1. CASE Len(ids) - n <= MaxRunHistory
    BY <1>3, <2>1
  <2>2. CASE ids[n + 1] \in live
    <3>1. n + 1 = Len(ids)
      BY <1>2, <2>2
    <3>. QED BY <1>3, <3>1, BoundAssumption DEF BoundAssumption
  <2>. QED BY <1>1, <2>1, <2>2
<1>5. kept[Len(ids) - n] = ids[Len(ids)] /\ Len(ids) - n \in 1 .. Len(kept)
  BY <1>2, <1>3
<1>6. \A i \in 1 .. Len(kept) : n + i \in 1 .. Len(ids)
  BY <1>3
<1>. QED BY <1>3, <1>4, <1>5, <1>6

LEMMA AcceptKeeps ==
    ASSUME TypeOK, TypeOK', Wired, LedgerInv, NEW p \in Proc, StartAccepted(p)
    PROVE  LedgerInv'
<1>. USE DEF LedgerInv
<1>. DEFINE w(r) == [proc[p] EXCEPT !.pc = "send", !.run = r, !.peak = Peak,
                                    !.todo = InView(proc[p].view)]
<1>1. PICK r \in Run :
        /\ run[r].phase = "none"
        /\ run' = [run EXCEPT ![r] = NewRun]
        /\ active' = r
        /\ order' = Trimmed(Append(order, r), {q \in Run : Active(q)} \cup {r})
        /\ proc' = [proc EXCEPT ![p] = w(r)]
        /\ tick' = tick
  BY DEF StartAccepted
<1>2. w(r).run = r
  BY DEF TypeOK, Worker
<1>. HIDE DEF w
<1>3. \A q \in Run : Born(q) => q # r /\ run'[q] = run[q]
  BY <1>1 DEF Born, TypeOK
<1>4. Born(r)' /\ run'[r].stopping = NotStopping
  BY <1>1, NewRunShape DEF Born, TypeOK
<1>5. \A q \in Run : Born(q) => ~Active(q)
  <2>. SUFFICES ASSUME NEW q \in Run, Born(q), Active(q) PROVE FALSE
    OBVIOUS
  <2>1. q = active
    BY DEF OneLiveRun, Born
  <2>2. q # NoRun
    BY DEF Run
  <2>. QED BY <2>1, <2>2 DEF StartAccepted
<1>6. /\ Len(order') <= MaxRunHistory
      /\ \E i \in 1 .. Len(order') : order'[i] = r
      /\ \A i \in 1 .. Len(order') : order'[i] = r \/ order'[i] \in Retained
  <2>. DEFINE ids == Append(order, r)
              live == {q \in Run : Active(q)} \cup {r}
  <2>1. /\ ids \in Seq(Run) /\ Len(ids) = Len(order) + 1 /\ ids[Len(ids)] = r
        /\ \A i \in 1 .. Len(order) : ids[i] = order[i]
    BY AppendProperties DEF TypeOK
  <2>2. \A i \in 1 .. Len(order) : order[i] \in Retained /\ Born(order[i]) /\ order[i] \in Run
    BY RetainedRuns DEF Retained, RefersToBorn
  <2>3. \A i \in 1 .. Len(ids) - 1 : ids[i] \notin live
    BY <1>3, <1>5, <2>1, <2>2
  <2>4. order' = Trimmed(ids, live)
    BY <1>1
  <2>5. Len(order) \in Nat
    BY DEF TypeOK
  <2>6. Len(ids) > 0 /\ ids[Len(ids)] \in live
    BY <2>1, <2>5
  <2>. HIDE DEF ids, live
  <2>7. /\ Len(order') <= MaxRunHistory
        /\ \E i \in 1 .. Len(order') : order'[i] = ids[Len(ids)]
        /\ \A i \in 1 .. Len(order') : \E j \in 1 .. Len(ids) : order'[i] = ids[j]
    BY ONLY <2>1, <2>3, <2>4, <2>6, HistoryTrimmed, SMTT(30)
  <2>8. \A j \in 1 .. Len(ids) : ids[j] = r \/ ids[j] \in Retained
    BY <2>1, <2>2, <2>5
  <2>. QED BY <2>1, <2>7, <2>8
<1>7. RefersToBorn'
  <2>1. \A q \in Retained' : Born(q)'
    BY <1>3, <1>4, <1>6, RetainedRuns DEF Retained, RefersToBorn, Born
  <2>2. \A q \in Proc : proc'[q].pc \notin {"idle", "lock"} => Born(proc[q].run)'
    <3>. SUFFICES ASSUME NEW q \in Proc, proc'[q].pc \notin {"idle", "lock"}
                  PROVE  Born(proc[q].run)'
      OBVIOUS
    <3>1. CASE q = p
      BY <1>1, <1>2, <1>4, <3>1 DEF Born, TypeOK
    <3>2. CASE q # p
      <4>1. proc'[q] = proc[q]
        BY <1>1, <3>2 DEF TypeOK
      <4>. QED BY <4>1, <1>3 DEF Born, RefersToBorn, Wired
    <3>. QED BY <3>1, <3>2
  <2>3. tick'.pc \notin {"idle", "expired"} => Born(tick.run)'
    BY <1>1, <1>3 DEF Born, RefersToBorn, Wired
  <2>4. \A q \in Run : ~Born(q)' => run'[q].stopping = NotStopping /\ ~run'[q].breached
    BY <1>1, <1>4 DEF Born, RefersToBorn, TypeOK
  <2>. QED BY <1>1, <1>4, <2>1, <2>2, <2>3, <2>4 DEF RefersToBorn, Born
<1>8. OneLiveRun'
  <2>. SUFFICES ASSUME NEW q \in Run, q # r, run'[q].phase # "none"
                PROVE  IsTerminal(run'[q].phase)
    BY <1>1 DEF OneLiveRun, Active
  <2>1. run'[q] = run[q]
    BY <1>1 DEF TypeOK
  <2>. QED BY <1>5, <2>1 DEF Born, Active
<1>9. HistoryBounded'
  BY <1>1, <1>6 DEF HistoryBounded, Retained
<1>. QED BY <1>7, <1>8, <1>9

LEMMA InitLedger == Init => LedgerInv
<1>. SUFFICES ASSUME Init PROVE LedgerInv
  OBVIOUS
<1>1. \A r \in Run : run[r].phase = "none" /\ run[r].stopping = NotStopping /\ ~run[r].breached
  BY DEF Init, NoRecord
<1>2. Retained = {} /\ Len(order) = 0
  BY DEF Init, Retained
<1>3. \A p \in Proc : proc[p].pc = "idle"
  BY DEF Init, Idle
<1>4. tick.pc = "idle" /\ active = NoRun
  BY DEF Init, NotTicking
<1>5. RefersToBorn
  BY <1>1, <1>2, <1>3, <1>4 DEF RefersToBorn, Born
<1>6. OneLiveRun
  BY <1>1 DEF OneLiveRun
<1>7. HistoryBounded
  BY <1>2, <1>4, BoundAssumption DEF BoundAssumption, HistoryBounded
<1>. QED BY <1>5, <1>6, <1>7 DEF LedgerInv

LEMMA StutterKeeps ==
    ASSUME LedgerInv, UNCHANGED vars
    PROVE  LedgerInv'
BY DEF vars, LedgerInv, RefersToBorn, OneLiveRun, HistoryBounded, Born, Active, Retained

(***************************************************************************)
(* The inductive invariant holds: of every fleet and any number of callers *)
(* racing through StartRun, joins, leaves, restarts and stops.             *)
(***************************************************************************)
THEOREM LedgerInvariant == Spec => []LedgerInv
<1>1. Init => LedgerInv
  BY InitLedger
<1>2. TypeOK /\ Wired /\ TypeOK' /\ LedgerInv /\ [Next]_vars => LedgerInv'
  <2>. SUFFICES ASSUME TypeOK, Wired, TypeOK', LedgerInv, [Next]_vars PROVE LedgerInv'
    OBVIOUS
  <2>1. CASE UNCHANGED vars
    BY <2>1, StutterKeeps
  <2>2. CASE Next
    <3>1. Ordinary \/ \E p \in Proc : StartAccepted(p)
      BY <2>2, StepOrdinary DEF LedgerInv
    <3>. QED BY <3>1, OrdinaryKeeps, AcceptKeeps
  <2>. QED BY <2>1, <2>2
<1>. QED BY <1>1, <1>2, TypeCorrect, PTL DEF Spec

(***************************************************************************)
(* At most one run is live, and it is c.active, however many callers of    *)
(* StartRun race for it.                                                   *)
(***************************************************************************)
THEOREM OneRunAtATime == Spec => []OneLiveRun
<1>1. LedgerInv => OneLiveRun
  BY DEF LedgerInv
<1>. QED BY <1>1, LedgerInvariant, PTL

(***************************************************************************)
(* The history never exceeds MaxRunHistory and always holds c.active, so   *)
(* trimHistoryLocked never has to keep an old live run beyond the limit.   *)
(***************************************************************************)
THEOREM HistoryStaysBounded == Spec => []HistoryBounded
<1>1. LedgerInv => HistoryBounded
  BY DEF LedgerInv
<1>. QED BY <1>1, LedgerInvariant, PTL
-----------------------------------------------------------------------------
(***************************************************************************)
(* One step keeps verdicts, since every step lets the records evolve.      *)
(***************************************************************************)
LEMMA StepKeepsVerdicts ==
    ASSUME TypeOK, Wired, LedgerInv, [Next]_vars
    PROVE  \A r \in Run :
             /\ IsTerminal(run[r].phase) => run'[r].phase = run[r].phase
             /\ run[r].breached => run'[r].breached
             /\ run[r].stopping # NotStopping => run'[r].stopping >= run[r].stopping
<1>. USE DEF LedgerInv
<1>1. CASE UNCHANGED vars
  <2>1. \A r \in Run : run'[r] = run[r] /\ run[r] \in RunRecord
    BY <1>1 DEF vars, TypeOK
  <2>. QED BY <2>1, EvolvesReflexive DEF Evolves
<1>2. CASE Next
  <2>1. CASE Ordinary
    BY <2>1 DEF Ordinary, Evolves
  <2>2. ASSUME NEW p \in Proc, StartAccepted(p)
        PROVE  \A r \in Run :
                 /\ IsTerminal(run[r].phase) => run'[r].phase = run[r].phase
                 /\ run[r].breached => run'[r].breached
                 /\ run[r].stopping # NotStopping => run'[r].stopping >= run[r].stopping
    <3>1. PICK n \in Run : run[n].phase = "none" /\ run' = [run EXCEPT ![n] = NewRun]
      BY <2>2 DEF StartAccepted
    <3>2. run[n].stopping = NotStopping /\ ~IsTerminal(run[n].phase) /\ ~run[n].breached
      BY <3>1 DEF RefersToBorn, Born, IsTerminal, Terminal
    <3>3. \A r \in Run : r # n => run'[r] = run[r] /\ run[r] \in RunRecord
      BY <3>1 DEF TypeOK
    <3>. QED BY <3>2, <3>3, EvolvesReflexive DEF Evolves
  <2>. QED BY <1>2, <2>1, <2>2, StepOrdinary
<1>. QED BY <1>1, <1>2

(***************************************************************************)
(* A verdict, a breach and a stop request are never taken back, whatever   *)
(* stragglers, rebalances and ticks follow.                                *)
(***************************************************************************)
THEOREM VerdictsAreFinal == Spec => VerdictFinal
<1>. DEFINE Kept == \A r \in Run :
         /\ IsTerminal(run[r].phase) => run'[r].phase = run[r].phase
         /\ run[r].breached => run'[r].breached
         /\ run[r].stopping # NotStopping => run'[r].stopping >= run[r].stopping
<1>1. TypeOK /\ Wired /\ LedgerInv /\ [Next]_vars => [Kept]_vars
  BY StepKeepsVerdicts
<1>. QED BY <1>1, TypeCorrect, LedgerInvariant, PTL DEF Spec, VerdictFinal
-----------------------------------------------------------------------------
(***************************************************************************)
(* The coordinator implements the ledger.  Since at most one run is live,  *)
(* an ordinary step can change the ledger's view of that run only.         *)
(***************************************************************************)
LEMMA LedgerUnfold ==
    ASSUME TypeOK, NEW r \in Run
    PROVE  /\ LedgerState[r] = "unborn" <=> ~Born(r)
           /\ LedgerState[r] = "live" <=> Born(r) /\ Active(r)
           /\ IsTerminal(run[r].phase) => LedgerState[r] = run[r].phase
           /\ r \in LedgerAsked <=> run[r].stopping # NotStopping
BY DEF LedgerState, LedgerAsked, Born, Active, IsTerminal, Terminal

LEMMA OrdinaryRefines ==
    ASSUME TypeOK, TypeOK', LedgerInv, LedgerInv', Ordinary
    PROVE  [Ledger!Next]_(Ledger!ledger)
<1>. USE DEF LedgerInv
<1>1. \A r \in Run : Evolves(run[r], run'[r])
  BY DEF Ordinary
<1>2. ASSUME NEW q \in Run, ~(Born(q) /\ Active(q))
      PROVE  LedgerState'[q] = LedgerState[q] /\ (q \in LedgerAsked' <=> q \in LedgerAsked)
  <2>1. Evolves(run[q], run'[q])
    BY <1>1
  <2>2. run[q].phase = "none" \/ IsTerminal(run[q].phase)
    BY <1>2 DEF Born, Active
  <2>3. run'[q].phase = run[q].phase
    BY <2>1, <2>2 DEF Evolves
  <2>4. run[q].stopping = NotStopping <=> run'[q].stopping = NotStopping
    <3>1. run[q].stopping \in -1 .. StopLimit
      BY DEF TypeOK, RunRecord
    <3>. QED BY <2>1, <2>2, <3>1 DEF Evolves
  <2>. QED BY <2>3, <2>4 DEF LedgerState, LedgerAsked
<1>3. /\ LedgerState' = [r \in Run |-> LedgerState'[r]]
      /\ LedgerState = [r \in Run |-> LedgerState[r]]
  BY DEF LedgerState
<1>4. LedgerAsked \subseteq Run /\ LedgerAsked' \subseteq Run
  BY DEF LedgerAsked
<1>5. CASE \A q \in Run : ~(Born(q) /\ Active(q))
  <2>1. LedgerState' = LedgerState
    BY <1>2, <1>3, <1>5
  <2>2. LedgerAsked' = LedgerAsked
    BY <1>2, <1>4, <1>5
  <2>. QED BY <2>1, <2>2 DEF Ledger!ledger
<1>6. ASSUME NEW r \in Run, Born(r), Active(r)
      PROVE  [Ledger!Next]_(Ledger!ledger)
  <2>1. \A q \in Run : q # r => ~(Born(q) /\ Active(q))
    BY <1>6 DEF OneLiveRun, Born
  <2>2. \A q \in Run \ {r} : LedgerState'[q] = LedgerState[q]
                             /\ (q \in LedgerAsked' <=> q \in LedgerAsked)
    BY <1>2, <2>1
  <2>3. LedgerState' = [LedgerState EXCEPT ![r] = LedgerState'[r]]
    BY <1>3, <2>2
  <2>4. LedgerState[r] = "live"
    BY <1>6, LedgerUnfold
  <2>5. LedgerAsked' \in {LedgerAsked, LedgerAsked \cup {r}}
    <3>1. r \in LedgerAsked => r \in LedgerAsked'
      <4>1. run[r].stopping \in -1 .. StopLimit
        BY DEF TypeOK, RunRecord
      <4>. QED BY <1>1, <4>1 DEF LedgerAsked, Evolves
    <3>. QED BY <1>4, <2>2, <3>1
  <2>6. LedgerState'[r] = "live" \/ LedgerState'[r] \in Ledger!Verdict
    <3>1. run'[r].phase # "none"
      BY <1>1, <1>6 DEF Evolves, Born
    <3>. QED BY <3>1 DEF LedgerState, Ledger!Verdict, IsTerminal, Terminal
  <2>7. CASE LedgerState'[r] = "live"
    <3>1. LedgerState' = LedgerState
      BY <1>3, <2>3, <2>4, <2>7
    <3>. QED BY <2>4, <2>5, <3>1 DEF Ledger!Next, Ledger!Ask, Ledger!ledger
  <2>8. CASE LedgerState'[r] \in Ledger!Verdict
    <3>1. Ledger!Conclude(r)
      BY <2>3, <2>4, <2>5, <2>8 DEF Ledger!Conclude
    <3>. QED BY <3>1 DEF Ledger!Next
  <2>. QED BY <2>6, <2>7, <2>8
<1>. QED BY <1>5, <1>6

LEMMA AcceptRefines ==
    ASSUME TypeOK, TypeOK', LedgerInv, NEW p \in Proc, StartAccepted(p)
    PROVE  Ledger!Next
<1>. USE DEF LedgerInv
<1>1. PICK r \in Run :
        /\ run[r].phase = "none" /\ \A q \in Run : q < r => run[q].phase # "none"
        /\ run' = [run EXCEPT ![r] = NewRun]
  BY DEF StartAccepted
<1>2. \A q \in Run : Born(q) => ~Active(q)
  <2>. SUFFICES ASSUME NEW q \in Run, Born(q), Active(q) PROVE FALSE
    OBVIOUS
  <2>1. q = active
    BY DEF OneLiveRun, Born
  <2>2. q # NoRun
    BY DEF Run
  <2>. QED BY <2>1, <2>2 DEF StartAccepted
<1>3. /\ LedgerState[r] = "unborn"
      /\ \A q \in Run : LedgerState[q] # "live" /\ (q < r => LedgerState[q] # "unborn")
  BY <1>1, <1>2, LedgerUnfold DEF Born
<1>4. LedgerState' = [LedgerState EXCEPT ![r] = "live"]
  BY <1>1, NewRunShape DEF LedgerState, TypeOK
<1>5. LedgerAsked' = LedgerAsked
  <2>1. run'[r].stopping = NotStopping /\ run[r].stopping = NotStopping
    BY <1>1, NewRunShape DEF TypeOK, RefersToBorn, Born
  <2>2. \A q \in Run : q # r => run'[q] = run[q]
    BY <1>1 DEF TypeOK
  <2>. QED BY <2>1, <2>2 DEF LedgerAsked
<1>. QED BY <1>3, <1>4, <1>5 DEF Ledger!Next, Ledger!Open

LEMMA InitRefines == Init => Ledger!Init
BY DEF Init, NoRecord, Ledger!Init, LedgerState, LedgerAsked

(***************************************************************************)
(* Runs are opened one at a time and in order, each is concluded once with *)
(* a verdict that never changes, and only a live run can be asked to stop. *)
(***************************************************************************)
THEOREM CoordinatorImplementsLedger == Spec => ImplementsLedger
<1>1. Init => Ledger!Init
  BY InitRefines
<1>2. /\ TypeOK /\ Wired /\ LedgerInv /\ TypeOK' /\ LedgerInv'
      /\ [Next]_vars
      => [Ledger!Next]_(Ledger!ledger)
  <2>. SUFFICES ASSUME TypeOK, Wired, LedgerInv, TypeOK', LedgerInv', [Next]_vars
                PROVE  [Ledger!Next]_(Ledger!ledger)
    OBVIOUS
  <2>1. CASE UNCHANGED vars
    BY <2>1 DEF vars, Ledger!ledger, LedgerState, LedgerAsked
  <2>2. CASE Next
    BY <2>2, StepOrdinary, OrdinaryRefines, AcceptRefines DEF LedgerInv
  <2>. QED BY <2>1, <2>2
<1>. QED BY <1>1, <1>2, TypeCorrect, LedgerInvariant, PTL DEF Spec, ImplementsLedger, Ledger!Spec
-----------------------------------------------------------------------------
(***************************************************************************)
(* Completed verdicts are backed by reports.  A record is backed by a set  *)
(* of reporting agents if every completed roster entry is one of them and  *)
(* a completed verdict has at least one.                                   *)
(***************************************************************************)
Backed(rec, reporters) ==
    /\ \A a \in Agent : rec.participants[a].phase = "completed" => a \in reporters
    /\ rec.phase = "completed" => reporters # {}

WitnessInv ==
    /\ \A r \in Run : Backed(run[r], witness[r]["completed"])
    /\ tick.pc = "completed" => witness[tick.run]["completed"] # {}

LEMMA SetPhaseBacked ==
    ASSUME NEW rec \in RunRecord, NEW phase \in Phase, NEW reporters, Backed(rec, reporters),
           phase = "completed" => reporters # {}
    PROVE  Backed(SetPhase(rec, phase), reporters)
<1>1. CASE IsTerminal(rec.phase)
  BY <1>1 DEF SetPhase
<1>2. CASE ~IsTerminal(rec.phase)
  <2>1. SetPhase(rec, phase).phase = phase /\ SetPhase(rec, phase).participants = rec.participants
    BY <1>2 DEF SetPhase, RunRecord
  <2>. QED BY <2>1 DEF Backed
<1>. QED BY <1>1, <1>2

LEMMA SetThresholdsBacked ==
    ASSUME NEW rec \in RunRecord, NEW failing \in BOOLEAN, NEW reporters, Backed(rec, reporters)
    PROVE  Backed(SetThresholds(rec, failing), reporters)
BY DEF SetThresholds, RunRecord, Backed

LEMMA FinishBacked ==
    ASSUME NEW rec \in RunRecord, NEW phase \in Phase, NEW failing \in BOOLEAN,
           NEW reporters, Backed(rec, reporters), phase = "completed" => reporters # {}
    PROVE  Backed(Finish(rec, phase, failing), reporters)
BY SetThresholdsType, SetThresholdsBacked, SetPhaseBacked DEF Finish

LEMMA AgedBacked ==
    ASSUME NEW rec \in RunRecord, NEW reporters, Backed(rec, reporters)
    PROVE  Backed(Aged(rec), reporters)
<1>1. Aged(rec).phase = rec.phase /\ Aged(rec).participants = rec.participants
  BY DEF Aged, RunRecord
<1>. QED BY <1>1 DEF Backed

LEMMA UpdateBacked ==
    ASSUME NEW rec \in RunRecord, NEW a \in Agent, NEW phase \in Phase,
           NEW old, NEW new, old \subseteq new, Backed(rec, old),
           phase = "completed" => a \in new
    PROVE  Backed(UpdateParticipant(rec, a, phase), new)
<1>1. /\ UpdateParticipant(rec, a, phase).phase = rec.phase
      /\ UpdateParticipant(rec, a, phase).participants[a].phase = phase
      /\ \A b \in Agent : b # a =>
           UpdateParticipant(rec, a, phase).participants[b] = rec.participants[b]
  BY DEF UpdateParticipant, RunRecord, Participant
<1>. QED BY <1>1 DEF Backed

LEMMA RosterBacked ==
    ASSUME NEW rec \in RunRecord, NEW w \in Worker, NEW reporters, Backed(rec, reporters)
    PROVE  Backed(SetParticipants(rec, Roster(w)), reporters)
<1>1. \A a \in Agent : Roster(w)[a].phase # "completed"
  BY DEF Roster, Absent
<1>2. /\ SetParticipants(rec, Roster(w)).phase = rec.phase
      /\ SetParticipants(rec, Roster(w)).participants = Roster(w)
  BY DEF SetParticipants, RunRecord
<1>. QED BY <1>1, <1>2 DEF Backed

LEMMA NewRunBacked ==
    ASSUME NEW reporters
    PROVE  Backed(NewRun, reporters)
BY DEF NewRun, NoRecord, Absent, Backed

LEMMA DecisionBacked ==
    ASSUME NEW rec \in RunRecord, NEW reporters, Backed(rec, reporters),
           Decision(rec.participants) = "completed"
    PROVE  reporters # {}
<1>. DEFINE members == {a \in Agent : rec.participants[a].phase # "absent"}
            failures == {a \in members : rec.participants[a].phase = "failed"}
<1>1. /\ \A a \in members : rec.participants[a].phase \in {"completed", "failed"}
      /\ failures # members
  BY DEF Decision
<1>2. PICK a \in members : rec.participants[a].phase # "failed"
  BY <1>1
<1>. QED BY <1>1, <1>2 DEF Backed

LEMMA OneRunBacked ==
    ASSUME TypeOK, WitnessInv, NEW r \in Run, NEW rec \in RunRecord,
           Backed(rec, witness[r]["completed"]),
           run' = [run EXCEPT ![r] = rec], UNCHANGED <<tick, witness>>
    PROVE  WitnessInv'
BY DEF TypeOK, WitnessInv

LEMMA StepBacked ==
    ASSUME TypeOK, Wired, WitnessInv, Next
    PROVE  WitnessInv'
<1>. USE DEF WitnessInv
<1>r. \A r \in Run : run[r] \in RunRecord
  BY DEF TypeOK
<1>u. ASSUME UNCHANGED <<run, tick, witness>> PROVE WitnessInv'
  BY <1>u
<1>1. ASSUME NEW p \in Proc, StartAccepted(p) PROVE WitnessInv'
  <2>1. PICK r \in Run : run' = [run EXCEPT ![r] = NewRun] /\ UNCHANGED <<tick, witness>>
    BY <1>1 DEF StartAccepted
  <2>. QED BY <2>1, NewRunBacked DEF TypeOK
<1>2. ASSUME NEW p \in Proc, RecordRoster(p) PROVE WitnessInv'
  <2>1. proc[p].run \in Run /\ proc[p] \in Worker
    BY <1>2 DEF RecordRoster, Wired, TypeOK
  <2>. QED BY <1>2, <2>1, <1>r, SetParticipantsType, RosterBacked, OneRunBacked DEF RecordRoster
<1>3. ASSUME NEW p \in Proc, AnnounceStarting(p) PROVE WitnessInv'
  <2>1. proc[p].run \in Run
    BY <1>3 DEF AnnounceStarting, Wired
  <2>. QED BY <1>3, <2>1, <1>r, SetPhaseType, SetPhaseBacked, OneRunBacked
       DEF AnnounceStarting, Phase
<1>4. ASSUME NEW p \in Proc,
             StartRefused(p) \/ RebalanceBegin(p) \/ RebalanceSnapshot(p) \/ SendNext(p)
             \/ BroadcastStop(p) \/ StartRun(p)
      PROVE  WitnessInv'
  <2>1. UNCHANGED <<run, tick, witness>>
    BY <1>4 DEF StartRefused, RebalanceBegin, RebalanceSnapshot, SendNext, BroadcastStop,
                StartRun, runVars
  <2>. QED BY <1>u, <2>1
<1>5. ASSUME NEW p \in Slot, NEW r \in Run, StopRun(p, r) PROVE WitnessInv'
  BY <1>5, <1>r, SetPhaseType, SetPhaseBacked, OneRunBacked DEF StopRun, Phase
<1>6. ASSUME NEW p \in Slot, NEW r \in Run, NEW v \in ScaledPeaks, ScaleRun(p, r, v)
      PROVE  WitnessInv'
  <2>. DEFINE new == [run[r] EXCEPT !.peakVUs = v]
  <2>1. new \in RunRecord
    BY <1>r, LoadAssumption DEF LoadAssumption, RunRecord
  <2>2. new.phase = run[r].phase /\ new.participants = run[r].participants
    BY <1>r DEF RunRecord
  <2>3. run' = [run EXCEPT ![r] = new] /\ UNCHANGED <<tick, witness>>
    BY <1>6 DEF ScaleRun
  <2>. HIDE DEF new
  <2>4. Backed(new, witness[r]["completed"])
    BY <2>2 DEF Backed
  <2>. QED BY <2>1, <2>3, <2>4, OneRunBacked
<1>7. ASSUME NEW lost \in SUBSET Agent, TickExpire(lost) PROVE WitnessInv'
  <2>1. \A r \in Run : Backed(run'[r], witness[r]["completed"])
    BY <1>7, <1>r, AgedBacked DEF TickExpire
  <2>2. tick'.pc = "expired" /\ witness' = witness
    BY <1>7 DEF TickExpire, NotTicking
  <2>. QED BY <2>1, <2>2
<1>8. ASSUME NEW verdict \in Outcomes, TickJudge(verdict) PROVE WitnessInv'
  <2>1. CASE active = NoRun
    BY <1>8, <2>1 DEF TickJudge, NotTicking
  <2>2. CASE active # NoRun
    <3>. DEFINE seen == SetThresholds(run[active], verdict # "pass")
                new == IF verdict = "abort" /\ Active(active) THEN SetPhase(seen, "stopping")
                       ELSE seen
    <3>1. active \in Run /\ run[active] \in RunRecord
      BY <2>2 DEF TypeOK
    <3>2. seen \in RunRecord /\ Backed(seen, witness[active]["completed"])
      BY <3>1, SetThresholdsType, SetThresholdsBacked
    <3>3. run' = [run EXCEPT ![active] = new] /\ tick'.pc = "judged" /\ witness' = witness
      BY <1>8, <2>2 DEF TickJudge
    <3>. HIDE DEF seen
    <3>4. Backed(new, witness[active]["completed"])
      BY <3>2, SetPhaseBacked DEF Phase
    <3>. HIDE DEF new
    <3>. QED BY <3>1, <3>3, <3>4 DEF TypeOK
  <2>. QED BY <2>1, <2>2
<1>9. CASE TickCheck
  <2>1. tick.run \in Run /\ tick \in Ticker /\ UNCHANGED <<run, witness>>
    BY <1>9 DEF TickCheck, Wired, TypeOK, runVars
  <2>2. CASE Active(tick.run)
    <3>1. tick'.pc = Decision(run[tick.run].participants) /\ tick'.run = tick.run
      BY <1>9, <2>1, <2>2 DEF TickCheck, Ticker
    <3>. QED BY <1>r, <2>1, <3>1, DecisionBacked
  <2>3. CASE ~Active(tick.run)
    <3>1. tick'.pc = "idle"
      BY <1>9, <2>3 DEF TickCheck, NotTicking
    <3>. QED BY <2>1, <3>1
  <2>. QED BY <2>2, <2>3
<1>10. ASSUME NEW last \in Outcomes, TickConclude(last) PROVE WitnessInv'
  <2>. DEFINE rec == run[tick.run]
              reporters == witness[tick.run]["completed"]
              failing == last # "pass"
              done == IF tick.pc = "waiting" THEN rec ELSE Finish(rec, tick.pc, failing)
              new == CheckStopTimeout(done, failing)
  <2>1. tick.run \in Run /\ rec \in RunRecord /\ Backed(rec, reporters)
    BY <1>10, <1>r DEF TickConclude, Wired
  <2>2. done \in RunRecord /\ Backed(done, reporters)
    BY <1>10, <2>1, FinishType, FinishBacked, ZenonT(40) DEF TickConclude, Phase, Terminal
  <2>3. run' = [run EXCEPT ![tick.run] = new] /\ tick'.pc = "idle" /\ witness' = witness
    BY <1>10 DEF TickConclude, NotTicking
  <2>4. failing \in BOOLEAN
    OBVIOUS
  <2>. HIDE DEF done, failing
  <2>5. Backed(new, reporters)
    BY <2>2, <2>4, FinishBacked DEF CheckStopTimeout, Phase, Terminal
  <2>. HIDE DEF new
  <2>. QED BY <2>1, <2>3, <2>5 DEF TypeOK
<1>11. ASSUME NEW a \in Agent, NEW restarted \in BOOLEAN, Join(a, restarted) PROVE WitnessInv'
  BY <1>11, <1>u DEF Join, runVars
<1>12. ASSUME NEW a \in Agent, Leave(a) PROVE WitnessInv'
  BY <1>12, <1>u DEF Leave, runVars
<1>13. ASSUME NEW a \in Agent, OnRunStatus(a) PROVE WitnessInv'
  <2>. DEFINE r == Head(up[a]).run
              phase == Head(up[a]).phase
              seen == UpdateParticipant(run[r], a, phase)
              new == IF phase = "running" THEN SetPhase(seen, "running") ELSE seen
              W == witness'[r]["completed"]
  <2>1. r \in Run /\ phase \in {"running", "completed", "failed"} /\ phase \in Phase
    BY <1>13, TailType DEF OnRunStatus, Report, Phase, Terminal
  <2>2. CASE r \notin Retained
    BY <1>13, <1>u, <2>2 DEF OnRunStatus
  <2>3. CASE r \in Retained
    <3>1. /\ run' = [run EXCEPT ![r] = new]
          /\ witness' = IF phase = "running" THEN witness
                        ELSE [witness EXCEPT ![r][phase] = witness[r][phase] \cup {a}]
          /\ tick' = tick
      BY <1>13, <2>3, Zenon DEF OnRunStatus
    <3>. HIDE DEF phase, r
    <3>2. /\ \A q \in Run : witness[q]["completed"] \subseteq witness'[q]["completed"]
          /\ phase = "completed" => a \in witness'[r]["completed"]
      <4>1. CASE phase = "running"
        BY <3>1, <4>1
      <4>2. CASE phase # "running"
        <5>1. witness' = [witness EXCEPT ![r][phase] = witness[r][phase] \cup {a}]
          BY <3>1, <4>2
        <5>2. phase \in {"completed", "failed"}
          BY <2>1, <4>2
        <5>. QED BY <2>1, <5>1, <5>2 DEF TypeOK
      <4>. QED BY <4>1, <4>2
    <3>3. seen \in RunRecord /\ Backed(seen, W)
      BY <1>r, <2>1, <3>2, UpdateParticipantType, UpdateBacked
    <3>. HIDE DEF seen, W
    <3>4. Backed(new, W)
      BY <3>3, SetPhaseBacked DEF Phase
    <3>. HIDE DEF new
    <3>5. \A q \in Run : Backed(run'[q], witness'[q]["completed"])
      <4>. SUFFICES ASSUME NEW q \in Run PROVE Backed(run'[q], witness'[q]["completed"])
        OBVIOUS
      <4>1. CASE q = r
        BY <2>1, <3>1, <3>4, <4>1 DEF TypeOK, W
      <4>2. CASE q # r
        <5>1. run'[q] = run[q]
          BY <2>1, <3>1, <4>2 DEF TypeOK
        <5>. QED BY <3>2, <5>1 DEF Backed
      <4>. QED BY <4>1, <4>2
    <3>6. tick'.pc = "completed" => witness'[tick'.run]["completed"] # {}
      BY <3>1, <3>2 DEF Wired
    <3>. QED BY <3>5, <3>6
  <2>. QED BY <2>2, <2>3
<1>14. ASSUME NEW a \in Agent, AgentStep(a) PROVE WitnessInv'
  <2>1. UNCHANGED <<run, tick, witness>>
    BY <1>14 DEF AgentStep, AgentStartRun, AgentSetQuota, AgentStopRun, AgentRunning,
                 AgentStopped, AgentFinished, runVars
  <2>. QED BY <1>u, <2>1
<1>15. CASE Tick
  BY <1>7, <1>8, <1>9, <1>10, <1>15, Zenon DEF Tick
<1>16. ASSUME NEW p \in Proc, Goroutine(p) PROVE WitnessInv'
  BY <1>1, <1>2, <1>3, <1>4, <1>16, Zenon DEF Goroutine
<1>. QED BY <1>4, <1>5, <1>6, <1>11, <1>12, <1>13, <1>14, <1>15, <1>16, Zenon DEF Next, Proc

(***************************************************************************)
(* A run is recorded as completed only if some agent's completed report    *)
(* for it was handled, however the roster was rewritten in between.        *)
(***************************************************************************)
THEOREM CompletedIsWitnessed == Spec => []CompletedWitnessed
<1>1. Init => WitnessInv
  BY DEF Init, NoRecord, Absent, NotTicking, WitnessInv, Backed
<1>2. TypeOK /\ Wired /\ WitnessInv /\ [Next]_vars => WitnessInv'
  <2>. SUFFICES ASSUME TypeOK, Wired, WitnessInv, [Next]_vars PROVE WitnessInv'
    OBVIOUS
  <2>1. CASE UNCHANGED vars
    BY <2>1 DEF vars, WitnessInv
  <2>2. CASE Next
    BY <2>2, StepBacked
  <2>. QED BY <2>1, <2>2
<1>3. WitnessInv => CompletedWitnessed
  BY DEF WitnessInv, Backed, CompletedWitnessed
<1>. QED BY <1>1, <1>2, <1>3, TypeCorrect, PTL DEF Spec
-----------------------------------------------------------------------------
(***************************************************************************)
(* Events are only ever spent.  A budget that is untouched after a step    *)
(* was untouched before it, and the step did not draw on it.               *)
(***************************************************************************)
Frugal == \A e \in Event : budget[e] <= Budget[e]

LEMMA Spent ==
    ASSUME TypeOK, Frugal, NEW e \in Event, Spend(e)
    PROVE  /\ Frugal' /\ budget'[e] # Budget[e]
           /\ \A f \in Event : budget'[f] = Budget[f] => budget[f] = Budget[f]
<1>1. \A f \in Event : budget[f] \in Nat /\ Budget[f] \in Nat /\ budget[f] <= Budget[f]
  BY BudgetAssumption DEF BudgetAssumption, TypeOK, Frugal
<1>2. budget'[e] = budget[e] - 1 /\ \A f \in Event : f # e => budget'[f] = budget[f]
  BY DEF Spend, TypeOK
<1>. QED BY <1>1, <1>2 DEF Frugal

LEMMA StepFrugal ==
    ASSUME TypeOK, Frugal, [Next]_vars
    PROVE  /\ Frugal'
           /\ \A f \in Event : budget'[f] = Budget[f] => budget[f] = Budget[f]
<1>u. ASSUME budget' = budget
      PROVE  Frugal' /\ \A f \in Event : budget'[f] = Budget[f] => budget[f] = Budget[f]
  BY <1>u DEF Frugal
<1>s. ASSUME NEW e \in Event, Spend(e)
      PROVE  Frugal' /\ \A f \in Event : budget'[f] = Budget[f] => budget[f] = Budget[f]
  BY <1>s, Spent
<1>1. \/ budget' = budget
      \/ \E e \in Event : Spend(e)
  <2>1. CASE UNCHANGED vars
    BY <2>1, SMTT(30) DEF vars
  <2>2. ASSUME NEW p \in Proc, Goroutine(p) \/ StartRun(p) PROVE budget' = budget
    BY <2>2 DEF Goroutine, StartRefused, StartAccepted, RebalanceBegin, RebalanceSnapshot,
                SendNext, RecordRoster, AnnounceStarting, BroadcastStop, StartRun
  <2>3. ASSUME NEW p \in Slot, NEW r \in Run, StopRun(p, r) PROVE Spend("stops")
    BY <2>3 DEF StopRun
  <2>4. ASSUME NEW p \in Slot, NEW r \in Run, NEW v \in ScaledPeaks, ScaleRun(p, r, v)
        PROVE  Spend("scales")
    BY <2>4 DEF ScaleRun
  <2>5. CASE Tick
    BY <2>5 DEF Tick, TickExpire, TickJudge, TickCheck, TickConclude, Event
  <2>6. ASSUME NEW a \in Agent, NEW restarted \in BOOLEAN, Join(a, restarted)
        PROVE  \E e \in Event : Spend(e)
    BY <2>6 DEF Join, Event
  <2>7. ASSUME NEW a \in Agent, Leave(a) PROVE Spend("leaves")
    BY <2>7, SMTT(30) DEF Leave
  <2>8. ASSUME NEW a \in Agent, OnRunStatus(a) \/ AgentStep(a) PROVE budget' = budget
    BY <2>8 DEF OnRunStatus, AgentStep, AgentStartRun, AgentSetQuota, AgentStopRun,
                AgentRunning, AgentStopped, AgentFinished
  <2>9. "stops" \in Event /\ "scales" \in Event /\ "leaves" \in Event
    BY DEF Event
  <2>. QED BY <2>1, <2>2, <2>3, <2>4, <2>5, <2>6, <2>7, <2>8, <2>9, Zenon DEF Next, Proc
<1>. QED BY <1>1, <1>u, <1>s, Zenon

(***************************************************************************)
(* What the elements of a queue of commands share, a command appended to   *)
(* it must share too, and the head and the tail keep.                      *)
(***************************************************************************)
LEMMA QueueAppend ==
    ASSUME NEW S, NEW q \in Seq(S), NEW x \in S, NEW i \in DOMAIN Append(q, x)
    PROVE  Append(q, x)[i] = x \/ (i \in DOMAIN q /\ Append(q, x)[i] = q[i])
BY AppendProperties

LEMMA QueueTail ==
    ASSUME NEW S, NEW q \in Seq(S), q # <<>>
    PROVE  /\ 1 \in DOMAIN q /\ Head(q) = q[1]
           /\ \A i \in DOMAIN Tail(q) : i + 1 \in DOMAIN q /\ Tail(q)[i] = q[i + 1]
BY HeadTailProperties

(***************************************************************************)
(* As long as nobody joins, leaves or expires, every list of agents that a *)
(* goroutine has read, that a command names and that an agent works from   *)
(* is the fleet, so the agents agree on who is at which index.             *)
(***************************************************************************)
Ours(cmd, a) == cmd.kind # "StopRun" => a \in Fleet /\ cmd.claim.among = Fleet

FleetOpen ==
    \A a \in Agent : IF a \in Fleet THEN session[a].st = "open" /\ session[a].epoch > 0
                     ELSE session[a].st = "gone" /\ session[a].epoch = 0

ViewsAreFleet ==
    \A p \in Proc : proc[p].pc \in {"lock", "snapshot", "send", "record"} =>
        InView(proc[p].view) = Fleet

QueuesAreFleet == \A a \in Agent : \A i \in DOMAIN down[a] : Ours(down[a][i], a)

WorkIsFleet ==
    \A a \in Agent : agent[a].st # "none" =>
        a \in Fleet /\ agent[a].block = Fleet /\ agent[a].claim.among = Fleet

FleetInv == FleetOpen /\ ViewsAreFleet /\ QueuesAreFleet /\ WorkIsFleet

LEMMA HealthyIsFleet ==
    ASSUME TypeOK, FleetOpen
    PROVE  Healthy = Fleet /\ InView(View) = Fleet
<1>1. \A a \in Agent : session[a].st = "open" <=> a \in Fleet
  BY DEF FleetOpen
<1>2. Healthy = Fleet
  BY <1>1, AgentAssumption DEF AgentAssumption, Healthy
<1>3. \A a \in Agent : View[a] # 0 <=> a \in Fleet
  BY <1>2 DEF View, FleetOpen
<1>4. InView(View) = Fleet
  BY <1>3, AgentAssumption DEF AgentAssumption, InView
<1>. QED BY <1>2, <1>4

(***************************************************************************)
(* Goroutines only learn of the fleet; a rebalance spawned by an event has *)
(* read nothing yet.                                                       *)
(***************************************************************************)
LEMMA FreshViews ==
    ASSUME TypeOK, ViewsAreFleet, NEW p \in Proc, NEW w,
           w.pc \in {"lock", "snapshot", "send", "record"} => InView(w.view) = Fleet,
           proc' = [proc EXCEPT ![p] = w]
    PROVE  ViewsAreFleet'
<1>1. \A q \in Proc : proc'[q] = IF q = p THEN w ELSE proc[q]
  BY DEF TypeOK
<1>. QED BY <1>1 DEF ViewsAreFleet, InView

LEMMA SpawnViews ==
    ASSUME TypeOK, ViewsAreFleet, SpawnRebalance
    PROVE  ViewsAreFleet'
<1>1. CASE proc' = proc
  BY <1>1 DEF ViewsAreFleet, InView
<1>2. ASSUME NEW p \in Slot, proc' = [proc EXCEPT ![p] = Rebalancer(active)]
      PROVE  ViewsAreFleet'
  <2>1. Rebalancer(active).pc = "begin"
    BY DEF Rebalancer, Idle
  <2>. QED BY <1>2, <2>1, FreshViews DEF Proc
<1>. QED BY <1>1, <1>2 DEF SpawnRebalance

LEMMA GoroutineKeepsFleet ==
    ASSUME TypeOK, Wired, FleetInv, NEW p \in Proc, Goroutine(p) \/ StartRun(p)
    PROVE  FleetInv'
<1>w. proc[p] \in Worker /\ \A a \in Agent : down[a] \in Seq(Command)
  BY DEF TypeOK
<1>i. Idle.pc = "idle"
  BY DEF Idle
<1>f. Healthy = Fleet /\ InView(View) = Fleet
  BY HealthyIsFleet DEF FleetInv
<1>u. ASSUME UNCHANGED <<session, down, agent>>, ViewsAreFleet' PROVE FleetInv'
  BY <1>u DEF FleetInv, FleetOpen, QueuesAreFleet, WorkIsFleet
<1>v. ASSUME NEW w, proc' = [proc EXCEPT ![p] = w],
             w.pc \in {"lock", "snapshot", "send", "record"} => InView(w.view) = Fleet
      PROVE  ViewsAreFleet'
  BY <1>v, FreshViews DEF FleetInv
<1>1. CASE StartRun(p)
  <2>. DEFINE w == [Idle EXCEPT !.pc = "lock", !.op = "start", !.view = View]
  <2>1. w.view = View
    BY DEF Idle
  <2>2. proc' = [proc EXCEPT ![p] = w] /\ UNCHANGED <<session, down, agent>>
    BY <1>1 DEF StartRun, netVars
  <2>. QED BY <1>u, <1>v, <1>f, <2>1, <2>2
<1>2. CASE StartRefused(p) \/ AnnounceStarting(p)
  <2>1. proc' = [proc EXCEPT ![p] = Idle] /\ UNCHANGED <<session, down, agent>>
    BY <1>2 DEF StartRefused, AnnounceStarting, netVars
  <2>. QED BY <1>u, <1>v, <1>i, <2>1
<1>3. CASE StartAccepted(p)
  <2>1. PICK r \in Run : proc' = [proc EXCEPT ![p] =
                            [proc[p] EXCEPT !.pc = "send", !.run = r, !.peak = Peak,
                                            !.todo = InView(proc[p].view)]]
    BY <1>3 DEF StartAccepted
  <2>2. proc[p].pc = "lock" /\ UNCHANGED <<session, down, agent>>
    BY <1>3 DEF StartAccepted, netVars
  <2>3. [proc[p] EXCEPT !.pc = "send", !.run = r, !.peak = Peak,
                        !.todo = InView(proc[p].view)].view = proc[p].view
    BY <1>w DEF Worker
  <2>4. InView(proc[p].view) = Fleet
    BY <2>2 DEF FleetInv, ViewsAreFleet
  <2>. QED BY <1>u, <1>v, <2>1, <2>2, <2>3, <2>4
<1>4. CASE RebalanceBegin(p)
  <2>. DEFINE w == IF Active(proc[p].run) /\ Healthy # {}
                   THEN [proc[p] EXCEPT !.pc = "snapshot", !.view = View] ELSE Idle
  <2>1. proc' = [proc EXCEPT ![p] = w] /\ UNCHANGED <<session, down, agent>>
    BY <1>4 DEF RebalanceBegin, netVars
  <2>2. w.pc = "idle" \/ w.view = View
    BY <1>w, <1>i DEF Worker
  <2>. QED BY <1>u, <1>v, <1>f, <2>1, <2>2
<1>5. CASE RebalanceSnapshot(p)
  <2>. DEFINE rec == run[proc[p].run]
              w == [proc[p] EXCEPT !.pc = "send", !.peak = rec.peakVUs,
                                   !.known = {a \in Agent : rec.participants[a].dispatched},
                                   !.todo = InView(proc[p].view)]
  <2>1. proc' = [proc EXCEPT ![p] = w] /\ proc[p].pc = "snapshot"
    BY <1>5, Zenon DEF RebalanceSnapshot
  <2>2. UNCHANGED <<session, down, agent>>
    BY <1>5 DEF RebalanceSnapshot, netVars
  <2>3. w.view = proc[p].view
    BY <1>w DEF Worker
  <2>4. InView(proc[p].view) = Fleet
    BY <2>1 DEF FleetInv, ViewsAreFleet
  <2>. QED BY <1>u, <1>v, <2>1, <2>2, <2>3, <2>4
<1>6. CASE SendNext(p)
  <2>. DEFINE a == Min(proc[p].todo)
              ok == CanSend(a, proc[p].view[a])
              cmd == CommandFor(proc[p], a)
              w == [proc[p] EXCEPT !.pc = IF proc[p].todo = {a} THEN "record" ELSE "send",
                                   !.todo = proc[p].todo \ {a},
                                   !.failed = IF ok THEN proc[p].failed
                                              ELSE proc[p].failed \cup {a}]
  <2>1. /\ proc[p].pc = "send" /\ proc[p].todo # {}
        /\ down' = IF ok THEN [down EXCEPT ![a] = Append(down[a], cmd)] ELSE down
        /\ proc' = [proc EXCEPT ![p] = w]
        /\ UNCHANGED <<runVars, session, up, tick, agent, budget, witness>>
    BY <1>6, Zenon DEF SendNext
  <2>2. a \in Agent
    BY <1>w, <2>1, MinIn, AgentAssumption DEF AgentAssumption, Worker
  <2>3. InView(proc[p].view) = Fleet
    BY <2>1 DEF FleetInv, ViewsAreFleet
  <2>4. cmd \in Command
    BY <1>w, <2>1, CommandForType DEF Wired
  <2>. HIDE DEF a
  <2>5. w.view = proc[p].view
    BY <1>w, SMTT(30) DEF Worker
  <2>6. ViewsAreFleet'
    BY <1>v, <2>1, <2>3, <2>5
  <2>7. ok => Ours(cmd, a)
    <3>1. ok => session[a].st = "open"
      BY DEF CanSend
    <3>2. ok => a \in Fleet
      BY <2>2, <3>1 DEF FleetInv, FleetOpen
    <3>3. cmd.claim.among = Fleet
      BY <2>3 DEF CommandFor
    <3>. QED BY <3>2, <3>3 DEF Ours
  <2>. HIDE DEF cmd, ok, w
  <2>8. QueuesAreFleet'
    <3>1. CASE ok
      <4>. SUFFICES ASSUME NEW b \in Agent, NEW i \in DOMAIN down'[b]
                    PROVE  Ours(down'[b][i], b)
        BY DEF QueuesAreFleet
      <4>1. CASE b # a
        <5>1. down'[b] = down[b]
          BY <2>1, <2>2, <3>1, <4>1 DEF TypeOK
        <5>. QED BY <5>1 DEF FleetInv, QueuesAreFleet
      <4>2. CASE b = a
        <5>1. down'[a] = Append(down[a], cmd)
          BY <2>1, <2>2, <3>1 DEF TypeOK
        <5>2. down'[a][i] = cmd \/ (i \in DOMAIN down[a] /\ down'[a][i] = down[a][i])
          BY <1>w, <2>2, <2>4, <4>2, <5>1, QueueAppend
        <5>. QED BY <2>2, <2>7, <3>1, <4>2, <5>2 DEF FleetInv, QueuesAreFleet
      <4>. QED BY <4>1, <4>2
    <3>2. CASE ~ok
      BY <2>1, <3>2 DEF FleetInv, QueuesAreFleet
    <3>. QED BY <3>1, <3>2
  <2>. QED BY <2>1, <2>6, <2>8 DEF FleetInv, FleetOpen, WorkIsFleet
<1>7. CASE RecordRoster(p)
  <2>. DEFINE w == IF proc[p].op = "start" THEN [proc[p] EXCEPT !.pc = "starting"] ELSE Idle
  <2>1. proc' = [proc EXCEPT ![p] = w] /\ UNCHANGED <<session, down, agent>>
    BY <1>7 DEF RecordRoster, netVars
  <2>2. w.pc \in {"idle", "starting"}
    BY <1>w, <1>i DEF Worker
  <2>. QED BY <1>u, <1>v, <2>1, <2>2
<1>8. CASE BroadcastStop(p)
  <2>. DEFINE cmd == StopCommand(proc[p].run)
  <2>1. /\ proc' = [proc EXCEPT ![p] = Idle] /\ UNCHANGED <<session, agent>>
        /\ \A b \in Agent : down'[b] = down[b] \/ down'[b] = Append(down[b], cmd)
    BY <1>8 DEF BroadcastStop, Broadcast
  <2>2. cmd \in Command
    BY <1>8, StopCommandType DEF BroadcastStop, Wired
  <2>3. ViewsAreFleet'
    BY <1>v, <1>i, <2>1
  <2>4. \A b : Ours(cmd, b)
    BY DEF Ours, StopCommand
  <2>. HIDE DEF cmd
  <2>5. QueuesAreFleet'
    <3>. SUFFICES ASSUME NEW b \in Agent, NEW i \in DOMAIN down'[b]
                  PROVE  Ours(down'[b][i], b)
      BY DEF QueuesAreFleet
    <3>1. down'[b][i] = cmd \/ (i \in DOMAIN down[b] /\ down'[b][i] = down[b][i])
      BY <1>w, <2>1, <2>2, QueueAppend, SMTT(30)
    <3>. QED BY <2>4, <3>1 DEF FleetInv, QueuesAreFleet
  <2>. QED BY <2>1, <2>3, <2>5 DEF FleetInv, FleetOpen, WorkIsFleet
<1>. QED BY <1>1, <1>2, <1>3, <1>4, <1>5, <1>6, <1>7, <1>8 DEF Goroutine

LEMMA AgentKeepsFleet ==
    ASSUME TypeOK, FleetInv, NEW a \in Agent, AgentStep(a)
    PROVE  FleetInv'
<1>u. UNCHANGED <<session, proc>>
  BY DEF AgentStep, AgentStartRun, AgentSetQuota, AgentStopRun, AgentRunning, AgentStopped,
         AgentFinished
<1>t. agent[a] \in AgentState /\ down[a] \in Seq(Command)
  BY DEF TypeOK
<1>n. NoWork.st = "none"
  BY DEF NoWork
<1>w. ASSUME NEW st,
             agent' = [agent EXCEPT ![a] = st],
             st.st # "none" => a \in Fleet /\ st.block = Fleet /\ st.claim.among = Fleet
      PROVE  WorkIsFleet'
  <2>1. \A b \in Agent : agent'[b] = IF b = a THEN st ELSE agent[b]
    BY <1>w DEF TypeOK
  <2>. QED BY <1>w, <2>1 DEF FleetInv, WorkIsFleet
<1>q. ASSUME down[a] # <<>>, down' = [down EXCEPT ![a] = Tail(down[a])]
      PROVE  QueuesAreFleet' /\ Ours(Head(down[a]), a)
  <2>1. \A b \in Agent : b # a => down'[b] = down[b]
    BY <1>q DEF TypeOK
  <2>2. down'[a] = Tail(down[a])
    BY <1>q DEF TypeOK
  <2>3. /\ 1 \in DOMAIN down[a] /\ Head(down[a]) = down[a][1]
        /\ \A i \in DOMAIN down'[a] : i + 1 \in DOMAIN down[a] /\ down'[a][i] = down[a][i + 1]
    BY <1>t, <1>q, <2>2, QueueTail, ZenonT(40)
  <2>. QED BY <2>1, <2>3 DEF FleetInv, QueuesAreFleet
<1>d. ASSUME down' = down PROVE QueuesAreFleet'
  BY <1>d DEF FleetInv, QueuesAreFleet
<1>k. ASSUME WorkIsFleet', QueuesAreFleet' PROVE FleetInv'
  BY <1>u, <1>k DEF FleetInv, FleetOpen, ViewsAreFleet, InView
<1>m. ASSUME NEW st \in {"none", "spawning", "running", "done", "stopping"},
             agent[a].st # "none", agent' = [agent EXCEPT ![a].st = st]
      PROVE  WorkIsFleet'
  <2>. DEFINE new == [agent[a] EXCEPT !.st = st]
  <2>1. new.block = agent[a].block /\ new.claim = agent[a].claim
    BY <1>t DEF AgentState
  <2>2. agent' = [agent EXCEPT ![a] = new]
    BY <1>m
  <2>. HIDE DEF new
  <2>. QED BY <1>m, <1>w, <2>1, <2>2 DEF FleetInv, WorkIsFleet
<1>1. CASE AgentStartRun(a)
  <2>. DEFINE cmd == Head(down[a])
              new == [run |-> cmd.run, claim |-> cmd.claim, block |-> cmd.claim.among,
                      st |-> "spawning"]
  <2>1. /\ down[a] # <<>> /\ cmd.kind = "StartRun"
        /\ agent' = [agent EXCEPT ![a] = new]
        /\ down' = [down EXCEPT ![a] = Tail(down[a])]
    BY <1>1 DEF AgentStartRun
  <2>2. QueuesAreFleet' /\ Ours(cmd, a)
    BY <1>q, <2>1
  <2>3. a \in Fleet /\ new.block = Fleet /\ new.claim.among = Fleet
    BY <2>1, <2>2 DEF Ours
  <2>. HIDE DEF new
  <2>. QED BY <1>k, <1>w, <2>1, <2>2, <2>3
<1>2. CASE AgentSetQuota(a)
  <2>. DEFINE cmd == Head(down[a])
              new == [agent[a] EXCEPT !.claim = cmd.claim]
  <2>1. /\ down[a] # <<>> /\ cmd.kind = "SetQuota"
        /\ agent' = agent \/ agent' = [agent EXCEPT ![a] = new]
        /\ down' = [down EXCEPT ![a] = Tail(down[a])]
    BY <1>2 DEF AgentSetQuota
  <2>2. QueuesAreFleet' /\ Ours(cmd, a)
    BY <1>q, <2>1
  <2>3. new.block = agent[a].block /\ new.claim = cmd.claim /\ new.st = agent[a].st
    BY <1>t DEF AgentState
  <2>4. a \in Fleet /\ new.claim.among = Fleet
    BY <2>1, <2>2, <2>3 DEF Ours
  <2>. HIDE DEF new
  <2>5. WorkIsFleet'
    <3>1. CASE agent' = agent
      BY <3>1 DEF FleetInv, WorkIsFleet
    <3>2. CASE agent' = [agent EXCEPT ![a] = new]
      BY <1>w, <2>3, <2>4, <3>2 DEF FleetInv, WorkIsFleet
    <3>. QED BY <2>1, <3>1, <3>2
  <2>. QED BY <1>k, <2>2, <2>5
<1>3. CASE AgentStopRun(a)
  <2>1. /\ down[a] # <<>> /\ down' = [down EXCEPT ![a] = Tail(down[a])]
        /\ \/ agent' = agent
           \/ agent' = [agent EXCEPT ![a] = NoWork]
           \/ agent[a].st # "none" /\ agent' = [agent EXCEPT ![a].st = "stopping"]
    BY <1>3 DEF AgentStopRun
  <2>2. WorkIsFleet'
    <3>1. CASE agent' = agent
      BY <3>1 DEF FleetInv, WorkIsFleet
    <3>. QED BY <1>w, <1>m, <1>n, <2>1, <3>1
  <2>. QED BY <1>k, <1>q, <2>1, <2>2
<1>4. CASE AgentRunning(a) \/ \E phase \in {"completed", "failed"} : AgentFinished(a, phase)
  <2>1. /\ agent[a].st # "none" /\ down' = down
        /\ \E st \in {"running", "done"} : agent' = [agent EXCEPT ![a].st = st]
    BY <1>4 DEF AgentRunning, AgentFinished
  <2>. QED BY <1>k, <1>m, <1>d, <2>1
<1>5. CASE AgentStopped(a)
  <2>1. agent' = [agent EXCEPT ![a] = NoWork] /\ down' = down
    BY <1>5 DEF AgentStopped
  <2>. QED BY <1>k, <1>w, <1>n, <1>d, <2>1
<1>. QED BY <1>1, <1>2, <1>3, <1>4, <1>5 DEF AgentStep

LEMMA StepKeepsFleet ==
    ASSUME TypeOK, Wired, Frugal, FleetInv, FleetUnchanged', Next
    PROVE  FleetInv'
<1>u. ASSUME UNCHANGED <<session, down, agent>>, ViewsAreFleet' PROVE FleetInv'
  BY <1>u DEF FleetInv, FleetOpen, QueuesAreFleet, WorkIsFleet
<1>v. ASSUME proc' = proc PROVE ViewsAreFleet'
  BY <1>v DEF FleetInv, ViewsAreFleet, InView
<1>p. ASSUME NEW p \in Proc, NEW w, proc' = [proc EXCEPT ![p] = w], w.pc \in {"begin", "broadcast"}
      PROVE  ViewsAreFleet'
  BY <1>p, FreshViews DEF FleetInv
<1>t. "ticker" \in Proc
  BY DEF Proc
<1>b. \A r : Rebalancer(r).pc = "begin" /\ Stopper(r).pc = "broadcast"
  BY DEF Rebalancer, Stopper, Idle
<1>e. ASSUME NEW e \in {"joins", "leaves", "expiries"}, Spend(e) PROVE FALSE
  BY <1>e, Spent DEF FleetUnchanged, Event
<1>1. ASSUME NEW p \in Slot, NEW r \in Run,
             StopRun(p, r) \/ \E v \in ScaledPeaks : ScaleRun(p, r, v)
      PROVE  FleetInv'
  <2>1. UNCHANGED <<session, down, agent>>
    BY <1>1 DEF StopRun, ScaleRun, netVars
  <2>2. \/ proc' = [proc EXCEPT ![p] = Stopper(r)]
        \/ proc' = [proc EXCEPT ![p] = Rebalancer(r)]
    BY <1>1 DEF StopRun, ScaleRun
  <2>. QED BY <1>u, <1>p, <1>b, <2>1, <2>2 DEF Proc
<1>2. ASSUME NEW lost \in SUBSET {a \in Agent : session[a].st # "gone"}, TickExpire(lost)
      PROVE  FleetInv'
  <2>1. lost \cap Healthy = {}
    BY <1>2, <1>e DEF TickExpire
  <2>2. lost = {}
    BY <2>1 DEF FleetInv, FleetOpen, Healthy
  <2>3. \A a \in Agent : session'[a] = session[a]
    BY <1>2, <2>2 DEF TickExpire
  <2>4. FleetOpen'
    BY <2>3 DEF FleetInv, FleetOpen
  <2>5. proc' = proc /\ UNCHANGED <<down, agent>>
    BY <1>2, <2>2 DEF TickExpire
  <2>. QED BY <1>v, <2>4, <2>5 DEF FleetInv, QueuesAreFleet, WorkIsFleet
<1>3. ASSUME NEW verdict \in Outcomes,
             TickJudge(verdict) \/ TickConclude(verdict) \/ TickCheck
      PROVE  FleetInv'
  <2>1. UNCHANGED <<session, down, agent>>
    BY <1>3 DEF TickJudge, TickConclude, TickCheck, netVars
  <2>2. proc' = proc \/ proc' = [proc EXCEPT !["ticker"] = Stopper(active)]
    BY <1>3 DEF TickJudge, TickConclude, TickCheck
  <2>. QED BY <1>u, <1>v, <1>p, <1>b, <1>t, <2>1, <2>2
<1>4. CASE Tick
  <2>1. "pass" \in Outcomes
    BY LoadAssumption DEF LoadAssumption
  <2>. QED BY <1>2, <1>3, <1>4, <2>1, Zenon DEF Tick
<1>5. ASSUME NEW a \in Agent, NEW restarted \in BOOLEAN, Join(a, restarted)
      PROVE  FleetInv'
  <2>1. restarted
    BY <1>5, <1>e DEF Join
  <2>2. /\ session[a].epoch > 0
        /\ session' = [session EXCEPT ![a] = [st |-> "open", epoch |-> session[a].epoch + 1]]
        /\ down' = [down EXCEPT ![a] = <<>>]
        /\ agent' = [agent EXCEPT ![a] = NoWork]
        /\ SpawnRebalance
    BY <1>5, <2>1 DEF Join
  <2>3. a \in Fleet /\ session[a].epoch \in Nat
    BY <2>2 DEF FleetInv, FleetOpen, TypeOK
  <2>4. FleetOpen'
    <3>1. \A b \in Agent : b # a => session'[b] = session[b]
      BY <2>2 DEF TypeOK
    <3>2. session'[a] = [st |-> "open", epoch |-> session[a].epoch + 1]
      BY <2>2 DEF TypeOK
    <3>. QED BY <2>3, <3>1, <3>2 DEF FleetInv, FleetOpen
  <2>5. ViewsAreFleet'
    BY <2>2, SpawnViews DEF FleetInv
  <2>6. QueuesAreFleet'
    <3>1. \A b \in Agent : b # a => down'[b] = down[b]
      BY <2>2 DEF TypeOK
    <3>2. DOMAIN down'[a] = {}
      BY <2>2 DEF TypeOK
    <3>. QED BY <3>1, <3>2 DEF FleetInv, QueuesAreFleet
  <2>7. WorkIsFleet'
    <3>1. \A b \in Agent : b # a => agent'[b] = agent[b]
      BY <2>2 DEF TypeOK
    <3>2. agent'[a].st = "none"
      BY <2>2 DEF TypeOK, NoWork
    <3>. QED BY <3>1, <3>2 DEF FleetInv, WorkIsFleet
  <2>. QED BY <2>4, <2>5, <2>6, <2>7 DEF FleetInv
<1>6. ASSUME NEW a \in Agent, Leave(a) PROVE FleetInv'
  BY <1>6, <1>e DEF Leave
<1>7. ASSUME NEW a \in Agent, OnRunStatus(a) PROVE FleetInv'
  <2>1. UNCHANGED <<session, down, agent, proc>>
    BY <1>7 DEF OnRunStatus
  <2>. QED BY <1>u, <1>v, <2>1
<1>8. ASSUME NEW a \in Agent, AgentStep(a) PROVE FleetInv'
  BY <1>8, AgentKeepsFleet
<1>9. ASSUME NEW p \in Proc, Goroutine(p) \/ StartRun(p) PROVE FleetInv'
  BY <1>9, GoroutineKeepsFleet
<1>. QED BY <1>1, <1>4, <1>5, <1>6, <1>7, <1>8, <1>9, Zenon DEF Next, Proc

LEMMA FixedFleet == Spec => []((FleetUnchanged => FleetInv) /\ Frugal)
<1>1. Init => (FleetUnchanged => FleetInv) /\ Frugal
  <2>. SUFFICES ASSUME Init PROVE FleetInv /\ Frugal
    OBVIOUS
  <2>1. Frugal
    BY BudgetAssumption DEF BudgetAssumption, Init, Frugal
  <2>2. FleetOpen
    BY DEF Init, FleetOpen
  <2>3. ViewsAreFleet
    BY DEF Init, Idle, ViewsAreFleet
  <2>4. QueuesAreFleet
    BY DEF Init, QueuesAreFleet
  <2>5. WorkIsFleet
    BY DEF Init, NoWork, WorkIsFleet
  <2>. QED BY <2>1, <2>2, <2>3, <2>4, <2>5 DEF FleetInv
<1>2. TypeOK /\ Wired /\ (FleetUnchanged => FleetInv) /\ Frugal /\ [Next]_vars
        => ((FleetUnchanged => FleetInv) /\ Frugal)'
  <2>. SUFFICES ASSUME TypeOK, Wired, FleetUnchanged => FleetInv, Frugal, [Next]_vars
                PROVE  (FleetUnchanged' => FleetInv') /\ Frugal'
    OBVIOUS
  <2>1. Frugal' /\ (FleetUnchanged' => FleetUnchanged)
    BY StepFrugal DEF FleetUnchanged, Event
  <2>2. ASSUME FleetUnchanged', UNCHANGED vars PROVE FleetInv'
    BY <2>1, <2>2 DEF vars, FleetInv, FleetOpen, ViewsAreFleet, InView, QueuesAreFleet, WorkIsFleet
  <2>3. ASSUME FleetUnchanged', Next PROVE FleetInv'
    BY <2>1, <2>3, StepKeepsFleet
  <2>. QED BY <2>1, <2>2, <2>3
<1>. QED BY <1>1, <1>2, TypeCorrect, PTL DEF Spec

-----------------------------------------------------------------------------
(***************************************************************************)
(* Arithmetic on the strides: a hundred slices fill a block, and the       *)
(* remainder by the block size is what exceeds the last full block.        *)
(***************************************************************************)
LEMMA SliceBelowBlock ==
    ASSUME NEW m \in Int, m >= 0, m <= 99
    PROVE  m * 100000 >= 0 /\ m * 100000 + 100000 <= 10000000
  BY SMT

LEMMA Scaled ==
    ASSUME NEW i \in Nat, NEW a \in Nat, NEW q \in Int, i = 100 * a + q
    PROVE  i * 100000 = 10000000 * a + q * 100000
  BY SMT

LEMMA RemainderOf ==
    ASSUME NEW x \in Nat, NEW a \in Nat, NEW r \in Int, r >= 0, r < 10000000,
           x = 10000000 * a + r
    PROVE  x % 10000000 = r
  BY SMT

(***************************************************************************)
(* Where a worker's slice begins: a whole number of slices into the block. *)
(***************************************************************************)
LEMMA SliceStart ==
    ASSUME NEW base \in Int, NEW i \in Nat
    PROVE  WorkerBase(base, i) = base + (i % 100) * 100000
<1> DEFINE q == i % 100
           a == i \div 100
<1>1. q \in Int /\ q >= 0 /\ q <= 99 /\ a \in Nat /\ i = 100 * a + q
  BY SMT
<1> HIDE DEF q, a
<1>2. q * 100000 \in Int /\ i * 100000 \in Nat
  BY <1>1, SMT
<1>3. q * 100000 >= 0 /\ q * 100000 < 10000000
  BY <1>1, SliceBelowBlock, SMT
<1>4. i * 100000 = 10000000 * a + q * 100000
  BY <1>1, Scaled, SMT
<1>5. (i * 100000) % 10000000 = q * 100000
  BY <1>1, <1>2, <1>3, <1>4, RemainderOf, SMT
<1>6. WorkerBase(base, i) = base + ((i * 100000) % 10000000)
  BY SMT DEF WorkerBase, PerAgent, PerWorker
<1> QED BY <1>5, <1>6, SMT DEF q

(***************************************************************************)
(* A worker's slice lies inside its agent's block, whatever its index: the *)
(* wrap of WorkerBase never spills into the next agent's range.            *)
(***************************************************************************)
LEMMA SliceInsideBlock ==
    ASSUME NEW base \in Int, NEW k \in Nat
    PROVE  WorkerIds(WorkerBase(base, k)) \subseteq base .. base + PerAgent - 1
<1> DEFINE q == k % 100
<1>1. q \in Int /\ q >= 0 /\ q <= 99
  BY SMT
<1>2. WorkerBase(base, k) = base + q * 100000
  BY SliceStart, SMT
<1> HIDE DEF q
<1>3. q * 100000 >= 0 /\ q * 100000 + 100000 <= 10000000
  BY <1>1, SliceBelowBlock, SMT
<1> QED BY <1>1, <1>2, <1>3, SMT DEF WorkerIds, PerAgent, PerWorker

(***************************************************************************)
(* Ids never collide across agents: two agents with different indexes have *)
(* disjoint blocks, so no two of their workers share an id, however many   *)
(* workers each of them has.                                               *)
(***************************************************************************)
THEOREM AgentsNeverCollide ==
    \A i, j \in Nat : i # j =>
      \A k, l \in Nat :
        WorkerIds(WorkerBase(AgentBase(i), k)) \cap WorkerIds(WorkerBase(AgentBase(j), l)) = {}
<1> TAKE i, j \in Nat
<1> HAVE i # j
<1> TAKE k, l \in Nat
<1>1. AgentBase(i) = i * 10000000 /\ AgentBase(j) = j * 10000000 /\ PerAgent = 10000000
  BY SMT DEF AgentBase, PerAgent, PerWorker
<1>2. AgentBase(i) \in Int /\ AgentBase(j) \in Int
  BY <1>1, SMT
<1>3. /\ WorkerIds(WorkerBase(AgentBase(i), k)) \subseteq AgentBase(i) .. AgentBase(i) + PerAgent - 1
      /\ WorkerIds(WorkerBase(AgentBase(j), l)) \subseteq AgentBase(j) .. AgentBase(j) + PerAgent - 1
  BY <1>2, SliceInsideBlock, SMT
<1>4. ASSUME NEW x \in Int,
             AgentBase(i) <= x, x <= AgentBase(i) + PerAgent - 1,
             AgentBase(j) <= x, x <= AgentBase(j) + PerAgent - 1
      PROVE  FALSE
  BY <1>1, <1>4, SMT
<1> QED BY <1>1, <1>2, <1>3, <1>4, SMT

(***************************************************************************)
(* Within an agent ids do not collide either, up to the hundred workers a  *)
(* block has room for.                                                     *)
(***************************************************************************)
THEOREM WorkersNeverCollide ==
    \A base \in Nat : \A k, l \in 0 .. 99 :
      k # l => WorkerIds(WorkerBase(base, k)) \cap WorkerIds(WorkerBase(base, l)) = {}
<1> SUFFICES ASSUME NEW base \in Nat, NEW k \in 0 .. 99, NEW l \in 0 .. 99, k # l
             PROVE  WorkerIds(WorkerBase(base, k)) \cap WorkerIds(WorkerBase(base, l)) = {}
  BY Zenon
<1>1. ASSUME NEW m \in 0 .. 99 PROVE WorkerBase(base, m) = base + m * 100000
  <2>1. m \in Nat /\ m % 100 = m /\ base \in Int
    BY SMT
  <2> QED BY <2>1, SliceStart, SMT
<1>2. WorkerBase(base, k) = base + k * 100000 /\ WorkerBase(base, l) = base + l * 100000
  BY <1>1, SMT
<1>3. k \in Int /\ l \in Int
  BY SMT
<1>4. ASSUME NEW x \in Int,
             base + k * 100000 <= x, x <= base + k * 100000 + 99999,
             base + l * 100000 <= x, x <= base + l * 100000 + 99999
      PROVE  FALSE
  BY <1>3, <1>4, SMT
<1>5. ASSUME NEW x, x \in WorkerIds(WorkerBase(base, k)), x \in WorkerIds(WorkerBase(base, l))
      PROVE  FALSE
  <2>1. /\ x \in Int
        /\ base + k * 100000 <= x /\ x <= base + k * 100000 + 99999
        /\ base + l * 100000 <= x /\ x <= base + l * 100000 + 99999
    BY <1>2, <1>3, <1>5, SMT DEF WorkerIds, PerWorker
  <2> QED BY <1>4, <2>1
<1> QED BY <1>5, Zenon

(***************************************************************************)
(* Two members of a list are at different indexes of it, and the blocks of *)
(* different indexes differ.                                               *)
(***************************************************************************)
LEMMA IndexesDiffer ==
    ASSUME NEW among \in SUBSET Agent, NEW a \in among, NEW b \in among, a < b
    PROVE  /\ IndexIn(among, a) \in Nat /\ IndexIn(among, b) \in Nat
           /\ IndexIn(among, a) < IndexIn(among, b)
<1>. DEFINE A == {c \in among : c < a}
            B == {c \in among : c < b}
<1>1. among \subseteq Nat /\ IsFiniteSet(among)
  BY AgentAssumption, FS_Subset DEF AgentAssumption
<1>2. A \subseteq B /\ A # B /\ B \subseteq among
  <2>1. \A c \in among : c < a => c < b
    BY <1>1
  <2>2. a \in B /\ a \notin A
    BY <1>1
  <2>. QED BY <2>1, <2>2
<1>3. IsFiniteSet(B)
  BY <1>1, <1>2, FS_Subset
<1>4. IsFiniteSet(A)
  BY <1>2, <1>3, FS_Subset
<1>. HIDE DEF A, B
<1>5. Cardinality(A) \in Nat /\ Cardinality(B) \in Nat
  BY <1>3, <1>4, FS_CardinalityType
<1>6. Cardinality(A) < Cardinality(B)
  <2>1. Cardinality(A) <= Cardinality(B) /\ (Cardinality(A) = Cardinality(B) => A = B)
    BY <1>2, <1>3, FS_Subset
  <2>. QED BY <1>2, <1>5, <2>1
<1>. QED BY <1>5, <1>6 DEF IndexIn, A, B

LEMMA BlocksDiffer ==
    ASSUME NEW among \in SUBSET Agent, NEW a \in among, NEW b \in among, a # b
    PROVE  AgentBase(IndexIn(among, a)) # AgentBase(IndexIn(among, b))
<1>1. a \in Nat /\ b \in Nat
  BY AgentAssumption DEF AgentAssumption
<1>2. \A i, j \in Nat : i # j => AgentBase(i) # AgentBase(j)
  BY DEF AgentBase, PerAgent, PerWorker
<1>3. /\ IndexIn(among, a) \in Nat /\ IndexIn(among, b) \in Nat
      /\ IndexIn(among, a) # IndexIn(among, b)
  <2>1. CASE a < b
    BY <2>1, IndexesDiffer
  <2>2. CASE b < a
    BY <2>2, IndexesDiffer
  <2>. QED BY <1>1, <2>1, <2>2
<1>. QED BY <1>2, <1>3

(***************************************************************************)
(* dispatch and rebalance never hand two agents of a fixed fleet the same  *)
(* id block, however their goroutines interleave, whichever commands are   *)
(* lost and however often an agent is restarted and started again.         *)
(***************************************************************************)
THEOREM TheIdBlocksAreDisjoint == Spec => []IdBlocksDisjointIfFixed
<1>1. (FleetUnchanged => FleetInv) /\ Frugal => IdBlocksDisjointIfFixed
  <2>. SUFFICES ASSUME FleetInv PROVE IdBlocksDisjoint
    BY DEF IdBlocksDisjointIfFixed
  <2>. SUFFICES ASSUME NEW r \in Run, NEW a \in Executing(r), NEW b \in Executing(r), a # b
                PROVE  AgentBase(IndexIn(agent[a].block, a)) # AgentBase(IndexIn(agent[b].block, b))
    BY DEF IdBlocksDisjoint
  <2>1. \A c \in Executing(r) : c \in Fleet /\ agent[c].block = Fleet
    BY DEF Executing, FleetInv, WorkIsFleet
  <2>2. Fleet \in SUBSET Agent
    BY AgentAssumption DEF AgentAssumption
  <2>. QED BY <2>1, <2>2, BlocksDiffer
<1>. QED BY <1>1, FixedFleet, PTL
=============================================================================
