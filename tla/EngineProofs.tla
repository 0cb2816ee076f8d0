---------------------------- MODULE EngineProofs ----------------------------
(***************************************************************************)
(* Proofs about module Engine, for any policies, reports, messages and     *)
(* bounds, and whether or not goroutines outlive Func.                     *)
(***************************************************************************)
EXTENDS EngineProps, TLAPS, SequenceTheorems

USE TextsAssumption, PoliciesAssumption, ReportsAssumption, MessagesAssumption,
    StragglersAssumption

(* The type of the variables that time and signals change ...              *)
SignalType ==
  /\ now \in Nat
  /\ lastActivityAt \in Nat /\ lastProgressAt \in Nat
  /\ statusMsg \in Texts /\ progress \in Report /\ series \in Series
  /\ units \in Seq(UnitState)

(* ... of the monitor's ...                                                *)
VerdictType ==
  /\ timedOut \in BOOLEAN /\ kind \in TimeKinds \union {"none"}
  /\ timeoutUnit \in Nat /\ detectedAt \in Nat
  /\ monitor \in {"unborn", "check", "select", "exited"}

(* ... and of the goroutine's that called Run.                             *)
RunType ==
  /\ policy \in Policies
  /\ parentDone \in BOOLEAN /\ ctxDone \in BOOLEAN
  /\ state \in {"running", "finished"}
  /\ run \in {"new", "func", "stop", "join", "commit", "classify", "done"}
  /\ fnErr \in {"none", "nil", "error", "probe"}
  /\ finishNow \in Nat
  /\ result \in [status: Statuses \union {"unset"},
                 kind: TimeKinds \union {"none", "probe"},
                 timeoutUnit: Nat, snapshot: SnapshotType]

LEMMA TypeParts == TypeOK <=> SignalType /\ VerdictType /\ RunType
  BY DEF TypeOK, SignalType, VerdictType, RunType

(* What evaluateLocked may return.                                         *)
LEMMA VerdictsMeaning ==
  ASSUME TypeOK, NEW v \in Verdicts
  PROVE  /\ v[1] \in TimeKinds
         /\ v[1] = "unit" => v[2] \in OverdueUnits
         /\ v[1] # "unit" => v[2] = 0
         /\ v[1] = "hard" => Exceeded(policy.hard, 0)
         /\ v[1] # "hard" => ~Exceeded(policy.hard, 0)
         /\ v[1] \in {"stall", "idle"} => OverdueUnits = {}
         /\ v[1] = "stall" => Exceeded(policy.stall, lastProgressAt)
         /\ v[1] = "idle" => /\ ~Exceeded(policy.stall, lastProgressAt)
                             /\ Exceeded(policy.idle, lastActivityAt)
<1> DEFINE H == Exceeded(policy.hard, 0)
           U == OverdueUnits
           S == Exceeded(policy.stall, lastProgressAt)
           I == Exceeded(policy.idle, lastActivityAt)
<1>1. Verdicts = CASE H -> {<<"hard", 0>>}
                   [] ~H /\ U # {} -> {"unit"} \X U
                   [] ~H /\ U = {} /\ S -> {<<"stall", 0>>}
                   [] ~H /\ U = {} /\ ~S /\ I -> {<<"idle", 0>>}
                   [] OTHER -> {}
  BY DEF Verdicts
<1> HIDE DEF H, U, S, I
<1>2. CASE H
  <2>1. v = <<"hard", 0>>
    BY <1>1, <1>2
  <2> QED
    BY <2>1, <1>2 DEF TimeKinds, H
<1>3. CASE ~H /\ U # {}
  <2>1. v \in {"unit"} \X U
    BY <1>1, <1>3
  <2>2. v[1] = "unit" /\ v[2] \in U
    BY <2>1
  <2> QED
    BY <2>2, <1>3 DEF TimeKinds, H, U
<1>4. CASE ~H /\ U = {} /\ S
  <2>1. v = <<"stall", 0>>
    BY <1>1, <1>4
  <2> QED
    BY <2>1, <1>4 DEF TimeKinds, H, U, S
<1>5. CASE ~H /\ U = {} /\ ~S /\ I
  <2>1. v = <<"idle", 0>>
    BY <1>1, <1>5
  <2> QED
    BY <2>1, <1>5 DEF TimeKinds, H, U, S, I
<1>6. CASE ~H /\ U = {} /\ ~S /\ ~I
  BY <1>1, <1>6
<1> QED
  BY <1>2, <1>3, <1>4, <1>5, <1>6

LEMMA UnitSnapshotsType ==
  ASSUME TypeOK, NEW t \in Nat
  PROVE  UnitSnapshots(t) \in Seq(UnitSnapshot)
<1>1. units \in Seq(UnitState)
  BY DEF TypeOK
<1>2. Len(units) \in Nat /\ DOMAIN units = 1 .. Len(units)
  BY <1>1
<1>3. ASSUME NEW id \in 1 .. Len(units)
      PROVE  [elapsed |-> t - units[id].startedAt,
              active |-> ~units[id].ended] \in UnitSnapshot
  <2>1. units[id] \in UnitState
    BY <1>1, <1>2
  <2>2. units[id].startedAt \in Nat
    BY <2>1 DEF UnitState
  <2>3. t - units[id].startedAt \in Int
    BY <2>2
  <2>4. (~units[id].ended) \in BOOLEAN
    OBVIOUS
  <2> QED
    BY <2>3, <2>4 DEF UnitSnapshot
<1>4. UnitSnapshots(t) \in [1 .. Len(units) -> UnitSnapshot]
  BY <1>2, <1>3 DEF UnitSnapshots
<1> QED
  BY <1>2, <1>4

LEMMA SnapshotTyped ==
  ASSUME TypeOK, NEW t \in Nat
  PROVE  Snapshot(t) \in SnapshotType
  BY UnitSnapshotsType DEF TypeOK, Snapshot, SnapshotType
-----------------------------------------------------------------------------
LEMMA EmptyTyped ==
  /\ NoReport \in Report
  /\ EmptySeries \in Series
  /\ NoSnapshot \in SnapshotType
<1>2. NoReport \in Report
  BY DEF NoReport, Report
<1>3. EmptySeries \in Series
  BY DEF EmptySeries, Series
<1>4. <<>> \in Seq(UnitSnapshot)
  OBVIOUS
<1>5. NoSnapshot \in SnapshotType
  BY <1>2, <1>4 DEF NoSnapshot, SnapshotType
<1> QED
  BY <1>2, <1>3, <1>5

LEMMA InitTyped == Init => TypeOK
<1> SUFFICES ASSUME Init PROVE TypeOK
  OBVIOUS
<1>1. NoSnapshot \in SnapshotType
  BY EmptyTyped
<1>2. NoResult \in [status: Statuses \union {"unset"},
                    kind: TimeKinds \union {"none", "probe"},
                    timeoutUnit: Nat, snapshot: SnapshotType]
  BY <1>1 DEF NoResult
<1>3. SignalType
  BY EmptyTyped DEF Init, SignalType
<1>4. VerdictType
  BY DEF Init, VerdictType
<1>5. RunType
  BY <1>2 DEF Init, RunType
<1> QED
  BY <1>3, <1>4, <1>5, TypeParts

LEMMA SignalTyped == TypeOK /\ Signal => TypeOK'
<1> SUFFICES ASSUME TypeOK, Signal PROVE TypeOK'
  OBVIOUS
<1> USE DEF TypeOK, ctxVars, verdictVars, runVars
<1>1. CASE Heartbeat
  BY <1>1 DEF Heartbeat
<1>2. ASSUME NEW message \in Messages, Status(message) PROVE TypeOK'
  BY <1>2 DEF Status
<1>3. ASSUME NEW p \in Reports, Progress(p) PROVE TypeOK'
  <2>1. p \in Report /\ NextSeries(p) \in Series
    <3>1. p \in Report
      OBVIOUS
    <3>2. CASE Quantitative(p)
      BY <3>1, <3>2 DEF NextSeries, Report, Series
    <3>3. CASE ~Quantitative(p)
      BY <3>1, <3>3, EmptyTyped DEF NextSeries, Report, Series
    <3> QED
      BY <3>1, <3>2, <3>3
  <2>2. SignalType'
    BY <1>3, <2>1 DEF Progress, SignalType
  <2>3. (VerdictType /\ RunType)'
    BY <1>3 DEF Progress, VerdictType, RunType
  <2> QED
    BY <2>2, <2>3 DEF SignalType, VerdictType, RunType
<1>4. CASE BeginUnit
  <2>1. [startedAt |-> now, ended |-> FALSE] \in UnitState
    BY DEF UnitState
  <2> QED
    BY <1>4, <2>1 DEF BeginUnit, signalVars
<1>5. ASSUME NEW id \in DOMAIN units, EndUnit(id) PROVE TypeOK'
  <2> DEFINE ended == [units[id] EXCEPT !.ended = TRUE]
  <2>1. units' \in Seq(UnitState)
    <3>1. units \in Seq(UnitState) /\ id \in 1 .. Len(units)
      OBVIOUS
    <3>2. units[id] \in UnitState
      BY <3>1
    <3>3. ended \in UnitState
      BY <3>2 DEF UnitState
    <3>4. units' = [units EXCEPT ![id] = ended]
      BY <1>5, Zenon DEF EndUnit
    <3> QED
      BY <3>1, <3>3, <3>4, ExceptSeq
  <2> QED
    BY <1>5, <2>1 DEF EndUnit, signalVars
<1> QED
  BY <1>1, <1>2, <1>3, <1>4, <1>5 DEF Signal

LEMMA MonitorTyped == TypeOK /\ Monitor => TypeOK'
<1> SUFFICES ASSUME TypeOK, Monitor PROVE TypeOK'
  OBVIOUS
<1> USE DEF TypeOK, ctxVars, verdictVars, signalVars, runVars
<1>1. CASE MonitorTimeout
  <2>1. PICK v \in Verdicts : kind' = v[1] /\ timeoutUnit' = v[2]
    BY <1>1 DEF MonitorTimeout
  <2>2. kind' \in TimeKinds /\ timeoutUnit' \in Nat
    <3>1. v[1] = "unit" => v[2] \in DOMAIN units
      BY VerdictsMeaning DEF OverdueUnits
    <3> QED
      BY <2>1, <3>1, VerdictsMeaning
  <2> QED
    BY <1>1, <2>2 DEF MonitorTimeout
<1>2. CASE MonitorPass
  BY <1>2 DEF MonitorPass
<1>3. CASE MonitorTick
  BY <1>3 DEF MonitorTick
<1>4. CASE MonitorExit
  BY <1>4 DEF MonitorExit
<1> QED
  BY <1>1, <1>2, <1>3, <1>4 DEF Monitor

LEMMA FinalTyped ==
  ASSUME TypeOK
  PROVE  /\ FinalStatus \in Statuses \ {"internal_error"}
         /\ FinalKind \in TimeKinds \union {"none", "probe"}
<1>1. FinalStatus \in Statuses \ {"internal_error"}
  BY DEF FinalStatus, Statuses
<1>2. FinalKind \in TimeKinds \union {"none", "probe"}
  BY DEF FinalKind, TypeOK
<1> QED
  BY <1>1, <1>2

LEMMA FinishTyped == TypeOK /\ Finish => TypeOK'
<1> SUFFICES ASSUME TypeOK, Finish PROVE TypeOK'
  OBVIOUS
<1> USE DEF TypeOK, ctxVars, verdictVars, signalVars
<1>1. CASE StopMonitor
  BY <1>1 DEF StopMonitor
<1>2. CASE JoinMonitor
  BY <1>2 DEF JoinMonitor
<1>3. CASE CommitFinish
  <2>1. Snapshot(finishNow) \in SnapshotType
    BY SnapshotTyped
  <2>2. result' \in [status: Statuses \union {"unset"},
                     kind: TimeKinds \union {"none", "probe"},
                     timeoutUnit: Nat, snapshot: SnapshotType]
    BY <1>3, <2>1 DEF CommitFinish, NoResult
  <2> QED
    BY <1>3, <2>2 DEF CommitFinish
<1>4. CASE ClassifyResult
  <2>1. result' \in [status: Statuses \union {"unset"},
                     kind: TimeKinds \union {"none", "probe"},
                     timeoutUnit: Nat, snapshot: SnapshotType]
    BY <1>4, FinalTyped DEF ClassifyResult
  <2> QED
    BY <1>4, <2>1 DEF ClassifyResult
<1> QED
  BY <1>1, <1>2, <1>3, <1>4 DEF Finish

LEMMA TypeInductive == TypeOK /\ [Next]_vars => TypeOK'
<1> SUFFICES ASSUME TypeOK, [Next]_vars PROVE TypeOK'
  OBVIOUS
<1> USE DEF ctxVars, verdictVars, signalVars, runVars
<1>1. CASE RejectRun
  <2>1. result' \in [status: Statuses \union {"unset"},
                     kind: TimeKinds \union {"none", "probe"},
                     timeoutUnit: Nat, snapshot: SnapshotType]
    BY <1>1, EmptyTyped DEF RejectRun, NoResult, Statuses
  <2> QED
    BY <1>1, <2>1 DEF RejectRun, TypeOK
<1>2. CASE StartRun
  BY <1>2 DEF StartRun, TypeOK
<1>3. ASSUME NEW err \in {"nil", "error", "probe"}, FuncReturns(err)
      PROVE  TypeOK'
  BY <1>3 DEF FuncReturns, TypeOK
<1>4. CASE Tick
  BY <1>4 DEF Tick, TypeOK
<1>5. CASE CancelParent
  BY <1>5 DEF CancelParent, TypeOK
<1>6. CASE PropagateCancel
  BY <1>6 DEF PropagateCancel, TypeOK
<1>7. CASE UNCHANGED vars
  BY <1>7 DEF vars, TypeOK
<1> QED
  BY <1>1, <1>2, <1>3, <1>4, <1>5, <1>6, <1>7, SignalTyped, MonitorTyped,
     FinishTyped DEF Next, Returned

(* Every variable keeps its type, for all policies, reports and bounds.    *)
THEOREM TypeCorrect == Spec => []TypeOK
  BY InitTyped, TypeInductive, PTL DEF Spec
-----------------------------------------------------------------------------
(* The inductive invariant.  What the properties say of a verdict or a     *)
(* result depends on where the two goroutines are: no verdict comes after  *)
(* the state is finished, because the monitor has exited by then.          *)
PhaseInv ==
  /\ monitor = "unborn" <=> run = "new" \/ result.status = "internal_error"
  /\ run \in {"commit", "classify", "done"} =>
       monitor \in {"exited", "unborn"}
  /\ state = "finished" <=>
       run = "classify" \/ (run = "done" /\ result.status # "internal_error")
  /\ run = "done" <=> result.status # "unset"
  /\ timedOut => monitor = "exited"
  /\ ~timedOut => kind = "none" /\ timeoutUnit = 0

(* What CommitFinish copied stays as it was copied.                        *)
CommitInv ==
  state = "finished" =>
    /\ result.timeoutUnit = timeoutUnit
    /\ result.snapshot.statusMsg = statusMsg
    /\ result.snapshot.progress = progress

ClassifyInv ==
  result.status \in Statuses \ {"internal_error"} =>
    /\ result.status = "timeout" <=> timedOut
    /\ timedOut => result.kind = kind
    /\ ~timedOut => result.kind \notin TimeKinds

(* Nothing is dated in the future.                                         *)
PastInv ==
  /\ ProgressIsActivity
  /\ timedOut => detectedAt <= now

RunInv == PhaseInv /\ CommitInv /\ ClassifyInv /\ ContextDoneForCause

VerdictInv == TimeoutJustified /\ PriorityRespected

IInv == TypeOK /\ RunInv /\ PastInv /\ VerdictInv

LEMMA InitIInv == Init => IInv
<1> SUFFICES ASSUME Init PROVE IInv
  OBVIOUS
<1>1. RunInv
  BY DEF Init, RunInv, PhaseInv, CommitInv, ClassifyInv, NoResult,
         ContextDoneForCause, Statuses
<1>2. PastInv
  BY DEF Init, PastInv, ProgressIsActivity
<1>3. VerdictInv
  BY DEF Init, VerdictInv, TimeoutJustified, PriorityRespected
<1> QED
  BY <1>1, <1>2, <1>3, InitTyped DEF IInv

LEMMA SignalKeepsIInv == IInv /\ Signal => IInv'
<1> SUFFICES ASSUME IInv, Signal PROVE IInv'
  OBVIOUS
<1> USE DEF ctxVars, verdictVars, runVars, signalVars
<1>1. TypeOK'
  BY SignalTyped DEF IInv
<1>2. RunInv'
  <2> USE DEF IInv, RunInv, PhaseInv, CommitInv, ClassifyInv,
              ContextDoneForCause
  <2>1. CASE Heartbeat
    BY <2>1 DEF Heartbeat
  <2>2. ASSUME NEW message \in Messages, Status(message) PROVE RunInv'
    BY <2>2 DEF Status, Accepting
  <2>3. ASSUME NEW p \in Reports, Progress(p) PROVE RunInv'
    BY <2>3 DEF Progress, Accepting
  <2>4. CASE BeginUnit
    BY <2>4 DEF BeginUnit
  <2>5. ASSUME NEW id \in DOMAIN units, EndUnit(id) PROVE RunInv'
    BY <2>5 DEF EndUnit
  <2> QED
    BY <2>1, <2>2, <2>3, <2>4, <2>5 DEF Signal
<1>3. PastInv'
  <2> USE DEF IInv, TypeOK, PastInv, ProgressIsActivity
  <2>1. CASE Heartbeat
    BY <2>1 DEF Heartbeat
  <2>2. ASSUME NEW message \in Messages, Status(message) PROVE PastInv'
    BY <2>2 DEF Status
  <2>3. ASSUME NEW p \in Reports, Progress(p) PROVE PastInv'
    BY <2>3 DEF Progress
  <2>4. CASE BeginUnit
    BY <2>4 DEF BeginUnit
  <2>5. ASSUME NEW id \in DOMAIN units, EndUnit(id) PROVE PastInv'
    BY <2>5 DEF EndUnit
  <2> QED
    BY <2>1, <2>2, <2>3, <2>4, <2>5 DEF Signal
<1>4. VerdictInv'
  <2> USE DEF VerdictInv, TimeoutJustified, PriorityRespected
  <2>1. CASE Heartbeat \/ (\E message \in Messages : Status(message))
             \/ (\E p \in Reports : Progress(p))
    BY <2>1 DEF Heartbeat, Status, Progress, Accepting
  <2>2. CASE BeginUnit
    <3>1. /\ UNCHANGED <<policy, signalVars, verdictVars>>
          /\ units' = Append(units, [startedAt |-> now, ended |-> FALSE])
      BY <2>2 DEF BeginUnit
    <3>2. units \in Seq(UnitState)
      BY DEF IInv, TypeOK
    <3>3. /\ DOMAIN units \subseteq DOMAIN units'
          /\ \A id \in DOMAIN units : units'[id] = units[id]
          /\ \A id \in DOMAIN units' \ DOMAIN units :
               units'[id].startedAt = now
      BY <3>1, <3>2
    <3>4. timedOut => \A id \in DOMAIN units' \ DOMAIN units :
                        ~(policy.unit > 0
                          /\ detectedAt - units'[id].startedAt >= policy.unit)
      BY <3>3 DEF IInv, TypeOK, PastInv, Policy
    <3>5. TimeoutJustified'
      BY <3>1, <3>3 DEF IInv
    <3>6. PriorityRespected'
      BY <3>1, <3>3, <3>4 DEF IInv
    <3> QED
      BY <3>5, <3>6
  <2>3. ASSUME NEW id \in DOMAIN units, EndUnit(id) PROVE VerdictInv'
    <3>1. /\ UNCHANGED <<policy, signalVars, verdictVars>>
          /\ units' = [units EXCEPT ![id] = [@ EXCEPT !.ended = TRUE]]
      BY <2>3 DEF EndUnit
    <3>2. units \in Seq(UnitState) /\ units[id] \in UnitState
      BY DEF IInv, TypeOK
    <3>3. /\ DOMAIN units' = DOMAIN units
          /\ \A j \in DOMAIN units :
               /\ units'[j].startedAt = units[j].startedAt
               /\ ~units'[j].ended => ~units[j].ended
      BY <3>1, <3>2 DEF UnitState
    <3> QED
      BY <3>1, <3>3 DEF IInv
  <2> QED
    BY <2>1, <2>2, <2>3 DEF Signal
<1> QED
  BY <1>1, <1>2, <1>3, <1>4 DEF IInv

(* The step that gives a verdict: everything the properties say of the     *)
(* verdict is true of the clock and the signals at that moment.            *)
LEMMA TimeoutGivesVerdict ==
  ASSUME IInv, MonitorTimeout
  PROVE  VerdictInv'
<1> USE DEF IInv, TypeOK
<1>1. PICK v \in Verdicts : kind' = v[1] /\ timeoutUnit' = v[2]
  BY DEF MonitorTimeout
<1>2. /\ detectedAt' = now /\ timedOut'
      /\ UNCHANGED <<policy, signalVars, units>>
  BY DEF MonitorTimeout
<1>3. /\ lastActivityAt' = lastActivityAt /\ lastProgressAt' = lastProgressAt
      /\ units' = units /\ policy' = policy
  BY <1>2 DEF signalVars
<1>4. TimeoutJustified'
  <2>1. kind' \in TimeKinds
    BY <1>1, VerdictsMeaning
  <2>2. /\ kind' = "hard" => Exceeded(policy.hard, 0)
        /\ kind' = "stall" => Exceeded(policy.stall, lastProgressAt)
        /\ kind' = "idle" => Exceeded(policy.idle, lastActivityAt)
    BY <1>1, VerdictsMeaning
  <2>3. /\ kind' = "unit" => timeoutUnit' \in OverdueUnits
        /\ kind' # "unit" => timeoutUnit' = 0
    BY <1>1, VerdictsMeaning
  <2>4. \A id \in OverdueUnits :
          /\ id \in DOMAIN units /\ id # 0
          /\ Exceeded(policy.unit, units[id].startedAt)
    BY DEF OverdueUnits
  <2> QED
    BY <1>2, <1>3, <2>1, <2>2, <2>3, <2>4 DEF TimeoutJustified, Exceeded
<1>5. PriorityRespected'
  <2>1. /\ kind' # "hard" => ~Exceeded(policy.hard, 0)
        /\ kind' \in {"stall", "idle"} => OverdueUnits = {}
        /\ kind' = "idle" => ~Exceeded(policy.stall, lastProgressAt)
    BY <1>1, VerdictsMeaning
  <2>2. OverdueUnits = {} =>
          \A id \in DOMAIN units :
            ~units[id].ended => ~Exceeded(policy.unit, units[id].startedAt)
    BY DEF OverdueUnits
  <2> QED
    BY <1>2, <1>3, <2>1, <2>2 DEF PriorityRespected, Exceeded
<1> QED
  BY <1>4, <1>5 DEF VerdictInv

LEMMA MonitorKeepsIInv == IInv /\ Monitor => IInv'
<1> SUFFICES ASSUME IInv, Monitor PROVE IInv'
  OBVIOUS
<1> USE DEF ctxVars, verdictVars, runVars, signalVars
<1>1. TypeOK'
  BY MonitorTyped DEF IInv
<1>2. CASE MonitorTimeout
  <2>1. RunInv'
    <3>1. run \notin {"new", "commit", "classify", "done"}
      BY <1>2 DEF MonitorTimeout, IInv, RunInv, PhaseInv
    <3>2. state = "running" /\ result.status = "unset"
      BY <3>1, <1>2 DEF MonitorTimeout, Accepting, IInv, RunInv, PhaseInv
    <3>3. /\ timedOut' /\ ctxDone' /\ monitor' = "exited"
          /\ UNCHANGED <<state, run, result>>
      BY <1>2 DEF MonitorTimeout
    <3>4. PhaseInv' /\ CommitInv'
      BY <3>1, <3>2, <3>3 DEF PhaseInv, CommitInv
    <3>5. ClassifyInv'
      BY <3>2, <3>3 DEF ClassifyInv, Statuses
    <3>6. ContextDoneForCause'
      BY <3>3 DEF ContextDoneForCause
    <3> QED
      BY <3>4, <3>5, <3>6 DEF RunInv
  <2>2. PastInv'
    BY <1>2 DEF MonitorTimeout, IInv, TypeOK, PastInv, ProgressIsActivity
  <2> QED
    BY <1>1, <1>2, <2>1, <2>2, TimeoutGivesVerdict DEF IInv
<1>3. CASE MonitorPass \/ MonitorTick \/ MonitorExit
  <2>1. RunInv'
    BY <1>3 DEF MonitorPass, MonitorTick, MonitorExit, IInv, RunInv, PhaseInv,
                CommitInv, ClassifyInv, ContextDoneForCause, TypeOK
  <2>2. PastInv' /\ VerdictInv'
    BY <1>3 DEF MonitorPass, MonitorTick, MonitorExit, IInv, PastInv,
                ProgressIsActivity, VerdictInv, TimeoutJustified,
                PriorityRespected
  <2> QED
    BY <1>1, <2>1, <2>2 DEF IInv
<1> QED
  BY <1>2, <1>3 DEF Monitor

LEMMA FinishKeepsIInv == IInv /\ Finish => IInv'
<1> SUFFICES ASSUME IInv, Finish PROVE IInv'
  OBVIOUS
<1> USE DEF ctxVars, verdictVars, signalVars
<1>1. TypeOK'
  BY FinishTyped DEF IInv
<1>2. PastInv' /\ VerdictInv'
  BY DEF Finish, StopMonitor, JoinMonitor, CommitFinish, ClassifyResult, IInv,
         PastInv, ProgressIsActivity, VerdictInv, TimeoutJustified,
         PriorityRespected
<1>3. RunInv'
  <2> USE DEF IInv, RunInv, PhaseInv, CommitInv, ClassifyInv,
              ContextDoneForCause, TypeOK
  <2>1. CASE StopMonitor
    BY <2>1 DEF StopMonitor
  <2>2. CASE JoinMonitor
    BY <2>2 DEF JoinMonitor
  <2>3. CASE CommitFinish
    <3>1. /\ result'.status = "unset" /\ result'.timeoutUnit = timeoutUnit
          /\ result'.snapshot.statusMsg = statusMsg
          /\ result'.snapshot.progress = progress
      BY <2>3 DEF CommitFinish, NoResult, NoSnapshot, Snapshot
    <3> QED
      BY <2>3, <3>1 DEF CommitFinish, Statuses
  <2>4. CASE ClassifyResult
    <3>1. /\ result'.status = FinalStatus /\ result'.kind = FinalKind
          /\ result'.timeoutUnit = result.timeoutUnit
          /\ result'.snapshot = result.snapshot
      BY <2>4 DEF ClassifyResult
    <3>2. FinalStatus \in Statuses \ {"internal_error"}
      BY FinalTyped
    <3>3. /\ FinalStatus = "timeout" <=> timedOut
          /\ timedOut => FinalKind = kind
          /\ ~timedOut => FinalKind \notin TimeKinds
      BY DEF FinalStatus, FinalKind, TimeKinds
    <3> QED
      BY <2>4, <3>1, <3>2, <3>3 DEF ClassifyResult, Statuses
  <2> QED
    BY <2>1, <2>2, <2>3, <2>4 DEF Finish
<1> QED
  BY <1>1, <1>2, <1>3 DEF IInv

LEMMA IInvInductive == IInv /\ [Next]_vars => IInv'
<1> SUFFICES ASSUME IInv, [Next]_vars PROVE IInv'
  OBVIOUS
<1> USE DEF ctxVars, verdictVars, signalVars, runVars
<1>1. TypeOK'
  BY TypeInductive DEF IInv
<1>2. CASE RejectRun
  <2>1. RunInv'
    BY <1>2 DEF RejectRun, NoResult, IInv, RunInv, PhaseInv, CommitInv,
                ClassifyInv, ContextDoneForCause, TypeOK
  <2>2. PastInv' /\ VerdictInv'
    BY <1>2 DEF RejectRun, IInv, PastInv, ProgressIsActivity, VerdictInv,
                TimeoutJustified, PriorityRespected
  <2> QED
    BY <1>1, <2>1, <2>2 DEF IInv
<1>3. ASSUME \/ StartRun
             \/ \E err \in {"nil", "error", "probe"} : FuncReturns(err)
             \/ CancelParent \/ PropagateCancel \/ UNCHANGED vars
      PROVE  IInv'
  <2>1. RunInv'
    <3> USE DEF IInv, RunInv, PhaseInv, CommitInv, ClassifyInv,
                ContextDoneForCause, TypeOK
    <3>1. CASE StartRun
      <4>1. ~timedOut /\ result.status = "unset"
        BY <3>1 DEF StartRun
      <4> QED
        BY <3>1, <4>1 DEF StartRun
    <3>2. CASE \E err \in {"nil", "error", "probe"} : FuncReturns(err)
      BY <3>2 DEF FuncReturns
    <3>3. CASE CancelParent
      BY <3>3 DEF CancelParent
    <3>4. CASE PropagateCancel
      BY <3>4 DEF PropagateCancel
    <3>5. CASE UNCHANGED vars
      BY <3>5 DEF vars
    <3> QED
      BY <1>3, <3>1, <3>2, <3>3, <3>4, <3>5
  <2>2. PastInv' /\ VerdictInv'
    BY <1>3 DEF StartRun, FuncReturns, CancelParent, PropagateCancel, vars,
                IInv, PastInv, ProgressIsActivity, VerdictInv,
                TimeoutJustified, PriorityRespected
  <2> QED
    BY <1>1, <2>1, <2>2 DEF IInv
<1>4. CASE Tick
  <2>1. RunInv' /\ VerdictInv'
    BY <1>4 DEF Tick, IInv, RunInv, PhaseInv, CommitInv, ClassifyInv,
                ContextDoneForCause, VerdictInv, TimeoutJustified,
                PriorityRespected
  <2>2. PastInv'
    BY <1>4 DEF Tick, IInv, TypeOK, PastInv, ProgressIsActivity
  <2> QED
    BY <1>1, <2>1, <2>2 DEF IInv
<1> QED
  BY <1>2, <1>3, <1>4, SignalKeepsIInv, MonitorKeepsIInv, FinishKeepsIInv
  DEF Next, Returned

THEOREM Invariance == Spec => []IInv
  BY InitIInv, IInvInductive, PTL DEF Spec

(* A verdict names a clock that had run past its limit when it was given,  *)
(* and nothing that happens until Run returns makes that untrue.           *)
THEOREM VerdictsJustified == Spec => []TimeoutJustified
<1>1. IInv => TimeoutJustified
  BY DEF IInv, VerdictInv
<1> QED
  BY <1>1, Invariance, PTL

(* A verdict is never given while a policy of higher priority is overdue.  *)
THEOREM PriorityKept == Spec => []PriorityRespected
<1>1. IInv => PriorityRespected
  BY DEF IInv, VerdictInv
<1> QED
  BY <1>1, Invariance, PTL

(* The Result and the verdict agree, though finish reads the verdict twice *)
(* with other goroutines running in between.                               *)
THEOREM ResultsAgree == Spec => []ResultAgrees
<1>1. IInv => ResultAgrees
  <2> SUFFICES ASSUME IInv, result.status \in Statuses \ {"internal_error"}
               PROVE  ResultAgrees
    BY DEF ResultAgrees
  <2>1. state = "finished"
    BY DEF IInv, RunInv, PhaseInv, Statuses
  <2> QED
    BY <2>1 DEF IInv, RunInv, CommitInv, ClassifyInv, ResultAgrees
<1> QED
  BY <1>1, Invariance, PTL

(* The context of the execution is done only for a reason.                 *)
THEOREM ContextHasCause == Spec => []ContextDoneForCause
<1>1. IInv => ContextDoneForCause
  BY DEF IInv, RunInv
<1> QED
  BY <1>1, Invariance, PTL

(* Once a verdict is given or the execution finished, no step of any       *)
(* goroutine changes the verdict or the diagnostics that go with it.       *)
THEOREM VerdictsFinal == Spec => VerdictFinal
<1>1. ASSUME [Next]_vars, timedOut \/ state = "finished"
      PROVE  UNCHANGED <<verdictVars, signalVars>>
  <2> USE <1>1 DEF verdictVars, signalVars, Accepting
  <2>1. CASE Signal
    BY <2>1 DEF Signal, Heartbeat, Status, Progress, BeginUnit, EndUnit
  <2>2. CASE Monitor
    BY <2>2 DEF Monitor, MonitorTimeout, MonitorPass, MonitorTick, MonitorExit
  <2>3. CASE Finish
    BY <2>3 DEF Finish, StopMonitor, JoinMonitor, CommitFinish, ClassifyResult
  <2>4. CASE RejectRun \/ StartRun \/ Tick \/ CancelParent \/ PropagateCancel
             \/ \E err \in {"nil", "error", "probe"} : FuncReturns(err)
    BY <2>4 DEF RejectRun, StartRun, Tick, CancelParent, PropagateCancel,
                FuncReturns
  <2>5. CASE UNCHANGED vars
    BY <2>5 DEF vars
  <2> QED
    BY <2>1, <2>2, <2>3, <2>4, <2>5 DEF Next, Returned
<1>2. [Next]_vars => [timedOut \/ state = "finished"
                        => UNCHANGED <<verdictVars, signalVars>>]_vars
  BY <1>1
<1> QED
  BY <1>2, PTL DEF Spec, VerdictFinal

(* A unit is never blamed after it was ended.                              *)
THEOREM OnlyActiveUnitsBlamed == Spec => BlamedUnitActive
<1> DEFINE Blame == ~timedOut /\ timedOut' /\ kind' = "unit"
                      => ~units[timeoutUnit'].ended
<1>1. ASSUME IInv, Next, ~timedOut, timedOut' PROVE MonitorTimeout
  <2> USE <1>1 DEF verdictVars
  <2>1. CASE Signal
    BY <2>1 DEF Signal, Heartbeat, Status, Progress, BeginUnit, EndUnit
  <2>2. CASE Monitor
    BY <2>2 DEF Monitor, MonitorPass, MonitorTick, MonitorExit
  <2>3. CASE Finish
    BY <2>3 DEF Finish, StopMonitor, JoinMonitor, CommitFinish, ClassifyResult
  <2>4. CASE RejectRun \/ StartRun \/ Tick \/ CancelParent \/ PropagateCancel
             \/ \E err \in {"nil", "error", "probe"} : FuncReturns(err)
    BY <2>4 DEF RejectRun, StartRun, Tick, CancelParent, PropagateCancel,
                FuncReturns
  <2>5. CASE UNCHANGED vars
    BY <2>5 DEF vars
  <2> QED
    BY <2>1, <2>2, <2>3, <2>4, <2>5 DEF Next, Returned
<1>2. ASSUME IInv, MonitorTimeout, kind' = "unit"
      PROVE  ~units[timeoutUnit'].ended
  <2>1. PICK v \in Verdicts : kind' = v[1] /\ timeoutUnit' = v[2]
    BY <1>2 DEF MonitorTimeout
  <2>2. timeoutUnit' \in OverdueUnits
    BY <1>2, <2>1, VerdictsMeaning DEF IInv
  <2> QED
    BY <2>2 DEF OverdueUnits
<1>3. IInv /\ [Next]_vars => [Blame]_vars
  BY <1>1, <1>2
<1> QED
  BY <1>3, Invariance, PTL DEF Spec, BlamedUnitActive

(* The stall clock is never behind the idle clock.                         *)
THEOREM ActivityCoversProgress == Spec => []ProgressIsActivity
<1>1. IInv => ProgressIsActivity
  BY DEF IInv, PastInv
<1> QED
  BY <1>1, Invariance, PTL

(* The report the engine remembers is one it accepted.                     *)
ReportInv ==
  /\ ~Malformed(progress)
  /\ series.hasQuant => series.current >= 0

LEMMA ReportInductive == TypeOK /\ ReportInv /\ [Next]_vars => ReportInv'
<1> SUFFICES ASSUME TypeOK, ReportInv, [Next]_vars PROVE ReportInv'
  OBVIOUS
<1> USE DEF ctxVars, verdictVars, runVars, signalVars
<1>1. CASE UNCHANGED <<progress, series>>
  BY <1>1 DEF ReportInv, Malformed, Quantitative
<1>2. ASSUME NEW p \in Reports, Progress(p) PROVE ReportInv'
  <2>1. p \in Report /\ ~Malformed(p) /\ progress' = p
        /\ series' = NextSeries(p)
    BY <1>2 DEF Progress
  <2>2. series'.hasQuant => series'.current >= 0
    BY <2>1 DEF NextSeries, EmptySeries, Malformed, Report, Quantitative
  <2> QED
    BY <2>1, <2>2 DEF ReportInv, Malformed, Quantitative
<1>3. CASE Signal
  BY <1>1, <1>2, <1>3 DEF Signal, Heartbeat, Status, BeginUnit, EndUnit
<1>4. CASE Monitor \/ Finish
  BY <1>1, <1>4 DEF Monitor, MonitorTimeout, MonitorPass, MonitorTick,
     MonitorExit, Finish, StopMonitor, JoinMonitor, CommitFinish,
     ClassifyResult
<1>5. CASE RejectRun \/ StartRun \/ Tick \/ CancelParent \/ PropagateCancel
             \/ \E err \in {"nil", "error", "probe"} : FuncReturns(err)
  BY <1>1, <1>5 DEF RejectRun, StartRun, Tick, CancelParent, PropagateCancel,
                    FuncReturns
<1>6. CASE UNCHANGED vars
  BY <1>1, <1>6 DEF vars
<1> QED
  BY <1>3, <1>4, <1>5, <1>6 DEF Next, Returned

(* In a series of quantitative reports only a higher count restarts the    *)
(* stall clock, and a malformed report no clock at all: of all the steps   *)
(* only Progress touches the stall clock, and there Meaningful decides.    *)
THEOREM StallClockNeedsAdvance == Spec => StallNeedsAdvance
<1> DEFINE Rises ==
             (/\ series.hasQuant /\ series'.hasQuant
              /\ SameSeries(series, series')
              /\ lastProgressAt' # lastProgressAt)
               => series'.current > series.current /\ series.current >= 0
           Advances ==
             /\ Rises
             /\ lastActivityAt' # lastActivityAt => ~Malformed(progress')
<1>1. ASSUME ReportInv, NEW p \in Reports, Progress(p) PROVE Rises
  <2>1. SUFFICES ASSUME series.hasQuant, series'.hasQuant,
                        SameSeries(series, series'),
                        lastProgressAt' # lastProgressAt
                 PROVE  series'.current > series.current /\ series.current >= 0
    OBVIOUS
  <2>2. series' = NextSeries(p) /\ Meaningful(series, p)
    BY <1>1, <2>1 DEF Progress
  <2>3. Quantitative(p)
    BY <2>1, <2>2 DEF NextSeries, EmptySeries
  <2>4. /\ series'.stage = p.stage /\ series'.total = p.total
        /\ series'.current = p.current
    BY <2>2, <2>3 DEF NextSeries
  <2> QED
    BY <1>1, <2>1, <2>2, <2>3, <2>4 DEF Meaningful, SameSeries, ReportInv
<1>2. ASSUME Next, lastProgressAt' # lastProgressAt
      PROVE  \E p \in Reports : Progress(p)
  <2> USE <1>2 DEF signalVars
  <2>1. CASE Signal
    BY <2>1 DEF Signal, Heartbeat, Status, BeginUnit, EndUnit
  <2>2. CASE Monitor
    BY <2>2 DEF Monitor, MonitorTimeout, MonitorPass, MonitorTick, MonitorExit
  <2>3. CASE Finish
    BY <2>3 DEF Finish, StopMonitor, JoinMonitor, CommitFinish, ClassifyResult
  <2>4. CASE RejectRun \/ StartRun \/ Tick \/ CancelParent \/ PropagateCancel
             \/ \E err \in {"nil", "error", "probe"} : FuncReturns(err)
    BY <2>4 DEF RejectRun, StartRun, Tick, CancelParent, PropagateCancel,
                FuncReturns
  <2>5. CASE UNCHANGED vars
    BY <2>5 DEF vars
  <2> QED
    BY <2>1, <2>2, <2>3, <2>4, <2>5 DEF Next, Returned
<1>3. TypeOK /\ ReportInv /\ [Next]_vars => [Advances]_vars
  BY <1>1, <1>2, ReportInductive DEF ReportInv
<1>4. Init => ReportInv
  BY DEF Init, ReportInv, NoReport, EmptySeries, Malformed, Quantitative
<1> QED
  BY <1>3, <1>4, TypeCorrect, ReportInductive, PTL DEF Spec, StallNeedsAdvance
-----------------------------------------------------------------------------
(* The engine implements module Outcome.                                   *)

LEMMA InitOpens == Init => Promise!Init
  BY DEF Init, Promise!Init, NoResult

LEMMA StepKeepsPromise ==
  ASSUME IInv, [Next]_vars
  PROVE  [Promise!Next]_(Promise!vars)
<1> USE DEF ctxVars, verdictVars, signalVars, runVars, Promise!vars
<1>1. CASE RejectRun
  <2>1. Promise!CloseOpen
    BY <1>1 DEF RejectRun, NoResult, Promise!CloseOpen, IInv, RunInv,
                PhaseInv
  <2> QED
    BY <2>1 DEF Promise!Next
<1>2. CASE MonitorTimeout
  <2>1. run # "done" /\ run' = run /\ ~timedOut /\ timedOut'
    BY <1>2 DEF MonitorTimeout, Accepting, IInv, RunInv, PhaseInv
  <2>2. kind' \in TimeKinds
    BY <1>2, TimeoutGivesVerdict DEF VerdictInv, TimeoutJustified,
       MonitorTimeout
  <2>3. Promise!Expire
    BY <1>2, <2>1, <2>2 DEF MonitorTimeout, Promise!Expire,
       Promise!TimeKinds, TimeKinds
  <2> QED
    BY <2>3 DEF Promise!Next
<1>3. CASE ClassifyResult
  <2>1. /\ run # "done" /\ run' = "done" /\ timedOut' = timedOut
        /\ result'.status = FinalStatus /\ result'.kind = FinalKind
    BY <1>3 DEF ClassifyResult, IInv, TypeOK
  <2>2. CASE timedOut
    <3>1. Promise!CloseExpired
      BY <2>1, <2>2 DEF FinalStatus, FinalKind, Promise!CloseExpired
    <3> QED
      BY <3>1 DEF Promise!Next
  <2>3. CASE ~timedOut
    <3>1. \/ FinalStatus \in {"succeeded", "failed", "canceled"}
             /\ FinalKind = "none"
          \/ FinalStatus = "failed" /\ FinalKind = "probe"
      BY <2>3 DEF FinalStatus, FinalKind
    <3>2. Promise!CloseOpen
      BY <2>1, <2>3, <3>1 DEF Promise!CloseOpen
    <3> QED
      BY <3>2 DEF Promise!Next
  <2> QED
    BY <2>2, <2>3 DEF IInv, TypeOK
<1>4. CASE StopMonitor \/ JoinMonitor
  BY <1>4 DEF StopMonitor, JoinMonitor
<1>5. CASE CommitFinish
  <2>1. result.status = "unset" /\ result'.status = "unset"
    BY <1>5 DEF CommitFinish, NoResult, IInv, RunInv, PhaseInv
  <2> QED
    BY <1>5, <2>1 DEF CommitFinish
<1>6. CASE Signal
  BY <1>6 DEF Signal, Heartbeat, Status, Progress, BeginUnit, EndUnit
<1>7. CASE MonitorPass \/ MonitorTick \/ MonitorExit
  BY <1>7 DEF MonitorPass, MonitorTick, MonitorExit
<1>8. CASE StartRun \/ Tick \/ CancelParent \/ PropagateCancel
           \/ \E err \in {"nil", "error", "probe"} : FuncReturns(err)
  BY <1>8 DEF StartRun, Tick, CancelParent, PropagateCancel, FuncReturns
<1>9. CASE UNCHANGED vars
  BY <1>9 DEF vars
<1> QED
  BY <1>1, <1>2, <1>3, <1>4, <1>5, <1>6, <1>7, <1>8, <1>9
  DEF Next, Returned, Monitor, Finish

(* Every execution gives at most one verdict, and its result closes it     *)
(* with that verdict or, when none was given, with no timeout.             *)
THEOREM EngineImplementsOutcome == Spec => ImplementsOutcome
<1>1. IInv /\ [Next]_vars => [Promise!Next]_(Promise!vars)
  BY StepKeepsPromise
<1> QED
  BY <1>1, InitOpens, Invariance, PTL DEF Spec, ImplementsOutcome, Promise!Spec
-----------------------------------------------------------------------------
(* The snapshot in the Result of a run with a verdict.  The monitor has    *)
(* left before finish reads the clock, so that the time it reads is not    *)
(* before the verdict, and a verdict stops the clocks it may blame.        *)
Shows(snap) ==
  /\ kind = "hard" => snap.elapsed >= policy.hard
  /\ kind = "stall" => snap.stallFor >= policy.stall
  /\ kind = "idle" => snap.idleFor >= policy.idle
  /\ kind = "unit" => /\ timeoutUnit \in DOMAIN snap.units
                      /\ snap.units[timeoutUnit].elapsed >= policy.unit

SnapInv ==
  timedOut =>
    /\ run = "commit" => detectedAt <= finishNow
    /\ state = "finished" => Shows(result.snapshot)

LEMMA UnitsTyped ==
  ASSUME TypeOK
  PROVE  \A id \in DOMAIN units : units[id].startedAt \in Nat
<1>1. units \in Seq(UnitState)
  BY DEF TypeOK
<1>2. \A id \in DOMAIN units : units[id] \in UnitState
  BY <1>1, ElementOfSeq, LenProperties
<1> QED
  BY <1>2 DEF UnitState

LEMMA LaterSnapshotShows ==
  ASSUME TypeOK, TimeoutJustified, timedOut,
         NEW t \in Nat, detectedAt <= t
  PROVE  Shows(Snapshot(t))
<1> DEFINE us == UnitSnapshots(t)
<1>1. /\ lastActivityAt \in Nat /\ lastProgressAt \in Nat /\ detectedAt \in Nat
      /\ policy.hard \in Int /\ policy.stall \in Int
      /\ policy.idle \in Int /\ policy.unit \in Int
  BY DEF TypeOK, Policy
<1>2. kind = "unit" => /\ timeoutUnit \in DOMAIN us
                       /\ us[timeoutUnit].elapsed >= policy.unit
  <2> SUFFICES ASSUME kind = "unit"
               PROVE  /\ timeoutUnit \in DOMAIN us
                      /\ us[timeoutUnit].elapsed >= policy.unit
    OBVIOUS
  <2>1. /\ timeoutUnit \in DOMAIN units
        /\ detectedAt - units[timeoutUnit].startedAt >= policy.unit
    BY DEF TimeoutJustified
  <2>2. units[timeoutUnit].startedAt \in Nat
    BY <2>1, UnitsTyped
  <2>3. /\ timeoutUnit \in DOMAIN us
        /\ us[timeoutUnit].elapsed = t - units[timeoutUnit].startedAt
    BY <2>1 DEF UnitSnapshots
  <2> QED
    BY <1>1, <2>1, <2>2, <2>3
<1>3. /\ kind = "hard" => detectedAt - 0 >= policy.hard
      /\ kind = "stall" => detectedAt - lastProgressAt >= policy.stall
      /\ kind = "idle" => detectedAt - lastActivityAt >= policy.idle
  BY DEF TimeoutJustified
<1> HIDE DEF us
<1>4. Snapshot(t) = [elapsed |-> t, idleFor |-> t - lastActivityAt,
                     stallFor |-> t - lastProgressAt,
                     statusMsg |-> statusMsg, progress |-> progress,
                     units |-> us]
  BY DEF Snapshot, us
<1> QED
  BY <1>1, <1>2, <1>3, <1>4 DEF Shows

LEMMA SnapInductive ==
  ASSUME IInv, SnapInv, [Next]_vars
  PROVE  SnapInv'
<1> USE DEF ctxVars, verdictVars, runVars, signalVars
<1>1. TypeOK /\ PhaseInv /\ TimeoutJustified /\ finishNow \in Nat
  BY DEF IInv, RunInv, VerdictInv, TypeOK
<1>2. CASE UNCHANGED <<run, finishNow, state, result, verdictVars, policy>>
  BY <1>2 DEF SnapInv, Shows
<1>3. CASE run' # "commit" /\ state' = "running"
  BY <1>3 DEF SnapInv
<1>4. CASE MonitorTimeout
  <2>1. run' # "commit" /\ state' = "running"
    BY <1>1, <1>4 DEF MonitorTimeout, Accepting, PhaseInv
  <2> QED
    BY <1>3, <2>1
<1>5. CASE MonitorPass \/ MonitorTick \/ MonitorExit
  BY <1>2, <1>5 DEF MonitorPass, MonitorTick, MonitorExit
<1>6. CASE RejectRun \/ StartRun \/ StopMonitor
             \/ \E err \in {"nil", "error", "probe"} : FuncReturns(err)
  <2>1. run' # "commit" /\ UNCHANGED state
    BY <1>6 DEF RejectRun, StartRun, StopMonitor, FuncReturns
  <2>2. state # "finished" /\ state \in {"running", "finished"}
    BY <1>1, <1>6 DEF RejectRun, StartRun, StopMonitor, FuncReturns, PhaseInv,
                      TypeOK
  <2> QED
    BY <1>3, <2>1, <2>2
<1>7. CASE JoinMonitor
  <2>1. state' # "finished"
    BY <1>1, <1>7 DEF JoinMonitor, PhaseInv
  <2>2. finishNow' = now /\ UNCHANGED <<timedOut, detectedAt>>
    BY <1>7 DEF JoinMonitor
  <2>3. timedOut => detectedAt <= now
    BY DEF IInv, PastInv
  <2> QED
    BY <2>1, <2>2, <2>3 DEF SnapInv
<1>8. CASE CommitFinish
  <2>1. /\ run = "commit" /\ run' # "commit"
        /\ result'.snapshot = Snapshot(finishNow)
        /\ UNCHANGED <<verdictVars, policy>>
    BY <1>8 DEF CommitFinish, NoResult
  <2>2. timedOut => Shows(Snapshot(finishNow))
    BY <1>1, <2>1, LaterSnapshotShows DEF SnapInv
  <2> QED
    BY <2>1, <2>2 DEF SnapInv, Shows
<1>9. CASE ClassifyResult
  <2>1. result'.snapshot = result.snapshot
    BY <1>9 DEF ClassifyResult, IInv, TypeOK
  <2> QED
    BY <1>9, <2>1 DEF ClassifyResult, SnapInv, Shows
<1>10. CASE Signal
  BY <1>2, <1>10 DEF Signal, Heartbeat, Status, Progress, BeginUnit, EndUnit
<1>11. CASE Tick \/ CancelParent \/ PropagateCancel \/ UNCHANGED vars
  BY <1>2, <1>11 DEF Tick, CancelParent, PropagateCancel, vars
<1> QED
  BY <1>4, <1>5, <1>6, <1>7, <1>8, <1>9, <1>10, <1>11
  DEF Next, Finish, Monitor, Returned

(* The snapshot of a timed-out Result shows the blamed clock past its      *)
(* limit, whatever outlives Func and keeps calling.                        *)
THEOREM SnapshotsExplain == Spec => []SnapshotExplains
<1>1. Init => SnapInv
  BY DEF Init, SnapInv
<1>2. IInv /\ SnapInv /\ [Next]_vars => SnapInv'
  BY SnapInductive
<1>3. IInv /\ SnapInv => SnapshotExplains
  <2> SUFFICES ASSUME IInv, SnapInv, result.status = "timeout"
               PROVE  SnapshotExplains
    BY DEF SnapshotExplains
  <2>1. timedOut /\ result.kind = kind
    BY DEF IInv, RunInv, ClassifyInv, Statuses
  <2>2. state = "finished" /\ result.timeoutUnit = timeoutUnit
    BY DEF IInv, RunInv, PhaseInv, CommitInv
  <2> QED
    BY <2>1, <2>2 DEF SnapInv, Shows, SnapshotExplains
<1> QED
  BY <1>1, <1>2, <1>3, Invariance, PTL DEF Spec
-----------------------------------------------------------------------------
(* Liveness, from the fairness of the scheduler.                           *)

(* What the proofs below take from the definitions of the steps, whose     *)
(* ENABLED the prover cannot expand: a goroutine at its place can take its *)
(* step.  Each antecedent is the guard of the step it promises.            *)
GoroutinesCanStep ==
  /\ monitor = "check" => ENABLED <<MonitorTimeout \/ MonitorPass>>_vars
  /\ monitor = "select" => ENABLED <<MonitorTick>>_vars
  /\ monitor = "select" /\ ctxDone => ENABLED <<MonitorExit>>_vars
  /\ (\/ run \in {"stop", "commit", "classify"}
      \/ run = "join" /\ monitor = "exited")
     => ENABLED <<Finish>>_vars

(* The monitor is told to stop before anybody waits for it.                *)
JoinedInv ==
  (monitor = "exited" => ctxDone) /\ (run = "join" => ctxDone)

(* What each goroutine does to where the other is.                         *)
LEMMA MonitorMoves ==
  ASSUME IInv, [Next]_vars, run # "new"
  PROVE  \/ UNCHANGED monitor
         \/ Monitor
<1> USE DEF ctxVars, verdictVars, signalVars, runVars
<1>1. CASE Signal \/ Finish
  BY <1>1 DEF Signal, Heartbeat, Status, Progress, BeginUnit, EndUnit,
     Finish, StopMonitor, JoinMonitor, CommitFinish, ClassifyResult
<1>2. CASE \E err \in {"nil", "error", "probe"} : FuncReturns(err)
  BY <1>2 DEF FuncReturns
<1>3. CASE Tick \/ CancelParent \/ PropagateCancel \/ UNCHANGED vars
  BY <1>3 DEF Tick, CancelParent, PropagateCancel, vars
<1> QED
  BY <1>1, <1>2, <1>3 DEF Next, RejectRun, StartRun, Returned

LEMMA RunMoves ==
  ASSUME IInv, [Next]_vars, run \notin {"new", "func"}
  PROVE  UNCHANGED run \/ Finish
<1> USE DEF ctxVars, verdictVars, signalVars, runVars
<1>1. CASE Signal \/ Monitor
  BY <1>1 DEF Signal, Heartbeat, Status, Progress, BeginUnit, EndUnit,
     Monitor, MonitorTimeout, MonitorPass, MonitorTick, MonitorExit
<1>2. CASE Tick \/ CancelParent \/ PropagateCancel \/ UNCHANGED vars
  BY <1>2 DEF Tick, CancelParent, PropagateCancel, vars
<1> QED
  BY <1>1, <1>2 DEF Next, RejectRun, StartRun, FuncReturns, Returned

LEMMA JoinedInductive ==
  ASSUME IInv, JoinedInv, [Next]_vars
  PROVE  JoinedInv'
<1> USE DEF ctxVars, verdictVars, signalVars, runVars, JoinedInv
<1>1. CASE Signal \/ Tick \/ CancelParent \/ PropagateCancel
           \/ UNCHANGED vars
  BY <1>1 DEF Signal, Heartbeat, Status, Progress, BeginUnit, EndUnit, Tick,
     CancelParent, PropagateCancel, vars
<1>2. CASE Monitor
  BY <1>2 DEF Monitor, MonitorTimeout, MonitorPass, MonitorTick, MonitorExit,
     IInv, RunInv, PhaseInv
<1>3. CASE Finish
  BY <1>3 DEF Finish, StopMonitor, JoinMonitor, CommitFinish, ClassifyResult,
     IInv, RunInv, ContextDoneForCause
<1>4. CASE RejectRun \/ StartRun
           \/ \E err \in {"nil", "error", "probe"} : FuncReturns(err)
  BY <1>4 DEF RejectRun, StartRun, FuncReturns, IInv, RunInv, PhaseInv
<1> QED
  BY <1>1, <1>2, <1>3, <1>4 DEF Next, Returned

LEMMA JoinedInvariance == Spec => [](IInv /\ JoinedInv)
<1>1. Init => JoinedInv
  BY DEF Init, JoinedInv
<1>2. IInv /\ JoinedInv /\ [Next]_vars => JoinedInv'
  BY JoinedInductive
<1> QED
  BY <1>1, <1>2, Invariance, PTL DEF Spec

-----------------------------------------------------------------------------
(* The engine follows module Lifecycle.                                    *)

LEMMA InitWaits == Init => Protocol!Init
  BY DEF Init, Protocol!Init

LEMMA RunFollows ==
  ASSUME IInv, JoinedInv,
         RejectRun \/ StartRun \/ Finish
           \/ \E err \in {"nil", "error", "probe"} : FuncReturns(err)
  PROVE  [Protocol!Next]_(Protocol!vars)
<1> USE DEF ctxVars, verdictVars, signalVars, Protocol!vars, Protocol!Next
<1>1. CASE RejectRun
  <2>1. Protocol!Refuse
    BY <1>1 DEF RejectRun, Protocol!Refuse
  <2> QED
    BY <2>1
<1>2. CASE StartRun
  <2>1. monitor = "unborn" /\ ~timedOut
    BY <1>2 DEF StartRun, IInv, RunInv, PhaseInv
  <2>2. ctxDone => parentDone
    BY <1>2, <2>1 DEF StartRun, IInv, RunInv, ContextDoneForCause
  <2>3. ctxDone' \in {ctxDone, TRUE}
    BY <1>2, <2>2 DEF StartRun, IInv, TypeOK
  <2>4. Protocol!Start
    BY <1>2, <2>1, <2>3 DEF StartRun, Protocol!Start
  <2> QED
    BY <2>4
<1>3. CASE \E err \in {"nil", "error", "probe"} : FuncReturns(err)
  <2>1. Protocol!FuncReturns
    BY <1>3 DEF FuncReturns, Protocol!FuncReturns
  <2> QED
    BY <2>1
<1>4. CASE StopMonitor
  <2>1. ctxDone'
    BY <1>4 DEF StopMonitor, IInv, RunInv, PhaseInv, JoinedInv
  <2>2. Protocol!Stop
    BY <1>4, <2>1 DEF StopMonitor, Protocol!Stop, IInv, TypeOK
  <2> QED
    BY <2>2
<1>5. CASE JoinMonitor
  BY <1>5 DEF JoinMonitor
<1>6. CASE CommitFinish
  <2>1. monitor = "exited" /\ state' = "finished"
    BY <1>6 DEF CommitFinish, IInv, RunInv, PhaseInv
  <2>2. Protocol!Commit
    BY <1>6, <2>1 DEF CommitFinish, Protocol!Commit
  <2> QED
    BY <2>2
<1>7. CASE ClassifyResult
  <2>1. Protocol!Return
    BY <1>7 DEF ClassifyResult, Protocol!Return
  <2> QED
    BY <2>1
<1> QED
  BY <1>1, <1>2, <1>3, <1>4, <1>5, <1>6, <1>7 DEF Finish

LEMMA StepFollows ==
  ASSUME IInv, JoinedInv, [Next]_vars
  PROVE  [Protocol!Next]_(Protocol!vars)
<1> USE DEF ctxVars, verdictVars, signalVars, runVars, Protocol!vars
<1>1. CASE MonitorTimeout
  <2>1. state # "finished" /\ ~timedOut
    BY <1>1 DEF MonitorTimeout, Accepting
  <2>2. Protocol!GiveVerdict
    BY <1>1, <2>1 DEF MonitorTimeout, Protocol!GiveVerdict
  <2> QED
    BY <2>2 DEF Protocol!Next
<1>2. CASE MonitorPass
  <2>1. ~timedOut
    BY <1>2 DEF MonitorPass, IInv, RunInv, PhaseInv
  <2> QED
    BY <1>2, <2>1 DEF MonitorPass
<1>3. CASE MonitorTick
  BY <1>3 DEF MonitorTick
<1>4. CASE MonitorExit
  <2>1. Protocol!Leave
    BY <1>4 DEF MonitorExit, Protocol!Leave
  <2> QED
    BY <2>1 DEF Protocol!Next
<1>5. CASE PropagateCancel
  <2>1. Protocol!Cancel
    BY <1>5 DEF PropagateCancel, Protocol!Cancel
  <2> QED
    BY <2>1 DEF Protocol!Next
<1>6. CASE Signal
  BY <1>6 DEF Signal, Heartbeat, Status, Progress, BeginUnit, EndUnit
<1>7. CASE Tick \/ CancelParent \/ UNCHANGED vars
  BY <1>7 DEF Tick, CancelParent, vars
<1> QED
  BY <1>1, <1>2, <1>3, <1>4, <1>5, <1>6, <1>7, RunFollows
  DEF Next, Monitor, Returned

(* The monitor and finish keep the protocol of module Lifecycle: no verdict *)
(* after the state is finished, no end before the monitor's, and a monitor *)
(* that leaves only a canceled context.                                    *)
THEOREM EngineFollowsLifecycle == Spec => FollowsLifecycle
<1>1. IInv /\ JoinedInv /\ [Next]_vars => [Protocol!Next]_(Protocol!vars)
  BY StepFollows
<1> QED
  BY <1>1, InitWaits, JoinedInvariance, PTL
  DEF Spec, FollowsLifecycle, Protocol!Spec
-----------------------------------------------------------------------------
(* finish waits for the monitor, which may look at the clock any number of *)
(* times more but takes the canceled context in the end; then Run returns. *)
THEOREM RunAlwaysReturns ==
  FairSpec /\ []GoroutinesCanStep => RunReturns
<1> DEFINE Inv == IInv /\ JoinedInv
           Stop == run = "stop"
           Join == run = "join"
           Check == run = "join" /\ monitor = "check"
           Select == run = "join" /\ monitor = "select"
           Joined == run = "join" /\ monitor = "exited"
           Commit == run = "commit"
           Classify == run = "classify"
           Done == run = "done"
<1>1. Inv /\ Stop /\ [Next]_vars => Stop' \/ Join'
  BY RunMoves DEF Finish, StopMonitor, JoinMonitor, CommitFinish,
     ClassifyResult
<1>2. Inv /\ Stop /\ <<Finish>>_vars => Join'
  BY DEF Finish, StopMonitor, JoinMonitor, CommitFinish, ClassifyResult
<1>3. Inv => (Join <=> Check \/ Select \/ Joined)
  BY DEF IInv, RunInv, PhaseInv, TypeOK
<1>4. Inv /\ Check /\ [Next]_vars => Check' \/ Select' \/ Joined'
  <2> SUFFICES ASSUME Inv, Check, [Next]_vars
               PROVE  Check' \/ Select' \/ Joined'
    OBVIOUS
  <2>1. run' = "join"
    BY RunMoves DEF Finish, StopMonitor, JoinMonitor, CommitFinish,
       ClassifyResult
  <2> QED
    BY <2>1, MonitorMoves
    DEF Monitor, MonitorTimeout, MonitorPass, MonitorTick, MonitorExit
<1>5. Inv /\ Check /\ <<MonitorTimeout \/ MonitorPass>>_vars
        => Select' \/ Joined'
  BY DEF MonitorTimeout, MonitorPass, runVars
<1>6. Inv /\ Select /\ [Next]_vars => Check' \/ Select' \/ Joined'
  <2> SUFFICES ASSUME Inv, Select, [Next]_vars
               PROVE  Check' \/ Select' \/ Joined'
    OBVIOUS
  <2>1. run' = "join"
    BY RunMoves DEF Finish, StopMonitor, JoinMonitor, CommitFinish,
       ClassifyResult
  <2> QED
    BY <2>1, MonitorMoves
    DEF Monitor, MonitorTimeout, MonitorPass, MonitorTick, MonitorExit
<1>7. Inv /\ Join /\ <<MonitorExit>>_vars => Joined'
  BY DEF MonitorExit, runVars
<1>8. Inv /\ Joined /\ [Next]_vars => Joined' \/ Commit'
  BY RunMoves, MonitorMoves
  DEF Finish, StopMonitor, JoinMonitor, CommitFinish, ClassifyResult,
      Monitor, MonitorTimeout, MonitorPass, MonitorTick, MonitorExit
<1>9. Inv /\ Joined /\ <<Finish>>_vars => Commit'
  BY DEF Finish, StopMonitor, JoinMonitor, CommitFinish, ClassifyResult
<1>10. Inv /\ Commit /\ [Next]_vars => Commit' \/ Classify'
  BY RunMoves DEF Finish, StopMonitor, JoinMonitor, CommitFinish,
     ClassifyResult
<1>11. Inv /\ Commit /\ <<Finish>>_vars => Classify'
  BY DEF Finish, StopMonitor, JoinMonitor, CommitFinish, ClassifyResult
<1>12. Inv /\ Classify /\ [Next]_vars => Classify' \/ Done'
  BY RunMoves DEF Finish, StopMonitor, JoinMonitor, CommitFinish,
     ClassifyResult
<1>13. Inv /\ Classify /\ <<Finish>>_vars => Done'
  BY DEF Finish, StopMonitor, JoinMonitor, CommitFinish, ClassifyResult
<1>14. Inv /\ GoroutinesCanStep =>
         /\ Stop \/ Joined \/ Commit \/ Classify => ENABLED <<Finish>>_vars
         /\ Check => ENABLED <<MonitorTimeout \/ MonitorPass>>_vars
         /\ Select => ENABLED <<MonitorExit>>_vars
  BY DEF GoroutinesCanStep, JoinedInv
<1>15. Spec => []Inv
  BY JoinedInvariance
<1>16. (run = "stop" <=> Stop) /\ (run = "done" <=> Done)
  OBVIOUS
<1> HIDE DEF Inv, Stop, Join, Check, Select, Joined, Commit, Classify, Done
<1>17. FairSpec /\ []GoroutinesCanStep => (Stop ~> Join)
  BY <1>1, <1>2, <1>14, <1>15, PTL DEF FairSpec, Fairness, Spec
<1>18. FairSpec /\ []GoroutinesCanStep => (Join ~> Joined)
  BY <1>3, <1>4, <1>5, <1>6, <1>7, <1>14, <1>15, PTL
  DEF FairSpec, Fairness, Spec
<1>19. FairSpec /\ []GoroutinesCanStep => (Joined ~> Commit)
  BY <1>8, <1>9, <1>14, <1>15, PTL DEF FairSpec, Fairness, Spec
<1>20. FairSpec /\ []GoroutinesCanStep => (Commit ~> Classify)
  BY <1>10, <1>11, <1>14, <1>15, PTL DEF FairSpec, Fairness, Spec
<1>21. FairSpec /\ []GoroutinesCanStep => (Classify ~> Done)
  BY <1>12, <1>13, <1>14, <1>15, PTL DEF FairSpec, Fairness, Spec
<1> QED
  BY <1>16, <1>17, <1>18, <1>19, <1>20, <1>21, PTL DEF RunReturns

(* Every check of the monitor sees all the limits, so one that stays       *)
(* exceeded under a live context becomes a verdict at the latest when the  *)
(* ticker next fires.                                                      *)
THEOREM OverdueAlwaysNoticed ==
  FairSpec /\ []GoroutinesCanStep => OverdueNoticed
<1> DEFINE Inv == IInv /\ JoinedInv
           Late == run = "func" /\ Verdicts # {} /\ ~ctxDone
           Settled == ctxDone \/ Verdicts = {} \/ run # "func"
           Check == Late /\ monitor = "check"
           Select == Late /\ monitor = "select"
<1>1. Inv /\ Late => Check \/ Select
  BY DEF IInv, RunInv, PhaseInv, TypeOK, JoinedInv
<1>2. Late' \/ Settled'
  OBVIOUS
<1>3. Inv /\ Check /\ Monitor => Settled'
  <2>1. Inv /\ Late => Accepting
    BY DEF IInv, RunInv, PhaseInv, ContextDoneForCause, TypeOK, Accepting
  <2> QED
    BY <2>1 DEF Monitor, MonitorTimeout, MonitorPass, MonitorTick, MonitorExit
<1>4. Inv /\ Check /\ [Next]_vars => Check' \/ Settled'
  BY <1>2, <1>3, MonitorMoves
<1>5. Inv /\ Check /\ <<MonitorTimeout \/ MonitorPass>>_vars => Settled'
  BY <1>3 DEF Monitor
<1>6. Inv /\ Select /\ [Next]_vars => Select' \/ Check' \/ Settled'
  BY <1>2, MonitorMoves DEF Monitor, MonitorTimeout, MonitorPass, MonitorTick,
     MonitorExit, ctxVars
<1>7. Inv /\ Select /\ <<MonitorTick>>_vars => Check' \/ Settled'
  BY <1>2 DEF MonitorTick
<1>8. GoroutinesCanStep =>
        /\ Check => ENABLED <<MonitorTimeout \/ MonitorPass>>_vars
        /\ Select => ENABLED <<MonitorTick>>_vars
  BY DEF GoroutinesCanStep
<1>9. Spec => []Inv
  BY JoinedInvariance
<1>10. /\ run = "func" /\ Verdicts # {} => Late \/ Settled
       /\ Settled => ctxDone \/ Verdicts = {} \/ run # "func"
  OBVIOUS
<1> HIDE DEF Inv, Late, Settled, Check, Select
<1> QED
  BY <1>1, <1>4, <1>5, <1>6, <1>7, <1>8, <1>9, <1>10, PTL
  DEF FairSpec, Fairness, Spec, OverdueNoticed
=============================================================================
