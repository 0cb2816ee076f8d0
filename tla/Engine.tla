------------------------------- MODULE Engine -------------------------------
(***************************************************************************)
(* One supervised execution of the policy engine (execution.go): the       *)
(* goroutine that calls Run, the monitor goroutine, the parent context,    *)
(* and the goroutines that report signals.                                 *)
(*                                                                         *)
(* Every exported method of execution locks e.mu for its whole body and    *)
(* reads the clock inside the lock, so it is one action here.  finish and  *)
(* monitor take and release the lock several times: each of their critical *)
(* sections is an action of its own, and the time between two of them is   *)
(* open to every other goroutine.                                          *)
(*                                                                         *)
(* The configuration has no observer (emit returns at once, observer.go    *)
(* line 85) and the real clock (monitor polls with a ticker); the module   *)
(* Observer models emission and ManualClock models the injected clock.     *)
(* Time is counted in whole units from the start of the execution.         *)
(***************************************************************************)
EXTENDS ProgressSeries, Sequences

CONSTANTS
  Policies,    \* the policies Run may be configured with
  Reports,     \* the progress reports callers send
  Messages,    \* the status messages callers send
  Stragglers,  \* may goroutines started by Func outlive it and keep calling?
  MaxTime,     \* bound: where the clock stops, for each policy
  MaxUnits     \* bound: units begun in one execution, for each policy

Policy == [hard: Int, idle: Int, stall: Int, unit: Int]

ASSUME PoliciesAssumption == Policies \subseteq Policy
ASSUME ReportsAssumption == Reports \subseteq Report
ASSUME MessagesAssumption == Messages \subseteq Texts
ASSUME StragglersAssumption == Stragglers \in BOOLEAN
ASSUME BoundsAssumption ==
  MaxTime \in [Policies -> Nat] /\ MaxUnits \in [Policies -> Nat]

VARIABLES
  now,             \* the monotonic clock
  policy,          \* e.policy, fixed by Init
  parentDone,      \* parent.Err() # nil
  ctxDone,         \* e.ctx is done
  lastActivityAt, lastProgressAt, statusMsg, progress, series,
  units,           \* e.units; unit ids are the indices 1, 2, ...
  state,           \* e.state
  timedOut, kind, timeoutUnit,
  detectedAt,      \* timestamp of the timeout event (history)
  monitor,         \* where the monitor goroutine is
  run,             \* where the goroutine that called Run is
  fnErr,           \* what Func returned
  finishNow,       \* finish's local variable now
  result           \* the Result being filled in and returned

ctxVars == <<parentDone, ctxDone>>
signalVars == <<lastActivityAt, lastProgressAt, statusMsg, progress, series>>
verdictVars == <<timedOut, kind, timeoutUnit, detectedAt>>
runVars == <<run, fnErr, finishNow, result>>
vars == <<now, policy, ctxVars, signalVars, units, state, verdictVars,
          monitor, runVars>>

NoReport == [stage |-> EmptyText, current |-> 0, total |-> 0]

(* snapshotLocked at time t.  An ended unit's elapsed time runs on.        *)
UnitSnapshots(t) ==
  [id \in DOMAIN units |->
     [elapsed |-> t - units[id].startedAt, active |-> ~units[id].ended]]

Snapshot(t) ==
  [elapsed |-> t, idleFor |-> t - lastActivityAt,
   stallFor |-> t - lastProgressAt, statusMsg |-> statusMsg,
   progress |-> progress, units |-> UnitSnapshots(t)]

NoSnapshot ==
  [elapsed |-> 0, idleFor |-> 0, stallFor |-> 0, statusMsg |-> EmptyText,
   progress |-> NoReport, units |-> <<>>]

NoResult ==
  [status |-> "unset", kind |-> "none", timeoutUnit |-> 0,
   snapshot |-> NoSnapshot]

Init ==
  /\ now = 0
  /\ policy \in Policies
  /\ parentDone \in BOOLEAN /\ ctxDone = FALSE
  /\ lastActivityAt = 0 /\ lastProgressAt = 0
  /\ statusMsg = EmptyText /\ progress = NoReport /\ series = EmptySeries
  /\ units = <<>>
  /\ state = "running"
  /\ timedOut = FALSE /\ kind = "none" /\ timeoutUnit = 0 /\ detectedAt = 0
  /\ monitor = "unborn"
  /\ run = "new" /\ fnErr = "none" /\ finishNow = 0 /\ result = NoResult
-----------------------------------------------------------------------------
(* Run: validate the configuration, then start the monitor and call Func.  *)

NegativeDuration == \E limit \in DOMAIN policy : policy[limit] < 0

(* Config.Run refuses a configuration with an option error and, whatever   *)
(* the configuration, a nil Func.                                          *)
RejectRun ==
  /\ run = "new"
  /\ run' = "done"
  /\ result' = [NoResult EXCEPT !.status = "internal_error"]
  /\ UNCHANGED <<now, policy, ctxVars, signalVars, units, state, verdictVars,
                 monitor, fnErr, finishNow>>

StartRun ==
  /\ run = "new"
  /\ ~NegativeDuration
  /\ run' = "func"
  /\ monitor' = "check"
  /\ ctxDone' = parentDone
  /\ UNCHANGED <<now, policy, parentDone, signalVars, units, state,
                 verdictVars, fnErr, finishNow, result>>
-----------------------------------------------------------------------------
(* Signals: the methods of Execution and Unit.                             *)

(* Some goroutine that holds the Execution handle is there to call it.     *)
CallerAlive == run = "func" \/ (Stragglers /\ monitor # "unborn")

(* Mutants of Accepting: each forgets one half of the guard.               *)
AcceptingAfterVerdict == state = "running"
AcceptingAfterFinish == ~timedOut

(* The guard of Heartbeat, Status, Progress and tryTimeout.                *)
Accepting == ~timedOut /\ state = "running"

Heartbeat ==
  /\ CallerAlive /\ Accepting
  /\ lastActivityAt' = now
  /\ UNCHANGED <<now, policy, ctxVars, lastProgressAt, statusMsg, progress,
                 series, units, state, verdictVars, monitor, runVars>>

Status(message) ==
  /\ CallerAlive /\ Accepting
  /\ statusMsg' = message
  /\ lastActivityAt' = now
  /\ UNCHANGED <<now, policy, ctxVars, lastProgressAt, progress, series,
                 units, state, verdictVars, monitor, runVars>>

Progress(p) ==
  /\ CallerAlive /\ Accepting
  /\ ~Malformed(p)
  /\ series' = NextSeries(p)
  /\ progress' = p
  /\ lastActivityAt' = now
  /\ lastProgressAt' = IF Meaningful(series, p) THEN now ELSE lastProgressAt
  /\ UNCHANGED <<now, policy, ctxVars, statusMsg, units, state, verdictVars,
                 monitor, runVars>>

(* BeginUnit and End do not look at timedOut or state.                     *)
BeginUnit ==
  /\ CallerAlive
  /\ Len(units) < MaxUnits[policy]
  /\ units' = Append(units, [startedAt |-> now, ended |-> FALSE])
  /\ UNCHANGED <<now, policy, ctxVars, signalVars, state, verdictVars,
                 monitor, runVars>>

EndUnit(id) ==
  /\ CallerAlive
  /\ ~units[id].ended
  /\ units' = [units EXCEPT ![id].ended = TRUE]
  /\ UNCHANGED <<now, policy, ctxVars, signalVars, state, verdictVars,
                 monitor, runVars>>
-----------------------------------------------------------------------------
(* The monitor goroutine.                                                  *)

Exceeded(limit, since) == limit > 0 /\ now - since >= limit

(* Mutants of OverdueUnits: ended units count; a unit's time counts from   *)
(* the start of the execution.                                             *)
OverdueUnitsEnded ==
  {id \in DOMAIN units : Exceeded(policy.unit, units[id].startedAt)}
OverdueUnitsSinceStart ==
  {id \in DOMAIN units : ~units[id].ended /\ Exceeded(policy.unit, 0)}

OverdueUnits ==
  {id \in DOMAIN units :
     ~units[id].ended /\ Exceeded(policy.unit, units[id].startedAt)}

(* Mutant of Verdicts: idle is looked at first.                            *)
VerdictsIdleFirst ==
  CASE Exceeded(policy.idle, lastActivityAt) -> {<<"idle", 0>>}
    [] ~Exceeded(policy.idle, lastActivityAt)
         /\ Exceeded(policy.stall, lastProgressAt) -> {<<"stall", 0>>}
    [] ~Exceeded(policy.idle, lastActivityAt)
         /\ ~Exceeded(policy.stall, lastProgressAt)
         /\ OverdueUnits # {} -> {"unit"} \X OverdueUnits
    [] OTHER -> IF Exceeded(policy.hard, 0) THEN {<<"hard", 0>>} ELSE {}

(* evaluateLocked: the kinds it may return, with the unit it blames (0 for *)
(* none).  Hard goes before unit, unit before stall, stall before idle; Go *)
(* iterates over e.units in no fixed order, so any overdue unit may be the *)
(* one reported.  The empty set stands for KindNone.                       *)
Verdicts ==
  CASE Exceeded(policy.hard, 0) -> {<<"hard", 0>>}
    [] ~Exceeded(policy.hard, 0) /\ OverdueUnits # {} ->
         {"unit"} \X OverdueUnits
    [] ~Exceeded(policy.hard, 0) /\ OverdueUnits = {}
         /\ Exceeded(policy.stall, lastProgressAt) -> {<<"stall", 0>>}
    [] ~Exceeded(policy.hard, 0) /\ OverdueUnits = {}
         /\ ~Exceeded(policy.stall, lastProgressAt)
         /\ Exceeded(policy.idle, lastActivityAt) -> {<<"idle", 0>>}
    [] OTHER -> {}

(* Mutant of MonitorTimeout: the context is not canceled.                  *)
MonitorTimeoutNoCancel ==
  /\ monitor = "check" /\ Accepting
  /\ \E v \in Verdicts : kind' = v[1] /\ timeoutUnit' = v[2]
  /\ timedOut' = TRUE
  /\ detectedAt' = now
  /\ monitor' = "exited"
  /\ UNCHANGED <<now, policy, ctxVars, signalVars, units, state, runVars>>

(* tryTimeout commits a verdict, cancels the context and returns true; the *)
(* monitor then closes e.done.                                             *)
MonitorTimeout ==
  /\ monitor = "check" /\ Accepting
  /\ \E v \in Verdicts : kind' = v[1] /\ timeoutUnit' = v[2]
  /\ timedOut' = TRUE
  /\ detectedAt' = now
  /\ ctxDone' = TRUE
  /\ monitor' = "exited"
  /\ UNCHANGED <<now, policy, parentDone, signalVars, units, state, runVars>>

(* tryTimeout finds nothing to do and the monitor goes on to its select.   *)
MonitorPass ==
  /\ monitor = "check"
  /\ Accepting => Verdicts = {}
  /\ monitor' = IF timedOut THEN "exited" ELSE "select"
  /\ UNCHANGED <<now, policy, ctxVars, signalVars, units, state, verdictVars,
                 runVars>>

(* Mutant of MonitorTick: the ticker fires once, like a timer.             *)
MonitorTickOnce ==
  /\ monitor = "select" /\ now = 0
  /\ monitor' = "check"
  /\ UNCHANGED <<now, policy, ctxVars, signalVars, units, state, verdictVars,
                 runVars>>

(* select: Go picks either ready case, so a done context does not keep the *)
(* ticker from being served first.                                         *)
MonitorTick ==
  /\ monitor = "select"
  /\ monitor' = "check"
  /\ UNCHANGED <<now, policy, ctxVars, signalVars, units, state, verdictVars,
                 runVars>>

MonitorExit ==
  /\ monitor = "select" /\ ctxDone
  /\ monitor' = "exited"
  /\ UNCHANGED <<now, policy, ctxVars, signalVars, units, state, verdictVars,
                 runVars>>
-----------------------------------------------------------------------------
(* Func returns and finish assembles the Result.                           *)

(* A panic in Func is recovered and becomes an ordinary error.             *)
FuncReturns(err) ==
  /\ run = "func"
  /\ fnErr' = err
  /\ run' = "stop"
  /\ UNCHANGED <<now, policy, ctxVars, signalVars, units, state, verdictVars,
                 monitor, finishNow, result>>

(* Mutant of StopMonitor: finish waits for the monitor without a cancel.   *)
StopMonitorNoCancel ==
  /\ run = "stop"
  /\ run' = "join"
  /\ UNCHANGED <<now, policy, ctxVars, signalVars, units, state, verdictVars,
                 monitor, fnErr, finishNow, result>>

(* First critical section of finish and the cancel() after it, which stops *)
(* the monitor unless a verdict already did.                               *)
StopMonitor ==
  /\ run = "stop"
  /\ ctxDone' = (ctxDone \/ ~timedOut)
  /\ run' = "join"
  /\ UNCHANGED <<now, policy, parentDone, signalVars, units, state,
                 verdictVars, monitor, fnErr, finishNow, result>>

(* Mutant of JoinMonitor: the clock is read without waiting for e.done.    *)
JoinMonitorEarly ==
  /\ run = "join"
  /\ finishNow' = now
  /\ run' = "commit"
  /\ UNCHANGED <<now, policy, ctxVars, signalVars, units, state, verdictVars,
                 monitor, fnErr, result>>

(* <-e.done, then the clock is read, outside the lock: a signal of a       *)
(* straggler that comes before the next action is later than finishNow.    *)
JoinMonitor ==
  /\ run = "join" /\ monitor = "exited"
  /\ finishNow' = now
  /\ run' = "commit"
  /\ UNCHANGED <<now, policy, ctxVars, signalVars, units, state, verdictVars,
                 monitor, fnErr, result>>

(* Second critical section: the state is finished, the snapshot is taken.  *)
CommitFinish ==
  /\ run = "commit"
  /\ state' = "finished"
  /\ result' = [NoResult EXCEPT !.timeoutUnit = timeoutUnit,
                                !.snapshot = Snapshot(finishNow)]
  /\ run' = "classify"
  /\ UNCHANGED <<now, policy, ctxVars, signalVars, units, verdictVars,
                 monitor, fnErr, finishNow>>

(* Mutants of FinalStatus: a canceled parent, and an error of Func, are    *)
(* looked at before the verdict.                                           *)
FinalStatusCanceledFirst ==
  CASE parentDone                                -> "canceled"
    [] ~parentDone /\ timedOut                   -> "timeout"
    [] ~timedOut /\ ~parentDone /\ fnErr # "nil" -> "failed"
    [] OTHER                                     -> "succeeded"
FinalStatusFailedFirst ==
  CASE fnErr # "nil"                             -> "failed"
    [] fnErr = "nil" /\ timedOut                 -> "timeout"
    [] fnErr = "nil" /\ ~timedOut /\ parentDone  -> "canceled"
    [] OTHER                                     -> "succeeded"

(* The switch in finish: timeout, then canceled, then failed, then         *)
(* succeeded.  parent.Err() is read here, after the commit.                *)
FinalStatus ==
  CASE timedOut                                  -> "timeout"
    [] ~timedOut /\ parentDone                   -> "canceled"
    [] ~timedOut /\ ~parentDone /\ fnErr # "nil" -> "failed"
    [] OTHER                                     -> "succeeded"

FinalKind ==
  CASE FinalStatus = "timeout"                      -> kind
    [] FinalStatus = "failed" /\ fnErr = "probe"    -> "probe"
    [] OTHER                                        -> "none"

ClassifyResult ==
  /\ run = "classify"
  /\ result' = [result EXCEPT !.status = FinalStatus, !.kind = FinalKind]
  /\ run' = "done"
  /\ UNCHANGED <<now, policy, ctxVars, signalVars, units, state, verdictVars,
                 monitor, fnErr, finishNow>>
-----------------------------------------------------------------------------
(* The environment: the clock, the parent context.                         *)

Tick ==
  /\ run # "new" /\ now < MaxTime[policy]
  /\ now' = now + 1
  /\ UNCHANGED <<policy, ctxVars, signalVars, units, state, verdictVars,
                 monitor, runVars>>

CancelParent ==
  /\ ~parentDone
  /\ parentDone' = TRUE
  /\ UNCHANGED <<now, policy, ctxDone, signalVars, units, state, verdictVars,
                 monitor, runVars>>

(* The context package cancels a derived context after its parent.         *)
PropagateCancel ==
  /\ parentDone /\ ~ctxDone /\ run # "new"
  /\ ctxDone' = TRUE
  /\ UNCHANGED <<now, policy, parentDone, signalVars, units, state,
                 verdictVars, monitor, runVars>>

(* Run has returned: nothing more has to happen.                           *)
Returned == run = "done" /\ UNCHANGED vars

Signal ==
  \/ Heartbeat
  \/ \E message \in Messages : Status(message)
  \/ \E p \in Reports : Progress(p)
  \/ BeginUnit
  \/ \E id \in DOMAIN units : EndUnit(id)

Monitor == MonitorTimeout \/ MonitorPass \/ MonitorTick \/ MonitorExit

Finish == StopMonitor \/ JoinMonitor \/ CommitFinish \/ ClassifyResult

Next ==
  \/ RejectRun \/ StartRun
  \/ Signal
  \/ Monitor
  \/ \E err \in {"nil", "error", "probe"} : FuncReturns(err)
  \/ Finish
  \/ Tick \/ CancelParent \/ PropagateCancel
  \/ Returned

Spec == Init /\ [][Next]_vars

(* The scheduler runs a goroutine that can run, the ticker keeps firing,   *)
(* and select does not ignore a ready case forever.  Nothing is assumed of *)
(* Func, of the callers or of the parent.                                  *)
Fairness ==
  /\ WF_vars(MonitorTimeout \/ MonitorPass) /\ WF_vars(MonitorTick)
  /\ SF_vars(MonitorExit)
  /\ WF_vars(Finish)
  /\ WF_vars(PropagateCancel)

FairSpec == Spec /\ Fairness
=============================================================================
