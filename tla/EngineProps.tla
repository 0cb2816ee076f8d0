---------------------------- MODULE EngineProps -----------------------------
(***************************************************************************)
(* What the execution engine of module Engine guarantees.                  *)
(***************************************************************************)
EXTENDS Engine

TimeKinds == {"hard", "unit", "stall", "idle"}

Statuses ==
  {"succeeded", "failed", "timeout", "canceled", "internal_error"}

UnitState == [startedAt: Nat, ended: BOOLEAN]

UnitSnapshot == [elapsed: Int, active: BOOLEAN]

SnapshotType ==
  [elapsed: Int, idleFor: Int, stallFor: Int, statusMsg: Texts,
   progress: Report, units: Seq(UnitSnapshot)]

(* Every variable has the type of the field or local it stands for.        *)
TypeOK ==
  /\ now \in Nat
  /\ policy \in Policies
  /\ parentDone \in BOOLEAN /\ ctxDone \in BOOLEAN
  /\ lastActivityAt \in Nat /\ lastProgressAt \in Nat
  /\ statusMsg \in Texts /\ progress \in Report /\ series \in Series
  /\ units \in Seq(UnitState)
  /\ state \in {"running", "finished"}
  /\ timedOut \in BOOLEAN /\ kind \in TimeKinds \union {"none"}
  /\ timeoutUnit \in Nat /\ detectedAt \in Nat
  /\ monitor \in {"unborn", "check", "select", "exited"}
  /\ run \in {"new", "func", "stop", "join", "commit", "classify", "done"}
  /\ fnErr \in {"none", "nil", "error", "probe"}
  /\ finishNow \in Nat
  /\ result \in [status: Statuses \union {"unset"},
                 kind: TimeKinds \union {"none", "probe"},
                 timeoutUnit: Nat, snapshot: SnapshotType]
-----------------------------------------------------------------------------
(* A verdict is true when it is given and stays true: the clock it names   *)
(* had run past its limit at detection, although signals may keep arriving *)
(* between that moment and the end of the execution (tryTimeout).          *)
TimeoutJustified ==
  timedOut =>
    LET overdue(limit, since) == limit > 0 /\ detectedAt - since >= limit
    IN  /\ kind \in TimeKinds
        /\ kind = "hard" => overdue(policy.hard, 0)
        /\ kind = "stall" => overdue(policy.stall, lastProgressAt)
        /\ kind = "idle" => overdue(policy.idle, lastActivityAt)
        /\ kind = "unit" <=> timeoutUnit # 0
        /\ kind = "unit" =>
             /\ timeoutUnit \in DOMAIN units
             /\ overdue(policy.unit, units[timeoutUnit].startedAt)

(* Hard > unit > stall > idle: a verdict is never given while a policy of  *)
(* higher priority was overdue at that moment (evaluateLocked).  A unit    *)
(* still active now was active at detection if it had begun by then.       *)
PriorityRespected ==
  timedOut =>
    /\ kind # "hard" => ~(policy.hard > 0 /\ detectedAt >= policy.hard)
    /\ kind \in {"stall", "idle"} =>
         \A id \in DOMAIN units :
           ~units[id].ended =>
             ~(policy.unit > 0
               /\ detectedAt - units[id].startedAt >= policy.unit)
    /\ kind = "idle" =>
         ~(policy.stall > 0 /\ detectedAt - lastProgressAt >= policy.stall)

(* The unit a verdict blames has not been ended when the verdict is given  *)
(* (evaluateLocked).                                                       *)
BlamedUnitActive ==
  [][ ~timedOut /\ timedOut' /\ kind' = "unit"
        => ~units[timeoutUnit'].ended ]_vars

(* Once given, the verdict is final, and so are the diagnostics that go    *)
(* with it: no signal, late or concurrent, touches them.  Nor does the     *)
(* monitor give a verdict on an execution that is finished.                *)
VerdictFinal ==
  [][ timedOut \/ state = "finished"
        => UNCHANGED <<verdictVars, signalVars>> ]_vars

(* The Result says timeout exactly when a verdict was given, with that     *)
(* verdict's kind and unit, and carries the last status and progress the   *)
(* engine accepted, though finish reads them in two critical sections with *)
(* a wait for the monitor between them (finish).                           *)
ResultAgrees ==
  result.status \in Statuses \ {"internal_error"} =>
    /\ result.status = "timeout" <=> timedOut
    /\ timedOut => result.kind = kind
    /\ ~timedOut => result.kind \notin TimeKinds
    /\ result.timeoutUnit = timeoutUnit
    /\ result.snapshot.statusMsg = statusMsg
    /\ result.snapshot.progress = progress

(* The context of the execution is done only for one of the reasons the    *)
(* library guide gives, or because Func has returned; a verdict and the    *)
(* cancellation it causes are one step.                                    *)
ContextDoneForCause ==
  /\ timedOut => ctxDone
  /\ ctxDone => timedOut \/ parentDone \/ run \notin {"new", "func", "stop"}

(* The stall clock never runs behind the idle clock: whatever restarts it  *)
(* is also activity.                                                       *)
ProgressIsActivity ==
  lastProgressAt <= lastActivityAt /\ lastActivityAt <= now

(* Inside a series of quantitative reports the stall clock restarts only   *)
(* when the count rises: heartbeats, statuses and repeated or lower counts *)
(* leave it alone (classifyProgress).  A malformed report restarts no      *)
(* clock, nor is a later count measured against it (Progress).             *)
StallNeedsAdvance ==
  [][ /\ (/\ series.hasQuant /\ series'.hasQuant
          /\ SameSeries(series, series')
          /\ lastProgressAt' # lastProgressAt)
           => series'.current > series.current /\ series.current >= 0
      /\ lastActivityAt' # lastActivityAt => ~Malformed(progress') ]_vars

(* The snapshot of a timed-out Result shows the clock its verdict blames   *)
(* past the limit, though it is taken later, in another critical section   *)
(* and at a time read outside the lock: the clock is not read before the   *)
(* monitor has left, and no signal moves the blamed clock in between       *)
(* (finish).                                                               *)
SnapshotExplains ==
  result.status = "timeout" =>
    LET snap == result.snapshot
    IN  /\ result.kind = "hard" => snap.elapsed >= policy.hard
        /\ result.kind = "stall" => snap.stallFor >= policy.stall
        /\ result.kind = "idle" => snap.idleFor >= policy.idle
        /\ result.kind = "unit" =>
             /\ result.timeoutUnit \in DOMAIN snap.units
             /\ snap.units[result.timeoutUnit].elapsed >= policy.unit

(* The snapshot in the Result is a consistent view, as result.go says of   *)
(* Snapshot: no duration in it is negative and the run is at least as old  *)
(* as its last activity.  A signal between finish's read of the clock and  *)
(* its second critical section refutes it.                                 *)
SnapshotConsistent ==
  LET snap == result.snapshot
  IN  /\ 0 <= snap.idleFor /\ snap.idleFor <= snap.stallFor
      /\ snap.stallFor <= snap.elapsed
      /\ \A id \in DOMAIN snap.units : 0 <= snap.units[id].elapsed
-----------------------------------------------------------------------------
(* While Func runs under a live context, a limit that is passed is noticed *)
(* or, for all but hard, lifted by a signal in time: no interleaving makes *)
(* the monitor miss it for good.                                           *)
OverdueNoticed ==
  (run = "func" /\ Verdicts # {}) ~> (ctxDone \/ Verdicts = {} \/ run # "func")

(* finish does not hang: once Func returned, Run returns.                  *)
RunReturns == (run = "stop") ~> (run = "done")

(* The engine keeps the promise of module Outcome.                         *)
Promise ==
  INSTANCE Outcome WITH
    phase  <- IF run = "done" THEN "closed"
              ELSE IF timedOut THEN "expired" ELSE "open",
    kind   <- IF run = "done" THEN result.kind ELSE kind,
    status <- result.status

ImplementsOutcome == Promise!Spec

(* The engine's monitor and finish follow the protocol of Lifecycle: where *)
(* the monitor is in its loop does not matter, nor does the read of the    *)
(* clock between the join and the commit.                                  *)
Protocol ==
  INSTANCE Lifecycle WITH
    phase    <- CASE run = "new"      -> "before"
                  [] run = "commit"   -> "join"
                  [] run = "classify" -> "finished"
                  [] run = "done"     -> "over"
                  [] OTHER            -> run,
    monitor  <- IF monitor \in {"check", "select"} THEN "running" ELSE monitor,
    verdict  <- timedOut,
    canceled <- ctxDone,
    finished <- state = "finished"

FollowsLifecycle == Protocol!Spec
=============================================================================
