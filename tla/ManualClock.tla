---------------------------- MODULE ManualClock -----------------------------
(***************************************************************************)
(* The injected clock (clock.go) and the monitors that wait on it          *)
(* (execution.go, monitor).                                                *)
(*                                                                         *)
(* With a ManualClock the monitor has no ticker: it sleeps until the       *)
(* context is done or the clock's watcher channel yields a notification.   *)
(* Advance moves the time under c.mu and notifies after unlocking, with a  *)
(* send that is skipped when the one-element buffer is full; concurrent    *)
(* calls of Advance are between the two steps independently.  A clock may  *)
(* serve several executions, because one Config may be run concurrently.   *)
(*                                                                         *)
(* Each execution has one limit and the moment that limit counts from,     *)
(* which a signal moves to the present (the idle policy) or which never    *)
(* moves (the hard policy); all the limits together are in module Engine.  *)
(***************************************************************************)
EXTENDS Integers

CONSTANTS
  Runs,     \* the executions that share the clock
  Limits,   \* limits an execution may be configured with
  Steps,    \* the durations Advance is called with
  MaxTime   \* bound: the clock is not advanced past it

ASSUME LimitsAssumption == Limits \subseteq Nat \ {0}
ASSUME StepsAssumption == Steps \subseteq Nat \ {0}
ASSUME MaxTimeAssumption == MaxTime \in Nat

VARIABLES
  now,        \* c.now
  notified,   \* is there a notification in c.ch?
  advancing,  \* calls of Advance between the unlock and the send
  limit,      \* the limit of each execution, fixed by Init
  moving,     \* do signals move the moment it counts from? fixed by Init
  since,      \* the moment it counts from
  timedOut,
  ctxDone,
  monitor,    \* where each monitor is
  takenAt     \* when it took its last notification (history)

clockVars == <<now, notified, advancing>>
configVars == <<limit, moving>>
runVars == <<since, timedOut, ctxDone, monitor, takenAt>>
vars == <<clockVars, configVars, runVars>>

(* The clock may have been advanced before the executions began, and the   *)
(* notification of that may still be there.                                *)
Init ==
  /\ now = 0 /\ notified \in BOOLEAN /\ advancing = 0
  /\ limit \in [Runs -> Limits]
  /\ moving \in [Runs -> BOOLEAN]
  /\ since = [r \in Runs |-> 0]
  /\ timedOut = [r \in Runs |-> FALSE]
  /\ ctxDone = [r \in Runs |-> FALSE]
  /\ monitor = [r \in Runs |-> "check"]
  /\ takenAt = [r \in Runs |-> 0]

Overdue(r) == now - since[r] >= limit[r]
-----------------------------------------------------------------------------
(* ManualClock.Advance: the time, under the lock.                          *)
AdvanceTime(d) ==
  /\ now + d <= MaxTime
  /\ now' = now + d
  /\ advancing' = advancing + 1
  /\ UNCHANGED <<notified, configVars, runVars>>

(* Mutant of AdvanceNotify: a channel without a buffer loses the           *)
(* notification when the monitor has looked at the clock but is not in its *)
(* select yet.                                                             *)
AdvanceNotifyUnbuffered ==
  /\ advancing > 0
  /\ notified' \in
       {notified, notified \/ \E r \in Runs : monitor[r] = "select"}
  /\ advancing' = advancing - 1
  /\ UNCHANGED <<now, configVars, runVars>>

(* Then the notification; a full buffer makes the select take default.     *)
AdvanceNotify ==
  /\ advancing > 0
  /\ notified' = TRUE
  /\ advancing' = advancing - 1
  /\ UNCHANGED <<now, configVars, runVars>>

(* Mutant of Signal: signals count after the verdict.                      *)
SignalAfterVerdict(r) ==
  /\ moving[r] /\ since[r] # now
  /\ since' = [since EXCEPT ![r] = now]
  /\ UNCHANGED <<clockVars, configVars, timedOut, ctxDone, monitor, takenAt>>

(* A signal of the supervised code: it reads the clock, tells no watcher.  *)
Signal(r) ==
  /\ moving[r] /\ ~timedOut[r] /\ since[r] # now
  /\ since' = [since EXCEPT ![r] = now]
  /\ UNCHANGED <<clockVars, configVars, timedOut, ctxDone, monitor, takenAt>>

(* tryTimeout.                                                             *)
TryTimeout(r) ==
  /\ monitor[r] = "check"
  /\ IF Overdue(r)
     THEN /\ timedOut' = [timedOut EXCEPT ![r] = TRUE]
          /\ ctxDone' = [ctxDone EXCEPT ![r] = TRUE]
          /\ monitor' = [monitor EXCEPT ![r] = "exited"]
     ELSE /\ monitor' = [monitor EXCEPT ![r] = "select"]
          /\ UNCHANGED <<timedOut, ctxDone>>
  /\ UNCHANGED <<clockVars, configVars, since, takenAt>>

(* Mutant of Wake: the monitor sleeps again without another look.          *)
WakeWithoutCheck(r) ==
  /\ monitor[r] = "select" /\ notified
  /\ notified' = FALSE
  /\ UNCHANGED <<now, advancing, configVars, runVars>>

(* case <-e.clock.Watcher(): one receiver takes the notification.          *)
Wake(r) ==
  /\ monitor[r] = "select" /\ notified
  /\ notified' = FALSE
  /\ monitor' = [monitor EXCEPT ![r] = "check"]
  /\ takenAt' = [takenAt EXCEPT ![r] = now]
  /\ UNCHANGED <<now, advancing, configVars, since, timedOut, ctxDone>>

(* case <-e.ctx.Done().                                                    *)
MonitorExit(r) ==
  /\ monitor[r] = "select" /\ ctxDone[r]
  /\ monitor' = [monitor EXCEPT ![r] = "exited"]
  /\ UNCHANGED <<clockVars, configVars, since, timedOut, ctxDone, takenAt>>

(* The parent is canceled, or Func has returned and finish cancels.        *)
Cancel(r) ==
  /\ ~ctxDone[r]
  /\ ctxDone' = [ctxDone EXCEPT ![r] = TRUE]
  /\ UNCHANGED <<clockVars, configVars, since, timedOut, monitor, takenAt>>

(* All monitors are gone or asleep: the program waits for its user.        *)
Quiet ==
  /\ \A r \in Runs :
       monitor[r] = "exited" \/ (monitor[r] = "select" /\ ~notified)
  /\ UNCHANGED vars

Next ==
  \/ \E d \in Steps : AdvanceTime(d)
  \/ AdvanceNotify
  \/ \E r \in Runs :
       \/ Signal(r)
       \/ TryTimeout(r) \/ Wake(r) \/ MonitorExit(r)
       \/ Cancel(r)
  \/ Quiet

Spec == Init /\ [][Next]_vars

(* The scheduler lets a call of Advance finish and a monitor run; select   *)
(* does not ignore a ready case forever.                                   *)
MonitorFairness(r) ==
  WF_vars(TryTimeout(r)) /\ SF_vars(Wake(r)) /\ SF_vars(MonitorExit(r))

MonitorsFair == \A r \in Runs : MonitorFairness(r)

Fairness == WF_vars(AdvanceNotify) /\ MonitorsFair

FairSpec == Spec /\ Fairness
-----------------------------------------------------------------------------
(* Every variable has the type of what it stands for.                      *)
TypeOK ==
  /\ now \in Nat /\ notified \in BOOLEAN /\ advancing \in Nat
  /\ limit \in [Runs -> Limits] /\ moving \in [Runs -> BOOLEAN]
  /\ since \in [Runs -> Nat]
  /\ timedOut \in [Runs -> BOOLEAN] /\ ctxDone \in [Runs -> BOOLEAN]
  /\ monitor \in [Runs -> {"check", "select", "exited"}]
  /\ takenAt \in [Runs -> Nat]

(* Another execution than r has taken a notification at this very time.    *)
TakenFrom(r) == \E s \in Runs \ {r} : takenAt[s] = now

(* A monitor that sleeps past its limit is about to be woken: there is a   *)
(* notification for it, or a call of Advance has still to send one.  This  *)
(* is what the comment on ManualClock means by a monitor that "still       *)
(* observes the new time".  Of several executions on one clock all but one *)
(* may be left asleep, but in no other way than that one of them has taken *)
(* a notification since the clock was moved.                               *)
NoLostWakeup ==
  \A r \in Runs :
    monitor[r] = "select" /\ Overdue(r)
      => notified \/ advancing > 0 \/ TakenFrom(r)

(* A verdict is never given early, and a moving limit is not reported      *)
(* after a signal has come in time.                                        *)
NotEarly == \A r \in Runs : timedOut[r] => Overdue(r)

(* The engine notices an exceeded limit once the clock was advanced to it, *)
(* unless another execution on the same clock has taken the notification.  *)
Noticed(r) == Overdue(r) ~> (ctxDone[r] \/ ~Overdue(r) \/ TakenFrom(r))

OverdueNoticed == \A r \in Runs : Noticed(r)
=============================================================================
