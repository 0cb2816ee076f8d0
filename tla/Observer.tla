------------------------------ MODULE Observer ------------------------------
(***************************************************************************)
(* Delivery of the engine's events to an observer (observer.go), with the  *)
(* part of execution.go that emits them.                                   *)
(*                                                                         *)
(* Every emission happens inside a critical section of e.mu, but the       *)
(* goroutine that takes events off the channel, the read of the drop       *)
(* counter and the close of the channel do not take that lock.  So each    *)
(* channel operation of emit is an action of its own here, and e.mu is a   *)
(* variable.  Policies and clocks are left to module Engine: a verdict may *)
(* come at any time.                                                       *)
(*                                                                         *)
(* An event is its position in log, the sequence of the kinds of all the   *)
(* events emitted so far.                                                  *)
(***************************************************************************)
EXTENDS Integers, Sequences

CONSTANTS
  Capacity,      \* size of the channel's buffer
  DropPolicies,  \* the drop policies an observer may be configured with
  LateCalls,     \* calls that goroutines make after Func has returned
  MaxEvents      \* bound: callers stop when this many events were emitted

ASSUME CapacityAssumption == Capacity \in Nat \ {0}
ASSUME DropPolicyAssumption == DropPolicies \subseteq {"newest", "oldest"}
ASSUME LateCallsAssumption == LateCalls \subseteq {"signal", "unit"}
ASSUME MaxEventsAssumption == MaxEvents \in Nat

VARIABLES
  dropPolicy,  \* a.dropPolicy, fixed by Init
  queue,       \* the contents of a.ch
  closed,      \* close(a.ch) has been called
  dropped,     \* a.dropped
  consumer,    \* the goroutine of loop: idle, busy in OnEvent, or exited
  inHand,      \* the event OnEvent was called with, 0 for none
  delivered,   \* the events whose OnEvent has returned (history)
  lost,        \* the events discarded, whoever did it (history)
  log,         \* the kinds of the events emitted (history)
  holder,      \* who holds e.mu: none, caller, monitor or run
  toEmit,      \* the kinds the holder has still to emit before it unlocks
  step,        \* where the holder is in emit
  timedOut, state, ctxDone,
  monitor, run,
  reported,    \* Result.EventsDropped
  panicked     \* a send on the closed channel ended the program

channelVars == <<queue, closed, dropped, lost, log>>
consumerVars == <<consumer, inHand, delivered>>
lockVars == <<holder, toEmit, step>>
engineVars == <<timedOut, state, ctxDone, monitor, run, reported>>
vars == <<dropPolicy, channelVars, consumerVars, lockVars, engineVars,
          panicked>>

Init ==
  /\ dropPolicy \in DropPolicies
  /\ queue = <<>> /\ closed = FALSE /\ dropped = 0 /\ lost = {} /\ log = <<>>
  /\ consumer = "idle" /\ inHand = 0 /\ delivered = <<>>
  /\ holder = "none" /\ toEmit = <<>> /\ step = "try"
  /\ timedOut = FALSE /\ state = "running" /\ ctxDone = FALSE
  /\ monitor = "unborn" /\ run = "start" /\ reported = 0
  /\ panicked = FALSE
-----------------------------------------------------------------------------
(* asyncObserver.emit, run by whoever holds e.mu.                          *)

(* The holder locks e.mu to emit these events, and enters the first emit.  *)
Lock(who, kinds) ==
  /\ holder = "none" /\ ~panicked
  /\ holder' = who
  /\ toEmit' = Tail(kinds)
  /\ log' = Append(log, Head(kinds))
  /\ step' = "try"

Event == Len(log)

(* emit has returned: the next event of the critical section, or unlock.   *)
EmitReturns ==
  IF toEmit = <<>>
  THEN holder' = "none" /\ UNCHANGED <<toEmit, step, log>>
  ELSE /\ log' = Append(log, Head(toEmit))
       /\ toEmit' = Tail(toEmit)
       /\ step' = "try"
       /\ UNCHANGED holder

(* case a.ch <- ev, in the first select and in the last.                   *)
Send ==
  /\ holder # "none" /\ step \in {"try", "retry"} /\ ~panicked
  /\ ~closed /\ Len(queue) < Capacity
  /\ queue' = Append(queue, Event)
  /\ EmitReturns
  /\ UNCHANGED <<dropPolicy, closed, dropped, lost, consumerVars, engineVars,
                 panicked>>

(* A send on a closed channel panics, in a select too.                     *)
SendOnClosed ==
  /\ holder # "none" /\ step \in {"try", "retry"} /\ ~panicked
  /\ closed
  /\ panicked' = TRUE
  /\ UNCHANGED <<dropPolicy, channelVars, consumerVars, lockVars, engineVars>>

(* Mutants of QueueFull: DropOldest does not evict; there is no default,   *)
(* so the send blocks.                                                     *)
QueueFullCounts ==
  /\ holder # "none" /\ step \in {"try", "retry"} /\ ~panicked
  /\ ~closed /\ Len(queue) >= Capacity
  /\ step' = "count"
  /\ UNCHANGED <<dropPolicy, channelVars, consumerVars, holder, toEmit,
                 engineVars, panicked>>
QueueFullBlocks == FALSE /\ UNCHANGED vars

(* default: the buffer is full.                                            *)
QueueFull ==
  /\ holder # "none" /\ step \in {"try", "retry"} /\ ~panicked
  /\ ~closed /\ Len(queue) >= Capacity
  /\ step' = IF step = "try" /\ dropPolicy = "oldest" THEN "evict" ELSE "count"
  /\ UNCHANGED <<dropPolicy, channelVars, consumerVars, holder, toEmit,
                 engineVars, panicked>>

(* DropOldest takes one event off the channel if one is still there.       *)
Evict ==
  /\ step = "evict" /\ ~panicked
  /\ queue' = IF queue = <<>> THEN <<>> ELSE Tail(queue)
  /\ lost' = IF queue = <<>> THEN lost ELSE lost \union {Head(queue)}
  /\ step' = "retry"
  /\ UNCHANGED <<dropPolicy, closed, dropped, log, consumerVars, holder,
                 toEmit, engineVars, panicked>>

CountDrop ==
  /\ holder # "none" /\ step = "count" /\ ~panicked
  /\ dropped' = dropped + 1
  /\ lost' = lost \union {Event}
  /\ EmitReturns
  /\ UNCHANGED <<dropPolicy, queue, closed, consumerVars, engineVars,
                 panicked>>

Emit == Send \/ SendOnClosed \/ QueueFull \/ Evict \/ CountDrop
-----------------------------------------------------------------------------
(* asyncObserver.loop: the consumer.                                       *)

(* Mutant of Receive: it stops at the close, not when the queue is drained.*)
ReceiveUntilClosed ==
  /\ consumer = "idle" /\ queue # <<>> /\ ~closed /\ ~panicked
  /\ inHand' = Head(queue)
  /\ queue' = Tail(queue)
  /\ consumer' = "busy"
  /\ UNCHANGED <<dropPolicy, closed, dropped, lost, log, delivered, lockVars,
                 engineVars, panicked>>

Receive ==
  /\ consumer = "idle" /\ queue # <<>> /\ ~panicked
  /\ inHand' = Head(queue)
  /\ queue' = Tail(queue)
  /\ consumer' = "busy"
  /\ UNCHANGED <<dropPolicy, closed, dropped, lost, log, delivered, lockVars,
                 engineVars, panicked>>

(* OnEvent is the observer's own code: it may return late, or never.       *)
OnEventReturns ==
  /\ consumer = "busy" /\ ~panicked
  /\ delivered' = Append(delivered, inHand)
  /\ inHand' = 0
  /\ consumer' = "idle"
  /\ UNCHANGED <<dropPolicy, channelVars, lockVars, engineVars, panicked>>

(* range over a closed and drained channel ends.                           *)
LoopEnds ==
  /\ consumer = "idle" /\ closed /\ queue = <<>> /\ ~panicked
  /\ consumer' = "exited"
  /\ UNCHANGED <<dropPolicy, channelVars, inHand, delivered, lockVars,
                 engineVars, panicked>>
-----------------------------------------------------------------------------
(* The emitters: runExecution, the callers, the monitor, finish.           *)

EmitStarted ==
  /\ run = "start" /\ holder = "none" /\ log = <<>>
  /\ Lock("run", <<"started">>)
  /\ UNCHANGED <<dropPolicy, queue, closed, dropped, lost, consumerVars,
                 engineVars, panicked>>

StartMonitor ==
  /\ run = "start" /\ holder = "none" /\ log # <<>> /\ ~panicked
  /\ run' = "func"
  /\ monitor' = "running"
  /\ UNCHANGED <<dropPolicy, channelVars, consumerVars, lockVars, timedOut,
                 state, ctxDone, reported, panicked>>

MayCall(call) ==
  /\ run = "func" \/ (run # "start" /\ call \in LateCalls)
  /\ Len(log) < MaxEvents

(* Mutants of Signal: each forgets one half of the guard.                  *)
SignalAfterVerdict ==
  /\ MayCall("signal")
  /\ state = "running"
  /\ Lock("caller", <<"signal">>)
  /\ UNCHANGED <<dropPolicy, queue, closed, dropped, lost, consumerVars,
                 engineVars, panicked>>
SignalAfterFinish ==
  /\ MayCall("signal")
  /\ ~timedOut
  /\ Lock("caller", <<"signal">>)
  /\ UNCHANGED <<dropPolicy, queue, closed, dropped, lost, consumerVars,
                 engineVars, panicked>>

(* Heartbeat, Status, Progress: nothing is emitted once the execution has  *)
(* timed out or finished.                                                  *)
Signal ==
  /\ MayCall("signal")
  /\ ~timedOut /\ state = "running"
  /\ Lock("caller", <<"signal">>)
  /\ UNCHANGED <<dropPolicy, queue, closed, dropped, lost, consumerVars,
                 engineVars, panicked>>

(* BeginUnit and endUnit emit whatever the state of the execution.         *)
UnitEvent ==
  /\ MayCall("unit")
  /\ Lock("caller", <<"unit">>)
  /\ UNCHANGED <<dropPolicy, queue, closed, dropped, lost, consumerVars,
                 engineVars, panicked>>

(* tryTimeout: two events and the cancellation in one critical section.    *)
(* That the cancellation comes after the events shows only in the monitor, *)
(* which cannot exit before its critical section ends.                     *)
MonitorTimeout ==
  /\ monitor = "running" /\ ~timedOut /\ state = "running"
  /\ Lock("monitor", <<"timeout", "termination">>)
  /\ timedOut' = TRUE
  /\ ctxDone' = TRUE
  /\ UNCHANGED <<dropPolicy, queue, closed, dropped, lost, consumerVars,
                 state, monitor, run, reported, panicked>>

MonitorExit ==
  /\ monitor = "running" /\ ctxDone /\ holder # "monitor" /\ ~panicked
  /\ monitor' = "exited"
  /\ UNCHANGED <<dropPolicy, channelVars, consumerVars, lockVars, timedOut,
                 state, ctxDone, run, reported, panicked>>

CancelParent ==
  /\ ~ctxDone /\ ~panicked
  /\ ctxDone' = TRUE
  /\ UNCHANGED <<dropPolicy, channelVars, consumerVars, lockVars, timedOut,
                 state, monitor, run, reported, panicked>>

(* Func returns; a goroutine still in a call is one that outlives it.      *)
FuncReturns ==
  /\ run = "func" /\ ~panicked
  /\ holder = "caller" => log[Event] \in LateCalls
  /\ run' = "stop"
  /\ UNCHANGED <<dropPolicy, channelVars, consumerVars, lockVars, timedOut,
                 state, ctxDone, monitor, reported, panicked>>

StopMonitor ==
  /\ run = "stop" /\ holder = "none" /\ ~panicked
  /\ run' = "join"
  /\ ctxDone' = (ctxDone \/ ~timedOut)
  /\ UNCHANGED <<dropPolicy, channelVars, consumerVars, lockVars, timedOut,
                 state, monitor, reported, panicked>>

CommitFinish ==
  /\ run = "join" /\ monitor = "exited" /\ holder = "none" /\ ~panicked
  /\ state' = "finished"
  /\ run' = "count"
  /\ UNCHANGED <<dropPolicy, channelVars, consumerVars, lockVars, timedOut,
                 ctxDone, monitor, reported, panicked>>

(* Result.EventsDropped is filled in before the last event is emitted.     *)
ReadDropped ==
  /\ run = "count" /\ ~panicked
  /\ reported' = dropped
  /\ run' = "last"
  /\ UNCHANGED <<dropPolicy, channelVars, consumerVars, lockVars, timedOut,
                 state, ctxDone, monitor, panicked>>

EmitFinished ==
  /\ run = "last"
  /\ Lock("run", <<"finished">>)
  /\ run' = "close"
  /\ UNCHANGED <<dropPolicy, queue, closed, dropped, lost, consumerVars,
                 timedOut, state, ctxDone, monitor, reported, panicked>>

(* obs.close(), after finish has returned: no lock is taken.               *)
Close ==
  /\ run = "close" /\ holder # "run" /\ ~panicked
  /\ closed' = TRUE
  /\ run' = "done"
  /\ UNCHANGED <<dropPolicy, queue, dropped, lost, log, consumerVars,
                 lockVars, timedOut, state, ctxDone, monitor, reported,
                 panicked>>

(* Run has returned, or the program is gone: nothing more has to happen.   *)
Over == run = "done" \/ panicked

Idle == Over /\ UNCHANGED vars

Consume == Receive \/ OnEventReturns \/ LoopEnds

Callers == Signal \/ UnitEvent

Finish == StopMonitor \/ CommitFinish \/ ReadDropped \/ EmitFinished \/ Close

Next ==
  \/ Emit
  \/ Consume
  \/ EmitStarted \/ StartMonitor
  \/ Callers
  \/ MonitorTimeout \/ MonitorExit
  \/ CancelParent
  \/ FuncReturns
  \/ Finish
  \/ Idle

Spec == Init /\ [][Next]_vars

(* The scheduler runs every goroutine that can run, and sync.Mutex lets no *)
(* goroutine starve.  Nothing is assumed of OnEvent or of Func.            *)
Fairness ==
  /\ WF_vars(Emit)
  /\ WF_vars(Receive) /\ WF_vars(LoopEnds)
  /\ WF_vars(EmitStarted) /\ WF_vars(StartMonitor)
  /\ WF_vars(MonitorExit)
  /\ SF_vars(Finish)

FairSpec == Spec /\ Fairness
=============================================================================
