------------------------- MODULE ObserverGuarantees --------------------------
(***************************************************************************)
(* What follows for the user of an observer: what module LossyQueue        *)
(* promises, read off the observer's own variables; for which              *)
(* configurations the two statements of the library hold that do not hold  *)
(* for all of them; and that no observer blocks an emitter.                *)
(***************************************************************************)
EXTENDS ObserverProofs

Lossy == INSTANCE LossyQueueProofs WITH
  policy <- dropPolicy,
  emitted <- EmittedCount,
  observed <- Observed,
  dropped <- DroppedCount,
  squeezed <- step = "evict"

(* The events OnEvent was called with are in the order of their numbers,   *)
(* and so none of them twice.                                              *)
SeenInOrder ==
  \A i, j \in DOMAIN Observed : i < j => Observed[i] < Observed[j]

(* With DropNewest, each event emit has decided on was seen, is in the     *)
(* channel or is counted as dropped.  With DropOldest nothing is counted.  *)
LossesBalance ==
  /\ dropPolicy = "newest" =>
       Len(Observed) + Len(queue) + DroppedCount = EmittedCount
  /\ dropPolicy = "oldest" => DroppedCount = 0

LEMMA QueueKept == Spec => Lossy!Spec
  BY ObserverImplementsQueue
  DEF ImplementsLossyQueue, Delivery!Spec, Delivery!Init, Delivery!Next,
      Delivery!Put, Delivery!Refuse, Delivery!Squeeze, Delivery!LoseOldest,
      Delivery!Observe, Delivery!Close, Delivery!vars,
      Lossy!Spec, Lossy!Init, Lossy!Next, Lossy!Put, Lossy!Refuse,
      Lossy!Squeeze, Lossy!LoseOldest, Lossy!Observe, Lossy!Close,
      Lossy!vars, EmittedCount, DroppedCount, Observed

(* A goroutine that evicts at the front while the consumer receives there  *)
(* never makes the observer see an event late or twice.                    *)
THEOREM ObservedInOrder == Spec => []SeenInOrder
<1>1. Lossy!Spec => []Lossy!InOrder
  BY Lossy!ObservedInOrder
<1>2. Lossy!InOrder => SeenInOrder
  BY DEF Lossy!InOrder, Lossy!Rising, SeenInOrder
<1> QED
  BY <1>1, <1>2, QueueKept, PTL

(* The counter is right for DropNewest, whatever the consumer does, and    *)
(* stays zero for DropOldest, however many events were evicted.            *)
THEOREM LossesCounted == Spec => []LossesBalance
<1>1. Lossy!Spec => []Lossy!AllCounted
  BY Lossy!LossesCounted
<1>2. Lossy!AllCounted => LossesBalance
  BY DEF Lossy!AllCounted, LossesBalance
<1> QED
  BY <1>1, <1>2, QueueKept, PTL
-----------------------------------------------------------------------------
(* For which programs no call panics.                                      *)

(* A caller that holds the lock after Func has returned makes a late call. *)
LateInv ==
  holder = "caller" /\ run \notin {"start", "func"} => log[Event] \in LateCalls

LEMMA LateInductive ==
  ASSUME QueueInv, PhaseInv, LateInv, [Next]_vars
  PROVE  LateInv'
<1>1. LogType /\ {"started", "signal", "unit", "finished"} \subseteq Kinds
  BY DEF QueueInv, Kinds
<1>2. CASE Emit
  <2>1. EmitReturns /\ holder # "none" => LateInv'
    BY DEF EmitReturns, PhaseInv, LateInv
  <2>2. Send \/ CountDrop => LateInv'
    BY <2>1 DEF Send, CountDrop
  <2>3. SendOnClosed \/ QueueFull \/ Evict => UNCHANGED <<holder, run, log>>
    BY DEF SendOnClosed, QueueFull, Evict, channelVars, lockVars, engineVars
  <2> QED
    BY <1>2, <2>2, <2>3 DEF Emit, LateInv, Event
<1>3. CASE Consume \/ UNCHANGED vars
  <2>1. UNCHANGED <<holder, run, log>>
    BY <1>3 DEF Consume, Receive, OnEventReturns, LoopEnds, vars,
       channelVars, lockVars, engineVars
  <2> QED
    BY <2>1 DEF LateInv, Event
<1>4. CASE EmitStarted \/ MonitorTimeout \/ EmitFinished
  BY <1>4 DEF EmitStarted, MonitorTimeout, EmitFinished, Lock, LateInv
<1>5. CASE Signal
  <2>1. Lock("caller", <<"signal">>) /\ MayCall("signal") /\ run' = run
    BY <1>5 DEF Signal, engineVars
  <2>2. log'[Event'] = "signal"
    BY <1>1, <2>1, LockAppends
  <2> QED
    BY <2>1, <2>2 DEF MayCall, LateInv
<1>6. CASE UnitEvent
  <2>1. Lock("caller", <<"unit">>) /\ MayCall("unit") /\ run' = run
    BY <1>6 DEF UnitEvent, engineVars
  <2>2. log'[Event'] = "unit"
    BY <1>1, <2>1, LockAppends
  <2> QED
    BY <2>1, <2>2 DEF MayCall, LateInv
<1>7. CASE FuncReturns
  BY <1>7 DEF FuncReturns, LateInv, Event, channelVars, lockVars
<1>8. CASE Silent /\ ~FuncReturns
  <2>1. UNCHANGED <<holder, log>>
    BY <1>8, SilentKeeps DEF lockVars
  <2>2. run' = run \/ run \notin {"start", "func"} \/ run' = "func"
    BY <1>8 DEF Silent, StartMonitor, MonitorExit, CancelParent, StopMonitor,
       CommitFinish, ReadDropped, Close
  <2> QED
    BY <2>1, <2>2 DEF LateInv, Event
<1> QED
  BY <1>2, <1>3, <1>4, <1>5, <1>6, <1>7, <1>8, NextCases
  DEF Emitting, Callers, Idle

(* No call ends the program when no goroutine that outlives Func begins or *)
(* ends a unit: late signals do no harm.                                   *)
THEOREM OnlyLateUnitsPanic ==
  ASSUME "unit" \notin LateCalls
  PROVE  Spec => []NoPanic
<1> DEFINE Inv == QueueInv /\ PhaseInv
<1>1. Init => LateInv /\ NoPanic
  BY DEF Init, LateInv, NoPanic
<1>2. Inv /\ LateInv /\ NoPanic /\ [Next]_vars => NoPanic'
  <2> SUFFICES ASSUME Inv, LateInv, NoPanic, [Next]_vars PROVE NoPanic'
    OBVIOUS
  <2>1. ~SendOnClosed
    <3> SUFFICES ASSUME SendOnClosed PROVE FALSE
      OBVIOUS
    <3>1. run = "done" /\ holder \in {"caller", "monitor", "run"}
      BY DEF SendOnClosed, PhaseInv, QueueInv, LockType
    <3>2. holder = "caller" /\ log[Event] = "unit"
      BY <3>1 DEF PhaseInv
    <3> QED
      BY <3>1, <3>2 DEF LateInv
  <2>2. CASE Emit
    BY <2>1, <2>2 DEF Emit, Send, QueueFull, Evict, CountDrop, NoPanic
  <2>3. CASE Emitting \/ Silent
    BY <2>3, EmittingLocks, SilentKeeps DEF NoPanic
  <2>4. CASE Consume \/ UNCHANGED vars
    BY <2>4 DEF Consume, Receive, OnEventReturns, LoopEnds, vars, NoPanic
  <2> QED
    BY <2>2, <2>3, <2>4, NextCases DEF Idle
<1>3. Inv /\ LateInv /\ [Next]_vars => LateInv'
  BY LateInductive
<1>4. Spec => []Inv
  BY PhaseInvariance
<1> HIDE DEF Inv
<1> QED
  BY <1>1, <1>2, <1>3, <1>4, PTL DEF Spec
-----------------------------------------------------------------------------
(* For which configurations every drop is counted.                         *)

(* What the holder of the lock is about to emit is not lost yet.           *)
CountInv ==
  dropPolicy = "newest" =>
    /\ IsFiniteSet(lost) /\ DropsCounted
    /\ holder # "none" => Event \notin lost

LEMMA CountInductive ==
  ASSUME QueueInv, CountInv, [Next]_vars
  PROVE  CountInv'
<1>1. /\ LogType /\ LockInv /\ lost \subseteq DOMAIN log
      /\ Len(log) \in Nat /\ DOMAIN log = 1 .. Len(log) /\ dropped \in Nat
  BY LenProperties DEF QueueInv, ChannelType, LogType
<1>2. ASSUME Len(log') = Len(log) + 1 PROVE Event' \notin DOMAIN log
  BY <1>1, <1>2 DEF Event
<1>3. ASSUME EmitReturns, holder # "none"
      PROVE  holder' # "none" => Event' \notin DOMAIN log
  <2>1. CASE toEmit = <<>>
    BY <1>3, <2>1 DEF EmitReturns
  <2>2. CASE toEmit # <<>>
    <3>1. log' = Append(log, Head(toEmit)) /\ Head(toEmit) \in Kinds
      BY <1>3, <2>2, HeadTailProperties DEF EmitReturns, QueueInv, LockType
    <3> QED
      BY <1>1, <1>2, <3>1, LogGrows
  <2> QED
    BY <2>1, <2>2
<1>4. CASE Send
  <2>1. /\ EmitReturns /\ holder # "none"
        /\ UNCHANGED <<dropPolicy, lost, dropped>>
    BY <1>4 DEF Send
  <2> QED
    BY <1>1, <1>3, <2>1 DEF CountInv, DropsCounted
<1>5. CASE SendOnClosed \/ QueueFull
  <2>1. UNCHANGED <<dropPolicy, lost, dropped, log, holder>>
    BY <1>5 DEF SendOnClosed, QueueFull, channelVars, lockVars
  <2> QED
    BY <2>1 DEF CountInv, DropsCounted, Event
<1>6. CASE Evict
  BY <1>1, <1>6 DEF Evict, LockInv, CountInv
<1>7. CASE CountDrop
  <2>1. /\ EmitReturns /\ holder # "none" /\ dropPolicy' = dropPolicy
        /\ lost' = lost \union {Event} /\ dropped' = dropped + 1
    BY <1>7 DEF CountDrop
  <2>2. Event \in DOMAIN log
    BY <1>1, <2>1, EventInLog DEF LockInv
  <2>3. dropPolicy = "newest" =>
          IsFiniteSet(lost') /\ Cardinality(lost') = Cardinality(lost) + 1
    BY <2>1, FS_AddElement DEF CountInv
  <2> QED
    BY <1>1, <1>3, <2>1, <2>2, <2>3 DEF CountInv, DropsCounted
<1>8. CASE Emitting
  <2>1. UNCHANGED <<dropPolicy, lost, dropped>> /\ Len(log') = Len(log) + 1
    BY <1>1, <1>8, EmittingLocks, LockEffect
  <2> QED
    BY <1>1, <1>2, <2>1 DEF CountInv, DropsCounted
<1>9. CASE Silent \/ Consume \/ UNCHANGED vars
  <2>1. UNCHANGED <<dropPolicy, lost, dropped, log, holder>>
    <3>1. Silent => UNCHANGED <<dropPolicy, lost, dropped, log, holder>>
      BY SilentKeeps DEF lockVars
    <3>2. Consume \/ UNCHANGED vars =>
            UNCHANGED <<dropPolicy, lost, dropped, log, holder>>
      BY DEF Consume, Receive, OnEventReturns, LoopEnds, vars, channelVars,
         lockVars
    <3> QED
      BY <1>9, <3>1, <3>2
  <2> QED
    BY <2>1 DEF CountInv, DropsCounted, Event
<1> QED
  BY <1>4, <1>5, <1>6, <1>7, <1>8, <1>9, NextCases DEF Emit, Idle

(* The counter counts every drop when the policy is DropNewest.            *)
THEOREM NewestCounted ==
  ASSUME DropPolicies = {"newest"}
  PROVE  Spec => []DropsCounted
<1>1. Init => CountInv
  BY FS_EmptySet DEF Init, CountInv, DropsCounted
<1>2. QueueInv /\ CountInv => DropsCounted
  BY DEF QueueInv, EngineType, CountInv
<1>3. QueueInv /\ CountInv /\ [Next]_vars => CountInv'
  BY CountInductive
<1> QED
  BY <1>1, <1>2, <1>3, QueueInvariance, PTL DEF Spec
-----------------------------------------------------------------------------
(* The skeleton of the engine follows module Lifecycle.                    *)

(* A verdict cancels the context in its own critical section.              *)
VerdictCancels == timedOut => ctxDone

LEMMA VerdictCancelsInductive ==
  VerdictCancels /\ [Next]_vars => VerdictCancels'
<1> USE DEF VerdictCancels, engineVars
<1>1. CASE Emit \/ Consume \/ Idle \/ UNCHANGED vars
  BY <1>1 DEF Emit, Send, SendOnClosed, QueueFull, Evict, CountDrop, Consume,
     Receive, OnEventReturns, LoopEnds, Idle, vars
<1>2. CASE Emitting \/ Silent
  BY <1>2 DEF Emitting, EmitStarted, Callers, Signal, UnitEvent,
     MonitorTimeout, EmitFinished, Silent, StartMonitor, MonitorExit,
     CancelParent, FuncReturns, StopMonitor, CommitFinish, ReadDropped, Close
<1> QED
  BY <1>1, <1>2, NextCases

LEMMA InitWaits == Init => Protocol!Init
  BY DEF Init, Protocol!Init

LEMMA SilentFollows ==
  ASSUME QueueInv, PhaseInv, VerdictCancels, Silent
  PROVE  [Protocol!Next]_(Protocol!vars)
<1> USE DEF Protocol!vars, Protocol!Next
<1>1. CASE StartMonitor
  <2>1. Protocol!Start
    BY <1>1 DEF StartMonitor, Protocol!Start
  <2> QED
    BY <2>1
<1>2. CASE MonitorExit
  <2>1. Protocol!Leave
    BY <1>2 DEF MonitorExit, Protocol!Leave
  <2> QED
    BY <2>1
<1>3. CASE CancelParent
  <2>1. Protocol!Cancel
    BY <1>3 DEF CancelParent, Protocol!Cancel
  <2> QED
    BY <2>1
<1>4. CASE FuncReturns
  <2>1. Protocol!FuncReturns
    BY <1>4 DEF FuncReturns, Protocol!FuncReturns
  <2> QED
    BY <2>1
<1>5. CASE StopMonitor
  <2>1. ctxDone'
    BY <1>5 DEF StopMonitor, VerdictCancels
  <2>2. Protocol!Stop
    BY <1>5, <2>1 DEF StopMonitor, Protocol!Stop, QueueInv, EngineType
  <2> QED
    BY <2>2
<1>6. CASE CommitFinish
  <2>1. Protocol!Commit
    BY <1>6 DEF CommitFinish, Protocol!Commit
  <2> QED
    BY <2>1
<1>7. CASE ReadDropped
  BY <1>7 DEF ReadDropped
<1>8. CASE Close
  <2>1. Protocol!Return
    BY <1>8 DEF Close, Protocol!Return
  <2> QED
    BY <2>1
<1> QED
  BY <1>1, <1>2, <1>3, <1>4, <1>5, <1>6, <1>7, <1>8 DEF Silent

LEMMA StepFollows ==
  ASSUME QueueInv, PhaseInv, VerdictCancels, [Next]_vars
  PROVE  [Protocol!Next]_(Protocol!vars)
<1> USE DEF Protocol!vars, engineVars
<1>1. CASE Emit \/ Consume \/ Idle \/ UNCHANGED vars
  BY <1>1 DEF Emit, Send, SendOnClosed, QueueFull, Evict, CountDrop, Consume,
     Receive, OnEventReturns, LoopEnds, Idle, vars
<1>2. CASE EmitStarted \/ Callers
  BY <1>2 DEF EmitStarted, Callers, Signal, UnitEvent
<1>3. CASE EmitFinished
  BY <1>3 DEF EmitFinished
<1>4. CASE MonitorTimeout
  <2>1. Protocol!GiveVerdict
    BY <1>4 DEF MonitorTimeout, Protocol!GiveVerdict
  <2> QED
    BY <2>1 DEF Protocol!Next
<1> QED
  BY <1>1, <1>2, <1>3, <1>4, SilentFollows, NextCases DEF Emitting

(* With events, the lock and a consumer around them, the monitor and       *)
(* finish keep the protocol of module Lifecycle, as those of Engine do.    *)
THEOREM ObserverFollowsLifecycle == Spec => FollowsLifecycle
<1>1. Init => VerdictCancels
  BY DEF Init, VerdictCancels
<1>2. QueueInv /\ PhaseInv /\ VerdictCancels /\ [Next]_vars
        => [Protocol!Next]_(Protocol!vars)
  BY StepFollows
<1> QED
  BY <1>1, <1>2, InitWaits, VerdictCancelsInductive, PhaseInvariance, PTL
  DEF Spec, FollowsLifecycle, Protocol!Spec
-----------------------------------------------------------------------------
(* No observer blocks an emitter.                                          *)

Holding == holder # "none" /\ ~panicked
Free == holder = "none" \/ panicked

(* The channel operations that the holder of e.mu may still make.          *)
StepsLeft ==
  (IF toEmit = <<>> THEN 0 ELSE 4)
    + (CASE step = "try" -> 4 [] step = "evict" -> 3 [] step = "retry" -> 2
         [] OTHER -> 1)

HoldingFor(n) == Holding /\ StepsLeft <= n

(* Which of those are left falls below n.                                  *)
Falls(n, m) == HoldingFor(n) ~> (Free \/ HoldingFor(m))

(* Nobody else moves the holder, and each step of its own brings it nearer *)
(* to the unlock.                                                          *)
LEMMA OthersWait ==
  ASSUME Holding, [Next]_vars, ~Emit
  PROVE  UNCHANGED <<lockVars, panicked>>
<1>1. ~Emitting
  BY DEF Holding, Emitting, EmitStarted, Callers, Signal, UnitEvent,
     MonitorTimeout, EmitFinished, Lock
<1>2. CASE Consume \/ UNCHANGED vars
  BY <1>2 DEF Consume, Receive, OnEventReturns, LoopEnds, vars
<1>3. CASE Silent
  BY <1>3, SilentKeeps
<1> QED
  BY <1>1, <1>2, <1>3, NextCases DEF Idle

LEMMA EmitAdvances ==
  ASSUME QueueInv, PhaseInv, Holding, Emit
  PROVE  Free' \/ (Holding' /\ StepsLeft' + 1 <= StepsLeft)
<1>1. ASSUME EmitReturns, panicked' = panicked
      PROVE  Free' \/ (Holding' /\ StepsLeft' + 1 <= StepsLeft)
  <2>1. CASE toEmit = <<>>
    BY <1>1, <2>1 DEF EmitReturns, Free
  <2>2. CASE toEmit # <<>>
    <3>1. toEmit = <<"termination">>
      BY <2>2 DEF PhaseInv
    <3>2. toEmit' = <<>> /\ step' = "try" /\ holder' = holder
      BY <1>1, <2>2, <3>1 DEF EmitReturns
    <3> QED
      BY <1>1, <2>2, <3>2 DEF Holding, StepsLeft
  <2> QED
    BY <2>1, <2>2
<1>2. CASE Send \/ CountDrop
  BY <1>1, <1>2 DEF Send, CountDrop
<1>3. CASE SendOnClosed
  BY <1>3 DEF SendOnClosed, Free
<1>4. CASE QueueFull
  <2>1. UNCHANGED <<holder, toEmit, panicked>>
    BY <1>4 DEF QueueFull
  <2>2. \/ step = "try" /\ step' = "evict"
        \/ step # "count" /\ step # "evict" /\ step' = "count"
    BY <1>4 DEF QueueFull
  <2> QED
    BY <1>4, <2>1, <2>2 DEF QueueFull, Holding, StepsLeft
<1>5. CASE Evict
  BY <1>5 DEF Evict, Holding, StepsLeft
<1> QED
  BY <1>2, <1>3, <1>4, <1>5 DEF Emit

LEMMA OneStepLess ==
  ASSUME NEW m \in Nat, NEW n \in Nat, n = m + 1
  PROVE  FairSpec /\ []HolderCanStep => Falls(n, m)
<1> DEFINE Inv == QueueInv /\ PhaseInv
<1>1. StepsLeft \in Nat /\ StepsLeft' \in Nat
  BY DEF StepsLeft
<1>2. ASSUME Inv, HoldingFor(n), Emit
      PROVE  Free' \/ HoldingFor(m)'
  <2>1. Holding /\ StepsLeft <= n
    BY <1>2 DEF HoldingFor
  <2>2. Free' \/ (Holding' /\ StepsLeft' + 1 <= StepsLeft)
    BY <1>2, <2>1, EmitAdvances
  <2>3. \A a, b \in Nat : a <= n /\ b + 1 <= a => b <= m
    OBVIOUS
  <2> QED
    BY <1>1, <2>1, <2>2, <2>3 DEF HoldingFor
<1>3. Inv /\ HoldingFor(n) /\ [Next]_vars
        => HoldingFor(n)' \/ Free' \/ HoldingFor(m)'
  <2> SUFFICES ASSUME Inv, HoldingFor(n), [Next]_vars, ~Emit
               PROVE  HoldingFor(n)'
    BY <1>2
  <2> QED
    BY OthersWait DEF HoldingFor, Holding, StepsLeft, lockVars
<1>4. Inv /\ HoldingFor(n) /\ <<Emit>>_vars => Free' \/ HoldingFor(m)'
  BY <1>2
<1>5. HoldingFor(n) /\ HolderCanStep => ENABLED <<Emit>>_vars
  BY DEF HoldingFor, Holding, HolderCanStep
<1>6. Spec => []Inv
  BY PhaseInvariance
<1> HIDE DEF Inv
<1> QED
  BY <1>3, <1>4, <1>5, <1>6, PTL DEF FairSpec, Spec, Fairness, Falls

(* A slow observer, or one that never returns, keeps no lock: as long as   *)
(* the holder of e.mu has a next step, it makes one, and after eight at    *)
(* the most it unlocks.                                                    *)
THEOREM EmittersNeverBlocked ==
  FairSpec /\ []HolderCanStep => EmitReturnsAlways
<1>1. Holding => HoldingFor(8)
  BY DEF HoldingFor, StepsLeft
<1>2. ~HoldingFor(0)
  BY DEF HoldingFor, StepsLeft
<1>3. Holding <=> ~Free
  BY DEF Holding, Free
<1>11. FairSpec /\ []HolderCanStep => Falls(1, 0)
  BY OneStepLess, 1 = 0 + 1
<1>12. FairSpec /\ []HolderCanStep => Falls(2, 1)
  BY OneStepLess, 2 = 1 + 1
<1>13. FairSpec /\ []HolderCanStep => Falls(3, 2)
  BY OneStepLess, 3 = 2 + 1
<1>14. FairSpec /\ []HolderCanStep => Falls(4, 3)
  BY OneStepLess, 4 = 3 + 1
<1>15. FairSpec /\ []HolderCanStep => Falls(5, 4)
  BY OneStepLess, 5 = 4 + 1
<1>16. FairSpec /\ []HolderCanStep => Falls(6, 5)
  BY OneStepLess, 6 = 5 + 1
<1>17. FairSpec /\ []HolderCanStep => Falls(7, 6)
  BY OneStepLess, 7 = 6 + 1
<1>18. FairSpec /\ []HolderCanStep => Falls(8, 7)
  BY OneStepLess, 8 = 7 + 1
<1>5. FairSpec /\ []HolderCanStep => (Holding ~> Free)
  BY <1>1, <1>2, <1>3, <1>11, <1>12, <1>13, <1>14, <1>15, <1>16, <1>17,
     <1>18, PTL DEF Falls
<1>6. /\ holder # "none" => Holding \/ Free
      /\ Free => holder = "none" \/ panicked
  BY DEF Holding, Free
<1> QED
  BY <1>5, <1>6, PTL DEF EmitReturnsAlways
=============================================================================
