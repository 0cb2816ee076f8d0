--------------------------- MODULE ObserverProofs ---------------------------
(***************************************************************************)
(* Proofs about module Observer, for a channel of any size, both drop      *)
(* policies and whatever goroutines that outlive Func call.                *)
(***************************************************************************)
EXTENDS ObserverProps, TLAPS, SequenceTheorems, FiniteSetTheorems

USE CapacityAssumption, DropPolicyAssumption, LateCallsAssumption

(* The type of the log, ...                                                *)
LogType == log \in Seq(Kinds)

(* ... of what refers to it, the channel and the consumer, ...             *)
ChannelType ==
  /\ queue \in Seq(DOMAIN log) /\ Len(queue) <= Capacity
  /\ closed \in BOOLEAN /\ dropped \in Nat /\ lost \subseteq DOMAIN log
  /\ consumer \in {"idle", "busy", "exited"}
  /\ inHand \in DOMAIN log \union {0} /\ delivered \in Seq(DOMAIN log)

(* ... of the holder of e.mu and of the goroutines of the engine.          *)
LockType ==
  /\ holder \in {"none", "caller", "monitor", "run"}
  /\ toEmit \in Seq(Kinds) /\ step \in {"try", "evict", "retry", "count"}

EngineType ==
  /\ dropPolicy \in DropPolicies
  /\ timedOut \in BOOLEAN /\ state \in {"running", "finished"}
  /\ ctxDone \in BOOLEAN
  /\ monitor \in {"unborn", "running", "exited"}
  /\ run \in {"start", "func", "stop", "join", "count", "last", "close",
              "done"}
  /\ reported \in Nat /\ panicked \in BOOLEAN

(* Whoever holds the lock is about to send the last event of the log, and  *)
(* an evicting holder has found the queue full and has made room: nobody   *)
(* else sends.                                                             *)
LockInv ==
  /\ holder # "none" => log # <<>>
  /\ consumer = "busy" <=> inHand # 0
  /\ step = "evict" => holder # "none" /\ dropPolicy = "oldest"
  /\ step = "retry" /\ holder # "none" => Len(queue) < Capacity

QueueInv ==
  LogType /\ ChannelType /\ LockType /\ EngineType /\ LockInv
-----------------------------------------------------------------------------
(* A log that grows keeps its events in their places.                      *)
LEMMA LogGrows ==
  ASSUME LogType, NEW k \in Kinds, log' = Append(log, k)
  PROVE  /\ LogType' /\ log' # <<>>
         /\ DOMAIN log \subseteq DOMAIN log'
         /\ Len(log) \in Nat /\ Len(log') = Len(log) + 1
         /\ DOMAIN log = 1 .. Len(log) /\ DOMAIN log' = 1 .. Len(log')
         /\ log'[Len(log')] = k
         /\ \A i \in DOMAIN log : log'[i] = log[i]
<1>1. /\ log' \in Seq(Kinds) /\ Len(log') = Len(log) + 1
      /\ Len(log) \in Nat /\ DOMAIN log = 1 .. Len(log)
      /\ log'[Len(log) + 1] = k
      /\ \A i \in 1 .. Len(log) : log'[i] = log[i]
  BY AppendProperties, LenProperties DEF LogType
<1>2. DOMAIN log' = 1 .. Len(log')
  BY <1>1, LenProperties
<1>3. log' # <<>>
  BY <1>1
<1> QED
  BY <1>1, <1>2, <1>3 DEF LogType

(* What refers to the log still does when the log has grown.               *)
LEMMA ChannelTypeKept ==
  ASSUME LogType, ChannelType, DOMAIN log \subseteq DOMAIN log',
         UNCHANGED <<queue, closed, dropped, lost, consumerVars>>
  PROVE  ChannelType'
<1> DEFINE D == DOMAIN log
           E == DOMAIN log'
<1>1. queue \in Seq(E) /\ delivered \in Seq(E)
  <2>1. queue \in Seq(D) /\ delivered \in Seq(D) /\ D \subseteq E
    BY DEF ChannelType
  <2> QED
    BY <2>1, SeqMonotonic
<1> QED
  BY <1>1 DEF ChannelType, consumerVars

LEMMA EventInLog ==
  ASSUME LogType, log # <<>>
  PROVE  Event \in DOMAIN log /\ Event \in Nat \ {0}
  BY LenProperties, EmptySeq DEF LogType, Event

(* The end of an emission leaves the log, or appends to it what the holder *)
(* has still to emit.                                                      *)
LEMMA AfterEmit ==
  ASSUME LogType, LockType, EmitReturns
  PROVE  /\ LogType' /\ LockType'
         /\ DOMAIN log \subseteq DOMAIN log'
         /\ holder' \in {"none", holder}
         /\ step' \in {step, "try"}
         /\ holder' # "none" => log' # <<>> /\ step' = "try"
         /\ \/ holder' = "none" /\ log' = log /\ toEmit = <<>>
            \/ /\ holder' = holder /\ Len(log') = Len(log) + 1
               /\ toEmit # <<>> /\ toEmit' = Tail(toEmit)
               /\ log' = Append(log, Head(toEmit)) /\ Head(toEmit) \in Kinds
<1>1. CASE toEmit = <<>>
  BY <1>1 DEF EmitReturns, LogType, LockType
<1>2. CASE toEmit # <<>>
  <2>1. Head(toEmit) \in Kinds /\ Tail(toEmit) \in Seq(Kinds)
    BY <1>2, HeadTailProperties DEF LockType
  <2>2. log' = Append(log, Head(toEmit)) /\ step' = "try" /\ holder' = holder
        /\ toEmit' = Tail(toEmit)
    BY <1>2 DEF EmitReturns
  <2> QED
    BY <1>2, <2>1, <2>2, LogGrows DEF LockType
<1> QED
  BY <1>1, <1>2

(* Locking e.mu to emit appends the first event.                           *)
LEMMA AfterLock ==
  ASSUME LogType, NEW who \in {"caller", "monitor", "run"},
         NEW kinds \in Seq(Kinds), kinds # <<>>, Lock(who, kinds)
  PROVE  /\ LogType' /\ LockType'
         /\ DOMAIN log \subseteq DOMAIN log'
         /\ holder = "none" /\ holder' = who /\ step' = "try" /\ ~panicked
         /\ log' # <<>> /\ Len(log') = Len(log) + 1
         /\ log' = Append(log, Head(kinds)) /\ Head(kinds) \in Kinds
<1>1. Head(kinds) \in Kinds /\ Tail(kinds) \in Seq(Kinds)
  BY HeadTailProperties
<1>2. /\ log' = Append(log, Head(kinds)) /\ step' = "try" /\ holder' = who
      /\ toEmit' = Tail(kinds) /\ holder = "none" /\ ~panicked
  BY DEF Lock
<1> QED
  BY <1>1, <1>2, LogGrows DEF LockType

LEMMA KindSequences ==
  /\ \A k \in Kinds : /\ <<k>> \in Seq(Kinds) /\ <<k>> # <<>>
                      /\ Head(<<k>>) = k /\ Tail(<<k>>) = <<>>
  /\ LET both == <<"timeout", "termination">>
     IN  /\ both \in Seq(Kinds) /\ both # <<>>
         /\ Head(both) = "timeout" /\ Tail(both) = <<"termination">>
  BY DEF Kinds

(* The critical sections that emit, all alike but for what they emit.      *)
Locking ==
  \/ Lock("run", <<"started">>) \/ Lock("caller", <<"signal">>)
  \/ Lock("caller", <<"unit">>) \/ Lock("run", <<"finished">>)
  \/ Lock("monitor", <<"timeout", "termination">>)

LEMMA LockEffect ==
  ASSUME LogType, Locking
  PROVE  /\ LogType' /\ LockType'
         /\ DOMAIN log \subseteq DOMAIN log'
         /\ holder = "none" /\ holder' # "none" /\ step' = "try" /\ ~panicked
         /\ log' # <<>> /\ Len(log') = Len(log) + 1
<1>1. ASSUME NEW who \in {"caller", "monitor", "run"}, NEW k \in Kinds,
             Lock(who, <<k>>)
      PROVE  /\ LogType' /\ LockType'
             /\ DOMAIN log \subseteq DOMAIN log'
             /\ holder = "none" /\ holder' # "none" /\ step' = "try"
             /\ ~panicked /\ log' # <<>> /\ Len(log') = Len(log) + 1
  <2>1. <<k>> \in Seq(Kinds) /\ <<k>> # <<>>
    BY KindSequences
  <2> HIDE DEF Lock
  <2> QED
    BY <1>1, <2>1, AfterLock
<1>2. CASE Lock("monitor", <<"timeout", "termination">>)
  <2>1. <<"timeout", "termination">> \in Seq(Kinds)
        /\ <<"timeout", "termination">> # <<>>
    BY KindSequences
  <2> QED
    BY <1>2, <2>1, AfterLock
<1>3. {"started", "signal", "unit", "finished"} \subseteq Kinds
  BY DEF Kinds
<1> QED
  BY <1>1, <1>2, <1>3 DEF Locking

(* The steps of the engine that emit nothing.                              *)
Silent ==
  \/ StartMonitor \/ MonitorExit \/ CancelParent \/ FuncReturns
  \/ StopMonitor \/ CommitFinish \/ ReadDropped \/ Close

Emitting ==
  EmitStarted \/ Callers \/ MonitorTimeout \/ EmitFinished

LEMMA NextCases ==
  Next <=> Emit \/ Consume \/ Emitting \/ Silent \/ Idle
  BY DEF Next, Finish, Emitting, Silent

LEMMA EmittingLocks ==
  ASSUME Emitting
  PROVE  Locking /\ UNCHANGED <<dropPolicy, queue, closed, dropped, lost,
                                consumerVars, reported, panicked>>
  BY DEF Emitting, EmitStarted, Callers, Signal, UnitEvent, MonitorTimeout,
         EmitFinished, Locking, engineVars

LEMMA SilentKeeps ==
  ASSUME Silent
  PROVE  UNCHANGED <<dropPolicy, queue, dropped, lost, log, consumerVars,
                     lockVars, panicked>>
  BY DEF Silent, StartMonitor, MonitorExit, CancelParent, FuncReturns,
         StopMonitor, CommitFinish, ReadDropped, Close, channelVars
-----------------------------------------------------------------------------
LEMMA InitQueueInv == Init => QueueInv
<1> SUFFICES ASSUME Init PROVE QueueInv
  OBVIOUS
<1>1. <<>> \in Seq(Kinds)
  BY EmptySeq
<1>2. LogType /\ LockType /\ EngineType
  BY <1>1 DEF Init, LogType, LockType, EngineType
<1>3. ChannelType
  <2> DEFINE D == DOMAIN log
  <2>1. <<>> \in Seq(D) /\ Len(<<>>) = 0
    BY EmptySeq
  <2>2. queue \in Seq(D) /\ delivered \in Seq(D) /\ Len(queue) <= Capacity
    BY <2>1 DEF Init
  <2> QED
    BY <2>2 DEF Init, ChannelType
<1>4. LockInv
  BY DEF Init, LockInv
<1> QED
  BY <1>2, <1>3, <1>4 DEF QueueInv

LEMMA EngineTyped == QueueInv /\ [Next]_vars => EngineType'
<1> SUFFICES ASSUME QueueInv, [Next]_vars PROVE EngineType'
  OBVIOUS
<1> USE DEF QueueInv, EngineType, engineVars
<1>1. CASE Emit
  BY <1>1 DEF Emit, Send, SendOnClosed, QueueFull, Evict, CountDrop
<1>2. CASE Consume
  BY <1>2 DEF Consume, Receive, OnEventReturns, LoopEnds
<1>3. CASE Emitting
  BY <1>3 DEF Emitting, EmitStarted, Callers, Signal, UnitEvent,
              MonitorTimeout, EmitFinished
<1>4. CASE Silent
  BY <1>4 DEF Silent, StartMonitor, MonitorExit, CancelParent, FuncReturns,
              StopMonitor, CommitFinish, ReadDropped, Close, ChannelType
<1>5. CASE UNCHANGED vars
  BY <1>5 DEF vars
<1> QED
  BY <1>1, <1>2, <1>3, <1>4, <1>5, NextCases DEF Idle

LEMMA EmitKeepsQueueInv == QueueInv /\ Emit => QueueInv'
<1> SUFFICES ASSUME QueueInv, Emit PROVE QueueInv'
  OBVIOUS
<1>1. LogType /\ ChannelType /\ LockType /\ LockInv
  BY DEF QueueInv
<1>2. EngineType'
  BY NextCases, EngineTyped
<1>3. CASE Send
  <2>1. EmitReturns /\ queue' = Append(queue, Event) /\ holder # "none"
        /\ Len(queue) < Capacity /\ step \in {"try", "retry"}
        /\ UNCHANGED <<closed, dropped, lost, consumer, inHand, delivered,
                       dropPolicy>>
    BY <1>3 DEF Send, consumerVars
  <2>2. Event \in DOMAIN log
    BY <1>1, <2>1, EventInLog DEF LockInv
  <2>3. DOMAIN log \subseteq DOMAIN log' /\ LogType' /\ LockType'
        /\ step' \in {step, "try"} /\ (holder' # "none" => log' # <<>>)
        /\ (holder' # "none" => step' = "try")
    BY <1>1, <2>1, AfterEmit
  <2>4. queue' \in Seq(DOMAIN log') /\ Len(queue') = Len(queue) + 1
        /\ Len(queue) \in Nat
    <3> DEFINE D == DOMAIN log
    <3>1. queue \in Seq(D) /\ Event \in D
      BY <1>1, <2>2 DEF ChannelType
    <3>2. queue' \in Seq(D) /\ Len(queue') = Len(queue) + 1
      BY <2>1, <3>1, AppendProperties
    <3> QED
      BY <2>3, <3>1, <3>2, SeqMonotonic, LenProperties
  <2>5. delivered' \in Seq(DOMAIN log')
    BY <1>1, <2>1, <2>3, SeqMonotonic DEF ChannelType
  <2>6. ChannelType'
    BY <1>1, <2>1, <2>3, <2>4, <2>5 DEF ChannelType
  <2>7. LockInv'
    BY <1>1, <2>1, <2>3 DEF LockInv
  <2> QED
    BY <1>2, <2>3, <2>6, <2>7 DEF QueueInv
<1>4. CASE SendOnClosed
  BY <1>1, <1>2, <1>4
  DEF SendOnClosed, QueueInv, LogType, ChannelType, LockType, LockInv,
      channelVars, consumerVars, lockVars, engineVars
<1>5. CASE QueueFull
  BY <1>1, <1>2, <1>5
  DEF QueueFull, QueueInv, LogType, ChannelType, LockType, LockInv,
      channelVars, consumerVars, engineVars
<1>6. CASE Evict
  <2>1. /\ step = "evict" /\ step' = "retry" /\ log' = log
        /\ UNCHANGED <<dropPolicy, closed, dropped, holder, toEmit,
                       consumer, inHand, delivered>>
    BY <1>6 DEF Evict, consumerVars
  <2>2. /\ queue' \in Seq(DOMAIN log) /\ Len(queue') \in Nat
        /\ Len(queue') < Capacity
        /\ lost' \subseteq DOMAIN log
    <3>1. CASE queue = <<>>
      BY <1>1, <1>6, <3>1, EmptySeq DEF Evict, ChannelType
    <3>2. CASE queue # <<>>
      <4> DEFINE D == DOMAIN log
      <4>1. queue' = Tail(queue) /\ lost' = lost \union {Head(queue)}
        BY <1>6, <3>2 DEF Evict
      <4>2. Head(queue) \in D /\ Tail(queue) \in Seq(D)
            /\ Len(Tail(queue)) = Len(queue) - 1 /\ Len(queue) \in Nat
        BY <1>1, <3>2, HeadTailProperties, LenProperties DEF ChannelType
      <4> QED
        BY <1>1, <4>1, <4>2 DEF ChannelType
    <3> QED
      BY <3>1, <3>2
  <2>3. LogType' /\ ChannelType' /\ LockType'
    BY <1>1, <2>1, <2>2 DEF LogType, ChannelType, LockType
  <2>4. LockInv'
    BY <1>1, <2>1, <2>2 DEF LockInv
  <2> QED
    BY <1>2, <2>3, <2>4 DEF QueueInv
<1>7. CASE CountDrop
  <2>1. EmitReturns /\ lost' = lost \union {Event} /\ holder # "none"
        /\ step = "count" /\ dropped' = dropped + 1
        /\ UNCHANGED <<queue, closed, consumer, inHand, delivered, dropPolicy>>
    BY <1>7 DEF CountDrop, consumerVars
  <2>2. Event \in DOMAIN log
    BY <1>1, <2>1, EventInLog DEF LockInv
  <2>3. DOMAIN log \subseteq DOMAIN log' /\ LogType' /\ LockType'
        /\ step' \in {step, "try"} /\ (holder' # "none" => log' # <<>>)
        /\ (holder' # "none" => step' = "try")
    BY <1>1, <2>1, AfterEmit
  <2>4. queue' \in Seq(DOMAIN log') /\ delivered' \in Seq(DOMAIN log')
    BY <1>1, <2>1, <2>3, SeqMonotonic DEF ChannelType
  <2>5. ChannelType'
    BY <1>1, <2>1, <2>2, <2>3, <2>4 DEF ChannelType
  <2>6. LockInv'
    BY <1>1, <2>1, <2>3 DEF LockInv
  <2> QED
    BY <1>2, <2>3, <2>5, <2>6 DEF QueueInv
<1> QED
  BY <1>3, <1>4, <1>5, <1>6, <1>7 DEF Emit

LEMMA ConsumeKeepsQueueInv == QueueInv /\ Consume => QueueInv'
<1> SUFFICES ASSUME QueueInv, Consume PROVE QueueInv'
  OBVIOUS
<1>1. LogType /\ ChannelType /\ LockType /\ LockInv
  BY DEF QueueInv
<1>2. EngineType'
  BY NextCases, EngineTyped
<1>3. LogType' /\ LockType' /\ UNCHANGED <<log, holder, step, dropPolicy>>
  BY <1>1 DEF Consume, Receive, OnEventReturns, LoopEnds, lockVars,
              channelVars, LogType, LockType
<1> DEFINE D == DOMAIN log
<1>4. CASE Receive
  <2>1. Head(queue) \in D /\ Tail(queue) \in Seq(D)
        /\ Len(Tail(queue)) = Len(queue) - 1 /\ Len(queue) \in Nat
    BY <1>1, <1>4, HeadTailProperties, LenProperties DEF ChannelType, Receive
  <2>2. 0 \notin D
    BY <1>1, LenProperties DEF LogType
  <2> QED
    BY <1>1, <1>2, <1>3, <1>4, <2>1, <2>2
    DEF Receive, ChannelType, QueueInv, LockInv
<1>5. CASE OnEventReturns
  <2>1. inHand \in D /\ delivered \in Seq(D)
    BY <1>1, <1>5 DEF OnEventReturns, ChannelType, LockInv
  <2>2. delivered' \in Seq(D)
    BY <1>5, <2>1, AppendProperties DEF OnEventReturns
  <2> QED
    BY <1>1, <1>2, <1>3, <1>5, <2>2
    DEF OnEventReturns, ChannelType, QueueInv, LockInv, channelVars
<1>6. CASE LoopEnds
  BY <1>1, <1>2, <1>3, <1>6
  DEF LoopEnds, ChannelType, QueueInv, LockInv, channelVars
<1> QED
  BY <1>4, <1>5, <1>6 DEF Consume

LEMMA QueueInvInductive == QueueInv /\ [Next]_vars => QueueInv'
<1> SUFFICES ASSUME QueueInv, [Next]_vars PROVE QueueInv'
  OBVIOUS
<1>1. LogType /\ ChannelType /\ LockType /\ LockInv
  BY DEF QueueInv
<1>2. EngineType'
  BY EngineTyped
<1>3. CASE Emitting
  <2>1. LogType' /\ LockType' /\ DOMAIN log \subseteq DOMAIN log'
        /\ step' = "try" /\ log' # <<>>
        /\ UNCHANGED <<queue, closed, dropped, lost, consumerVars>>
    BY <1>1, <1>3, LockEffect, EmittingLocks
  <2>2. ChannelType'
    BY <1>1, <2>1, ChannelTypeKept
  <2>3. LockInv'
    BY <1>1, <2>1 DEF LockInv, consumerVars
  <2> QED
    BY <1>2, <2>1, <2>2, <2>3 DEF QueueInv
<1>4. CASE Silent
  <2>1. UNCHANGED <<dropPolicy, queue, dropped, lost, log, consumerVars,
                    lockVars>> /\ closed' \in BOOLEAN
    BY <1>1, <1>4, SilentKeeps DEF Silent, StartMonitor, MonitorExit,
       CancelParent, FuncReturns, StopMonitor, CommitFinish, ReadDropped,
       Close, channelVars, ChannelType
  <2> QED
    BY <1>1, <1>2, <2>1
    DEF QueueInv, LogType, ChannelType, LockType, LockInv, consumerVars,
        lockVars
<1>5. CASE UNCHANGED vars
  BY <1>1, <1>2, <1>5
  DEF QueueInv, LogType, ChannelType, LockType, LockInv, vars, consumerVars,
      lockVars, channelVars
<1> QED
  BY <1>3, <1>4, <1>5, NextCases, EmitKeepsQueueInv, ConsumeKeepsQueueInv
  DEF Idle

(* The types, and what the lock protects, for every size of the channel.   *)
THEOREM QueueInvariance == Spec => []QueueInv
  BY InitQueueInv, QueueInvInductive, PTL DEF Spec

(* Every variable keeps its type; in particular the channel never holds    *)
(* more than its capacity.                                                 *)
THEOREM TypeCorrect == Spec => []TypeOK
<1>1. QueueInv => TypeOK
  BY DEF TypeOK, QueueInv, LogType, ChannelType, LockType, EngineType
<1> QED
  BY <1>1, QueueInvariance, PTL
-----------------------------------------------------------------------------
(* The channel implements a lossy queue.                                   *)

(* The events that LossyQueue sees observed: those OnEvent has returned    *)
(* from and the one it was called with.                                    *)
Observed == delivered \o (IF inHand = 0 THEN <<>> ELSE <<inHand>>)
EmittedCount == IF Undecided THEN Len(log) - 1 ELSE Len(log)
DroppedCount == IF Uncounted THEN dropped + 1 ELSE dropped

LEMMA Stutters ==
  ASSUME UNCHANGED <<dropPolicy, queue, closed>>,
         EmittedCount' = EmittedCount, Observed' = Observed,
         DroppedCount' = DroppedCount, (step' = "evict") = (step = "evict")
  PROVE  UNCHANGED Delivery!vars
  BY DEF Delivery!vars, Observed, EmittedCount, DroppedCount

LEMMA InitDelivers == Init => Delivery!Init
<1> SUFFICES ASSUME Init PROVE Delivery!Init
  OBVIOUS
<1>1. <<>> \o <<>> = <<>> /\ Len(<<>>) = 0
  BY ConcatEmptySeq, EmptySeq
<1> QED
  BY <1>1 DEF Init, Delivery!Init, Undecided, Uncounted

(* A step that leaves the channel, the log and the lock alone stutters.    *)
LEMMA SilentStutters ==
  ASSUME UNCHANGED <<dropPolicy, queue, dropped, log, inHand, delivered,
                     holder, step>>
  PROVE  /\ closed' = closed => UNCHANGED Delivery!vars
         /\ closed' = TRUE => Delivery!Close
<1>1. /\ UNCHANGED <<dropPolicy, queue, step>>
      /\ EmittedCount' = EmittedCount /\ Observed' = Observed
      /\ DroppedCount' = DroppedCount
  BY DEF EmittedCount, Observed, DroppedCount, Undecided, Uncounted
<1>2. closed' = closed => UNCHANGED Delivery!vars
  BY <1>1, Stutters
<1>3. closed' = TRUE => Delivery!Close
  BY <1>1 DEF Delivery!Close, EmittedCount, Observed, DroppedCount
<1> QED
  BY <1>2, <1>3

LEMMA EmitDelivers ==
  QueueInv /\ Emit => Delivery!Next \/ UNCHANGED Delivery!vars
<1> SUFFICES ASSUME QueueInv, Emit
             PROVE  Delivery!Next \/ UNCHANGED Delivery!vars
  OBVIOUS
<1> USE DEF Undecided, Uncounted
<1>1. LogType /\ ChannelType /\ LockType /\ LockInv
  BY DEF QueueInv
<1>2. Len(log) \in Nat /\ Len(queue) \in Nat
  BY <1>1, LenProperties DEF LogType, ChannelType
<1>3. CASE Send
  <2>1. EmitReturns /\ queue' = Append(queue, Len(log)) /\ holder # "none"
        /\ Len(queue) < Capacity /\ step \in {"try", "retry"} /\ ~closed
        /\ UNCHANGED <<closed, dropped, inHand, delivered, dropPolicy>>
    BY <1>3 DEF Send, consumerVars, Event
  <2>2. step' # "evict" /\ EmittedCount = Len(log) - 1
        /\ EmittedCount' = Len(log) /\ DroppedCount' = dropped
        /\ DroppedCount = dropped /\ Observed' = Observed
    BY <1>1, <1>2, <2>1, AfterEmit
    DEF EmittedCount, DroppedCount, Observed
  <2>3. queue' = Append(queue, EmittedCount + 1)
        /\ EmittedCount' = EmittedCount + 1
    BY <1>2, <2>1, <2>2
  <2>4. Delivery!Put
    BY <2>1, <2>2, <2>3 DEF Delivery!Put, EmittedCount, DroppedCount, Observed
  <2> QED
    BY <2>4 DEF Delivery!Next
<1>4. CASE SendOnClosed
  BY <1>4, SilentStutters
  DEF SendOnClosed, channelVars, consumerVars, lockVars
<1>5. CASE QueueFull
  <2>1. holder # "none" /\ step = "try" /\ Len(queue) = Capacity
        /\ UNCHANGED <<dropPolicy, queue, closed, dropped, log, inHand,
                       delivered, holder>>
    BY <1>1, <1>2, <1>5
    DEF QueueFull, channelVars, consumerVars, LockInv, ChannelType
  <2>2. step' = IF dropPolicy = "oldest" THEN "evict" ELSE "count"
    BY <1>5, <2>1 DEF QueueFull
  <2>3. Observed' = Observed
    BY <2>1 DEF Observed
  <2>4. CASE dropPolicy = "oldest"
    <3>1. Delivery!Squeeze
      BY <2>1, <2>2, <2>3, <2>4 DEF Delivery!Squeeze, Observed
    <3> QED
      BY <3>1 DEF Delivery!Next
  <2>5. CASE dropPolicy = "newest"
    <3>1. Delivery!Refuse
      BY <1>1, <1>2, <2>1, <2>2, <2>3, <2>5
      DEF Delivery!Refuse, Observed, ChannelType
    <3> QED
      BY <3>1 DEF Delivery!Next
  <2> QED
    BY <2>4, <2>5 DEF QueueInv, EngineType
<1>6. CASE Evict
  <2>1. holder # "none" /\ step = "evict" /\ step' = "retry"
        /\ queue' = (IF queue = <<>> THEN <<>> ELSE Tail(queue))
        /\ UNCHANGED <<dropPolicy, closed, dropped, log, inHand, delivered,
                       holder>>
    BY <1>1, <1>6 DEF Evict, consumerVars, LockInv
  <2>2. Delivery!LoseOldest
    BY <2>1 DEF Delivery!LoseOldest
  <2> QED
    BY <2>2 DEF Delivery!Next
<1>7. CASE CountDrop
  <2>1. EmitReturns /\ holder # "none" /\ step = "count"
        /\ dropped' = dropped + 1
        /\ UNCHANGED <<queue, closed, inHand, delivered, dropPolicy>>
    BY <1>7 DEF CountDrop, consumerVars
  <2>2. EmittedCount' = EmittedCount /\ DroppedCount' = DroppedCount
        /\ (step' = "evict") = (step = "evict") /\ Observed' = Observed
    BY <1>1, <1>2, <2>1, AfterEmit
    DEF EmittedCount, DroppedCount, Observed
  <2> QED
    BY <2>1, <2>2, Stutters
<1> QED
  BY <1>3, <1>4, <1>5, <1>6, <1>7 DEF Emit

LEMMA ConsumeDelivers ==
  QueueInv /\ Consume => Delivery!Next \/ UNCHANGED Delivery!vars
<1> SUFFICES ASSUME QueueInv, Consume
             PROVE  Delivery!Next \/ UNCHANGED Delivery!vars
  OBVIOUS
<1> USE DEF Undecided, Uncounted
<1> DEFINE D == DOMAIN log
<1>1. LogType /\ ChannelType /\ LockInv /\ D = 1 .. Len(log)
  BY LenProperties DEF QueueInv, LogType
<1>2. CASE Receive
  <2>1. Head(queue) \in D /\ Head(queue) # 0 /\ delivered \in Seq(D)
    BY <1>1, <1>2, HeadTailProperties DEF ChannelType, Receive
  <2>2. inHand = 0 /\ inHand' = Head(queue) /\ queue' = Tail(queue)
        /\ queue # <<>>
        /\ UNCHANGED <<dropPolicy, closed, dropped, log, delivered, holder,
                       step>>
    BY <1>1, <1>2 DEF Receive, LockInv, lockVars
  <2>3. Observed = delivered /\ Observed' = Append(delivered, Head(queue))
    BY <2>1, <2>2, ConcatEmptySeq, AppendIsConcat DEF Observed
  <2>4. Delivery!Observe
    BY <2>2, <2>3 DEF Delivery!Observe, Observed
  <2> QED
    BY <2>4 DEF Delivery!Next
<1>3. CASE OnEventReturns
  <2>1. inHand \in D /\ inHand # 0 /\ delivered \in Seq(D)
    BY <1>1, <1>3 DEF OnEventReturns, ChannelType, LockInv
  <2>2. inHand' = 0 /\ delivered' = Append(delivered, inHand)
        /\ UNCHANGED <<dropPolicy, queue, closed, dropped, log, holder, step>>
    BY <1>3 DEF OnEventReturns, channelVars, lockVars
  <2>3. Append(delivered, inHand) \in Seq(D)
    BY <2>1, AppendProperties
  <2>4. Observed' = Observed
    BY <2>1, <2>2, <2>3, ConcatEmptySeq, AppendIsConcat DEF Observed
  <2> QED
    BY <2>2, <2>4, Stutters DEF EmittedCount, DroppedCount
<1>4. CASE LoopEnds
  BY <1>4, SilentStutters DEF LoopEnds, channelVars, lockVars
<1> QED
  BY <1>2, <1>3, <1>4 DEF Consume

(* Whatever goroutines emit, evict, receive and close at the same time,    *)
(* the observer sees the events in order, none twice, and only those       *)
(* missing for which a full channel had no room.                           *)
THEOREM ObserverImplementsQueue == Spec => ImplementsLossyQueue
<1>1. ASSUME QueueInv, [Next]_vars
      PROVE  Delivery!Next \/ UNCHANGED Delivery!vars
  <2>1. CASE Emitting
    <3>1. LogType /\ Len(log) \in Nat /\ LockInv
      BY <1>1, LenProperties DEF QueueInv, LogType
    <3>2. /\ holder = "none" /\ holder' # "none" /\ step' = "try"
          /\ Len(log') = Len(log) + 1
          /\ UNCHANGED <<dropPolicy, queue, closed, dropped, consumerVars>>
      BY <2>1, <3>1, LockEffect, EmittingLocks
    <3> QED
      BY <3>1, <3>2, Stutters
      DEF EmittedCount, DroppedCount, Observed, Undecided, Uncounted,
          consumerVars, LockInv
  <2>2. CASE Silent
    <3>1. UNCHANGED <<dropPolicy, queue, dropped, log, consumerVars, lockVars>>
          /\ closed' \in {closed, TRUE}
      BY <2>2, SilentKeeps DEF Silent, StartMonitor, MonitorExit,
         CancelParent, FuncReturns, StopMonitor, CommitFinish, ReadDropped,
         Close, channelVars
    <3> QED
      BY <3>1, SilentStutters DEF consumerVars, lockVars, Delivery!Next
  <2>3. CASE UNCHANGED vars
    BY <2>3, SilentStutters DEF vars, channelVars, consumerVars, lockVars
  <2> QED
    BY <1>1, <2>1, <2>2, <2>3, NextCases, EmitDelivers, ConsumeDelivers
    DEF Idle
<1>2. QueueInv /\ [Next]_vars => [Delivery!Next]_(Delivery!vars)
  BY <1>1
<1> QED
  BY <1>2, InitDelivers, QueueInvariance, PTL
  DEF Spec, ImplementsLossyQueue, Delivery!Spec
-----------------------------------------------------------------------------
(* Who holds the lock, and for what, in each phase of the run.  When the   *)
(* channel is closed only a late BeginUnit or End can hold it.             *)
PhaseInv ==
  /\ log = <<>> => run = "start" /\ holder = "none"
  /\ closed <=> run = "done"
  /\ state = "finished" <=> run \in {"count", "last", "close", "done"}
  /\ state = "finished" => monitor = "exited"
  /\ monitor = "unborn" <=> run = "start"
  /\ holder = "monitor" => monitor = "running" /\ timedOut
  /\ holder = "run" => run \in {"start", "close"}
  /\ toEmit # <<>> => /\ holder = "monitor" /\ log[Event] = "timeout"
                      /\ toEmit = <<"termination">>
  /\ state = "finished" /\ holder = "caller" => log[Event] = "unit"
  /\ panicked => log[Event] = "unit"

LEMMA InitPhaseInv == Init => PhaseInv
  BY DEF Init, PhaseInv

LEMMA LockAppends ==
  ASSUME LogType, NEW who \in {"caller", "monitor", "run"}, NEW k \in Kinds,
         Lock(who, <<k>>)
  PROVE  /\ holder = "none" /\ holder' = who /\ toEmit' = <<>> /\ ~panicked
         /\ log' = Append(log, k) /\ log' # <<>> /\ log'[Event'] = k
<1>1. /\ holder = "none" /\ holder' = who /\ toEmit' = <<>> /\ ~panicked
      /\ log' = Append(log, k)
  BY KindSequences DEF Lock
<1> QED
  BY <1>1, LogGrows DEF Event

LEMMA LockTimeout ==
  ASSUME LogType, Lock("monitor", <<"timeout", "termination">>)
  PROVE  /\ holder = "none" /\ holder' = "monitor" /\ ~panicked
         /\ toEmit' = <<"termination">>
         /\ log' = Append(log, "timeout")
         /\ log' # <<>> /\ log'[Event'] = "timeout"
<1>1. /\ holder = "none" /\ holder' = "monitor" /\ ~panicked
      /\ toEmit' = <<"termination">> /\ log' = Append(log, "timeout")
  BY KindSequences DEF Lock
<1> QED
  BY <1>1, LogGrows DEF Event, Kinds

(* What the end of an emission does to what PhaseInv speaks of.            *)
LEMMA ReturnKeepsPhase ==
  ASSUME QueueInv, PhaseInv, EmitReturns, holder # "none", ~panicked,
         UNCHANGED <<closed, engineVars, panicked>>
  PROVE  PhaseInv'
<1> USE DEF engineVars
<1>1. CASE toEmit = <<>>
  BY <1>1 DEF EmitReturns, PhaseInv, Event
<1>2. CASE toEmit # <<>>
  <2>1. toEmit = <<"termination">> /\ holder = "monitor"
    BY <1>2 DEF PhaseInv
  <2>2. Head(toEmit) = "termination" /\ Tail(toEmit) = <<>>
    BY <2>1
  <2>3. log' = Append(log, "termination") /\ toEmit' = <<>> /\ holder' = holder
    BY <1>2, <2>2 DEF EmitReturns
  <2>4. log' # <<>>
    BY <2>3, LogGrows DEF QueueInv, Kinds
  <2> QED
    BY <2>1, <2>3, <2>4 DEF PhaseInv
<1> QED
  BY <1>1, <1>2

LEMMA PhaseInductive == QueueInv /\ PhaseInv /\ [Next]_vars => PhaseInv'
<1> SUFFICES ASSUME QueueInv, PhaseInv, [Next]_vars PROVE PhaseInv'
  OBVIOUS
<1>1. LogType /\ {"started", "signal", "unit", "finished"} \subseteq Kinds
      /\ EngineType /\ LockType
  BY DEF QueueInv, Kinds
<1>2. CASE Emit
  <2>1. CASE Send \/ CountDrop
    BY <2>1, ReturnKeepsPhase DEF Send, CountDrop
  <2>2. CASE SendOnClosed
    <3>1. log[Event] = "unit"
      BY <1>1, <2>2 DEF SendOnClosed, PhaseInv, LockType
    <3> QED
      BY <2>2, <3>1
      DEF SendOnClosed, PhaseInv, Event, channelVars, lockVars, engineVars
  <2>3. CASE QueueFull
    BY <2>3 DEF QueueFull, PhaseInv, Event, channelVars, engineVars
  <2>4. CASE Evict
    BY <2>4 DEF Evict, PhaseInv, Event, engineVars
  <2> QED
    BY <1>2, <2>1, <2>2, <2>3, <2>4 DEF Emit
<1>3. CASE Consume
  BY <1>3 DEF Consume, Receive, OnEventReturns, LoopEnds, PhaseInv, Event,
              channelVars, lockVars, engineVars
<1>4. CASE EmitStarted
  <2>1. Lock("run", <<"started">>)
    BY <1>4 DEF EmitStarted
  <2> HIDE DEF Lock
  <2>2. /\ holder = "none" /\ holder' = "run" /\ toEmit' = <<>> /\ ~panicked
        /\ log' # <<>>
    BY <1>1, <2>1, LockAppends
  <2> QED
    BY <1>4, <2>2 DEF EmitStarted, PhaseInv, engineVars
<1>5. CASE Signal
  <2>1. Lock("caller", <<"signal">>)
    BY <1>5 DEF Signal
  <2>2. /\ holder = "none" /\ holder' = "caller" /\ toEmit' = <<>>
        /\ ~panicked /\ log' # <<>>
    BY <1>1, <2>1, LockAppends
  <2> QED
    BY <1>5, <2>2 DEF Signal, PhaseInv, engineVars
<1>6. CASE UnitEvent
  <2>1. Lock("caller", <<"unit">>)
    BY <1>6 DEF UnitEvent
  <2>2. /\ holder = "none" /\ holder' = "caller" /\ toEmit' = <<>>
        /\ ~panicked /\ log' # <<>> /\ log'[Event'] = "unit"
    BY <1>1, <2>1, LockAppends
  <2> QED
    BY <1>6, <2>2 DEF UnitEvent, PhaseInv, engineVars
<1>7. CASE MonitorTimeout
  <2>1. Lock("monitor", <<"timeout", "termination">>)
    BY <1>7 DEF MonitorTimeout
  <2>2. /\ holder = "none" /\ holder' = "monitor" /\ ~panicked
        /\ toEmit' = <<"termination">>
        /\ log' # <<>> /\ log'[Event'] = "timeout"
    BY <1>1, <2>1, LockTimeout
  <2> QED
    BY <1>7, <2>2 DEF MonitorTimeout, PhaseInv
<1>8. CASE EmitFinished
  <2>1. Lock("run", <<"finished">>)
    BY <1>8 DEF EmitFinished
  <2>2. /\ holder = "none" /\ holder' = "run" /\ toEmit' = <<>> /\ ~panicked
        /\ log' # <<>>
    BY <1>1, <2>1, LockAppends
  <2> QED
    BY <1>8, <2>2 DEF EmitFinished, PhaseInv
<1>9. CASE Silent
  <2>1. UNCHANGED <<log, holder, toEmit, panicked>>
    BY <1>9, SilentKeeps DEF lockVars
  <2> QED
    BY <1>1, <1>9, <2>1
    DEF Silent, StartMonitor, MonitorExit, CancelParent, FuncReturns,
        StopMonitor, CommitFinish, ReadDropped, Close, PhaseInv, Event,
        channelVars, EngineType
<1>10. CASE UNCHANGED vars
  BY <1>10 DEF vars, PhaseInv, Event, channelVars, lockVars, engineVars
<1> QED
  BY <1>2, <1>3, <1>4, <1>5, <1>6, <1>7, <1>8, <1>9, <1>10, NextCases
  DEF Emitting, Callers, Idle

LEMMA PhaseInvariance == Spec => [](QueueInv /\ PhaseInv)
  BY InitQueueInv, InitPhaseInv, QueueInvInductive, PhaseInductive, PTL
  DEF Spec

(* Heartbeat, Status and Progress never send on the closed channel,        *)
(* whenever a goroutine calls them.                                        *)
THEOREM SignalsNeverPanic == Spec => []OnlyUnitsPanic
<1>1. PhaseInv => OnlyUnitsPanic
  BY DEF PhaseInv, OnlyUnitsPanic
<1> QED
  BY <1>1, PhaseInvariance, PTL
-----------------------------------------------------------------------------
(* The order of the kinds in the log, and what the phases know of them.    *)
LogOrder ==
  /\ log # <<>> => log[1] = "started"
  /\ \A i, j \in DOMAIN log :
       i < j => /\ log[i] = "timeout" => log[j] # "signal"
                /\ log[i] = "finished" => log[j] = "unit"
                /\ log[j] # "started"
  /\ \A i \in DOMAIN log :
       log[i] = "timeout" /\ i < Len(log) => log[i + 1] = "termination"

LogPhase ==
  /\ \A i \in DOMAIN log : log[i] = "timeout" => timedOut
  /\ \A i \in DOMAIN log : log[i] = "finished" => run \in {"close", "done"}
  /\ log # <<>> /\ log[Event] = "timeout" =>
       holder = "monitor" /\ toEmit = <<"termination">>

OrderInv == LogOrder /\ LogPhase

(* The next event keeps the order if its kind is one of those that may     *)
(* follow.                                                                 *)
LEMMA OrderGrows ==
  ASSUME LogType, LogOrder, NEW k \in Kinds, log' = Append(log, k),
         log = <<>> <=> k = "started",
         k = "signal" => \A i \in DOMAIN log : log[i] # "timeout",
         k # "unit" => \A i \in DOMAIN log : log[i] # "finished",
         log # <<>> /\ log[Event] = "timeout" => k = "termination"
  PROVE  LogOrder'
<1>1. /\ Len(log) \in Nat /\ Len(log') = Len(log) + 1
      /\ DOMAIN log = 1 .. Len(log) /\ DOMAIN log' = 1 .. Len(log')
      /\ log'[Len(log')] = k
      /\ \A i \in DOMAIN log : log'[i] = log[i]
  BY LogGrows
<1>2. log = <<>> <=> Len(log) = 0
  BY EmptySeq, <1>1 DEF LogType
<1>3. log'[1] = "started"
  BY <1>1, <1>2 DEF LogOrder
<1>4. ASSUME NEW i \in DOMAIN log', NEW j \in DOMAIN log', i < j
      PROVE  /\ log'[i] = "timeout" => log'[j] # "signal"
             /\ log'[i] = "finished" => log'[j] = "unit"
             /\ log'[j] # "started"
  <2>1. i \in DOMAIN log /\ log'[i] = log[i] /\ log # <<>>
    BY <1>1, <1>2, <1>4
  <2>2. CASE j \in DOMAIN log
    BY <1>1, <1>4, <2>1, <2>2 DEF LogOrder
  <2>3. CASE j \notin DOMAIN log
    <3>1. log'[j] = k
      BY <1>1, <1>4, <2>3
    <3> QED
      BY <2>1, <3>1
  <2> QED
    BY <2>2, <2>3
<1>5. ASSUME NEW i \in DOMAIN log', log'[i] = "timeout", i < Len(log')
      PROVE  log'[i + 1] = "termination"
  <2>1. i \in DOMAIN log /\ log[i] = "timeout" /\ log # <<>>
    BY <1>1, <1>2, <1>5
  <2>2. CASE i = Len(log)
    BY <1>1, <2>1, <2>2 DEF Event
  <2>3. CASE i < Len(log)
    BY <1>1, <2>1, <2>3 DEF LogOrder
  <2> QED
    BY <1>1, <2>1, <2>2, <2>3
<1> QED
  BY <1>3, <1>4, <1>5 DEF LogOrder

LEMMA PhaseGrows ==
  ASSUME LogType, LogPhase, NEW k \in Kinds, log' = Append(log, k),
         timedOut => timedOut',
         run \in {"close", "done"} => run' \in {"close", "done"},
         k = "timeout" =>
           timedOut' /\ holder' = "monitor" /\ toEmit' = <<"termination">>,
         k = "finished" => run' = "close"
  PROVE  LogPhase'
<1>1. /\ Len(log) \in Nat /\ Len(log') = Len(log) + 1
      /\ DOMAIN log = 1 .. Len(log) /\ DOMAIN log' = 1 .. Len(log')
      /\ log'[Len(log')] = k
      /\ \A i \in DOMAIN log : log'[i] = log[i]
  BY LogGrows
<1>2. \A i \in DOMAIN log' : i \in DOMAIN log \/ i = Len(log')
  BY <1>1
<1> QED
  BY <1>1, <1>2 DEF LogPhase, Event

LEMMA InitOrderInv == Init => OrderInv
  BY EmptySeq DEF Init, OrderInv, LogOrder, LogPhase

LEMMA EmitKeepsOrder ==
  ASSUME QueueInv, PhaseInv, OrderInv, EmitReturns, holder # "none",
         UNCHANGED engineVars
  PROVE  OrderInv'
<1> USE DEF engineVars
<1>1. CASE toEmit = <<>>
  <2>1. log' = log
    BY <1>1 DEF EmitReturns
  <2>2. ~(log # <<>> /\ log[Event] = "timeout")
    BY <1>1 DEF OrderInv, LogPhase
  <2> QED
    BY <2>1, <2>2 DEF OrderInv, LogOrder, LogPhase, Event
<1>2. CASE toEmit # <<>>
  <2>1. toEmit = <<"termination">> /\ holder = "monitor"
    BY <1>2 DEF PhaseInv
  <2>2. Head(toEmit) = "termination"
    BY <2>1
  <2>3. log' = Append(log, "termination")
    BY <1>2, <2>2 DEF EmitReturns
  <2>4. LogType /\ "termination" \in Kinds /\ log # <<>>
    BY DEF QueueInv, LockInv, Kinds
  <2>5. \A i \in DOMAIN log : log[i] # "finished"
    BY <2>1 DEF PhaseInv, OrderInv, LogPhase
  <2>6. LogOrder'
    BY <2>3, <2>4, <2>5, OrderGrows DEF OrderInv
  <2>7. LogPhase'
    BY <2>3, <2>4, PhaseGrows DEF OrderInv
  <2> QED
    BY <2>6, <2>7 DEF OrderInv
<1> QED
  BY <1>1, <1>2

(* When nobody holds the lock the last event of the log is no timeout.     *)
LEMMA LockKeepsOrder ==
  ASSUME QueueInv, OrderInv, holder = "none", NEW k \in Kinds,
         log' = Append(log, k),
         log = <<>> <=> k = "started",
         k = "signal" => ~timedOut,
         k # "unit" => run \notin {"close", "done"},
         timedOut => timedOut',
         run \in {"close", "done"} => run' \in {"close", "done"},
         k = "timeout" =>
           timedOut' /\ holder' = "monitor" /\ toEmit' = <<"termination">>,
         k = "finished" => run' = "close"
  PROVE  OrderInv'
<1>1. LogType /\ LogOrder /\ LogPhase
  BY DEF QueueInv, OrderInv
<1>2. LogPhase'
  BY <1>1, PhaseGrows
<1>3. /\ k = "signal" => \A i \in DOMAIN log : log[i] # "timeout"
      /\ k # "unit" => \A i \in DOMAIN log : log[i] # "finished"
      /\ ~(log # <<>> /\ log[Event] = "timeout")
  BY <1>1 DEF LogPhase
<1>4. LogOrder'
  BY <1>1, <1>3, OrderGrows
<1> QED
  BY <1>2, <1>4 DEF OrderInv

LEMMA OrderInductive ==
  QueueInv /\ PhaseInv /\ OrderInv /\ [Next]_vars => OrderInv'
<1> SUFFICES ASSUME QueueInv, PhaseInv, OrderInv, [Next]_vars PROVE OrderInv'
  OBVIOUS
<1>1. LogType /\ EngineType /\ Kinds =
        {"started", "signal", "unit", "timeout", "termination", "finished"}
  BY DEF QueueInv, Kinds
<1>2. ASSUME UNCHANGED <<log, holder, toEmit, timedOut>>,
             run \in {"close", "done"} => run' \in {"close", "done"}
      PROVE  OrderInv'
  BY <1>2 DEF OrderInv, LogOrder, LogPhase, Event
<1>3. CASE Emit
  <2>1. CASE Send \/ CountDrop
    BY <2>1, EmitKeepsOrder DEF Send, CountDrop
  <2>2. CASE SendOnClosed \/ QueueFull \/ Evict
    BY <1>2, <2>2
    DEF SendOnClosed, QueueFull, Evict, channelVars, lockVars, engineVars
  <2> QED
    BY <1>3, <2>1, <2>2 DEF Emit
<1>4. CASE Consume
  BY <1>2, <1>4 DEF Consume, Receive, OnEventReturns, LoopEnds, channelVars,
                    lockVars, engineVars
<1>5. CASE EmitStarted
  <2>1. Lock("run", <<"started">>) /\ log = <<>> /\ run = "start"
        /\ UNCHANGED <<timedOut, run>>
    BY <1>5 DEF EmitStarted, engineVars
  <2>2. holder = "none" /\ log' = Append(log, "started")
    BY <1>1, <2>1, LockAppends
  <2> QED
    BY <1>1, <2>1, <2>2, LockKeepsOrder
<1>6. CASE Signal
  <2>1. Lock("caller", <<"signal">>) /\ ~timedOut /\ state = "running"
        /\ run # "start" /\ UNCHANGED <<timedOut, run>>
    BY <1>6 DEF Signal, MayCall, engineVars
  <2>2. holder = "none" /\ log' = Append(log, "signal")
    BY <1>1, <2>1, LockAppends
  <2>3. log # <<>> /\ run \notin {"close", "done"}
    BY <1>1, <2>1 DEF PhaseInv
  <2> QED
    BY <1>1, <2>1, <2>2, <2>3, LockKeepsOrder
<1>7. CASE UnitEvent
  <2>1. Lock("caller", <<"unit">>) /\ run # "start"
        /\ UNCHANGED <<timedOut, run>>
    BY <1>7 DEF UnitEvent, MayCall, engineVars
  <2>2. holder = "none" /\ log' = Append(log, "unit") /\ log # <<>>
    BY <1>1, <2>1, LockAppends DEF PhaseInv
  <2> QED
    BY <1>1, <2>1, <2>2, LockKeepsOrder
<1>8. CASE MonitorTimeout
  <2>1. /\ Lock("monitor", <<"timeout", "termination">>)
        /\ timedOut' /\ run' = run
        /\ log # <<>> /\ run \notin {"close", "done"}
    BY <1>8 DEF MonitorTimeout, PhaseInv
  <2>2. /\ holder = "none" /\ log' = Append(log, "timeout")
        /\ holder' = "monitor" /\ toEmit' = <<"termination">>
    BY <1>1, <2>1, LockTimeout
  <2> QED
    BY <1>1, <2>1, <2>2, LockKeepsOrder
<1>9. CASE EmitFinished
  <2>1. Lock("run", <<"finished">>) /\ run = "last" /\ run' = "close"
        /\ timedOut' = timedOut /\ log # <<>>
    BY <1>9 DEF EmitFinished, PhaseInv
  <2>2. holder = "none" /\ log' = Append(log, "finished")
    BY <1>1, <2>1, LockAppends
  <2> QED
    BY <1>1, <2>1, <2>2, LockKeepsOrder
<1>10. CASE Silent
  <2>1. UNCHANGED <<log, holder, toEmit>>
    BY <1>10, SilentKeeps DEF lockVars
  <2>2. timedOut' = timedOut
        /\ (run \in {"close", "done"} => run' \in {"close", "done"})
    BY <1>10 DEF Silent, StartMonitor, MonitorExit, CancelParent,
       FuncReturns, StopMonitor, CommitFinish, ReadDropped, Close
  <2> QED
    BY <1>2, <2>1, <2>2
<1>11. CASE UNCHANGED vars
  BY <1>2, <1>11 DEF vars, channelVars, lockVars, engineVars
<1> QED
  BY <1>3, <1>4, <1>5, <1>6, <1>7, <1>8, <1>9, <1>10, <1>11, NextCases
  DEF Emitting, Callers, Idle

(* Events are emitted in the order their consumers are told of: started    *)
(* first, termination_requested right after the timeout and no signal any  *)
(* more, nothing but late units after execution_finished.                  *)
THEOREM EventsOrdered == Spec => []EmissionOrder
<1>1. LogType /\ OrderInv => EmissionOrder
  <2> SUFFICES ASSUME LogType, OrderInv PROVE EmissionOrder
    OBVIOUS
  <2>1. ASSUME NEW i \in DOMAIN log, log[i] = "timeout"
        PROVE  \/ i < Len(log) /\ log[i + 1] = "termination"
               \/ i = Len(log) /\ holder = "monitor"
    <3>1. Len(log) \in Nat /\ DOMAIN log = 1 .. Len(log) /\ log # <<>>
      BY LenProperties, EmptySeq, <2>1 DEF LogType
    <3> QED
      BY <2>1, <3>1 DEF OrderInv, LogOrder, LogPhase, Event
  <2> QED
    BY <2>1 DEF OrderInv, LogOrder, EmissionOrder
<1>2. QueueInv => LogType
  BY DEF QueueInv
<1>3. Spec => []OrderInv
  BY InitOrderInv, PhaseInvariance, OrderInductive, PTL DEF Spec
<1> QED
  BY <1>1, <1>2, <1>3, QueueInvariance, PTL
-----------------------------------------------------------------------------
(* What the counter of drops knows of the events that are lost.  Once the  *)
(* counter has been read, whoever holds the lock emits no policy event.    *)
PolicyLost == {i \in lost : log[i] \in PolicyEvents}

DropInv ==
  /\ run = "close" /\ holder = "run" => log[Event] = "finished"
  /\ IsFiniteSet(lost)
  /\ reported <= dropped
  /\ dropPolicy = "newest" =>
       /\ Cardinality(lost) <= dropped
       /\ run \in {"last", "close", "done"} =>
            Cardinality(PolicyLost) <= reported

LEMMA InitDropInv == Init => DropInv
  BY FS_EmptySet DEF Init, DropInv

LEMMA LogKept ==
  ASSUME QueueInv, EmitReturns, NEW i \in DOMAIN log
  PROVE  log'[i] = log[i]
<1>1. LogType /\ LockType
  BY DEF QueueInv
<1> QED
  BY <1>1, AfterEmit, LogGrows

(* An event emitted after the counter was read is a unit's or the last.    *)
LEMMA NoPolicyEventLate ==
  ASSUME QueueInv, PhaseInv, DropInv, holder # "none",
         run \in {"last", "close", "done"}
  PROVE  log[Event] \notin PolicyEvents
<1>1. holder \in {"caller", "monitor", "run"}
  BY DEF QueueInv, LockType
<1> QED
  BY <1>1 DEF PhaseInv, DropInv, PolicyEvents

LEMMA EmitKeepsDrops ==
  ASSUME QueueInv, PhaseInv, DropInv, Emit
  PROVE  DropInv'
<1> USE DEF engineVars
<1>1. /\ lost \subseteq DOMAIN log /\ dropped \in Nat /\ reported \in Nat
      /\ IsFiniteSet(lost)
  BY DEF QueueInv, ChannelType, EngineType, DropInv
<1>2. Emit => UNCHANGED <<dropPolicy, run, reported>>
  BY DEF Emit, Send, SendOnClosed, QueueFull, Evict, CountDrop
<1>3. ASSUME EmitReturns, holder # "none" PROVE
        run' = "close" /\ holder' = "run" => log'[Event'] = "finished"
  <2>1. CASE toEmit = <<>>
    BY <1>3, <2>1 DEF EmitReturns
  <2>2. CASE toEmit # <<>>
    BY <1>3, <2>2 DEF EmitReturns, PhaseInv
  <2> QED
    BY <2>1, <2>2
<1>4. CASE Send
  <2>1. EmitReturns /\ holder # "none" /\ UNCHANGED <<lost, dropped>>
    BY <1>4 DEF Send
  <2>2. PolicyLost' = PolicyLost
    BY <1>1, <2>1, LogKept DEF PolicyLost
  <2> QED
    BY <1>2, <1>3, <2>1, <2>2 DEF DropInv
<1>5. CASE SendOnClosed \/ QueueFull
  <2>1. UNCHANGED <<lost, dropped, log, holder>>
    BY <1>5 DEF SendOnClosed, QueueFull, channelVars, lockVars
  <2> QED
    BY <1>2, <2>1 DEF DropInv, PolicyLost, Event
<1>6. CASE Evict
  <2>1. UNCHANGED <<dropped, log, holder>> /\ dropPolicy = "oldest"
    BY <1>6 DEF Evict, QueueInv, LockInv
  <2>2. IsFiniteSet(lost')
    BY <1>1, <1>6, FS_AddElement DEF Evict
  <2> QED
    BY <1>2, <2>1, <2>2 DEF DropInv, Event
<1>7. CASE CountDrop
  <2>1. /\ EmitReturns /\ holder # "none"
        /\ lost' = lost \union {Event} /\ dropped' = dropped + 1
    BY <1>7 DEF CountDrop
  <2>2. IsFiniteSet(lost')
        /\ Cardinality(lost') \in {Cardinality(lost), Cardinality(lost) + 1}
    BY <1>1, <2>1, FS_AddElement
  <2>3. Cardinality(lost) \in Nat
    BY <1>1, FS_CardinalityType
  <2>4. Event \in DOMAIN log
    BY <2>1, EventInLog DEF QueueInv, LockInv
  <2>5. run \in {"last", "close", "done"} => PolicyLost' = PolicyLost
    BY <1>1, <2>1, <2>4, LogKept, NoPolicyEventLate DEF PolicyLost
  <2> QED
    BY <1>1, <1>2, <1>3, <2>1, <2>2, <2>3, <2>5 DEF DropInv
<1> QED
  BY <1>4, <1>5, <1>6, <1>7 DEF Emit

LEMMA DropInductive ==
  QueueInv /\ PhaseInv /\ DropInv /\ [Next]_vars => DropInv'
<1> SUFFICES ASSUME QueueInv, PhaseInv, DropInv, [Next]_vars PROVE DropInv'
  OBVIOUS
<1>1. /\ LogType /\ lost \subseteq DOMAIN log /\ IsFiniteSet(lost)
      /\ dropped \in Nat /\ reported \in Nat
  BY DEF QueueInv, ChannelType, EngineType, DropInv
<1>2. CASE Emitting
  <2>1. UNCHANGED <<dropPolicy, lost, dropped, reported>>
    BY <1>2, EmittingLocks
  <2>2. PolicyLost' = PolicyLost
    <3>1. ASSUME NEW k \in Kinds, log' = Append(log, k)
          PROVE  PolicyLost' = PolicyLost
      BY <1>1, <2>1, <3>1, LogGrows DEF PolicyLost
    <3>2. PICK k \in Kinds : log' = Append(log, k)
      BY <1>2, EmittingLocks, KindSequences DEF Locking, Lock, Kinds
    <3> QED
      BY <3>1, <3>2
  <2>3. CASE EmitFinished
    <3>1. /\ run = "last" /\ run' = "close"
          /\ Lock("run", <<"finished">>) /\ "finished" \in Kinds
      BY <2>3 DEF EmitFinished, Kinds
    <3>2. log'[Event'] = "finished"
      BY <1>1, <3>1, LockAppends
    <3> QED
      BY <2>1, <2>2, <3>1, <3>2 DEF DropInv
  <2>4. CASE EmitStarted \/ Callers \/ MonitorTimeout
    <3>1. run' = run /\ (run = "close" => holder' # "run")
      BY <2>4 DEF EmitStarted, Callers, Signal, UnitEvent, MonitorTimeout,
                  Lock, engineVars
    <3> QED
      BY <2>1, <2>2, <3>1 DEF DropInv
  <2> QED
    BY <1>2, <2>3, <2>4 DEF Emitting
<1>3. CASE ReadDropped
  <2>1. /\ UNCHANGED <<dropPolicy, dropped, lost, log, holder>>
        /\ reported' = dropped /\ run' = "last"
    BY <1>3 DEF ReadDropped, channelVars, lockVars
  <2>2. Cardinality(PolicyLost) <= Cardinality(lost)
        /\ Cardinality(PolicyLost) \in Nat /\ Cardinality(lost) \in Nat
    BY <1>1, FS_Subset, FS_CardinalityType DEF PolicyLost
  <2>3. PolicyLost' = PolicyLost
    BY <2>1 DEF PolicyLost
  <2> QED
    BY <1>1, <2>1, <2>2, <2>3 DEF DropInv
<1>4. CASE Silent /\ ~ReadDropped
  <2>1. UNCHANGED <<dropPolicy, dropped, lost, log, holder>>
    BY <1>4, SilentKeeps DEF lockVars
  <2>2. reported' = reported /\ (run' = run \/ run' \notin {"last", "close"})
        /\ (run' = "done" => run \in {"done", "close"})
    BY <1>4 DEF Silent, StartMonitor, MonitorExit, CancelParent, FuncReturns,
                StopMonitor, CommitFinish, Close
  <2> QED
    BY <2>1, <2>2 DEF DropInv, PolicyLost, Event
<1>5. CASE Consume \/ UNCHANGED vars
  <2>1. UNCHANGED <<dropPolicy, dropped, lost, log, holder, run, reported>>
    BY <1>5 DEF Consume, Receive, OnEventReturns, LoopEnds, vars, channelVars,
                lockVars, engineVars
  <2> QED
    BY <2>1 DEF DropInv, PolicyLost, Event
<1> QED
  BY <1>2, <1>3, <1>4, <1>5, EmitKeepsDrops, NextCases DEF Idle

(* The number of drops in the Result misses no event about the policies:   *)
(* what is dropped after it was read is execution_finished or a unit's.    *)
THEOREM DropsReported == Spec => []ReportedDrops
<1>1. DropInv => ReportedDrops
  BY DEF DropInv, ReportedDrops, PolicyLost
<1>2. Spec => []DropInv
  BY InitDropInv, PhaseInvariance, DropInductive, PTL DEF Spec
<1> QED
  BY <1>1, <1>2, PTL
=============================================================================
