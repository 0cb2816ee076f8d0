-------------------------- MODULE LossyQueueProofs ---------------------------
(***************************************************************************)
(* What follows from the promise of module LossyQueue, for a queue of any  *)
(* capacity.  Module ObserverProofs applies it to the observer's channel.  *)
(***************************************************************************)
EXTENDS LossyQueue, TLAPS, SequenceTheorems

Rising(s) == \A i, j \in DOMAIN s : i < j => s[i] < s[j]

(* Events are observed in the order of their numbers, and so none twice.   *)
InOrder == Rising(observed)

(* With DropNewest every event was observed, is in the queue or is         *)
(* counted as dropped; with DropOldest nothing is ever counted.            *)
AllCounted ==
  /\ policy = "newest" => Len(observed) + Len(queue) + dropped = emitted
  /\ policy = "oldest" => dropped = 0

OrderType ==
  /\ emitted \in Nat /\ dropped \in Nat
  /\ queue \in Seq(1 .. emitted) /\ observed \in Seq(1 .. emitted)

(* What is in the queue is in order, too, and behind all that was observed.*)
OrderInv ==
  /\ Rising(queue) /\ Rising(observed)
  /\ \A i \in DOMAIN observed, j \in DOMAIN queue : observed[i] < queue[j]

QueueOrder == OrderType /\ OrderInv

OldestSqueezed == squeezed => policy = "oldest"

Counted == AllCounted /\ OldestSqueezed
-----------------------------------------------------------------------------
LEMMA MoreEmitted ==
  ASSUME NEW m \in Nat, NEW s \in Seq(1 .. m)
  PROVE  /\ s \in Seq(1 .. (m + 1)) /\ DOMAIN s = 1 .. Len(s)
         /\ Len(s) \in Nat /\ \A i \in DOMAIN s : s[i] \in 1 .. m
<1>1. 1 .. m \subseteq 1 .. (m + 1)
  OBVIOUS
<1> QED
  BY <1>1, SeqMonotonic, LenProperties, ElementOfSeq

(* Appending what is above all there is, or taking the head away, keeps a  *)
(* sequence rising.                                                        *)
LEMMA AppendRises ==
  ASSUME NEW m \in Nat, NEW s \in Seq(1 .. m), NEW e \in 1 .. m, Rising(s),
         \A i \in DOMAIN s : s[i] < e
  PROVE  /\ Append(s, e) \in Seq(1 .. m) /\ Rising(Append(s, e))
         /\ Len(Append(s, e)) = Len(s) + 1
         /\ DOMAIN s = 1 .. Len(s)
         /\ DOMAIN Append(s, e) = 1 .. (Len(s) + 1)
         /\ Append(s, e)[Len(s) + 1] = e
         /\ \A i \in DOMAIN s : Append(s, e)[i] = s[i]
<1> DEFINE t == Append(s, e)
           D == 1 .. m
<1>1. /\ t \in Seq(D) /\ Len(t) = Len(s) + 1 /\ Len(s) \in Nat
      /\ DOMAIN s = 1 .. Len(s) /\ t[Len(s) + 1] = e
      /\ \A i \in 1 .. Len(s) : t[i] = s[i]
  BY AppendProperties, LenProperties
<1>2. DOMAIN t = 1 .. (Len(s) + 1)
  BY <1>1, LenProperties
<1> HIDE DEF t, D
<1>3. ASSUME NEW i \in DOMAIN t, NEW j \in DOMAIN t, i < j
      PROVE  t[i] < t[j]
  <2>1. i \in DOMAIN s /\ t[i] = s[i]
    BY <1>1, <1>2, <1>3
  <2>2. CASE j \in DOMAIN s
    BY <1>1, <1>3, <2>1, <2>2 DEF Rising
  <2>3. CASE j = Len(s) + 1
    BY <1>1, <2>1, <2>3
  <2> QED
    BY <1>1, <1>2, <2>2, <2>3
<1>4. Rising(t)
  BY <1>3 DEF Rising
<1> QED
  BY <1>1, <1>2, <1>4 DEF t, D

LEMMA TailRises ==
  ASSUME NEW m \in Nat, NEW s \in Seq(1 .. m), s # <<>>, Rising(s)
  PROVE  /\ Head(s) \in 1 .. m /\ Tail(s) \in Seq(1 .. m) /\ Rising(Tail(s))
         /\ Len(Tail(s)) = Len(s) - 1
         /\ DOMAIN s = 1 .. Len(s) /\ 1 \in DOMAIN s /\ Head(s) = s[1]
         /\ DOMAIN Tail(s) = 1 .. (Len(s) - 1)
         /\ \A i \in DOMAIN Tail(s) :
              i + 1 \in DOMAIN s /\ Tail(s)[i] = s[i + 1] /\ Head(s) < s[i + 1]
<1> DEFINE t == Tail(s)
<1>1. /\ Head(s) \in 1 .. m /\ t \in Seq(1 .. m) /\ Len(t) = Len(s) - 1
      /\ Len(s) \in Nat /\ Len(s) # 0 /\ DOMAIN s = 1 .. Len(s)
      /\ Head(s) = s[1] /\ \A i \in 1 .. Len(t) : t[i] = s[i + 1]
  BY HeadTailProperties, LenProperties, EmptySeq
<1>2. DOMAIN t = 1 .. (Len(s) - 1)
  BY <1>1, LenProperties
<1> HIDE DEF t
<1>3. ASSUME NEW i \in DOMAIN t
      PROVE  /\ 1 \in DOMAIN s /\ i + 1 \in DOMAIN s
             /\ t[i] = s[i + 1] /\ s[1] < s[i + 1]
  <2>1. i \in 1 .. Len(t) /\ i \in 1 .. (Len(s) - 1)
    BY <1>1, <1>2
  <2>2. 1 \in 1 .. Len(s) /\ i + 1 \in 1 .. Len(s) /\ 1 < i + 1
    <3>1. Len(s) \in Nat
      BY <1>1
    <3> QED
      BY <2>1, <3>1
  <2>3. t[i] = s[i + 1]
    BY <1>1, <2>1
  <2> QED
    BY <1>1, <2>2, <2>3 DEF Rising
<1>4. Rising(t)
  <2>1. ASSUME NEW i \in DOMAIN t, NEW j \in DOMAIN t, i < j
        PROVE  t[i] < t[j]
    <3>1. i + 1 < j + 1
      BY <1>2, <1>1, <2>1
    <3> QED
      BY <1>3, <3>1 DEF Rising
  <2> QED
    BY <2>1 DEF Rising
<1>5. 1 \in DOMAIN s
  BY <1>1
<1> QED
  BY <1>1, <1>2, <1>3, <1>4, <1>5 DEF t
-----------------------------------------------------------------------------
LEMMA InitOrder == Init => QueueOrder /\ Counted
<1> SUFFICES ASSUME Init PROVE QueueOrder /\ Counted
  OBVIOUS
<1>1. /\ emitted = 0 /\ dropped = 0 /\ squeezed = FALSE
      /\ queue = <<>> /\ observed = <<>>
  BY DEF Init
<1>2. <<>> \in Seq(1 .. 0) /\ Len(<<>>) = 0 /\ DOMAIN <<>> = {}
  BY EmptySeq
<1> QED
  BY <1>1, <1>2
  DEF QueueOrder, OrderType, OrderInv, Rising, Counted, AllCounted,
      OldestSqueezed

LEMMA OrderStep ==
  ASSUME QueueOrder, [Next]_vars
  PROVE  QueueOrder'
<1> USE DEF QueueOrder, OrderType
<1>1. CASE Put
  <2>1. /\ emitted' = emitted + 1 /\ emitted' \in Nat
        /\ emitted + 1 \in 1 .. emitted' /\ queue' = Append(queue, emitted')
        /\ observed' = observed /\ dropped' = dropped
    BY <1>1 DEF Put
  <2>2. /\ queue \in Seq(1 .. emitted') /\ observed \in Seq(1 .. emitted')
        /\ \A i \in DOMAIN queue : queue[i] < emitted'
        /\ \A i \in DOMAIN observed : observed[i] < emitted'
    <3>1. /\ queue \in Seq(1 .. emitted') /\ observed \in Seq(1 .. emitted')
          /\ \A i \in DOMAIN queue : queue[i] \in 1 .. emitted
          /\ \A i \in DOMAIN observed : observed[i] \in 1 .. emitted
      BY <2>1, MoreEmitted
    <3>2. \A e \in 1 .. emitted : e < emitted'
      BY <2>1
    <3> QED
      BY <3>1, <3>2
  <2>3. /\ queue' \in Seq(1 .. emitted') /\ Rising(queue')
        /\ DOMAIN queue = 1 .. Len(queue) /\ Len(queue) \in Nat
        /\ DOMAIN queue' = 1 .. (Len(queue) + 1)
        /\ queue'[Len(queue) + 1] = emitted'
        /\ \A i \in DOMAIN queue : queue'[i] = queue[i]
    BY <2>1, <2>2, AppendRises, MoreEmitted DEF OrderInv
  <2>4. ASSUME NEW i \in DOMAIN observed, NEW j \in DOMAIN queue'
        PROVE  observed[i] < queue'[j]
    <3>1. j \in DOMAIN queue \/ j = Len(queue) + 1
      BY <2>3
    <3> QED
      BY <3>1, <2>2, <2>3 DEF OrderInv
  <2> QED
    BY <2>1, <2>2, <2>3, <2>4 DEF OrderInv
<1>2. CASE Refuse
  <2>1. /\ emitted' = emitted + 1 /\ dropped' = dropped + 1
        /\ UNCHANGED <<queue, observed>>
    BY <1>2 DEF Refuse
  <2>2. queue \in Seq(1 .. emitted') /\ observed \in Seq(1 .. emitted')
    BY <2>1, MoreEmitted
  <2> QED
    BY <2>1, <2>2 DEF OrderInv
<1>3. CASE Squeeze \/ Close \/ UNCHANGED vars
  BY <1>3 DEF Squeeze, Close, vars, OrderInv
<1>4. ASSUME queue # <<>>, queue' = Tail(queue)
      PROVE  /\ queue' \in Seq(1 .. emitted) /\ Rising(queue')
             /\ Head(queue) \in 1 .. emitted
             /\ \A i \in DOMAIN observed : observed[i] < Head(queue)
             /\ \A j \in DOMAIN queue' :
                  /\ Head(queue) < queue'[j]
                  /\ \A i \in DOMAIN observed : observed[i] < queue'[j]
  BY <1>4, TailRises DEF OrderInv
<1>5. CASE LoseOldest
  <2>1. UNCHANGED <<emitted, observed, dropped>>
    BY <1>5 DEF LoseOldest
  <2>2. CASE queue = <<>>
    BY <1>5, <2>1, <2>2 DEF LoseOldest, OrderInv
  <2>3. CASE queue # <<>>
    BY <1>4, <1>5, <2>1, <2>3 DEF LoseOldest, OrderInv
  <2> QED
    BY <2>2, <2>3
<1>6. CASE Observe
  <2>1. /\ UNCHANGED <<emitted, dropped>> /\ queue # <<>>
        /\ queue' = Tail(queue) /\ observed' = Append(observed, Head(queue))
    BY <1>6 DEF Observe
  <2>2. /\ observed' \in Seq(1 .. emitted) /\ Rising(observed')
        /\ DOMAIN observed = 1 .. Len(observed)
        /\ DOMAIN observed' = 1 .. (Len(observed) + 1)
        /\ observed'[Len(observed) + 1] = Head(queue)
        /\ \A i \in DOMAIN observed : observed'[i] = observed[i]
    BY <1>4, <2>1, AppendRises DEF OrderInv
  <2>3. ASSUME NEW i \in DOMAIN observed', NEW j \in DOMAIN queue'
        PROVE  observed'[i] < queue'[j]
    <3>1. Len(observed) \in Nat
      BY LenProperties
    <3>2. i \in DOMAIN observed \/ i = Len(observed) + 1
      BY <2>2, <3>1
    <3> QED
      BY <1>4, <2>1, <2>2, <3>2
  <2> QED
    BY <1>4, <2>1, <2>2, <2>3 DEF OrderInv
<1> QED
  BY <1>1, <1>2, <1>3, <1>5, <1>6 DEF Next

LEMMA CountStep ==
  ASSUME QueueOrder, Counted, [Next]_vars
  PROVE  Counted'
<1>1. OldestSqueezed'
  <2> USE DEF Counted, OldestSqueezed
  <2>1. CASE Put \/ Refuse \/ Squeeze \/ LoseOldest \/ Observe \/ Close
    BY <2>1, Zenon DEF Put, Refuse, Squeeze, LoseOldest, Observe, Close
  <2>2. CASE UNCHANGED vars
    BY <2>2, Zenon DEF vars
  <2> QED
    BY <2>1, <2>2 DEF Next
<1>2. AllCounted'
  <2>1. AllCounted /\ emitted \in Nat /\ dropped \in Nat
    BY DEF Counted, QueueOrder, OrderType
  <2>2. /\ Len(queue) \in Nat /\ Len(observed) \in Nat
        /\ \A e \in 1 .. (emitted + 1) :
             /\ Len(Append(queue, e)) = Len(queue) + 1
             /\ Len(Append(observed, e)) = Len(observed) + 1
        /\ queue # <<>> => /\ Len(Tail(queue)) = Len(queue) - 1
                           /\ Head(queue) \in 1 .. (emitted + 1)
    <3> DEFINE D == 1 .. (emitted + 1)
    <3>1. queue \in Seq(D) /\ observed \in Seq(D)
      BY MoreEmitted DEF QueueOrder, OrderType
    <3> HIDE DEF D
    <3>2. Len(queue) \in Nat /\ Len(observed) \in Nat
      BY <3>1, LenProperties
    <3>3. ASSUME NEW e \in D
          PROVE  /\ Len(Append(queue, e)) = Len(queue) + 1
                 /\ Len(Append(observed, e)) = Len(observed) + 1
      BY <3>1, AppendProperties
    <3>4. ASSUME queue # <<>>
          PROVE  Len(Tail(queue)) = Len(queue) - 1 /\ Head(queue) \in D
      BY <3>1, <3>4, HeadTailProperties
    <3> QED
      BY <3>2, <3>3, <3>4 DEF D
  <2>3. CASE Put
    <3>1. emitted + 1 \in 1 .. (emitted + 1)
      BY <2>1
    <3>2. /\ Len(queue') = Len(queue) + 1 /\ observed' = observed
          /\ UNCHANGED <<policy, dropped>> /\ emitted' = emitted + 1
      BY <2>2, <2>3, <3>1 DEF Put
    <3> QED
      BY <2>1, <2>2, <3>2 DEF AllCounted
  <2>4. CASE Refuse
    <3>1. /\ policy = "newest" /\ UNCHANGED <<policy, queue, observed>>
          /\ emitted' = emitted + 1 /\ dropped' = dropped + 1
      BY <2>4 DEF Refuse
    <3> QED
      BY <2>1, <2>2, <3>1 DEF AllCounted
  <2>5. CASE Squeeze \/ Close \/ UNCHANGED vars
    <3>1. UNCHANGED <<policy, emitted, queue, observed, dropped>>
      BY <2>5, Zenon DEF Squeeze, Close, vars
    <3> QED
      BY <2>1, <3>1 DEF AllCounted
  <2>6. CASE LoseOldest
    <3>1. policy = "oldest" /\ UNCHANGED <<policy, dropped>>
      BY <2>6, Zenon DEF LoseOldest, Counted, OldestSqueezed
    <3> QED
      BY <2>1, <3>1 DEF AllCounted
  <2>7. CASE Observe
    <3>1. /\ Len(queue') = Len(queue) - 1 /\ Len(observed') = Len(observed) + 1
          /\ UNCHANGED <<policy, dropped, emitted>>
      BY <2>2, <2>7 DEF Observe
    <3> QED
      BY <2>1, <2>2, <3>1 DEF AllCounted
  <2> QED
    BY <2>3, <2>4, <2>5, <2>6, <2>7 DEF Next
<1> QED
  BY <1>1, <1>2 DEF Counted

(* Neither the emitter, which may take events from the front, nor the      *)
(* reader puts the observed events out of order or repeats one.            *)
THEOREM ObservedInOrder == Spec => []InOrder
<1>1. QueueOrder => InOrder
  BY DEF QueueOrder, OrderInv, InOrder
<1> QED
  BY InitOrder, OrderStep, <1>1, PTL DEF Spec

(* The books balance: with DropNewest no event goes missing uncounted,     *)
(* with DropOldest none is counted.                                        *)
THEOREM LossesCounted == Spec => []AllCounted
<1>1. Counted => AllCounted
  BY DEF Counted
<1> QED
  BY InitOrder, OrderStep, CountStep, <1>1, PTL DEF Spec
=============================================================================
