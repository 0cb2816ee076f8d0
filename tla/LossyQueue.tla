----------------------------- MODULE LossyQueue ------------------------------
(***************************************************************************)
(* What the queue between an execution and its observer promises: events   *)
(* are numbered in the order in which they are emitted and are observed in *)
(* that order, none twice.  An event is lost only because the queue was    *)
(* found full: with DropNewest it is the new one, which is counted; with   *)
(* DropOldest it is the one at the front, at most one for each time the    *)
(* queue was found full, and nothing is counted.                           *)
(***************************************************************************)
EXTENDS Integers, Sequences

CONSTANTS Capacity, DropPolicies

VARIABLES policy, emitted, queue, observed, dropped, squeezed, closed

vars == <<policy, emitted, queue, observed, dropped, squeezed, closed>>

Init ==
  /\ policy \in DropPolicies
  /\ emitted = 0 /\ queue = <<>> /\ observed = <<>> /\ dropped = 0
  /\ squeezed = FALSE /\ closed = FALSE

Put ==
  /\ ~closed /\ ~squeezed /\ Len(queue) < Capacity
  /\ emitted' = emitted + 1
  /\ queue' = Append(queue, emitted + 1)
  /\ UNCHANGED <<policy, observed, dropped, squeezed, closed>>

Refuse ==
  /\ policy = "newest" /\ Len(queue) = Capacity
  /\ emitted' = emitted + 1
  /\ dropped' = dropped + 1
  /\ UNCHANGED <<policy, queue, observed, squeezed, closed>>

Squeeze ==
  /\ policy = "oldest" /\ ~squeezed /\ Len(queue) = Capacity
  /\ squeezed' = TRUE
  /\ UNCHANGED <<policy, emitted, queue, observed, dropped, closed>>

LoseOldest ==
  /\ squeezed
  /\ squeezed' = FALSE
  /\ queue' = IF queue = <<>> THEN <<>> ELSE Tail(queue)
  /\ UNCHANGED <<policy, emitted, observed, dropped, closed>>

Observe ==
  /\ queue # <<>>
  /\ observed' = Append(observed, Head(queue))
  /\ queue' = Tail(queue)
  /\ UNCHANGED <<policy, emitted, dropped, squeezed, closed>>

Close ==
  /\ closed' = TRUE
  /\ UNCHANGED <<policy, emitted, queue, observed, dropped, squeezed>>

Next == Put \/ Refuse \/ Squeeze \/ LoseOldest \/ Observe \/ Close

Spec == Init /\ [][Next]_vars
=============================================================================
