--------------------------- MODULE ObserverProps ----------------------------
(***************************************************************************)
(* What an observer of an execution can rely on.                           *)
(***************************************************************************)
EXTENDS Observer, FiniteSets

Kinds == {"started", "signal", "unit", "timeout", "termination", "finished"}

(* Every variable has the type of what it stands for.                      *)
TypeOK ==
  /\ dropPolicy \in DropPolicies
  /\ log \in Seq(Kinds)
  /\ queue \in Seq(DOMAIN log) /\ Len(queue) <= Capacity
  /\ closed \in BOOLEAN /\ dropped \in Nat /\ lost \subseteq DOMAIN log
  /\ consumer \in {"idle", "busy", "exited"}
  /\ inHand \in DOMAIN log \union {0} /\ delivered \in Seq(DOMAIN log)
  /\ holder \in {"none", "caller", "monitor", "run"}
  /\ toEmit \in Seq(Kinds) /\ step \in {"try", "evict", "retry", "count"}
  /\ timedOut \in BOOLEAN /\ state \in {"running", "finished"}
  /\ ctxDone \in BOOLEAN
  /\ monitor \in {"unborn", "running", "exited"}
  /\ run \in {"start", "func", "stop", "join", "count", "last", "close",
              "done"}
  /\ reported \in Nat /\ panicked \in BOOLEAN

(* The event that the holder of e.mu has neither sent nor given up yet.    *)
Undecided == holder # "none" /\ step # "count"

(* An event that emit has given up and not counted yet.                    *)
Uncounted == holder # "none" /\ step = "count"

Delivery == INSTANCE LossyQueue WITH
  policy <- dropPolicy,
  emitted <- IF Undecided THEN Len(log) - 1 ELSE Len(log),
  observed <- delivered \o (IF inHand = 0 THEN <<>> ELSE <<inHand>>),
  dropped <- IF Uncounted THEN dropped + 1 ELSE dropped,
  squeezed <- step = "evict"

(* Whatever goroutines emit, evict, receive and close at the same time,    *)
(* the observer sees what LossyQueue promises: the events in their order,  *)
(* none twice, and none missing but the one a full queue had no room for   *)
(* (emit, loop, close).                                                    *)
ImplementsLossyQueue == Delivery!Spec

(* Result.EventsDropped, read without the lock and before the last event,  *)
(* misses no drop of an event about the policies: with DropNewest all of   *)
(* them happened before, as no signal and no verdict comes after the       *)
(* commit.  Only execution_finished and late unit events can be missing.   *)
PolicyEvents == {"started", "signal", "timeout", "termination"}

ReportedDrops ==
  dropPolicy = "newest" /\ run \in {"last", "close", "done"} =>
    /\ reported <= dropped
    /\ Cardinality({i \in lost : log[i] \in PolicyEvents}) <= reported

(* The order in which the kinds are emitted: started first; a timeout is   *)
(* followed at once by termination_requested and never by a signal; only   *)
(* execution_finished can follow a finished execution's last signal.       *)
EmissionOrder ==
  /\ log # <<>> => log[1] = "started"
  /\ \A i, j \in DOMAIN log :
       i < j => /\ log[i] = "timeout" => log[j] # "signal"
                /\ log[i] = "finished" => log[j] = "unit"
                /\ log[j] # "started"
  /\ \A i \in DOMAIN log :
       log[i] = "timeout" =>
         \/ i < Len(log) /\ log[i + 1] = "termination"
         \/ i = Len(log) /\ holder = "monitor"

(* Heartbeat, Status and Progress never send on the closed channel, at     *)
(* whatever moment they are called: the state they look at is set before   *)
(* the channel is closed, under the lock they hold (finish, close).        *)
OnlyUnitsPanic == panicked => log[Event] = "unit"

(* The library says that any goroutine may call the methods of Execution:  *)
(* no call ends the program.                                               *)
NoPanic == ~panicked

(* Whenever an event is dropped the counter is incremented.                *)
DropsCounted == dropped = Cardinality(lost)

(* emit never waits, whatever the channel, the consumer and the close do   *)
(* in between: its holder of e.mu always has a next step.                  *)
HolderCanStep == holder # "none" /\ ~panicked => ENABLED <<Emit>>_vars
-----------------------------------------------------------------------------
(* A slow observer, or one that never returns, blocks no emitter: the lock *)
(* that the monitor needs is always released again.                        *)
EmitReturnsAlways == holder # "none" ~> (holder = "none" \/ panicked)

(* If OnEvent always returns, every event left in the queue when Run       *)
(* returns is delivered later and the goroutine of loop ends.              *)
Drained ==
  ([]<>(consumer # "busy")) =>
    (closed ~> (panicked \/ (consumer = "exited" /\ queue = <<>>)))

(* The skeleton of the engine in module Observer follows the protocol of   *)
(* Lifecycle, as module Engine does: verdicts may come at more moments     *)
(* here, but never at one that the engine rules out.                       *)
Protocol ==
  INSTANCE Lifecycle WITH
    phase    <- CASE run = "start"                    -> "before"
                  [] run \in {"count", "last", "close"} -> "finished"
                  [] run = "done"                     -> "over"
                  [] OTHER                            -> run,
    verdict  <- timedOut,
    canceled <- ctxDone,
    finished <- state = "finished"

FollowsLifecycle == Protocol!Spec
=============================================================================
