------------------------------ MODULE Lifecycle -------------------------------
(***************************************************************************)
(* How one execution is stopped: the protocol between the monitor, which   *)
(* may give a verdict, and finish, which waits for it, and the context     *)
(* that ties them.  Modules Engine and Observer each model it with a       *)
(* different half of the rest (policies and signals; events and the lock), *)
(* and both implement it: what is proved of one holds beside the other.    *)
(***************************************************************************)
VARIABLES
  phase,     \* before, func, stop, join, finished, over
  monitor,   \* unborn, running, exited
  verdict,   \* a limit was reported as exceeded
  canceled,  \* the context of the execution is done
  finished   \* signals and verdicts are no longer accepted

vars == <<phase, monitor, verdict, canceled, finished>>

Init ==
  /\ phase = "before" /\ monitor = "unborn"
  /\ verdict = FALSE /\ canceled = FALSE /\ finished = FALSE

(* Run refuses its configuration.                                          *)
Refuse ==
  /\ phase = "before"
  /\ phase' = "over"
  /\ UNCHANGED <<monitor, verdict, canceled, finished>>

(* Func and the monitor start; the parent may have been canceled before.   *)
Start ==
  /\ phase = "before"
  /\ phase' = "func"
  /\ monitor' = "running"
  /\ canceled' \in {canceled, TRUE}
  /\ UNCHANGED <<verdict, finished>>

Cancel ==
  /\ ~canceled
  /\ canceled' = TRUE
  /\ UNCHANGED <<phase, monitor, verdict, finished>>

(* The monitor's verdict cancels the context in the same critical section. *)
GiveVerdict ==
  /\ monitor = "running" /\ ~verdict /\ ~finished
  /\ verdict' = TRUE
  /\ canceled' = TRUE
  /\ monitor' \in {"running", "exited"}
  /\ UNCHANGED <<phase, finished>>

Leave ==
  /\ monitor = "running" /\ canceled
  /\ monitor' = "exited"
  /\ UNCHANGED <<phase, verdict, canceled, finished>>

FuncReturns ==
  /\ phase = "func"
  /\ phase' = "stop"
  /\ UNCHANGED <<monitor, verdict, canceled, finished>>

(* finish cancels the context, unless a verdict has, and then waits.       *)
Stop ==
  /\ phase = "stop"
  /\ phase' = "join"
  /\ canceled' = TRUE
  /\ UNCHANGED <<monitor, verdict, finished>>

Commit ==
  /\ phase = "join" /\ monitor = "exited"
  /\ phase' = "finished"
  /\ finished' = TRUE
  /\ UNCHANGED <<monitor, verdict, canceled>>

Return ==
  /\ phase = "finished"
  /\ phase' = "over"
  /\ UNCHANGED <<monitor, verdict, canceled, finished>>

Next ==
  \/ Refuse \/ Start \/ Cancel
  \/ GiveVerdict \/ Leave
  \/ FuncReturns \/ Stop \/ Commit \/ Return

Spec == Init /\ [][Next]_vars
=============================================================================
