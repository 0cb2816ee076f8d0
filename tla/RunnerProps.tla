---------------------------- MODULE RunnerProps -----------------------------
(***************************************************************************)
(* What the process runner guarantees.                                     *)
(***************************************************************************)
EXTENDS Runner

(* Every variable has the type of what it stands for.                      *)
TypeOK ==
  /\ platform \in Platforms /\ job \in {"none", "open", "closed"}
  /\ members \subseteq Procs
  /\ alive \subseteq Procs /\ forked \in BOOLEAN
  /\ child \in {"none", "running", "zombie", "reaped"} /\ exit \in {0, 1, -1}
  /\ termed \subseteq Procs /\ holders \subseteq alive
  /\ written \in 0 .. MaxOutput /\ copied \in 0 .. written
  /\ {pump, reader} \subseteq {"unborn", "running", "done"}
  /\ controlClosed \in BOOLEAN /\ waitCh \in {"empty", "full"}
  /\ func \in {"start", "attach", "select", "terminating", "await", "cleanup",
               "join", "close", "returned", "done"}
  /\ term \in [Terminators ->
                {"idle", "begin", "poll", "job", "sleep", "done"}]
  /\ found \subseteq Terminators /\ killed \subseteq Procs
  /\ probe \in {"idle", "failing", "fatal"} /\ probeStopped \in BOOLEAN
  /\ timedOut \in BOOLEAN /\ canceled \in BOOLEAN
  /\ killedBySIGKILL \in BOOLEAN
  /\ cmdErr \in {"nil", "exit", "notfound", "other"}
  /\ fnErr \in {"nil", "setup", "notfound", "other", "probe"}
  /\ status \in {"unset", "timeout", "canceled", "failed", "succeeded"}
  /\ code \in {-1, 0, 1, 125, 126, 127, 130, 137, TimeoutCode}

Launched == child # "none"

(* Run leaves no zombie: whichever way Func goes, the child was reaped and *)
(* its exit status taken from the channel before Func returns (Func's      *)
(* select).                                                                *)
ChildReaped ==
  Launched /\ func \in {"cleanup", "join", "close", "returned", "done"} =>
    child = "reaped" /\ waitCh = "empty"

(* The goroutines that begin and end units and that copy the output are    *)
(* over when Func returns, so no unit call of the runner comes late; all   *)
(* that was written has been copied (wg.Wait).                             *)
OutputComplete ==
  Launched /\ func \in {"close", "returned", "done"} =>
    pump = "done" /\ reader = "done" /\ copied = written

(* A termination that found the group, or a job that holds all processes,  *)
(* leaves none of them alive, even one that ignores SIGTERM, whoever else  *)
(* terminates or closes it at the same time.                               *)
TerminationComplete ==
  \A t \in found : term[t] = "done" => alive = {}

(* The child of a run that ends as succeeded was not signaled or killed by *)
(* the runner: the exit code it reports is the child's own (onFatal, Func, *)
(* closeJob).                                                              *)
SuccessUntouched ==
  status = "succeeded" =>
    termed = {} /\ "child" \notin killed /\ code = exit

(* What the exit code of Run tells its caller: a timeout is never hidden   *)
(* by what the child returned, and 125, 126, 127 and 130 mean what they    *)
(* should to mapExitCode, which gives 127 to any path it cannot run.       *)
ExitCodes ==
  func = "done" =>
    /\ timedOut => code \in {TimeoutCode, 137}
    /\ ~timedOut /\ canceled => code = 130
    /\ status = "failed" /\ probe = "fatal" => code = 125
    /\ cmdErr = "notfound" /\ status = "failed" => code = 127
    /\ cmdErr = "other" /\ status = "failed" => code = 126

(* The exit code 137 of --signal-exit is for a child that SIGKILL ended.   *)
SignalExitMeansKill == code = 137 => killed # {}
-----------------------------------------------------------------------------
(* Once a termination has found the group or the job, Run returns: no      *)
(* process can hold Func back by ignoring SIGTERM or by keeping the pipes  *)
(* open.                                                                   *)
TerminationEnds == (found # {}) ~> (func = "done")

(* Run returns if every process of the group ends by itself.               *)
ExitEnds == (func # "start" /\ alive = {}) ~> (func = "done")

(* What the processes wrote gets copied, also what was still in the pipe   *)
(* when the last of them ended: the pump is never behind for good.         *)
CaughtUp == pump = "running" => copied = written

OutputCopied == []<>CaughtUp

(* On timeout the process group of the child is signaled until it is gone, *)
(* unless Run has returned (or has yet to start the child).                *)
TimeoutEndsGroup ==
  timedOut ~> (alive = {} \/ func \in {"start", "done"})
-----------------------------------------------------------------------------
(* The runner keeps the promise of module Outcome; it does not tell the    *)
(* policies apart, and "hard" stands for any of them.                      *)
Promise ==
  INSTANCE Outcome WITH
    phase  <- IF func = "done" THEN "closed"
              ELSE IF timedOut THEN "expired" ELSE "open",
    kind   <- CASE timedOut -> "hard"
                [] ~timedOut /\ status = "failed" /\ fnErr = "probe" -> "probe"
                [] OTHER -> "none"

KeepsPromise == Promise!Spec
=============================================================================
