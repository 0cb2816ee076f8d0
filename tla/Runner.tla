------------------------------- MODULE Runner -------------------------------
(***************************************************************************)
(* The process runner (process/runner.go): a child process supervised by   *)
(* one execution of the policy engine.  On a Unix system the child has a   *)
(* process group of its own (process/terminate_unix.go); on Windows it is  *)
(* put into a job object once it runs (process/terminate_windows.go).      *)
(*                                                                         *)
(* Func runs the child and waits for it; around it are the goroutine of    *)
(* cmd.Wait, the pumps that copy the child's output, the reader of the     *)
(* control pipe and the command probe.  The engine is reduced to what Func *)
(* sees of it: a context that a verdict or the parent may end at any time, *)
(* and the status finish computes (module Engine has the rest).            *)
(*                                                                         *)
(* The child may leave one descendant in its group or job, which inherits  *)
(* the pipes.  The two output pipes behave alike, and one stands for both. *)
(***************************************************************************)
EXTENDS Integers, FiniteSets

CONSTANTS
  Platforms,   \* subset of {"unix", "windows"}
  MaxOutput,   \* bound: chunks of output the processes write
  ProbeFatal,  \* is there a probe whose failure stops the execution?
  TimeoutExit, \* req.TimeoutExit, as the caller of Run gives it
  SignalExit   \* req.SignalExit

ASSUME PlatformAssumption == Platforms \subseteq {"unix", "windows"}
ASSUME OutputAssumption == MaxOutput \in Nat
ASSUME ProbeAssumption == ProbeFatal \in BOOLEAN
ASSUME ExitAssumption == TimeoutExit \in Int /\ SignalExit \in BOOLEAN

Procs == {"child", "descendant"}

(* Who calls terminateProcessGroup: Func, and the callback of the probe.   *)
Terminators == {"func", "probe"}

VARIABLES
  platform,
  job,        \* the job object: none, open or closed
  members,    \* processes that were put into the job, or born in it
  alive,      \* processes that run: the child and its descendant
  forked,     \* has the child left a descendant?
  child,      \* the child: none, running, zombie or reaped
  exit,       \* how the child ended: its exit code, -1 for a signal
  termed,     \* processes that were sent SIGTERM
  holders,    \* processes that hold the write end of the output pipe
  written, copied,      \* output written by the group, copied by the pump
  pump, reader,         \* the goroutines: unborn, running or done
  controlClosed,        \* controlR was closed
  waitCh,     \* the channel of cmd.Wait: empty or full
  func,       \* where Func (and then Run) is
  term,       \* where each caller is in terminateProcessGroup
  found,      \* callers who had all of the processes at hand (history)
  killed,     \* processes a termination killed (history)
  probe,      \* idle, failing (seen the failure), fatal (stored it)
  probeStopped,         \* probeStop was called
  timedOut, canceled,   \* the engine's verdict, the parent's cancellation
  killedBySIGKILL,
  cmdErr, fnErr,
  status, code          \* the Result's status, the exit code of Run

jobVars == <<platform, job, members>>
procVars == <<alive, forked, child, exit, termed, holders, written>>
pipeVars == <<copied, pump, reader, controlClosed>>
termVars == <<term, found, killed>>
probeVars == <<probe, probeStopped>>
engineVars == <<timedOut, canceled>>
runVars == <<func, killedBySIGKILL, cmdErr, fnErr, status, code>>
vars == <<jobVars, procVars, pipeVars, waitCh, termVars, probeVars, engineVars,
          runVars>>

Init ==
  /\ platform \in Platforms /\ job = "none" /\ members = {}
  /\ alive = {} /\ forked = FALSE /\ child = "none" /\ exit = 0
  /\ termed = {} /\ holders = {} /\ written = 0
  /\ copied = 0 /\ pump = "unborn" /\ reader = "unborn"
  /\ controlClosed = FALSE /\ waitCh = "empty"
  /\ term = [t \in Terminators |-> "idle"] /\ found = {} /\ killed = {}
  /\ probe = "idle" /\ probeStopped = FALSE
  /\ timedOut = FALSE /\ canceled = FALSE
  /\ func = "start" /\ killedBySIGKILL = FALSE
  /\ cmdErr = "nil" /\ fnErr = "nil"
  /\ status = "unset" /\ code = 0
-----------------------------------------------------------------------------
(* The processes of the group.                                             *)

Fork ==
  /\ "child" \in alive /\ ~forked
  /\ forked' = TRUE
  /\ alive' = alive \union {"descendant"}
  /\ holders' = holders \union
                  (IF "child" \in holders THEN {"descendant"} ELSE {})
  /\ members' = members \union
                  (IF "child" \in members THEN {"descendant"} ELSE {})
  /\ UNCHANGED <<platform, job, child, exit, termed, written, pipeVars,
                 waitCh, termVars, probeVars, engineVars, runVars>>

(* These processes end; if the child is among them, this is its exit code. *)
Die(procs, exitCode) ==
  /\ alive' = alive \ procs
  /\ holders' = holders \ procs
  /\ child' = IF "child" \in procs /\ child = "running" THEN "zombie"
              ELSE child
  /\ exit' = IF "child" \in procs /\ child = "running" THEN exitCode
             ELSE exit

(* A process ends by itself, or a signal that is not the runner's ends it. *)
Exit(p, exitCode) ==
  /\ p \in alive /\ (exitCode = -1 => platform = "unix")
  /\ Die({p}, exitCode)
  /\ UNCHANGED <<jobVars, forked, termed, written, pipeVars, waitCh, termVars,
                 probeVars, engineVars, runVars>>

(* SIGTERM ends a process, unless it is caught or ignored.                 *)
DieOfTerm(p) ==
  /\ p \in alive /\ p \in termed
  /\ Die({p}, -1)
  /\ UNCHANGED <<jobVars, forked, termed, written, pipeVars, waitCh, termVars,
                 probeVars, engineVars, runVars>>

Write(p) ==
  /\ p \in alive /\ p \in holders /\ written < MaxOutput
  /\ written' = written + 1
  /\ UNCHANGED <<jobVars, alive, forked, child, exit, termed, holders,
                 pipeVars, waitCh, termVars, probeVars, engineVars, runVars>>

(* A process that becomes a daemon closes the output it inherited.         *)
CloseOutput(p) ==
  /\ p \in holders
  /\ holders' = holders \ {p}
  /\ UNCHANGED <<jobVars, alive, forked, child, exit, termed, written,
                 pipeVars, waitCh, termVars, probeVars, engineVars, runVars>>

Processes ==
  \/ Fork
  \/ \E p \in Procs :
       \/ \E exitCode \in {0, 1, -1} : Exit(p, exitCode)
       \/ DieOfTerm(p) \/ Write(p) \/ CloseOutput(p)
-----------------------------------------------------------------------------
(* The goroutines Func starts.                                             *)

(* cmd.Wait reaps the child; the channel has room for its one result.      *)
Wait ==
  /\ child = "zombie" /\ func # "attach"
  /\ child' = "reaped"
  /\ waitCh' = "full"
  /\ UNCHANGED <<jobVars, alive, forked, exit, termed, holders, written,
                 pipeVars, termVars, probeVars, engineVars, runVars>>

(* Mutant: the read end is closed as soon as nobody can write any more.    *)
PumpCopiesWhileHeld ==
  /\ pump = "running" /\ copied < written /\ holders # {}
  /\ copied' = copied + 1
  /\ UNCHANGED <<jobVars, procVars, pump, reader, controlClosed, waitCh,
                 termVars, probeVars, engineVars, runVars>>

(* pipeOutput copies what it reads and ends at end of file.                *)
PumpCopies ==
  /\ pump = "running" /\ copied < written
  /\ copied' = copied + 1
  /\ UNCHANGED <<jobVars, procVars, pump, reader, controlClosed, waitCh,
                 termVars, probeVars, engineVars, runVars>>

PumpEnds ==
  /\ pump = "running" /\ copied = written /\ holders = {}
  /\ pump' = "done"
  /\ UNCHANGED <<jobVars, procVars, copied, reader, controlClosed, waitCh,
                 termVars, probeVars, engineVars, runVars>>

(* ReadLoop on the control pipe ends when the pipe is closed at one end or *)
(* the other; on Windows Start has closed it.  What the messages do is in  *)
(* module Intake.                                                          *)
ReaderEnds ==
  /\ reader = "running"
  /\ controlClosed \/ alive = {} \/ platform = "windows"
  /\ reader' = "done"
  /\ UNCHANGED <<jobVars, procVars, copied, pump, controlClosed, waitCh,
                 termVars, probeVars, engineVars, runVars>>

(* A line longer than the scanner's buffer ends it, too.                   *)
ReaderStops ==
  /\ reader = "running" /\ alive # {}
  /\ reader' = "done"
  /\ UNCHANGED <<jobVars, procVars, copied, pump, controlClosed, waitCh,
                 termVars, probeVars, engineVars, runVars>>

(* A run of the probe fails while the probe's context is still live ...    *)
ProbeFails ==
  /\ ProbeFatal /\ probe = "idle" /\ ~probeStopped
  /\ pump # "unborn"
  /\ probe' = "failing"
  /\ UNCHANGED <<jobVars, procVars, pipeVars, waitCh, termVars, probeStopped,
                 engineVars, runVars>>

(* Mutant: onFatal terminates the group and does not store the error.      *)
ProbeForgets ==
  /\ probe = "failing"
  /\ probe' = "idle"
  /\ probeStopped' = TRUE
  /\ term' = [term EXCEPT !["probe"] = "begin"]
  /\ UNCHANGED <<jobVars, procVars, pipeVars, waitCh, found, killed,
                 engineVars, runVars>>

(* ... and onFatal records the error, stops the probe and terminates.      *)
ProbeRecords ==
  /\ probe = "failing"
  /\ probe' = "fatal"
  /\ probeStopped' = TRUE
  /\ term' = [term EXCEPT !["probe"] = "begin"]
  /\ UNCHANGED <<jobVars, procVars, pipeVars, waitCh, found, killed,
                 engineVars, runVars>>

Goroutines ==
  Wait \/ PumpCopies \/ PumpEnds \/ ReaderEnds \/ ReaderStops \/ ProbeRecords
-----------------------------------------------------------------------------
(* terminateProcessGroup on a Unix system.                                 *)

(* The leader's group can be looked up until the leader is reaped.         *)
SignalGroup(t) ==
  /\ platform = "unix" /\ term[t] = "begin" /\ child # "reaped"
  /\ termed' = termed \union alive
  /\ term' = [term EXCEPT ![t] = "poll"]
  /\ found' = found \union {t}
  /\ UNCHANGED <<jobVars, alive, forked, child, exit, holders, written,
                 pipeVars, waitCh, killed, probeVars, engineVars, runVars>>

(* Otherwise only the process that is gone is signaled, to no effect, and  *)
(* the grace period is slept through.                                      *)
NoGroup(t) ==
  /\ platform = "unix" /\ term[t] = "begin" /\ child = "reaped"
  /\ term' = [term EXCEPT ![t] = "done"]
  /\ UNCHANGED <<jobVars, procVars, pipeVars, waitCh, found, killed,
                 probeVars, engineVars, runVars>>

(* A zombie is still a member of the group.                                *)
GroupExists == alive # {} \/ child = "zombie"

GroupGone(t) ==
  /\ term[t] = "poll" /\ ~GroupExists
  /\ term' = [term EXCEPT ![t] = "done"]
  /\ UNCHANGED <<jobVars, procVars, pipeVars, waitCh, found, killed,
                 probeVars, engineVars, runVars>>

(* Mutant: SIGKILL goes to the child, not to its group.                    *)
KillChild(t) ==
  /\ term[t] = "poll"
  /\ Die(alive \intersect {"child"}, -1)
  /\ killed' = killed \union (alive \intersect {"child"})
  /\ term' = [term EXCEPT ![t] = "done"]
  /\ UNCHANGED <<jobVars, forked, termed, written, pipeVars, waitCh, found,
                 probeVars, engineVars, runVars>>

(* The grace period is over.                                               *)
KillGroup(t) ==
  /\ term[t] = "poll"
  /\ Die(alive, -1)
  /\ killed' = killed \union alive
  /\ term' = [term EXCEPT ![t] = "done"]
  /\ UNCHANGED <<jobVars, forked, termed, written, pipeVars, waitCh, found,
                 probeVars, engineVars, runVars>>

(* terminateProcessGroup on Windows: there is no signal to begin with.     *)

(* The handle is looked at before the grace period and used after it; in   *)
(* between, closeJob may have closed it and ended the processes.           *)
AwaitJob(t) ==
  /\ platform = "windows" /\ term[t] = "begin" /\ job = "open"
  /\ term' = [term EXCEPT ![t] = "job"]
  /\ found' = IF alive \subseteq members THEN found \union {t} ELSE found
  /\ UNCHANGED <<jobVars, procVars, pipeVars, waitCh, killed, probeVars,
                 engineVars, runVars>>

TerminateJob(t) ==
  /\ term[t] = "job"
  /\ LET victims == IF job = "open" THEN alive \intersect members ELSE {}
     IN Die(victims, 1) /\ killed' = killed \union victims
  /\ term' = [term EXCEPT ![t] = "done"]
  /\ UNCHANGED <<jobVars, forked, termed, written, pipeVars, waitCh, found,
                 probeVars, engineVars, runVars>>

(* Without a job the child alone is killed, before the grace period and    *)
(* once more after it.                                                     *)
KillProcess(t, from, to) ==
  /\ platform = "windows" /\ term[t] = from
  /\ Die(alive \intersect {"child"}, 1)
  /\ killed' = killed \union (alive \intersect {"child"})
  /\ term' = [term EXCEPT ![t] = to]
  /\ UNCHANGED <<jobVars, forked, termed, written, pipeVars, waitCh, found,
                 probeVars, engineVars, runVars>>

Kill(t) ==
  \/ job # "open" /\ KillProcess(t, "begin", "sleep")
  \/ KillProcess(t, "sleep", "done")

Terminate(t) ==
  \/ SignalGroup(t) \/ NoGroup(t) \/ GroupGone(t) \/ KillGroup(t)
  \/ AwaitJob(t) \/ TerminateJob(t) \/ Kill(t)
-----------------------------------------------------------------------------
(* Func.                                                                   *)

(* A pipe cannot be made: cmdErr is not set.                               *)
SetupFails ==
  /\ func = "start"
  /\ fnErr' = "setup"
  /\ func' = "returned"
  /\ UNCHANGED <<jobVars, procVars, pipeVars, waitCh, termVars, probeVars,
                 engineVars, killedBySIGKILL, cmdErr, status, code>>

(* cmd.Start fails: the program is not found or its path is at fault       *)
(* ("notfound"), or there is another reason ("other").                     *)
StartFails(err) ==
  /\ func = "start"
  /\ cmdErr' = err /\ fnErr' = err
  /\ func' = "returned"
  /\ UNCHANGED <<jobVars, procVars, pipeVars, waitCh, termVars, probeVars,
                 engineVars, killedBySIGKILL, status, code>>

(* Mutant: the runner keeps its copy of the write end of the output pipe.  *)
StartKeepsWriteEnd ==
  /\ func = "start"
  /\ alive' = {"child"} /\ holders' = {"child", "runner"}
  /\ child' = "running"
  /\ func' = "attach"
  /\ UNCHANGED <<jobVars, forked, exit, termed, written, pipeVars, waitCh,
                 termVars, probeVars, engineVars, killedBySIGKILL, cmdErr,
                 fnErr, status, code>>

(* The child runs, and the runner closes its copies of the write ends.     *)
Start ==
  /\ func = "start"
  /\ alive' = {"child"} /\ holders' = {"child"}
  /\ child' = "running"
  /\ func' = "attach"
  /\ UNCHANGED <<jobVars, forked, exit, termed, written, pipeVars, waitCh,
                 termVars, probeVars, engineVars, killedBySIGKILL, cmdErr,
                 fnErr, status, code>>

(* attachJob: any call of it may fail, and it must if the child has ended; *)
(* a descendant the child already has stays outside.  Then the goroutines  *)
(* are started.                                                            *)
AttachJob ==
  /\ func = "attach"
  /\ \/ UNCHANGED <<job, members>>
     \/ /\ platform = "windows" /\ "child" \in alive
        /\ job' = "open" /\ members' = {"child"}
  /\ pump' = "running" /\ reader' = "running"
  /\ func' = "select"
  /\ UNCHANGED <<platform, procVars, copied, controlClosed, waitCh, termVars,
                 probeVars, engineVars, killedBySIGKILL, cmdErr, fnErr,
                 status, code>>

(* case <-execH.Context().Done()                                           *)
SelectDone ==
  /\ func = "select" /\ (timedOut \/ canceled)
  /\ term' = [term EXCEPT !["func"] = "begin"]
  /\ func' = "terminating"
  /\ UNCHANGED <<jobVars, procVars, pipeVars, waitCh, found, killed,
                 probeVars, engineVars, killedBySIGKILL, cmdErr, fnErr,
                 status, code>>

(* Mutant: the result of cmd.Wait is not awaited after a termination.      *)
TerminatedNoWait ==
  /\ func = "terminating" /\ term["func"] = "done"
  /\ killedBySIGKILL' = TRUE
  /\ func' = "cleanup"
  /\ UNCHANGED <<jobVars, procVars, pipeVars, waitCh, termVars, probeVars,
                 engineVars, cmdErr, fnErr, status, code>>

Terminated ==
  /\ func = "terminating" /\ term["func"] = "done"
  /\ killedBySIGKILL' = TRUE
  /\ func' = "await"
  /\ UNCHANGED <<jobVars, procVars, pipeVars, waitCh, termVars, probeVars,
                 engineVars, cmdErr, fnErr, status, code>>

(* cmdErr = <-waitCh, as a case of the select or after the termination.    *)
ReceiveWait ==
  /\ func \in {"select", "await"} /\ waitCh = "full"
  /\ waitCh' = "empty"
  /\ cmdErr' = IF exit = 0 THEN "nil" ELSE "exit"
  /\ func' = "cleanup"
  /\ UNCHANGED <<jobVars, procVars, pipeVars, termVars, probeVars, engineVars,
                 killedBySIGKILL, fnErr, status, code>>

(* probeStop(); controlR.Close()                                           *)
Cleanup ==
  /\ func = "cleanup"
  /\ probeStopped' = TRUE
  /\ controlClosed' = TRUE
  /\ func' = "join"
  /\ UNCHANGED <<jobVars, procVars, copied, pump, reader, waitCh, termVars,
                 probe, engineVars, killedBySIGKILL, cmdErr, fnErr, status,
                 code>>

(* Mutant: the wait group does not count the pumps.                        *)
JoinReader ==
  /\ func = "join" /\ reader = "done"
  /\ fnErr' = IF probe = "fatal" THEN "probe" ELSE "nil"
  /\ func' = "close"
  /\ UNCHANGED <<jobVars, procVars, pipeVars, waitCh, termVars, probeVars,
                 engineVars, killedBySIGKILL, cmdErr, status, code>>

(* wg.Wait(); an exit status of the child is no error of Func.             *)
Join ==
  /\ func = "join" /\ pump = "done" /\ reader = "done"
  /\ fnErr' = IF probe = "fatal" THEN "probe" ELSE "nil"
  /\ func' = "close"
  /\ UNCHANGED <<jobVars, procVars, pipeVars, waitCh, termVars, probeVars,
                 engineVars, killedBySIGKILL, cmdErr, status, code>>

(* The deferred closeJob: the limit of the job ends what is left in it.    *)
CloseJob ==
  /\ func = "close"
  /\ Die(IF job = "open" THEN alive \intersect members ELSE {}, 1)
  /\ job' = IF job = "open" THEN "closed" ELSE job
  /\ func' = "returned"
  /\ UNCHANGED <<platform, members, forked, termed, written, pipeVars, waitCh,
                 termVars, probeVars, engineVars, killedBySIGKILL, cmdErr,
                 fnErr, status, code>>

(* finish (module Engine).                                                 *)
FinalStatus ==
  CASE timedOut                                    -> "timeout"
    [] ~timedOut /\ canceled                       -> "canceled"
    [] ~timedOut /\ ~canceled /\ fnErr # "nil"     -> "failed"
    [] OTHER                                       -> "succeeded"

(* mapExitCode.                                                            *)
ErrCode ==
  CASE cmdErr = "nil"      -> 0
    [] cmdErr = "exit"     -> exit
    [] cmdErr = "notfound" -> 127 \* a PathError, too
    [] cmdErr = "other"    -> 126

(* Run replaces a code it was not given.                                   *)
TimeoutCode == IF TimeoutExit = 0 THEN 124 ELSE TimeoutExit

(* Mutant: a failed probe is not told from a failed command.               *)
MapExitCodeNoProbe(st) ==
  CASE st = "timeout" /\ SignalExit /\ killedBySIGKILL     -> 137
    [] st = "timeout" /\ ~(SignalExit /\ killedBySIGKILL)  -> TimeoutCode
    [] st = "canceled"                                     -> 130
    [] OTHER                                               -> ErrCode

MapExitCode(st) ==
  CASE st = "timeout" /\ SignalExit /\ killedBySIGKILL     -> 137
    [] st = "timeout" /\ ~(SignalExit /\ killedBySIGKILL)  -> TimeoutCode
    [] st = "canceled"                                     -> 130
    [] st = "failed" /\ fnErr = "probe"                    -> 125
    [] OTHER                                               -> ErrCode

RunReturns ==
  /\ func = "returned"
  /\ status' = FinalStatus
  /\ code' = MapExitCode(FinalStatus)
  /\ func' = "done"
  /\ UNCHANGED <<jobVars, procVars, pipeVars, waitCh, termVars, probeVars,
                 engineVars, killedBySIGKILL, cmdErr, fnErr>>

Func ==
  \/ AttachJob \/ SelectDone \/ Terminated \/ ReceiveWait \/ Cleanup
  \/ Join \/ CloseJob \/ RunReturns

Launch == SetupFails \/ (\E err \in {"notfound", "other"} : StartFails(err))
            \/ Start
-----------------------------------------------------------------------------
(* The engine gives a verdict, the parent is canceled.                     *)
Verdict ==
  /\ ~timedOut /\ func # "done"
  /\ timedOut' = TRUE
  /\ UNCHANGED <<jobVars, procVars, pipeVars, waitCh, termVars, probeVars,
                 canceled, runVars>>

CancelParent ==
  /\ ~canceled /\ func # "done"
  /\ canceled' = TRUE
  /\ UNCHANGED <<jobVars, procVars, pipeVars, waitCh, termVars, probeVars,
                 timedOut, runVars>>

(* Run has returned, or Func waits for processes that do not end.          *)
Resting == func \in {"select", "join", "done"} /\ UNCHANGED vars

Next ==
  \/ Processes
  \/ Goroutines
  \/ ProbeFails
  \/ \E t \in Terminators : Terminate(t)
  \/ Launch
  \/ Func
  \/ Verdict \/ CancelParent
  \/ Resting

Spec == Init /\ [][Next]_vars

(* Goroutines that can run do run, and grace periods end.  Nothing is      *)
(* assumed of the processes, of the engine's verdict or of the parent.     *)
TerminatorFairness(t) == WF_vars(Terminate(t))

TerminatorsFair == \A t \in Terminators : TerminatorFairness(t)

Fairness ==
  /\ WF_vars(Wait)
  /\ WF_vars(PumpCopies) /\ WF_vars(PumpEnds)
  /\ WF_vars(ReaderEnds) /\ WF_vars(ProbeRecords)
  /\ TerminatorsFair
  /\ WF_vars(Func)

FairSpec == Spec /\ Fairness
=============================================================================
