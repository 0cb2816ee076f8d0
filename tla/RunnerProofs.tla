---------------------------- MODULE RunnerProofs ----------------------------
(***************************************************************************)
(* Proofs about module Runner, on both platforms, for any amount of output *)
(* and any integer as the exit code of a timeout, with or without a fatal  *)
(* probe.                                                                  *)
(***************************************************************************)
EXTENDS RunnerProps, TLAPS

USE PlatformAssumption, OutputAssumption, ProbeAssumption, ExitAssumption

(* Func has the result of cmd.Wait.                                        *)
Past == {"cleanup", "join", "close", "returned", "done"}

ProcType ==
  /\ platform \in Platforms /\ job \in {"none", "open", "closed"}
  /\ members \subseteq Procs
  /\ alive \subseteq Procs /\ forked \in BOOLEAN
  /\ child \in {"none", "running", "zombie", "reaped"} /\ exit \in {0, 1, -1}
  /\ termed \subseteq Procs /\ holders \subseteq alive

PipeType ==
  /\ written \in Nat /\ written <= MaxOutput
  /\ copied \in Nat /\ copied <= written
  /\ pump \in {"unborn", "running", "done"}
  /\ reader \in {"unborn", "running", "done"}
  /\ controlClosed \in BOOLEAN /\ waitCh \in {"empty", "full"}

FuncType ==
  /\ func \in {"start", "attach", "select", "terminating", "await", "cleanup",
               "join", "close", "returned", "done"}
  /\ probe \in {"idle", "failing", "fatal"}
  /\ cmdErr \in {"nil", "exit", "notfound", "other"}
  /\ fnErr \in {"nil", "setup", "notfound", "other", "probe"}

FlagType ==
  /\ probeStopped \in BOOLEAN /\ timedOut \in BOOLEAN
  /\ canceled \in BOOLEAN /\ killedBySIGKILL \in BOOLEAN

TermType ==
  /\ term \in [Terminators ->
                {"idle", "begin", "poll", "job", "sleep", "done"}]
  /\ found \subseteq Terminators /\ killed \subseteq Procs

ResultType ==
  /\ status \in {"unset", "timeout", "canceled", "failed", "succeeded"}
  /\ code \in {-1, 0, 1, 125, 126, 127, 130, 137, TimeoutCode}

TypeInv ==
  ProcType /\ PipeType /\ FuncType /\ FlagType /\ TermType /\ ResultType

(* How far the child is, and what Func knows of it.                        *)
ProcInv ==
  /\ "child" \in alive <=> child = "running"
  /\ child = "none" =>
       /\ func \in {"start", "returned", "done"}
       /\ alive = {} /\ holders = {} /\ waitCh = "empty" /\ job = "none"
       /\ termed = {} /\ killed = {} /\ found = {} /\ probe = "idle"
       /\ term["func"] = "idle"
  /\ func = "start" => child = "none"
  /\ waitCh = "full" => child = "reaped"
  /\ child # "none" /\ func \in Past => child = "reaped" /\ waitCh = "empty"

(* The pumps outlive every writer.                                         *)
PipeInv ==
  /\ pump = "unborn" <=> child = "none" \/ func = "attach"
  /\ pump = "done" => holders = {} /\ copied = written
  /\ child # "none" /\ func \in {"close", "returned", "done"} =>
       pump = "done" /\ reader = "done"

(* Who may be in terminateProcessGroup, and what it has at hand there: a   *)
(* job that is closed under its feet had been all there was.               *)
TermInv ==
  /\ func \in {"start", "attach", "select"} => term["func"] = "idle"
  /\ term["func"] # "idle" => timedOut \/ canceled
  /\ probe # "fatal" => term["probe"] = "idle"
  /\ pump = "unborn" => probe = "idle"
  /\ job # "none" => func \notin {"start", "attach"}
  /\ \A t \in found :
       /\ term[t] \in {"poll", "job", "done"}
       /\ term[t] = "done" => alive = {}
       /\ term[t] = "job" => alive \subseteq members
                             /\ (job = "open" \/ alive = {})

(* The runner laid hands on the child: then Func has a reason for it that  *)
(* the Result will show.                                                   *)
Touched == termed # {} \/ "child" \in killed

TouchInv ==
  Touched => \/ timedOut \/ canceled
             \/ IF func \in {"close", "returned", "done"}
                THEN fnErr = "probe" ELSE probe = "fatal"

(* What Run is going to report, or has reported.                           *)
ErrInv ==
  /\ func \notin Past => cmdErr = "nil" /\ fnErr = "nil"
  /\ func \in {"cleanup", "join"} => fnErr = "nil"
  /\ child # "none" => /\ cmdErr \in {"nil", "exit"}
                       /\ fnErr \in {"nil", "probe"}
                       /\ func \in Past => (cmdErr = "nil" <=> exit = 0)
  /\ child = "none" /\ func # "start" =>
       /\ fnErr \in {"setup", "notfound", "other"}
       /\ cmdErr \in {"notfound", "other"} => fnErr = cmdErr
  /\ fnErr = "probe" => probe = "fatal"
  /\ func # "done" => status = "unset"

DoneInv ==
  func = "done" => status = FinalStatus /\ code = MapExitCode(FinalStatus)

IInv ==
  /\ TypeInv /\ ProcInv /\ PipeInv /\ TermInv /\ TouchInv
  /\ ErrInv /\ DoneInv
-----------------------------------------------------------------------------
(* The switches of finish and of mapExitCode.                              *)
LEMMA StatusMeaning ==
  ASSUME timedOut \in BOOLEAN, canceled \in BOOLEAN
  PROVE  /\ timedOut => FinalStatus = "timeout"
         /\ ~timedOut /\ canceled => FinalStatus = "canceled"
         /\ ~timedOut /\ ~canceled /\ fnErr # "nil" => FinalStatus = "failed"
         /\ ~timedOut /\ ~canceled /\ fnErr = "nil" =>
              FinalStatus = "succeeded"
<1>1. CASE timedOut
  BY <1>1 DEF FinalStatus
<1>2. CASE ~timedOut /\ canceled
  BY <1>2 DEF FinalStatus
<1>3. CASE ~timedOut /\ ~canceled /\ fnErr # "nil"
  BY <1>3 DEF FinalStatus
<1>4. CASE ~timedOut /\ ~canceled /\ fnErr = "nil"
  BY <1>4 DEF FinalStatus
<1> QED
  BY <1>1, <1>2, <1>3, <1>4

LEMMA ErrCodeMeaning ==
  /\ cmdErr = "nil" => ErrCode = 0
  /\ cmdErr = "exit" => ErrCode = exit
  /\ cmdErr = "notfound" => ErrCode = 127
  /\ cmdErr = "other" => ErrCode = 126
<1>1. CASE cmdErr = "nil"
  BY <1>1 DEF ErrCode
<1>2. CASE cmdErr = "exit"
  BY <1>2 DEF ErrCode
<1>3. CASE cmdErr = "notfound"
  BY <1>3 DEF ErrCode
<1>4. CASE cmdErr = "other"
  BY <1>4 DEF ErrCode
<1> QED
  BY <1>1, <1>2, <1>3, <1>4

LEMMA CodeMeaning ==
  ASSUME NEW st
  PROVE  /\ st = "timeout" => MapExitCode(st) \in {137, TimeoutCode}
         /\ st = "canceled" => MapExitCode(st) = 130
         /\ st = "failed" /\ fnErr = "probe" => MapExitCode(st) = 125
         /\ st = "failed" /\ fnErr # "probe" => MapExitCode(st) = ErrCode
         /\ st = "succeeded" => MapExitCode(st) = ErrCode
<1>1. CASE st = "timeout" /\ SignalExit /\ killedBySIGKILL
  BY <1>1 DEF MapExitCode
<1>2. CASE st = "timeout" /\ ~(SignalExit /\ killedBySIGKILL)
  BY <1>2 DEF MapExitCode
<1>3. CASE st = "canceled"
  BY <1>3 DEF MapExitCode
<1>4. CASE st = "failed" /\ fnErr = "probe"
  BY <1>4 DEF MapExitCode
<1>5. CASE st = "failed" /\ fnErr # "probe"
  BY <1>5 DEF MapExitCode
<1>6. CASE st = "succeeded"
  BY <1>6 DEF MapExitCode
<1> QED
  BY <1>1, <1>2, <1>3, <1>4, <1>5, <1>6

LEMMA CodeTyped ==
  ASSUME TypeInv
  PROVE  /\ FinalStatus \in {"timeout", "canceled", "failed", "succeeded"}
         /\ MapExitCode(FinalStatus)
              \in {-1, 0, 1, 125, 126, 127, 130, 137, TimeoutCode}
<1>1. FinalStatus \in {"timeout", "canceled", "failed", "succeeded"}
  BY StatusMeaning DEF TypeInv, FlagType
<1>2. ErrCode \in {-1, 0, 1, 126, 127}
  BY ErrCodeMeaning DEF TypeInv, FuncType, ProcType
<1> QED
  BY <1>1, <1>2, CodeMeaning
-----------------------------------------------------------------------------
LEMMA InitIInv == Init => IInv
<1> SUFFICES ASSUME Init PROVE IInv
  OBVIOUS
<1>1. TypeInv
  <2>1. ProcType
    BY DEF Init, ProcType
  <2>2. PipeType
    <3>1. /\ written \in Nat /\ written <= MaxOutput
          /\ copied \in Nat /\ copied <= written
      BY DEF Init
    <3> QED
      BY <3>1 DEF Init, PipeType
  <2>3. FuncType
    BY DEF Init, FuncType
  <2>4. FlagType /\ TermType
    BY DEF Init, FlagType, TermType
  <2>5. ResultType
    BY DEF Init, ResultType
  <2> QED
    BY <2>1, <2>2, <2>3, <2>4, <2>5 DEF TypeInv
<1>2. ProcInv /\ PipeInv
  BY DEF Init, ProcInv, PipeInv, Past, Terminators
<1>3. TermInv
  BY DEF Init, TermInv, Terminators
<1>4. TouchInv /\ ErrInv /\ DoneInv
  BY DEF Init, TouchInv, Touched, ErrInv, DoneInv, Past
<1> QED
  BY <1>1, <1>2, <1>3, <1>4 DEF IInv

LEMMA ResultFrozen ==
  ASSUME UNCHANGED <<timedOut, canceled, fnErr, cmdErr, exit,
                     killedBySIGKILL>>
  PROVE  FinalStatus' = FinalStatus
         /\ MapExitCode(FinalStatus)' = MapExitCode(FinalStatus)
  BY DEF FinalStatus, MapExitCode, ErrCode

USE DEF jobVars, procVars, pipeVars, termVars, probeVars, engineVars, runVars

(* Each conjunct of the type invariant.                                    *)
LEMMA ProcTyped == TypeInv /\ ProcInv /\ [Next]_vars => ProcType'
<1> SUFFICES ASSUME TypeInv, ProcInv, [Next]_vars
             PROVE  ProcType'
  OBVIOUS
<1> USE DEF TypeInv, ProcType, ProcInv, Procs
<1>1. CASE Fork
  BY <1>1 DEF Fork
<1>2. CASE \E p \in Procs, exitCode \in {0, 1, -1} : Exit(p, exitCode)
  BY <1>2 DEF Exit, Die
<1>3. CASE \E p \in Procs : DieOfTerm(p)
  BY <1>3 DEF DieOfTerm, Die
<1>4. CASE \E p \in Procs : Write(p)
  BY <1>4 DEF Write
<1>5. CASE \E p \in Procs : CloseOutput(p)
  BY <1>5 DEF CloseOutput
<1>6. CASE Goroutines \/ ProbeFails
  BY <1>6 DEF Goroutines, Wait, PumpCopies, PumpEnds, ReaderEnds,
      ReaderStops, ProbeRecords, ProbeFails
<1>7. CASE \E t \in Terminators : Terminate(t)
  BY <1>7 DEF Terminate, SignalGroup, NoGroup, GroupGone, GroupExists,
      KillGroup, AwaitJob, TerminateJob, Kill, KillProcess, Die
<1>8. CASE Launch
  BY <1>8 DEF Launch, SetupFails, StartFails, Start
<1>9. CASE Func
  BY <1>9 DEF Func, AttachJob, SelectDone, Terminated, ReceiveWait, Cleanup,
      Join, CloseJob, Die, RunReturns
<1>10. CASE Verdict \/ CancelParent
  BY <1>10 DEF Verdict, CancelParent
<1>11. CASE UNCHANGED vars
  BY <1>11 DEF vars
<1> QED
  BY <1>1, <1>2, <1>3, <1>4, <1>5, <1>6, <1>7, <1>8, <1>9, <1>10, <1>11
  DEF Next, Processes, Resting

LEMMA PipeTyped == TypeInv /\ [Next]_vars => PipeType'
<1> SUFFICES ASSUME TypeInv, [Next]_vars
             PROVE  PipeType'
  OBVIOUS
<1> USE DEF TypeInv, PipeType
<1>1. CASE Processes
  BY <1>1 DEF Processes, Fork, Exit, DieOfTerm, Write, CloseOutput, Die
<1>2. CASE Goroutines \/ ProbeFails
  BY <1>2 DEF Goroutines, Wait, PumpCopies, PumpEnds, ReaderEnds,
      ReaderStops, ProbeRecords, ProbeFails
<1>3. CASE \E t \in Terminators : Terminate(t)
  BY <1>3 DEF Terminate, SignalGroup, NoGroup, GroupGone, GroupExists,
      KillGroup, AwaitJob, TerminateJob, Kill, KillProcess, Die
<1>4. CASE Launch
  BY <1>4 DEF Launch, SetupFails, StartFails, Start
<1>5. CASE Func
  BY <1>5 DEF Func, AttachJob, SelectDone, Terminated, ReceiveWait, Cleanup,
      Join, CloseJob, Die, RunReturns
<1>6. CASE Verdict \/ CancelParent
  BY <1>6 DEF Verdict, CancelParent
<1>7. CASE UNCHANGED vars
  BY <1>7 DEF vars
<1> QED
  BY <1>1, <1>2, <1>3, <1>4, <1>5, <1>6, <1>7
  DEF Next, Resting

LEMMA FuncTyped == TypeInv /\ [Next]_vars => FuncType'
<1> SUFFICES ASSUME TypeInv, [Next]_vars
             PROVE  FuncType'
  OBVIOUS
<1> USE DEF TypeInv, FuncType
<1>1. CASE Processes
  BY <1>1 DEF Processes, Fork, Exit, DieOfTerm, Write, CloseOutput, Die
<1>2. CASE Goroutines \/ ProbeFails
  BY <1>2 DEF Goroutines, Wait, PumpCopies, PumpEnds, ReaderEnds,
      ReaderStops, ProbeRecords, ProbeFails
<1>3. CASE \E t \in Terminators : Terminate(t)
  BY <1>3 DEF Terminate, SignalGroup, NoGroup, GroupGone, GroupExists,
      KillGroup, AwaitJob, TerminateJob, Kill, KillProcess, Die
<1>4. CASE Launch
  BY <1>4 DEF Launch, SetupFails, StartFails, Start
<1>5. CASE Func
  BY <1>5 DEF Func, AttachJob, SelectDone, Terminated, ReceiveWait, Cleanup,
      Join, CloseJob, Die, RunReturns
<1>6. CASE Verdict \/ CancelParent
  BY <1>6 DEF Verdict, CancelParent
<1>7. CASE UNCHANGED vars
  BY <1>7 DEF vars
<1> QED
  BY <1>1, <1>2, <1>3, <1>4, <1>5, <1>6, <1>7
  DEF Next, Resting

LEMMA FlagsTyped == TypeInv /\ [Next]_vars => FlagType'
<1> SUFFICES ASSUME TypeInv, [Next]_vars
             PROVE  FlagType'
  OBVIOUS
<1> USE DEF TypeInv, FlagType
<1>1. CASE Processes
  BY <1>1 DEF Processes, Fork, Exit, DieOfTerm, Write, CloseOutput, Die
<1>2. CASE Goroutines \/ ProbeFails
  BY <1>2 DEF Goroutines, Wait, PumpCopies, PumpEnds, ReaderEnds,
      ReaderStops, ProbeRecords, ProbeFails
<1>3. CASE \E t \in Terminators : Terminate(t)
  BY <1>3 DEF Terminate, SignalGroup, NoGroup, GroupGone, GroupExists,
      KillGroup, AwaitJob, TerminateJob, Kill, KillProcess, Die
<1>4. CASE Launch
  BY <1>4 DEF Launch, SetupFails, StartFails, Start
<1>5. CASE Func
  BY <1>5 DEF Func, AttachJob, SelectDone, Terminated, ReceiveWait, Cleanup,
      Join, CloseJob, Die, RunReturns
<1>6. CASE Verdict \/ CancelParent
  BY <1>6 DEF Verdict, CancelParent
<1>7. CASE UNCHANGED vars
  BY <1>7 DEF vars
<1> QED
  BY <1>1, <1>2, <1>3, <1>4, <1>5, <1>6, <1>7
  DEF Next, Resting

LEMMA TermTyped == TypeInv /\ [Next]_vars => TermType'
<1> SUFFICES ASSUME TypeInv, [Next]_vars
             PROVE  TermType'
  OBVIOUS
<1> USE DEF TypeInv, TermType, ProcType, Terminators, Procs
<1>1. CASE Processes
  BY <1>1 DEF Processes, Fork, Exit, DieOfTerm, Write, CloseOutput, Die
<1>2. CASE Goroutines \/ ProbeFails
  BY <1>2 DEF Goroutines, Wait, PumpCopies, PumpEnds, ReaderEnds,
      ReaderStops, ProbeRecords, ProbeFails
<1>3. CASE \E t \in Terminators : SignalGroup(t)
  BY <1>3 DEF SignalGroup
<1>4. CASE \E t \in Terminators : NoGroup(t)
  BY <1>4 DEF NoGroup
<1>5. CASE \E t \in Terminators : GroupGone(t)
  BY <1>5 DEF GroupGone, GroupExists
<1>6. CASE \E t \in Terminators : KillGroup(t)
  BY <1>6 DEF KillGroup, Die
<1>7. CASE \E t \in Terminators : AwaitJob(t)
  BY <1>7 DEF AwaitJob
<1>8. CASE \E t \in Terminators : TerminateJob(t)
  BY <1>8 DEF TerminateJob, Die
<1>9. CASE \E t \in Terminators : job # "open" /\ KillProcess(t, "begin",
            "sleep")
  BY <1>9 DEF KillProcess, Die
<1>10. CASE \E t \in Terminators : KillProcess(t, "sleep", "done")
  BY <1>10 DEF KillProcess, Die
<1>11. CASE Launch
  BY <1>11 DEF Launch, SetupFails, StartFails, Start
<1>12. CASE Func
  BY <1>12 DEF Func, AttachJob, SelectDone, Terminated, ReceiveWait, Cleanup,
      Join, CloseJob, Die, RunReturns
<1>13. CASE Verdict \/ CancelParent
  BY <1>13 DEF Verdict, CancelParent
<1>14. CASE UNCHANGED vars
  BY <1>14 DEF vars
<1> QED
  BY <1>1, <1>2, <1>3, <1>4, <1>5, <1>6, <1>7, <1>8, <1>9, <1>10, <1>11,
     <1>12, <1>13, <1>14
  DEF Kill, Next, Resting, Terminate

LEMMA ResultTyped == TypeInv /\ [Next]_vars => ResultType'
<1> SUFFICES ASSUME TypeInv, [Next]_vars
             PROVE  ResultType'
  OBVIOUS
<1> USE DEF TypeInv, ResultType
<1>1. CASE Processes
  BY <1>1 DEF Processes, Fork, Exit, DieOfTerm, Write, CloseOutput, Die
<1>2. CASE Goroutines \/ ProbeFails
  BY <1>2 DEF Goroutines, Wait, PumpCopies, PumpEnds, ReaderEnds,
      ReaderStops, ProbeRecords, ProbeFails
<1>3. CASE \E t \in Terminators : Terminate(t)
  BY <1>3 DEF Terminate, SignalGroup, NoGroup, GroupGone, GroupExists,
      KillGroup, AwaitJob, TerminateJob, Kill, KillProcess, Die
<1>4. CASE Launch
  BY <1>4 DEF Launch, SetupFails, StartFails, Start
<1>5. CASE AttachJob
  BY <1>5 DEF AttachJob
<1>6. CASE SelectDone
  BY <1>6 DEF SelectDone
<1>7. CASE Terminated
  BY <1>7 DEF Terminated
<1>8. CASE ReceiveWait
  BY <1>8 DEF ReceiveWait
<1>9. CASE Cleanup
  BY <1>9 DEF Cleanup
<1>10. CASE Join
  BY <1>10 DEF Join
<1>11. CASE CloseJob
  BY <1>11 DEF CloseJob, Die
<1>12. CASE RunReturns
  BY <1>12, CodeTyped DEF RunReturns
<1>13. CASE Verdict \/ CancelParent
  BY <1>13 DEF Verdict, CancelParent
<1>14. CASE UNCHANGED vars
  BY <1>14 DEF vars
<1> QED
  BY <1>1, <1>2, <1>3, <1>4, <1>5, <1>6, <1>7, <1>8, <1>9, <1>10, <1>11,
     <1>12, <1>13, <1>14
  DEF Func, Next, Resting

(* Only the receiver of the channel gets past the select, and the channel  *)
(* is filled once, when the child is reaped.                               *)
LEMMA ProcStep ==
  TypeInv /\ ProcInv /\ PipeInv /\ TermInv /\ [Next]_vars => ProcInv'
<1> SUFFICES ASSUME TypeInv, ProcInv, PipeInv, TermInv, [Next]_vars
             PROVE  ProcInv'
  OBVIOUS
<1> USE DEF TypeInv, ProcType, FuncType, PipeType, TermType, ProcInv,
            PipeInv, TermInv, Past, Procs, Terminators
<1>1. CASE Processes
  BY <1>1 DEF Processes, Fork, Exit, DieOfTerm, Write, CloseOutput, Die
<1>2. CASE Goroutines \/ ProbeFails
  BY <1>2 DEF Goroutines, Wait, PumpCopies, PumpEnds, ReaderEnds,
      ReaderStops, ProbeRecords, ProbeFails
<1>3. CASE \E t \in Terminators : Terminate(t)
  BY <1>3 DEF Terminate, SignalGroup, NoGroup, GroupGone, GroupExists,
      KillGroup, AwaitJob, TerminateJob, Kill, KillProcess, Die
<1>4. CASE Launch
  BY <1>4 DEF Launch, SetupFails, StartFails, Start
<1>5. CASE Func
  BY <1>5 DEF Func, AttachJob, SelectDone, Terminated, ReceiveWait, Cleanup,
      Join, CloseJob, Die, RunReturns
<1>6. CASE Verdict \/ CancelParent
  BY <1>6 DEF Verdict, CancelParent
<1>7. CASE UNCHANGED vars
  BY <1>7 DEF vars
<1> QED
  BY <1>1, <1>2, <1>3, <1>4, <1>5, <1>6, <1>7
  DEF Next, Resting

(* Nothing is written once nobody holds the pipe.                          *)
LEMMA PipeStep == TypeInv /\ ProcInv /\ PipeInv /\ [Next]_vars => PipeInv'
<1> SUFFICES ASSUME TypeInv, ProcInv, PipeInv, [Next]_vars
             PROVE  PipeInv'
  OBVIOUS
<1> USE DEF TypeInv, ProcType, PipeType, FuncType, ProcInv, PipeInv, Past,
            Procs
<1>1. CASE Fork
  BY <1>1 DEF Fork
<1>2. CASE \E p \in Procs, exitCode \in {0, 1, -1} : Exit(p, exitCode)
  BY <1>2 DEF Exit, Die
<1>3. CASE \E p \in Procs : DieOfTerm(p)
  BY <1>3 DEF DieOfTerm, Die
<1>4. CASE \E p \in Procs : Write(p)
  BY <1>4 DEF Write
<1>5. CASE \E p \in Procs : CloseOutput(p)
  BY <1>5 DEF CloseOutput
<1>6. CASE Goroutines \/ ProbeFails
  BY <1>6 DEF Goroutines, Wait, PumpCopies, PumpEnds, ReaderEnds,
      ReaderStops, ProbeRecords, ProbeFails
<1>7. CASE \E t \in Terminators : Terminate(t)
  BY <1>7 DEF Terminate, SignalGroup, NoGroup, GroupGone, GroupExists,
      KillGroup, AwaitJob, TerminateJob, Kill, KillProcess, Die
<1>8. CASE Launch
  BY <1>8 DEF Launch, SetupFails, StartFails, Start
<1>9. CASE Func
  BY <1>9 DEF Func, AttachJob, SelectDone, Terminated, ReceiveWait, Cleanup,
      Join, CloseJob, Die, RunReturns
<1>10. CASE Verdict \/ CancelParent
  BY <1>10 DEF Verdict, CancelParent
<1>11. CASE UNCHANGED vars
  BY <1>11 DEF vars
<1> QED
  BY <1>1, <1>2, <1>3, <1>4, <1>5, <1>6, <1>7, <1>8, <1>9, <1>10, <1>11
  DEF Next, Processes, Resting

(* A descendant is born only of a living child, so nobody is born after a  *)
(* termination; and one that is born in the job stays in it.               *)
LEMMA TermStep ==
  TypeInv /\ ProcInv /\ PipeInv /\ TermInv /\ [Next]_vars => TermInv'
<1> SUFFICES ASSUME TypeInv, ProcInv, PipeInv, TermInv, [Next]_vars
             PROVE  TermInv'
  OBVIOUS
<1> USE DEF TypeInv, ProcType, FuncType, PipeType, TermType, ProcInv,
            PipeInv, TermInv, Past, Procs, Terminators
<1>1. CASE Fork
  BY <1>1 DEF Fork
<1>2. CASE \E p \in Procs, exitCode \in {0, 1, -1} : Exit(p, exitCode)
  BY <1>2 DEF Exit, Die
<1>3. CASE \E p \in Procs : DieOfTerm(p)
  BY <1>3 DEF DieOfTerm, Die
<1>4. CASE \E p \in Procs : Write(p)
  BY <1>4 DEF Write
<1>5. CASE \E p \in Procs : CloseOutput(p)
  BY <1>5 DEF CloseOutput
<1>6. CASE Wait
  BY <1>6 DEF Wait
<1>7. CASE PumpCopies \/ PumpEnds
  BY <1>7 DEF PumpCopies, PumpEnds
<1>8. CASE ReaderEnds \/ ReaderStops
  BY <1>8 DEF ReaderEnds, ReaderStops
<1>9. CASE ProbeFails
  BY <1>9 DEF ProbeFails
<1>10. CASE ProbeRecords
  BY <1>10 DEF ProbeRecords
<1>11. CASE \E t \in Terminators : SignalGroup(t)
  BY <1>11 DEF SignalGroup
<1>12. CASE \E t \in Terminators : NoGroup(t)
  BY <1>12 DEF NoGroup
<1>13. CASE \E t \in Terminators : GroupGone(t)
  BY <1>13 DEF GroupGone, GroupExists
<1>14. CASE \E t \in Terminators : KillGroup(t)
  BY <1>14 DEF KillGroup, Die
<1>15. CASE \E t \in Terminators : AwaitJob(t)
  BY <1>15 DEF AwaitJob
<1>16. CASE \E t \in Terminators : TerminateJob(t)
  BY <1>16 DEF TerminateJob, Die
<1>17. CASE \E t \in Terminators : job # "open" /\ KillProcess(t, "begin",
            "sleep")
  BY <1>17 DEF KillProcess, Die
<1>18. CASE \E t \in Terminators : KillProcess(t, "sleep", "done")
  BY <1>18 DEF KillProcess, Die
<1>19. CASE Launch
  BY <1>19 DEF Launch, SetupFails, StartFails, Start
<1>20. CASE AttachJob
  BY <1>20 DEF AttachJob
<1>21. CASE SelectDone
  BY <1>21 DEF SelectDone
<1>22. CASE Terminated
  BY <1>22 DEF Terminated
<1>23. CASE ReceiveWait
  BY <1>23 DEF ReceiveWait
<1>24. CASE Cleanup
  BY <1>24 DEF Cleanup
<1>25. CASE Join
  BY <1>25 DEF Join
<1>26. CASE CloseJob
  BY <1>26 DEF CloseJob, Die
<1>27. CASE RunReturns
  BY <1>27 DEF RunReturns
<1>28. CASE Verdict \/ CancelParent
  BY <1>28 DEF Verdict, CancelParent
<1>29. CASE UNCHANGED vars
  BY <1>29 DEF vars
<1> QED
  BY <1>1, <1>2, <1>3, <1>4, <1>5, <1>6, <1>7, <1>8, <1>9, <1>10, <1>11,
     <1>12, <1>13, <1>14, <1>15, <1>16, <1>17, <1>18, <1>19, <1>20, <1>21,
     <1>22, <1>23, <1>24, <1>25, <1>26, <1>27, <1>28, <1>29
  DEF Func, Goroutines, Kill, Next, Processes, Resting, Terminate

(* A probe that fails after Func has looked for its error finds the child  *)
(* reaped already, and has no hold on it.                                  *)
LEMMA TouchStep == IInv /\ [Next]_vars => TouchInv'
<1> SUFFICES ASSUME IInv, [Next]_vars
             PROVE  TouchInv'
  OBVIOUS
<1> USE DEF IInv, TypeInv, ProcType, FuncType, TermType, ProcInv, TermInv,
            TouchInv, Touched, Past, Procs, Terminators
<1>1. CASE Processes
  BY <1>1 DEF Processes, Fork, Exit, DieOfTerm, Write, CloseOutput, Die
<1>2. CASE Goroutines \/ ProbeFails
  BY <1>2 DEF Goroutines, Wait, PumpCopies, PumpEnds, ReaderEnds,
      ReaderStops, ProbeRecords, ProbeFails
<1>3. CASE \E t \in Terminators : Terminate(t)
  BY <1>3 DEF Terminate, SignalGroup, NoGroup, GroupGone, GroupExists,
      KillGroup, AwaitJob, TerminateJob, Kill, KillProcess, Die
<1>4. CASE Launch
  BY <1>4 DEF Launch, SetupFails, StartFails, Start
<1>5. CASE Func
  BY <1>5 DEF Func, AttachJob, SelectDone, Terminated, ReceiveWait, Cleanup,
      Join, CloseJob, Die, RunReturns
<1>6. CASE Verdict \/ CancelParent
  BY <1>6 DEF Verdict, CancelParent
<1>7. CASE UNCHANGED vars
  BY <1>7 DEF vars
<1> QED
  BY <1>1, <1>2, <1>3, <1>4, <1>5, <1>6, <1>7
  DEF Next, Resting

(* Func's two errors: the child's exit code is fixed when it is reaped.    *)
LEMMA ErrStep == IInv /\ [Next]_vars => ErrInv'
<1> SUFFICES ASSUME IInv, [Next]_vars
             PROVE  ErrInv'
  OBVIOUS
<1> USE DEF IInv, TypeInv, ProcType, FuncType, PipeType, ProcInv, PipeInv,
            ErrInv, Past, Procs
<1>1. CASE Processes
  BY <1>1 DEF Processes, Fork, Exit, DieOfTerm, Write, CloseOutput, Die
<1>2. CASE Goroutines \/ ProbeFails
  BY <1>2 DEF Goroutines, Wait, PumpCopies, PumpEnds, ReaderEnds,
      ReaderStops, ProbeRecords, ProbeFails
<1>3. CASE \E t \in Terminators : Terminate(t)
  BY <1>3 DEF Terminate, SignalGroup, NoGroup, GroupGone, GroupExists,
      KillGroup, AwaitJob, TerminateJob, Kill, KillProcess, Die
<1>4. CASE Launch
  BY <1>4 DEF Launch, SetupFails, StartFails, Start
<1>5. CASE Func
  BY <1>5 DEF Func, AttachJob, SelectDone, Terminated, ReceiveWait, Cleanup,
      Join, CloseJob, Die, RunReturns
<1>6. CASE Verdict \/ CancelParent
  BY <1>6 DEF Verdict, CancelParent
<1>7. CASE UNCHANGED vars
  BY <1>7 DEF vars
<1> QED
  BY <1>1, <1>2, <1>3, <1>4, <1>5, <1>6, <1>7
  DEF Next, Resting

LEMMA DoneFirst ==
  [Next]_vars => (func' = "done" => func = "done" \/ RunReturns)
<1> SUFFICES ASSUME [Next]_vars
             PROVE  (func' = "done" => func = "done" \/ RunReturns)
  OBVIOUS
<1> USE DEF Procs
<1>1. CASE Processes
  BY <1>1 DEF Processes, Fork, Exit, DieOfTerm, Write, CloseOutput, Die
<1>2. CASE Goroutines \/ ProbeFails
  BY <1>2 DEF Goroutines, Wait, PumpCopies, PumpEnds, ReaderEnds,
      ReaderStops, ProbeRecords, ProbeFails
<1>3. CASE \E t \in Terminators : Terminate(t)
  BY <1>3 DEF Terminate, SignalGroup, NoGroup, GroupGone, GroupExists,
      KillGroup, AwaitJob, TerminateJob, Kill, KillProcess, Die
<1>4. CASE Launch
  BY <1>4 DEF Launch, SetupFails, StartFails, Start
<1>5. CASE Func
  BY <1>5 DEF Func, AttachJob, SelectDone, Terminated, ReceiveWait, Cleanup,
      Join, CloseJob, Die, RunReturns
<1>6. CASE Verdict \/ CancelParent
  BY <1>6 DEF Verdict, CancelParent
<1>7. CASE UNCHANGED vars
  BY <1>7 DEF vars
<1> QED
  BY <1>1, <1>2, <1>3, <1>4, <1>5, <1>6, <1>7
  DEF Next, Resting

LEMMA DoneFrozen ==
  IInv /\ [Next]_vars =>
    (func = "done" => UNCHANGED <<timedOut, canceled, fnErr, cmdErr, exit,
                                  killedBySIGKILL, status, code>>)
<1> SUFFICES ASSUME IInv, [Next]_vars, func = "done"
             PROVE  UNCHANGED <<timedOut, canceled, fnErr, cmdErr, exit,
                                killedBySIGKILL, status, code>>
  OBVIOUS
<1> USE DEF IInv, TypeInv, ProcInv, TermInv, Past, Procs
<1>1. CASE Processes
  BY <1>1 DEF Processes, Fork, Exit, DieOfTerm, Write, CloseOutput, Die
<1>2. CASE Goroutines \/ ProbeFails
  BY <1>2 DEF Goroutines, Wait, PumpCopies, PumpEnds, ReaderEnds,
      ReaderStops, ProbeRecords, ProbeFails
<1>3. CASE \E t \in Terminators : Terminate(t)
  BY <1>3 DEF Terminate, SignalGroup, NoGroup, GroupGone, GroupExists,
      KillGroup, AwaitJob, TerminateJob, Kill, KillProcess, Die
<1>4. CASE Launch
  BY <1>4 DEF Launch, SetupFails, StartFails, Start
<1>5. CASE Func
  BY <1>5 DEF Func, AttachJob, SelectDone, Terminated, ReceiveWait, Cleanup,
      Join, CloseJob, Die, RunReturns
<1>6. CASE Verdict \/ CancelParent
  BY <1>6 DEF Verdict, CancelParent
<1>7. CASE UNCHANGED vars
  BY <1>7 DEF vars
<1> QED
  BY <1>1, <1>2, <1>3, <1>4, <1>5, <1>6, <1>7
  DEF Next, Resting

(* The Result is what finish and mapExitCode made of the state in which    *)
(* Func returned: nothing they looked at changes any more.                 *)
LEMMA DoneStep == IInv /\ [Next]_vars => DoneInv'
<1> SUFFICES ASSUME IInv, [Next]_vars, func' = "done"
             PROVE  status' = FinalStatus'
                    /\ code' = MapExitCode(FinalStatus)'
  BY DEF DoneInv
<1>1. CASE RunReturns
  BY <1>1, ResultFrozen DEF RunReturns
<1>2. CASE func = "done"
  BY <1>2, DoneFrozen, ResultFrozen DEF IInv, DoneInv
<1> QED
  BY <1>1, <1>2, DoneFirst

LEMMA StepIInv == IInv /\ [Next]_vars => IInv'
<1> SUFFICES ASSUME IInv, [Next]_vars PROVE IInv'
  OBVIOUS
<1>1. TypeInv /\ ProcInv /\ PipeInv /\ TermInv
  BY DEF IInv
<1>2. TypeInv'
  BY <1>1, ProcTyped, PipeTyped, FuncTyped, FlagsTyped, TermTyped,
     ResultTyped
  DEF TypeInv
<1>3. ProcInv' /\ PipeInv' /\ TermInv'
  BY <1>1, ProcStep, PipeStep, TermStep
<1>4. TouchInv' /\ ErrInv' /\ DoneInv'
  BY TouchStep, ErrStep, DoneStep
<1> QED
  BY <1>2, <1>3, <1>4 DEF IInv

(* The invariant holds in every state of the runner, on both platforms.   *)
THEOREM Invariance == Spec => []IInv
<1>1. Init => IInv
  BY InitIInv
<1>2. IInv /\ [Next]_vars => IInv'
  BY StepIInv
<1> QED
  BY <1>1, <1>2, PTL DEF Spec
-----------------------------------------------------------------------------
(* Every variable always has the type of what it stands for.               *)
THEOREM TypeCorrect == Spec => []TypeOK
<1>1. IInv => TypeOK
  <2> SUFFICES ASSUME IInv PROVE TypeOK
    OBVIOUS
  <2>1. written \in 0 .. MaxOutput /\ copied \in 0 .. written
    BY DEF IInv, TypeInv, PipeType
  <2> QED
    BY <2>1 DEF IInv, TypeInv, ProcType, PipeType, FuncType, FlagType,
                TermType, ResultType, TypeOK
<1> QED
  BY <1>1, Invariance, PTL

(* Func never gets past its select without the result of cmd.Wait: Run     *)
(* leaves no zombie and no goroutine behind that waits for the child.      *)
THEOREM NoZombie == Spec => []ChildReaped
<1>1. IInv => ChildReaped
  BY DEF IInv, ProcInv, Past, ChildReaped, Launched
<1> QED
  BY <1>1, Invariance, PTL

(* However much the processes write and whoever holds the pipe, all of it  *)
(* was copied, and no unit call is under way, when wg.Wait returns.        *)
THEOREM AllOutputCopied == Spec => []OutputComplete
<1>1. IInv => OutputComplete
  BY DEF IInv, PipeInv, OutputComplete, Launched
<1> QED
  BY <1>1, Invariance, PTL

(* Neither the other caller of terminateProcessGroup nor the deferred      *)
(* closeJob can make a termination that found the group, or a job with all *)
(* of the processes, leave one of them behind.                             *)
THEOREM NobodySurvives == Spec => []TerminationComplete
<1>1. IInv => TerminationComplete
  BY DEF IInv, TermInv, TerminationComplete
<1> QED
  BY <1>1, Invariance, PTL

(* A run is reported as succeeded only if the runner kept its hands off    *)
(* the child, and then with the child's own exit code (onFatal, Func).     *)
THEOREM SuccessIsTheChilds == Spec => []SuccessUntouched
<1>1. IInv => SuccessUntouched
  <2> SUFFICES ASSUME IInv, status = "succeeded"
               PROVE  termed = {} /\ "child" \notin killed /\ code = exit
    BY DEF SuccessUntouched
  <2>1. func = "done" /\ FinalStatus = "succeeded"
        /\ code = MapExitCode("succeeded")
    BY DEF IInv, ErrInv, DoneInv
  <2>2. ~timedOut /\ ~canceled /\ fnErr = "nil"
    BY <2>1, StatusMeaning DEF IInv, TypeInv, FlagType
  <2>3. ~Touched
    BY <2>1, <2>2 DEF IInv, TouchInv
  <2>4. child # "none" /\ cmdErr \in {"nil", "exit"}
        /\ (cmdErr = "nil" <=> exit = 0)
    BY <2>1, <2>2 DEF IInv, ErrInv, Past
  <2>5. code = exit
    BY <2>1, <2>4, CodeMeaning, ErrCodeMeaning
  <2> QED
    BY <2>3, <2>5 DEF Touched
<1> QED
  BY <1>1, Invariance, PTL

(* What mapExitCode returns tells a timeout, a cancellation, a failed      *)
(* probe and a program that did not start apart, whatever the child        *)
(* returned.                                                               *)
THEOREM CodesTell == Spec => []ExitCodes
<1>1. IInv => ExitCodes
  <2> SUFFICES ASSUME IInv, func = "done"
               PROVE  /\ timedOut => code \in {TimeoutCode, 137}
                      /\ ~timedOut /\ canceled => code = 130
                      /\ status = "failed" /\ probe = "fatal" => code = 125
                      /\ cmdErr = "notfound" /\ status = "failed" =>
                           code = 127
                      /\ cmdErr = "other" /\ status = "failed" => code = 126
    BY DEF ExitCodes
  <2>1. status = FinalStatus /\ code = MapExitCode(status)
    BY DEF IInv, DoneInv
  <2>2. timedOut \in BOOLEAN /\ canceled \in BOOLEAN
    BY DEF IInv, TypeInv, FlagType
  <2>3. timedOut => code \in {TimeoutCode, 137}
    BY <2>1, <2>2, StatusMeaning, CodeMeaning
  <2>4. ~timedOut /\ canceled => code = 130
    BY <2>1, <2>2, StatusMeaning, CodeMeaning
  <2>5. ASSUME status = "failed", probe = "fatal" PROVE code = 125
    <3>1. fnErr # "nil"
      BY <2>1, <2>2, <2>5, StatusMeaning
    <3>2. child # "none"
      BY <2>5 DEF IInv, ProcInv
    <3> QED
      BY <2>1, <2>5, <3>1, <3>2, CodeMeaning DEF IInv, ErrInv
  <2>6. ASSUME cmdErr \in {"notfound", "other"}, status = "failed"
        PROVE  code = IF cmdErr = "notfound" THEN 127 ELSE 126
    <3>1. child = "none"
      BY <2>6 DEF IInv, ErrInv
    <3>2. fnErr # "probe"
      BY <3>1 DEF IInv, ErrInv
    <3> QED
      BY <2>1, <2>6, <3>2, CodeMeaning, ErrCodeMeaning
  <2> QED
    BY <2>3, <2>4, <2>5, <2>6
<1> QED
  BY <1>1, Invariance, PTL
-----------------------------------------------------------------------------
(* The runner keeps the promise of module Outcome.                         *)

LEMMA InitOpens == Init => Promise!Init
  BY DEF Init, Promise!Init

(* Only the end of Run and a verdict concern the caller of Run.            *)
LEMMA QuietSteps ==
  [Next]_vars => RunReturns \/ Verdict \/ UNCHANGED <<timedOut, status>>
<1> SUFFICES ASSUME [Next]_vars
             PROVE  RunReturns \/ Verdict \/ UNCHANGED <<timedOut, status>>
  OBVIOUS
<1>1. CASE Processes
  BY <1>1 DEF Processes, Fork, Exit, DieOfTerm, Write, CloseOutput
<1>2. CASE Goroutines \/ ProbeFails
  BY <1>2 DEF Goroutines, Wait, PumpCopies, PumpEnds, ReaderEnds,
      ReaderStops, ProbeRecords, ProbeFails
<1>3. CASE \E t \in Terminators : Terminate(t)
  BY <1>3 DEF Terminate, SignalGroup, NoGroup, GroupGone,
      KillGroup, AwaitJob, TerminateJob, Kill, KillProcess
<1>4. CASE Launch
  BY <1>4 DEF Launch, SetupFails, StartFails, Start
<1>5. CASE Func
  BY <1>5 DEF Func, AttachJob, SelectDone, Terminated, ReceiveWait, Cleanup,
      Join, CloseJob
<1>6. CASE Verdict \/ CancelParent
  BY <1>6 DEF CancelParent
<1>7. CASE UNCHANGED vars
  BY <1>7 DEF vars
<1> QED
  BY <1>1, <1>2, <1>3, <1>4, <1>5, <1>6, <1>7
  DEF Next, Resting

LEMMA DoneLast == [Next]_vars /\ func = "done" => func' = "done"
<1> SUFFICES ASSUME [Next]_vars, func = "done"
             PROVE  func' = "done"
  OBVIOUS
<1>1. CASE Processes
  BY <1>1 DEF Processes, Fork, Exit, DieOfTerm, Write, CloseOutput
<1>2. CASE Goroutines \/ ProbeFails
  BY <1>2 DEF Goroutines, Wait, PumpCopies, PumpEnds, ReaderEnds,
      ReaderStops, ProbeRecords, ProbeFails
<1>3. CASE \E t \in Terminators : Terminate(t)
  BY <1>3 DEF Terminate, SignalGroup, NoGroup, GroupGone,
      KillGroup, AwaitJob, TerminateJob, Kill, KillProcess
<1>4. CASE Launch
  BY <1>4 DEF Launch, SetupFails, StartFails, Start
<1>5. CASE Func
  BY <1>5 DEF Func, AttachJob, SelectDone, Terminated, ReceiveWait, Cleanup,
      Join, CloseJob, RunReturns
<1>6. CASE Verdict \/ CancelParent
  BY <1>6 DEF Verdict, CancelParent
<1>7. CASE UNCHANGED vars
  BY <1>7 DEF vars
<1> QED
  BY <1>1, <1>2, <1>3, <1>4, <1>5, <1>6, <1>7
  DEF Next, Resting

LEMMA StepKeepsPromise ==
  ASSUME IInv, [Next]_vars
  PROVE  [Promise!Next]_(Promise!vars)
<1> USE DEF Promise!vars
<1>1. CASE RunReturns
  <2>1. /\ func # "done" /\ func' = "done" /\ UNCHANGED <<timedOut, fnErr>>
        /\ status = "unset" /\ status' = FinalStatus
    BY <1>1 DEF RunReturns, IInv, ErrInv
  <2>2. CASE timedOut
    <3>1. status' = "timeout"
      BY <2>1, <2>2, StatusMeaning DEF IInv, TypeInv, FlagType
    <3>2. Promise!CloseExpired
      BY <2>1, <2>2, <3>1 DEF Promise!CloseExpired
    <3> QED
      BY <3>2 DEF Promise!Next
  <2>3. CASE ~timedOut
    <3>1. status' \in {"canceled", "failed", "succeeded"}
      BY <2>1, <2>3, StatusMeaning DEF IInv, TypeInv, FlagType
    <3>2. Promise!CloseOpen
      BY <2>1, <2>3, <3>1 DEF Promise!CloseOpen
    <3> QED
      BY <3>2 DEF Promise!Next
  <2> QED
    BY <2>2, <2>3
<1>2. CASE Verdict
  <2>1. /\ func # "done" /\ func' = func /\ ~timedOut /\ timedOut'
        /\ status = "unset" /\ status' = status
    BY <1>2 DEF Verdict, IInv, ErrInv
  <2>2. Promise!Expire
    BY <2>1 DEF Promise!Expire, Promise!TimeKinds
  <2> QED
    BY <2>2 DEF Promise!Next
<1>3. CASE UNCHANGED <<timedOut, status>> /\ ~RunReturns
  <2>1. func' = "done" <=> func = "done"
    BY <1>3, DoneFirst, DoneLast
  <2>2. status = "failed" => UNCHANGED fnErr
    BY DoneFrozen DEF IInv, ErrInv
  <2> QED
    BY <1>3, <2>1, <2>2
<1> QED
  BY <1>1, <1>2, <1>3, QuietSteps

(* Around a real child, too, an execution gives at most one verdict, and   *)
(* its result reports it, or no timeout when there was none.               *)
THEOREM RunnerKeepsPromise == Spec => KeepsPromise
<1>1. IInv /\ [Next]_vars => [Promise!Next]_(Promise!vars)
  BY StepKeepsPromise
<1> QED
  BY <1>1, InitOpens, Invariance, PTL DEF Spec, KeepsPromise, Promise!Spec
-----------------------------------------------------------------------------
(* Liveness, from the fairness of the scheduler and the hypothesis that a  *)
(* goroutine whose guard holds can take its step.  The prover does not     *)
(* look into ENABLED; the hypothesis holds by the definitions of the steps.*)

TerminatorCanStep(t) ==
  term[t] \notin {"idle", "done"} => ENABLED <<Terminate(t)>>_vars

RunnerCanStep ==
  /\ child = "zombie" /\ func # "attach" => ENABLED <<Wait>>_vars
  /\ pump = "running" /\ copied < written => ENABLED <<PumpCopies>>_vars
  /\ pump = "running" /\ copied = written /\ holders = {} =>
       ENABLED <<PumpEnds>>_vars
  /\ reader = "running" /\ alive = {} => ENABLED <<ReaderEnds>>_vars
  /\ \A t \in Terminators : TerminatorCanStep(t)
  /\ \/ func \in {"attach", "cleanup", "close", "returned"}
     \/ func \in {"select", "await"} /\ waitCh = "full"
     \/ func = "terminating" /\ term["func"] = "done"
     \/ func = "join" /\ pump = "done" /\ reader = "done"
     => ENABLED <<Func>>_vars

(* Func waits for what is there or will be: the result of cmd.Wait, its    *)
(* own call of terminateProcessGroup, and two goroutines started together. *)
AwaitInv ==
  /\ child = "reaped" /\ func \notin Past => waitCh = "full"
  /\ func = "terminating" => term["func"] # "idle"
  /\ reader = "unborn" <=> pump = "unborn"

LEMMA AwaitStep == IInv /\ AwaitInv /\ [Next]_vars => AwaitInv'
<1> SUFFICES ASSUME IInv, AwaitInv, [Next]_vars
             PROVE  AwaitInv'
  OBVIOUS
<1> USE DEF IInv, TypeInv, ProcType, FuncType, PipeType, TermType, ProcInv,
            PipeInv, TermInv, AwaitInv, Past, Procs, Terminators
<1>1. CASE Processes
  BY <1>1 DEF Processes, Fork, Exit, DieOfTerm, Write, CloseOutput, Die
<1>2. CASE Goroutines \/ ProbeFails
  BY <1>2 DEF Goroutines, Wait, PumpCopies, PumpEnds, ReaderEnds,
      ReaderStops, ProbeRecords, ProbeFails
<1>3. CASE \E t \in Terminators : Terminate(t)
  BY <1>3 DEF Terminate, SignalGroup, NoGroup, GroupGone, GroupExists,
      KillGroup, AwaitJob, TerminateJob, Kill, KillProcess, Die
<1>4. CASE Launch
  BY <1>4 DEF Launch, SetupFails, StartFails, Start
<1>5. CASE Func
  BY <1>5 DEF Func, AttachJob, SelectDone, Terminated, ReceiveWait, Cleanup,
      Join, CloseJob, Die, RunReturns
<1>6. CASE Verdict \/ CancelParent
  BY <1>6 DEF Verdict, CancelParent
<1>7. CASE UNCHANGED vars
  BY <1>7 DEF vars
<1> QED
  BY <1>1, <1>2, <1>3, <1>4, <1>5, <1>6, <1>7
  DEF Next, Resting

LEMMA AwaitInvariance == Spec => [](IInv /\ AwaitInv)
<1>1. Init => AwaitInv
  BY DEF Init, AwaitInv
<1>2. IInv /\ AwaitInv /\ [Next]_vars => AwaitInv'
  BY AwaitStep
<1> QED
  BY <1>1, <1>2, Invariance, PTL DEF Spec

(* No process is left, and none will ever be again.                        *)
Gone == func # "start" /\ alive = {}

(* What can still happen then, and who does it.                            *)
LEMMA GoneSteps ==
  ASSUME IInv, Gone, [Next]_vars
  PROVE  /\ Gone'
         /\ written' = written
         /\ UNCHANGED child \/ Wait
         /\ UNCHANGED func \/ Func
         /\ \/ UNCHANGED term["func"]
            \/ Terminate("func")
            \/ SelectDone
         /\ UNCHANGED copied \/ PumpCopies
         /\ UNCHANGED pump \/ PumpEnds \/ AttachJob
         /\ UNCHANGED reader \/ reader' = "done" \/ AttachJob
<1> USE DEF IInv, TypeInv, ProcType, TermType, ProcInv, Gone, Procs,
            Terminators
<1>1. CASE Processes
  BY <1>1 DEF Processes, Fork, Exit, DieOfTerm, Write, CloseOutput, Die
<1>2. CASE Goroutines \/ ProbeFails
  BY <1>2 DEF Goroutines, PumpCopies, PumpEnds, ReaderEnds, Wait,
      ReaderStops, ProbeRecords, ProbeFails
<1>3. CASE Terminate("probe")
  BY <1>3 DEF Terminate, SignalGroup, NoGroup, GroupGone,
      KillGroup, AwaitJob, TerminateJob, Kill, KillProcess, Die
<1>4. CASE Terminate("func")
  BY <1>4 DEF Terminate, SignalGroup, NoGroup, GroupGone,
      KillGroup, AwaitJob, TerminateJob, Kill, KillProcess, Die
<1>5. CASE Launch
  BY <1>5 DEF Launch, SetupFails, StartFails, Start
<1>6. CASE Func
  BY <1>6 DEF Func, AttachJob, SelectDone, Terminated, ReceiveWait, Cleanup,
      Join, CloseJob, Die, RunReturns
<1>7. CASE Verdict \/ CancelParent
  BY <1>7 DEF Verdict, CancelParent
<1>8. CASE UNCHANGED vars
  BY <1>8 DEF vars
<1> QED
  BY <1>1, <1>2, <1>3, <1>4, <1>5, <1>6, <1>7, <1>8
  DEF Next, Resting

(* A termination that found its processes ends, and leaves none.           *)
LEMMA FoundSteps ==
  ASSUME IInv, [Next]_vars, NEW t \in Terminators, t \in found
  PROVE  /\ t \in found'
         /\ UNCHANGED term[t] \/ Terminate(t)
<1> USE DEF IInv, TypeInv, ProcType, FuncType, TermType, ProcInv, PipeInv,
            TermInv, Terminators
<1>1. CASE Processes
  BY <1>1 DEF Processes, Fork, Exit, DieOfTerm, Write, CloseOutput
<1>2. CASE Goroutines \/ ProbeFails
  BY <1>2 DEF Goroutines, Wait, PumpCopies, PumpEnds, ReaderEnds,
      ReaderStops, ProbeRecords, ProbeFails
<1>3. CASE \E s \in Terminators : Terminate(s)
  BY <1>3 DEF Terminate, SignalGroup, NoGroup, GroupGone,
      KillGroup, AwaitJob, TerminateJob, Kill, KillProcess
<1>4. CASE Launch
  BY <1>4 DEF Launch, SetupFails, StartFails, Start
<1>5. CASE Func
  BY <1>5 DEF Func, AttachJob, SelectDone, Terminated, ReceiveWait, Cleanup,
      Join, CloseJob, RunReturns
<1>6. CASE Verdict \/ CancelParent
  BY <1>6 DEF Verdict, CancelParent
<1>7. CASE UNCHANGED vars
  BY <1>7 DEF vars
<1> QED
  BY <1>1, <1>2, <1>3, <1>4, <1>5, <1>6, <1>7
  DEF Next, Resting

KillsAll(t) == (t \in found) ~> Gone

LEMMA FoundEnds ==
  ASSUME NEW t \in Terminators
  PROVE  FairSpec /\ []RunnerCanStep => KillsAll(t)
<1> DEFINE Found == t \in found
           Polling == t \in found /\ term[t] # "done"
           Ended == t \in found /\ term[t] = "done"
<1>1. IInv /\ Polling /\ [Next]_vars => Polling' \/ Ended'
  BY FoundSteps
<1>2. IInv /\ Polling /\ <<Terminate(t)>>_vars => Ended'
  <2> SUFFICES ASSUME IInv, Polling, <<Terminate(t)>>_vars PROVE Ended'
    OBVIOUS
  <2>1. term[t] \in {"poll", "job"} /\ term \in [Terminators ->
          {"idle", "begin", "poll", "job", "sleep", "done"}]
    BY DEF IInv, TypeInv, TermType, TermInv
  <2> QED
    BY <2>1 DEF Terminate, SignalGroup, NoGroup, GroupGone, KillGroup,
                AwaitJob, TerminateJob, Kill, KillProcess
<1>3. IInv /\ RunnerCanStep /\ Polling => ENABLED <<Terminate(t)>>_vars
  <2>1. IInv /\ Polling => term[t] \notin {"idle", "done"}
    BY DEF IInv, TermInv
  <2> QED
    BY <2>1 DEF RunnerCanStep, TerminatorCanStep
<1>4. IInv /\ Ended => Gone
  BY DEF IInv, TermInv, ProcInv, Gone
<1>5. (t \in found <=> Found) /\ (Found => Polling \/ Ended)
  OBVIOUS
<1>6. FairSpec => TerminatorFairness(t)
  <2>1. FairSpec => TerminatorsFair
    BY PTL DEF FairSpec, Fairness
  <2>2. TerminatorsFair => TerminatorFairness(t)
    BY DEF TerminatorsFair
  <2> QED
    BY <2>1, <2>2
<1> HIDE DEF Found, Polling, Ended
<1> QED
  BY <1>1, <1>2, <1>3, <1>4, <1>5, <1>6, Invariance, PTL
  DEF FairSpec, Spec, TerminatorFairness, KillsAll

(* Once a termination has found the group or the job, all its processes    *)
(* end: the grace period does, and what comes after it spares none.        *)
THEOREM TerminationKillsAll ==
  FairSpec /\ []RunnerCanStep => ((found # {}) ~> Gone)
<1>1. FairSpec /\ []RunnerCanStep => KillsAll("func")
  BY FoundEnds DEF Terminators
<1>2. FairSpec /\ []RunnerCanStep => KillsAll("probe")
  BY FoundEnds DEF Terminators
<1>3. IInv => (found # {} => "func" \in found \/ "probe" \in found)
  BY DEF IInv, TypeInv, TermType, Terminators
<1> QED
  BY <1>1, <1>2, <1>3, Invariance, PTL DEF FairSpec, KillsAll
-----------------------------------------------------------------------------
(* From then on: the child is reaped, Func gets the result of cmd.Wait ... *)
Settled == Gone /\ func # "attach" /\ child # "zombie"

(* ... and gets as far as wg.Wait.                                         *)
Joining == Settled /\ func \in {"join", "close", "returned", "done"}

LEMMA FairSteps ==
  Func \/ Wait \/ ReaderEnds \/ PumpEnds \/ Terminate("func") => Next
  BY DEF Next, Goroutines, Terminators

LEMMA SettledStays ==
  IInv /\ Settled /\ [Next]_vars => Settled'
  BY GoneSteps
  DEF Settled, Gone, Wait, Func, AttachJob, SelectDone, Terminated,
      ReceiveWait, Cleanup, Join, CloseJob, RunReturns, IInv, TypeInv,
      ProcInv, ProcType, FuncType

LEMMA ChildSettles ==
  FairSpec /\ []RunnerCanStep => (Gone ~> Settled)
<1> DEFINE Inv == IInv /\ AwaitInv
           Attach == Gone /\ func = "attach"
           Zombie == Gone /\ func # "attach" /\ child = "zombie"
<1>1. Gone => Attach \/ Zombie \/ Settled
  BY DEF Settled
<1>2. Inv /\ Attach /\ [Next]_vars => Attach' \/ Zombie' \/ Settled'
  BY GoneSteps DEF Settled
<1>3. Inv /\ Attach /\ <<Func>>_vars => Zombie' \/ Settled'
  BY GoneSteps, FairSteps DEF Func, AttachJob, SelectDone, Terminated,
     ReceiveWait, Cleanup, Join, CloseJob, RunReturns, Settled
<1>4. Inv /\ Zombie /\ [Next]_vars => Zombie' \/ Settled'
  BY GoneSteps DEF Func, AttachJob, SelectDone, Terminated, ReceiveWait,
     Cleanup, Join, CloseJob, RunReturns, Settled
<1>5. Inv /\ Zombie /\ <<Wait>>_vars => Settled'
  BY GoneSteps, FairSteps DEF Wait, Settled
<1>6. RunnerCanStep =>
        /\ Attach => ENABLED <<Func>>_vars
        /\ Zombie => ENABLED <<Wait>>_vars
  BY DEF RunnerCanStep
<1>7. Spec => []Inv
  BY AwaitInvariance
<1> HIDE DEF Inv, Attach, Zombie
<1>8. FairSpec /\ []RunnerCanStep => (Attach ~> Zombie \/ Settled)
  BY <1>2, <1>3, <1>6, <1>7, PTL DEF FairSpec, Fairness, Spec
<1>9. FairSpec /\ []RunnerCanStep => (Zombie ~> Settled)
  BY <1>4, <1>5, <1>6, <1>7, PTL DEF FairSpec, Fairness, Spec
<1> QED
  BY <1>1, <1>8, <1>9, PTL

LEMMA FuncTerminatorFair == FairSpec => WF_vars(Terminate("func"))
<1>1. FairSpec => TerminatorsFair
  BY PTL DEF FairSpec, Fairness
<1>2. TerminatorsFair => TerminatorFairness("func")
  BY DEF TerminatorsFair, Terminators
<1> QED
  BY <1>1, <1>2, PTL DEF TerminatorFairness

LEMMA FuncJoins ==
  FairSpec /\ []RunnerCanStep => (Settled ~> Joining)
<1> DEFINE Inv == IInv /\ AwaitInv
           Select == Settled /\ func = "select"
           Ending == Settled /\ func = "terminating"
           Begin == Ending /\ term["func"] = "begin"
           Middle == Ending /\ term["func"] \in {"poll", "job", "sleep"}
           Ended == Ending /\ term["func"] = "done"
           Await == Settled /\ func = "await"
           Clean == Settled /\ func = "cleanup"
<1> USE DEF Func, AttachJob, SelectDone, Terminated, ReceiveWait, Cleanup,
            Join, CloseJob, RunReturns
<1>1. Inv /\ Settled => \/ Select \/ Begin \/ Middle \/ Ended
                        \/ Await \/ Clean \/ Joining
  <2> SUFFICES ASSUME Inv, Settled, func = "terminating"
               PROVE  Begin \/ Middle \/ Ended
    BY DEF IInv, TypeInv, FuncType, Settled, Gone, Joining
  <2> QED
    BY DEF IInv, TypeInv, TermType, Terminators, AwaitInv
<1>2. Inv /\ Settled => (func \in {"select", "await"} => waitCh = "full")
  <2>1. IInv /\ Settled /\ func \in {"select", "await"} => child = "reaped"
    BY DEF IInv, TypeInv, ProcType, ProcInv, Settled, Gone
  <2> QED
    BY <2>1 DEF AwaitInv, Past
<1>3. Inv /\ Select /\ [Next]_vars =>
        Select' \/ Begin' \/ Middle' \/ Ended' \/ Clean'
  <2> SUFFICES ASSUME Inv, Select, [Next]_vars,
                      func' \notin {"select", "cleanup"}
               PROVE  Begin' \/ Middle' \/ Ended'
    BY SettledStays
  <2>1. func' = "terminating" /\ Settled'
    BY GoneSteps, SettledStays DEF Settled
  <2>2. Inv'
    BY StepIInv, AwaitStep
  <2> QED
    BY <2>1, <2>2 DEF IInv, TypeInv, TermType, Terminators, AwaitInv
<1>4. Inv /\ Select /\ <<Func>>_vars =>
        Begin' \/ Middle' \/ Ended' \/ Clean'
  BY <1>3, FairSteps
<1>5. Inv /\ Ending /\ [Next]_vars => Ending' \/ Await'
  BY GoneSteps, SettledStays DEF Settled
<1>6. ASSUME Inv, Ending, [Next]_vars
      PROVE  UNCHANGED term["func"] \/ Terminate("func")
  BY <1>6, GoneSteps DEF Settled
<1>7. ASSUME Inv, Terminate("func")
      PROVE  /\ term["func"] = "begin" =>
                  term'["func"] \in {"poll", "job", "sleep", "done"}
             /\ term["func"] \in {"poll", "job", "sleep"} =>
                  term'["func"] = "done"
             /\ term["func"] # "done"
             /\ UNCHANGED func
  BY <1>7 DEF IInv, TypeInv, TermType, Terminators, Terminate, SignalGroup,
     NoGroup, GroupGone, KillGroup, AwaitJob, TerminateJob, Kill, KillProcess
<1>8. Inv /\ Begin /\ [Next]_vars => Begin' \/ Middle' \/ Ended'
  BY <1>5, <1>6, <1>7, GoneSteps DEF Settled
<1>9. Inv /\ Begin /\ <<Terminate("func")>>_vars => Middle' \/ Ended'
  BY <1>5, <1>7, FairSteps
<1>10. Inv /\ Middle /\ [Next]_vars => Middle' \/ Ended'
  BY <1>5, <1>6, <1>7, GoneSteps DEF Settled
<1>11. Inv /\ Middle /\ <<Terminate("func")>>_vars => Ended'
  BY <1>5, <1>7, FairSteps
<1>12. Inv /\ Ended /\ [Next]_vars => Ended' \/ Await'
  BY <1>5, <1>6, <1>7
<1>13. Inv /\ Ended /\ <<Func>>_vars => Await'
  BY SettledStays, FairSteps
<1>14. Inv /\ Await /\ [Next]_vars => Await' \/ Clean'
  BY GoneSteps, SettledStays DEF Settled
<1>15. Inv /\ Await /\ <<Func>>_vars => Clean'
  BY SettledStays, FairSteps
<1>16. Inv /\ Clean /\ [Next]_vars => Clean' \/ Joining'
  BY GoneSteps, SettledStays DEF Settled, Joining
<1>17. Inv /\ Clean /\ <<Func>>_vars => Joining'
  BY SettledStays, FairSteps DEF Joining
<1>18. Inv /\ RunnerCanStep =>
         /\ Select \/ Ended \/ Await \/ Clean => ENABLED <<Func>>_vars
         /\ Begin \/ Middle => ENABLED <<Terminate("func")>>_vars
  <2>1. RunnerCanStep => TerminatorCanStep("func")
    BY DEF RunnerCanStep, Terminators
  <2> HIDE DEF Func, AttachJob, SelectDone, Terminated, ReceiveWait,
               Cleanup, Join, CloseJob, RunReturns
  <2>2. RunnerCanStep =>
          (\/ func = "cleanup"
           \/ func \in {"select", "await"} /\ waitCh = "full"
           \/ func = "terminating" /\ term["func"] = "done"
           => ENABLED <<Func>>_vars)
    BY DEF RunnerCanStep
  <2> QED
    BY <1>2, <2>1, <2>2 DEF TerminatorCanStep
<1>19. Spec => []Inv
  BY AwaitInvariance
<1> HIDE DEF Inv, Select, Ending, Begin, Middle, Ended, Await, Clean, Func,
             AttachJob, SelectDone, Terminated, ReceiveWait, Cleanup, Join,
             CloseJob, RunReturns
<1>20. FairSpec /\ []RunnerCanStep
         => (Select ~> Begin \/ Middle \/ Ended \/ Clean)
  BY <1>3, <1>4, <1>18, <1>19, PTL DEF FairSpec, Fairness, Spec
<1>21. FairSpec /\ []RunnerCanStep => (Begin ~> Middle \/ Ended)
  BY <1>8, <1>9, <1>18, <1>19, FuncTerminatorFair, PTL
  DEF FairSpec, Spec
<1>22. FairSpec /\ []RunnerCanStep => (Middle ~> Ended)
  BY <1>10, <1>11, <1>18, <1>19, FuncTerminatorFair, PTL
  DEF FairSpec, Spec
<1>23. FairSpec /\ []RunnerCanStep => (Ended ~> Await)
  BY <1>12, <1>13, <1>18, <1>19, PTL DEF FairSpec, Fairness, Spec
<1>24. FairSpec /\ []RunnerCanStep => (Await ~> Clean)
  BY <1>14, <1>15, <1>18, <1>19, PTL DEF FairSpec, Fairness, Spec
<1>25. FairSpec /\ []RunnerCanStep => (Clean ~> Joining)
  BY <1>16, <1>17, <1>18, <1>19, PTL DEF FairSpec, Fairness, Spec
<1>26. FairSpec => [](Settled => \/ Select \/ Begin \/ Middle \/ Ended
                                \/ Await \/ Clean \/ Joining)
  BY <1>1, <1>19, PTL DEF FairSpec
<1> QED
  BY <1>20, <1>21, <1>22, <1>23, <1>24, <1>25, <1>26, PTL

(* From the last process on, without any assumption about the pumps, Func  *)
(* gets to wg.Wait, its termination done and the child reaped; what the    *)
(* processes have written bounds what it then waits for.                   *)
THEOREM FuncGetsToJoin ==
  FairSpec /\ []RunnerCanStep =>
    /\ (found # {}) ~> Joining
    /\ Gone ~> Joining
  BY TerminationKillsAll, ChildSettles, FuncJoins, PTL

LEMMA JoinEnds ==
  FairSpec /\ []RunnerCanStep /\ OutputCopied => (Joining ~> (func = "done"))
<1> DEFINE Inv == IInv /\ AwaitInv
           Join0 == Settled /\ func = "join"
           Reading == Join0 /\ reader = "running"
           Pumping == Join0 /\ reader = "done" /\ pump = "running"
           Behind == Pumping /\ copied # written
           Even == Pumping /\ copied = written
           Joined == Join0 /\ reader = "done" /\ pump = "done"
           Close == Settled /\ func = "close"
           Returned == Settled /\ func = "returned"
           Done == func = "done"
<1> USE DEF Func, AttachJob, SelectDone, Terminated, ReceiveWait, Cleanup,
            Join, CloseJob, RunReturns
<1>1. Inv /\ Joining => \/ Reading \/ Behind \/ Even \/ Joined
                        \/ Close \/ Returned \/ Done
  <2> SUFFICES ASSUME Inv, Joining, func = "join"
               PROVE  Reading \/ Pumping \/ Joined
    BY DEF Joining
  <2>1. pump # "unborn" /\ reader # "unborn"
    BY DEF IInv, PipeInv, ProcInv, AwaitInv
  <2> QED
    BY <2>1 DEF Joining, IInv, TypeInv, PipeType
<1>2. Inv /\ Join0 => holders = {}
  BY DEF IInv, TypeInv, ProcType, Settled, Gone
<1>3. ASSUME Inv, Join0, [Next]_vars
      PROVE  /\ Join0' \/ Joined
             /\ written' = written
             /\ UNCHANGED copied \/ PumpCopies
             /\ UNCHANGED pump \/ PumpEnds
             /\ UNCHANGED reader \/ reader' = "done"
  <2>1. func # "attach"
    BY <1>3
  <2> QED
    BY <1>3, <2>1, GoneSteps, SettledStays DEF Settled
<1>4. Inv /\ Reading /\ [Next]_vars =>
        Reading' \/ Behind' \/ Even' \/ Joined'
  <2> SUFFICES ASSUME Inv, Reading, [Next]_vars
               PROVE  Reading' \/ Pumping' \/ Joined'
    OBVIOUS
  <2>1. Inv'
    BY StepIInv, AwaitStep
  <2>2. Join0'
    BY <1>3
  <2>3. pump' # "unborn" /\ reader' # "unborn"
    BY <2>1, <2>2 DEF IInv, PipeInv, ProcInv, AwaitInv
  <2> QED
    BY <2>1, <2>2, <2>3 DEF IInv, TypeInv, PipeType
<1>5. Inv /\ Reading /\ <<ReaderEnds>>_vars => Behind' \/ Even' \/ Joined'
  BY <1>4, FairSteps DEF ReaderEnds
<1>6. Inv /\ Behind /\ [Next]_vars => Behind' \/ Even'
  BY <1>3 DEF PumpEnds
<1>7. Inv /\ Even /\ [Next]_vars => Even' \/ Joined'
  BY <1>3 DEF PumpEnds, PumpCopies, IInv, TypeInv, PipeType
<1>8. Inv /\ Even /\ <<PumpEnds>>_vars => Joined'
  BY <1>3, FairSteps DEF PumpEnds
<1>9. Inv /\ Joined /\ [Next]_vars => Joined' \/ Close'
  BY GoneSteps, SettledStays, <1>3 DEF PumpEnds, Settled
<1>10. Inv /\ Joined /\ <<Func>>_vars => Close'
  BY SettledStays, FairSteps
<1>11. Inv /\ Close /\ [Next]_vars => Close' \/ Returned'
  BY GoneSteps, SettledStays DEF Settled
<1>12. Inv /\ Close /\ <<Func>>_vars => Returned'
  BY SettledStays, FairSteps
<1>13. Inv /\ Returned /\ [Next]_vars => Returned' \/ Done'
  BY GoneSteps, SettledStays DEF Settled
<1>14. Inv /\ Returned /\ <<Func>>_vars => Done'
  BY FairSteps
<1>15. Behind => ~CaughtUp
  BY DEF CaughtUp
<1>16. (func = "done") <=> Done
  OBVIOUS
<1>17. Spec => []Inv
  BY AwaitInvariance
<1> HIDE DEF Func, AttachJob, SelectDone, Terminated, ReceiveWait, Cleanup,
             Join, CloseJob, RunReturns
<1>18. Inv /\ RunnerCanStep =>
         /\ Joined \/ Close \/ Returned => ENABLED <<Func>>_vars
         /\ Reading => ENABLED <<ReaderEnds>>_vars
         /\ Even => ENABLED <<PumpEnds>>_vars
  BY <1>2 DEF RunnerCanStep, Settled, Gone
<1> HIDE DEF Inv, Join0, Reading, Pumping, Behind, Even, Joined, Close,
             Returned, Done
<1>19. FairSpec /\ []RunnerCanStep => (Reading ~> Behind \/ Even \/ Joined)
  BY <1>4, <1>5, <1>17, <1>18, PTL DEF FairSpec, Fairness, Spec
<1>20. FairSpec /\ OutputCopied => (Behind ~> Even)
  BY <1>6, <1>15, <1>17, PTL DEF FairSpec, Spec, OutputCopied
<1>21. FairSpec /\ []RunnerCanStep => (Even ~> Joined)
  BY <1>7, <1>8, <1>17, <1>18, PTL DEF FairSpec, Fairness, Spec
<1>22. FairSpec /\ []RunnerCanStep => (Joined ~> Close)
  BY <1>9, <1>10, <1>17, <1>18, PTL DEF FairSpec, Fairness, Spec
<1>23. FairSpec /\ []RunnerCanStep => (Close ~> Returned)
  BY <1>11, <1>12, <1>17, <1>18, PTL DEF FairSpec, Fairness, Spec
<1>24. FairSpec /\ []RunnerCanStep => (Returned ~> Done)
  BY <1>13, <1>14, <1>17, <1>18, PTL DEF FairSpec, Fairness, Spec
<1>25. FairSpec => [](Joining => \/ Reading \/ Behind \/ Even \/ Joined
                                \/ Close \/ Returned \/ Done)
  BY <1>1, <1>17, PTL DEF FairSpec
<1> QED
  BY <1>16, <1>19, <1>20, <1>21, <1>22, <1>23, <1>24, <1>25, PTL

(* Run returns when the processes have ended by themselves, if the pumps   *)
(* do not stay behind for ever: a finite output, copied piece by piece.    *)
THEOREM ExitAlwaysEnds ==
  FairSpec /\ []RunnerCanStep /\ OutputCopied => ExitEnds
<1> DEFINE Done == func = "done"
<1>1. (func # "start" /\ alive = {} => Gone) /\ (Done <=> func = "done")
  BY DEF Gone
<1>2. FairSpec /\ []RunnerCanStep /\ OutputCopied => (Joining ~> Done)
  BY JoinEnds
<1> HIDE DEF Done
<1>3. FairSpec /\ []RunnerCanStep /\ OutputCopied => (Gone ~> Done)
  BY <1>2, FuncGetsToJoin, PTL
<1> QED
  BY <1>1, <1>3, PTL DEF ExitEnds

(* Nor can a process that ignores SIGTERM or keeps the pipes open, the     *)
(* other termination or the end of the job keep it from returning.         *)
THEOREM TerminationAlwaysEnds ==
  FairSpec /\ []RunnerCanStep /\ OutputCopied => TerminationEnds
<1> DEFINE Found == found # {}
           Done == func = "done"
<1>1. (found # {} <=> Found) /\ (Done <=> func = "done")
  OBVIOUS
<1>2. FairSpec /\ []RunnerCanStep => (Found ~> Joining)
  BY FuncGetsToJoin, PTL
<1>3. FairSpec /\ []RunnerCanStep /\ OutputCopied => (Joining ~> Done)
  BY JoinEnds
<1> HIDE DEF Found, Done
<1> QED
  BY <1>1, <1>2, <1>3, PTL DEF TerminationEnds
=============================================================================
