---------------------------- MODULE CommandProofs ----------------------------
(***************************************************************************)
(* Proofs about Command, for all limits, durations, exit codes and numbers *)
(* of options.                                                             *)
(***************************************************************************)
EXTENDS CommandProps, TLAPS

(* The stages in the order in which the command goes through them.         *)
AfterRun == {"map", "create", "write", "rename", "exit"}
AfterMap == {"create", "write", "rename", "exit"}

(* What the command line is known to be when the stage is reached, for     *)
(* options are read only before: the mistakes are found one after another. *)
Screened ==
  /\ events # "off" => "path" \in given
  /\ stage \in {"events", "run"} \union AfterRun =>
       given # {"path", "fd"} /\ probeEvery > 0
  /\ stage \in {"run"} \union AfterRun => events # "denied"
  /\ stage \in AfterRun /\ status # "internal_error" => ~Negative

(* How the variables of the run hang together.                             *)
Outcome ==
  /\ stage # "exited" => exitStatus = -1
  /\ stage \in {"environment", "options", "events", "run"} =>
       ~started /\ status = "unset" /\ cmdErr = "nil"
  /\ stage \in AfterRun => status # "unset"
  /\ started => Valid /\ stage \in AfterRun \union {"exited"}
  /\ status = "failed" => ~started /\ cmdErr # "exit"
  /\ status = "succeeded" => started /\ cmdErr \in {"nil", "exit"}
  /\ stage \in AfterMap => code = ExitCode

(* The result file is replaced by a whole one, at the end.                 *)
Replaced ==
  /\ stage = "rename" => temp = "whole"
  /\ result # "partial"
  /\ result = "new" => stage \in {"exit", "exited"}
  /\ result = "new" => status # "unset" /\ code = ExitCode

IInv == TypeOK /\ Screened /\ Outcome /\ Replaced
             /\ InvalidRunsNothing /\ ZeroExplained

(* The exit status is one byte.                                            *)
LEMMA Byte ==
  ASSUME NEW c \in Int
  PROVE  c % 256 \in 0 .. 255
  OBVIOUS

(* mapExitCode, case by case.                                              *)
LEMMA ExitCodeCases ==
  /\ status = "timeout" => ExitCode = TimeoutCode
  /\ status = "internal_error" => ExitCode = 125
  /\ status \notin {"timeout", "internal_error"} => ExitCode = ErrCode
  BY DEF ExitCode

LEMMA TimeoutCodeCases ==
  /\ TimeoutCode \in {137, 124, timeoutExit}
  /\ timeoutExit = 0 => TimeoutCode \in {137, 124}
<1>1. CASE signalExit /\ killed
  BY <1>1 DEF TimeoutCode
<1>2. CASE ~(signalExit /\ killed) /\ timeoutExit = 0
  BY <1>2 DEF TimeoutCode
<1>3. CASE ~(signalExit /\ killed) /\ timeoutExit # 0
  BY <1>3 DEF TimeoutCode
<1> QED
  BY <1>1, <1>2, <1>3

LEMMA ErrCodeCases ==
  /\ cmdErr \in {"nil", "exit"} => ErrCode = childCode
  /\ cmdErr \in {"missing", "denied"} => ErrCode = 127
  /\ cmdErr = "dot" => ErrCode = 126
  BY DEF ErrCode

LEMMA ExitCodeType == TypeOK => ExitCode \in Int
<1> SUFFICES ASSUME TypeOK PROVE ExitCode \in Int
  OBVIOUS
<1>1. TimeoutCode \in Int
  BY TimeoutCodeCases DEF TypeOK
<1>2. ErrCode \in Int
  BY ErrCodeCases DEF TypeOK, ChildCodes, StartErrors
<1> QED
  BY <1>1, <1>2, ExitCodeCases

LEMMA ExitCodeStable ==
  UNCHANGED <<timeoutExit, signalExit, status, cmdErr, childCode, killed>>
    => ExitCode' = ExitCode
  BY DEF ExitCode, TimeoutCode, ErrCode
-----------------------------------------------------------------------------
(* The type invariant, and the rest of the invariant without the last two  *)
(* properties, which follow from it at the moment of the exit.             *)

LEMMA Initially == Init => IInv
<1> SUFFICES ASSUME Init PROVE IInv
  OBVIOUS
<1> USE DEF Init
<1>1. Switches
  BY Zenon DEF Switches
<1>2. TypeOK
  BY <1>1, OptionAssumption DEF TypeOK, ChildCodes
<1>3. Screened /\ Outcome /\ Replaced
  BY DEF Screened, Outcome, Replaced, AfterRun, AfterMap
<1>4. InvalidRunsNothing /\ ZeroExplained
  BY DEF InvalidRunsNothing, ZeroExplained
<1> QED
  BY <1>2, <1>3, <1>4 DEF IInv

(* A variable that is true or false stays so.                              *)
LEMMA SwitchesStep == Switches /\ [Next]_vars => Switches'
<1> SUFFICES ASSUME Switches, [Next]_vars PROVE Switches'
  OBVIOUS
<1> USE DEF Switches, flagVars, runVars, ExitWith
<1>1. CASE Option
  BY <1>1, Zenon
  DEF Option, ReadOption, LimitFlag, KillAfterFlag, ProbeEveryFlag,
      TimeoutExitFlag, SignalExitFlag, EventsFlag, EventsFDFlag,
      ProgressFormatFlag, BadOption
<1>2. CASE CheckEnvironment \/ \E b \in BOOLEAN : EndOptions(b)
  BY <1>2, Zenon DEF CheckEnvironment, EndOptions
<1>3. CASE OpenEvents \/ OpenEventsFails \/ Supervise \/ MapExitCode
  BY <1>3, Zenon
  DEF OpenEvents, OpenEventsFails, Supervise, RejectConfig, SetupFails,
      StartFails, ChildEnds, Ended, MapExitCode
<1>4. CASE CreateTemp \/ WriteTemp \/ RenameTemp \/ Exit \/ Killed
  BY <1>4, Zenon DEF CreateTemp, WriteTemp, RenameTemp, FileStep, Exit, Killed
<1>5. CASE Finished \/ UNCHANGED vars
  BY <1>5, Zenon DEF Finished, vars
<1> QED
  BY <1>1, <1>2, <1>3, <1>4, <1>5 DEF Next

(* An option changes nothing but what the flags say.                       *)
LEMMA OptionStep ==
  ASSUME IInv, Option, Switches'
  PROVE  IInv'
<1>1. ASSUME ReadOption, TypeOK', (events # "off" => "path" \in given)'
      PROVE  IInv'
  BY <1>1 DEF IInv, ReadOption, runVars, fileVars, Screened, Outcome, Replaced,
              InvalidRunsNothing, ZeroExplained, AfterRun, AfterMap, TypeOK
<1>2. TypeOK /\ (events # "off" => "path" \in given)
  BY DEF IInv, Screened
<1> DEFINE Goal == TypeOK' /\ (events # "off" => "path" \in given)'
<1> USE DEF ReadOption, runVars, fileVars, TypeOK
<1>3. ASSUME NEW d \in Durations, NEW f \in LimitFlags, LimitFlag(f, d)
      PROVE  ReadOption /\ Goal
  BY <1>2, <1>3, OptionAssumption, DurationAssumption DEF LimitFlag
<1>4. ASSUME NEW d \in Durations, KillAfterFlag(d) \/ ProbeEveryFlag(d)
      PROVE  ReadOption /\ Goal
  <2>1. CASE KillAfterFlag(d)
    BY <1>2, <2>1, OptionAssumption, DurationAssumption DEF KillAfterFlag
  <2>2. CASE ProbeEveryFlag(d)
    BY <1>2, <2>2, OptionAssumption, DurationAssumption DEF ProbeEveryFlag
  <2> QED
    BY <1>4, <2>1, <2>2
<1>5. ASSUME NEW c \in TimeoutExits, TimeoutExitFlag(c)
      PROVE  ReadOption /\ Goal
  BY <1>2, <1>5, OptionAssumption, ExitAssumption DEF TimeoutExitFlag
<1>6. ASSUME NEW path \in {"off", "-", "file", "denied"}, EventsFlag(path)
      PROVE  ReadOption /\ Goal
  BY <1>2, <1>6, OptionAssumption DEF EventsFlag
<1>7. ASSUME NEW fd \in {-1, 0, 3}, EventsFDFlag(fd)
      PROVE  ReadOption /\ Goal
  BY <1>2, <1>7, OptionAssumption DEF EventsFDFlag
<1>8. ASSUME SignalExitFlag \/ ProgressFormatFlag
      PROVE  ReadOption /\ Goal
  <2>1. CASE SignalExitFlag
    BY <1>2, <2>1, OptionAssumption DEF SignalExitFlag
  <2>2. CASE ProgressFormatFlag
    BY <1>2, <2>2, OptionAssumption DEF ProgressFormatFlag
  <2> QED
    BY <1>8, <2>1, <2>2
<1>9. CASE BadOption
  BY <1>9
  DEF BadOption, ExitWith, flagVars, IInv, Screened, Outcome, Replaced,
      InvalidRunsNothing, ZeroExplained, AfterRun, AfterMap, Valid
<1> HIDE DEF ReadOption, runVars, fileVars, TypeOK
<1> QED
  BY <1>1, <1>3, <1>4, <1>5, <1>6, <1>7, <1>8, <1>9 DEF Option

(* However the command exits: what its status has to be.                   *)
LEMMA ExitStep ==
  ASSUME IInv, Switches', NEW c \in Int, stage # "exited", ExitWith(c),
         UNCHANGED <<options, flagVars, runVars, fileVars>>,
         ~Valid => c % 256 \in {125, 143},
         c % 256 = 0 =>
           \/ started /\ status = "succeeded" /\ childCode = 0
           \/ ~started /\ status = "failed" /\ cmdErr = "nil"
           \/ status = "timeout" /\ timeoutExit # 0 /\ timeoutExit % 256 = 0
  PROVE  IInv'
<1> USE DEF flagVars, runVars, fileVars, ExitWith
<1>1. ExitCode' = ExitCode
  BY ExitCodeStable
<1>2. c % 256 \in 0 .. 255
  BY Byte
<1>3. TypeOK'
  BY <1>2 DEF IInv, TypeOK
<1>4. Screened' /\ Replaced'
  BY <1>1 DEF IInv, Screened, Replaced, AfterRun
<1>5. Outcome'
  BY <1>1 DEF IInv, Outcome, AfterRun, AfterMap, Valid
<1>6. InvalidRunsNothing' /\ ZeroExplained'
  BY DEF IInv, Outcome, InvalidRunsNothing, ZeroExplained, Valid
<1> QED
  BY <1>3, <1>4, <1>5, <1>6 DEF IInv

(* A mistake that is found before the run ends the command with 125.       *)
LEMMA Refuse ==
  ASSUME IInv, Switches', stage # "exited", ExitWith(125),
         UNCHANGED <<options, flagVars, runVars, fileVars>>
  PROVE  IInv'
  BY ExitStep

LEMMA DeniedIsError ==
  ASSUME events = "denied", "fd" \notin given
  PROVE  Sink = "error"
<1>1. FD < 0 /\ ~(FD >= 0)
  BY DEF FD
<1> QED
  BY <1>1 DEF Sink

LEMMA SinkType ==
  ASSUME TypeOK
  PROVE  Sink \in {"fd", "stderr", "file", "none", "error"}
<1>1. /\ FD >= 0 \/ FD < 0
      /\ events \in {"off", "-", "file", "denied"}
  BY DEF TypeOK, FD
<1>2. CASE FD >= 0
  <2>1. ~(FD < 0)
    BY <1>2 DEF FD, TypeOK
  <2> QED
    BY <1>2, <2>1 DEF Sink
<1>3. CASE FD < 0
  <2>1. ~(FD >= 0)
    BY <1>3 DEF FD, TypeOK
  <2> QED
    BY <1>1, <1>3, <2>1 DEF Sink
<1> QED
  BY <1>1, <1>2, <1>3

(* Up to the run: each stage screens out one kind of mistake.              *)
LEMMA PrepareStep ==
  ASSUME IInv, Switches',
         CheckEnvironment \/ (\E b \in BOOLEAN : EndOptions(b))
           \/ OpenEvents \/ OpenEventsFails
  PROVE  IInv'
<1> DEFINE Go == /\ stage' \in {"options", "events"} /\ UNCHANGED exitStatus
                 /\ UNCHANGED <<options, flagVars, runVars, fileVars>>
<1>1. ASSUME Go, stage \in {"environment", "options"},
             stage' = "events" => given # {"path", "fd"} /\ probeEvery > 0
      PROVE  IInv'
  BY <1>1 DEF IInv, TypeOK, Screened, Outcome, Replaced, InvalidRunsNothing,
              ZeroExplained, AfterRun, AfterMap, flagVars, runVars,
              fileVars, Valid
<1>2. CASE CheckEnvironment
  BY <1>1, <1>2, Refuse DEF CheckEnvironment
<1>3. ASSUME NEW b \in BOOLEAN, EndOptions(b)
      PROVE  IInv'
  <2>1. CASE given = {"path", "fd"} \/ probeEvery <= 0 \/ ~b
    BY <1>3, <2>1, Refuse DEF EndOptions
  <2>2. CASE ~(given = {"path", "fd"} \/ probeEvery <= 0 \/ ~b)
    <3>1. probeEvery > 0
      BY <2>2 DEF IInv, TypeOK
    <3> QED
      BY <1>1, <1>3, <2>2, <3>1 DEF EndOptions
  <2> QED
    BY <2>1, <2>2
<1>4. CASE OpenEvents
  <2>1. events # "denied"
    <3>1. CASE "fd" \in given
      BY <1>4, <3>1 DEF OpenEvents, IInv, Screened, TypeOK
    <3>2. CASE "fd" \notin given
      BY <1>4, <3>2, DeniedIsError DEF OpenEvents
    <3> QED
      BY <3>1, <3>2
  <2>2. sink' \in {"none", "fd", "stderr", "file"}
    BY <1>4, SinkType DEF OpenEvents, IInv
  <2> QED
    BY <1>4, <2>1, <2>2
    DEF OpenEvents, IInv, TypeOK, Screened, Outcome, Replaced,
        InvalidRunsNothing, ZeroExplained, AfterRun, AfterMap, flagVars,
        fileVars, Valid
<1>5. CASE OpenEventsFails
  BY <1>5, Refuse DEF OpenEventsFails
<1> QED
  BY <1>2, <1>3, <1>4, <1>5

(* The run: the child is started only if the engine accepts the limits.    *)
LEMMA RunStep ==
  ASSUME IInv, Switches', Supervise
  PROVE  IInv'
<1> USE DEF IInv, TypeOK, Screened, Outcome, Replaced, InvalidRunsNothing,
            ZeroExplained, AfterRun, AfterMap, flagVars, fileVars
<1>1. CASE RejectConfig
  BY <1>1 DEF RejectConfig, Negative
<1>2. CASE SetupFails
  BY <1>2 DEF SetupFails, Ended, Negative
<1>3. ASSUME NEW err \in StartErrors, StartFails(err)
      PROVE  IInv'
  BY <1>3 DEF StartFails, Ended, Negative, StartErrors
<1>4. ASSUME NEW c \in ChildCodes, ChildEnds(c)
      PROVE  IInv'
  BY <1>4 DEF ChildEnds, Ended, Negative, Valid
<1> QED
  BY <1>1, <1>2, <1>3, <1>4 DEF Supervise

(* After the run: its end decides the code, and nothing changes it later.  *)
LEMMA EndStep ==
  ASSUME IInv, Switches',
         MapExitCode \/ CreateTemp \/ WriteTemp \/ RenameTemp
  PROVE  IInv'
<1>1. ExitCode' = ExitCode
  BY ExitCodeStable
  DEF MapExitCode, CreateTemp, WriteTemp, RenameTemp, FileStep, flagVars,
      runVars
<1>2. CASE MapExitCode
  <2>1. ExitCode \in Int
    BY ExitCodeType DEF IInv
  <2> QED
    BY <1>1, <1>2, <2>1
    DEF MapExitCode, IInv, TypeOK, Screened, Outcome, Replaced,
        InvalidRunsNothing, ZeroExplained, AfterRun, AfterMap, flagVars,
        fileVars, Valid, Negative
<1> DEFINE FileOnly ==
      /\ stage \in {"create", "write", "rename"}
      /\ stage' \in {"write", "rename", "exit"}
      /\ stage' = "rename" => temp' = "whole"
      /\ result' = "new" => result = "new" \/ stage' = "exit"
      /\ temp' \in {"none", "partial", "whole"}
      /\ result' \in {"absent", "old", "new"}
      /\ UNCHANGED <<options, flagVars, runVars, exitStatus>>
<1>3. (Valid' <=> Valid) /\ (Negative' <=> Negative)
  BY DEF MapExitCode, CreateTemp, WriteTemp, RenameTemp, FileStep, flagVars,
         Valid, Negative
<1>4. ASSUME FileOnly
      PROVE  IInv'
  BY <1>1, <1>3, <1>4
  DEF IInv, TypeOK, Screened, Outcome, Replaced, InvalidRunsNothing,
      ZeroExplained, AfterRun, AfterMap, flagVars, runVars
<1> USE DEF FileStep, IInv, TypeOK, Replaced, fileVars
<1>5. CASE CreateTemp
  <2>1. FileOnly
    BY <1>5 DEF CreateTemp
  <2> QED
    BY <1>4, <2>1
<1>6. CASE WriteTemp
  <2>1. FileOnly
    BY <1>6 DEF WriteTemp
  <2> QED
    BY <1>4, <2>1
<1>7. CASE RenameTemp
  <2>1. FileOnly
    BY <1>7 DEF RenameTemp
  <2> QED
    BY <1>4, <2>1
<1> QED
  BY <1>2, <1>5, <1>6, <1>7

(* The exit with the code of the run: it is 0 modulo 256 only if the child *)
(* returned 0, nothing was started, or the caller asked for it.            *)
LEMMA ExitWithCode ==
  ASSUME IInv, Switches', Exit
  PROVE  IInv'
<1>1. stage \in AfterMap /\ code \in Int /\ code = ExitCode
  BY DEF Exit, IInv, TypeOK, Outcome, AfterMap
<1>2. ASSUME ~Valid
      PROVE  code % 256 \in {125, 143}
  <2>1. status = "internal_error"
    BY <1>1, <1>2
    DEF IInv, TypeOK, Screened, Valid, Negative, AfterMap, AfterRun
  <2>2. code = 125
    BY <1>1, <2>1, ExitCodeCases
  <2> QED
    BY <2>2
<1>3. ASSUME code % 256 = 0
      PROVE  \/ started /\ status = "succeeded" /\ childCode = 0
             \/ ~started /\ status = "failed" /\ cmdErr = "nil"
             \/ /\ status = "timeout" /\ timeoutExit # 0
                /\ timeoutExit % 256 = 0
  <2>1. CASE status = "timeout"
    BY <1>1, <1>3, <2>1, ExitCodeCases, TimeoutCodeCases DEF IInv, TypeOK
  <2>2. CASE status = "internal_error"
    BY <1>1, <1>3, <2>2, ExitCodeCases
  <2>3. CASE status \in {"succeeded", "failed"}
    <3>1. ExitCode = ErrCode
      BY <2>3, ExitCodeCases
    <3> QED
      BY <1>1, <1>3, <2>3, <3>1, ErrCodeCases
      DEF IInv, TypeOK, Outcome, ChildCodes, StartErrors
  <2> QED
    BY <1>1, <2>1, <2>2, <2>3 DEF IInv, TypeOK, Outcome, AfterMap, AfterRun
<1> QED
  BY <1>1, <1>2, <1>3, ExitStep DEF Exit, AfterMap

LEMMA KilledStep ==
  ASSUME IInv, Switches', Killed
  PROVE  IInv'
  BY ExitStep DEF Killed

LEMMA Stutter ==
  ASSUME IInv, UNCHANGED vars
  PROVE  IInv'
<1>1. ExitCode' = ExitCode
  BY ExitCodeStable DEF vars, flagVars, runVars
<1>2. Switches'
  BY Zenon DEF IInv, TypeOK, Switches, vars, flagVars, runVars
<1> QED
  BY <1>1, <1>2
  DEF vars, flagVars, runVars, fileVars, IInv, TypeOK, Screened, Outcome,
      Replaced, InvalidRunsNothing, ZeroExplained, AfterRun, AfterMap,
      Valid, Negative

LEMMA Inductive == IInv /\ [Next]_vars => IInv'
<1> SUFFICES ASSUME IInv, [Next]_vars PROVE IInv'
  OBVIOUS
<1>1. Switches'
  BY SwitchesStep DEF IInv, TypeOK
<1> QED
  BY <1>1, OptionStep, PrepareStep, RunStep, EndStep, ExitWithCode, KilledStep,
     Stutter
  DEF Next, Finished
-----------------------------------------------------------------------------
(* The invariant holds for every command line.                             *)
THEOREM Invariance == Spec => []IInv
  BY Initially, Inductive, PTL DEF Spec

(* Every variable of the command keeps its type.                           *)
THEOREM TypeCorrect == Spec => []TypeOK
<1>1. IInv => TypeOK
  BY DEF IInv
<1> QED
  BY Invariance, <1>1, PTL

(* No child is started for a command line with a mistake, which ends with  *)
(* 125: the four places where mistakes are found leave no gap.             *)
THEOREM InvalidNeverRuns == Spec => []InvalidRunsNothing
<1>1. IInv => InvalidRunsNothing
  BY DEF IInv
<1> QED
  BY Invariance, <1>1, PTL

(* Exit status 0 has three meanings and no more, whatever exit codes are   *)
(* asked for: the child returned 0, the setup failed and nothing was run,  *)
(* or a timeout is reported with a multiple of 256.                        *)
THEOREM ZeroHasThreeMeanings == Spec => []ZeroExplained
<1>1. IInv => ZeroExplained
  BY DEF IInv
<1> QED
  BY Invariance, <1>1, PTL

(* The result file is whole, and that of a run that is over.               *)
THEOREM ResultAlwaysWhole == Spec => []ResultWhole
<1>1. IInv => ResultWhole
  BY DEF IInv, Replaced, ResultWhole
<1> QED
  BY Invariance, <1>1, PTL
=============================================================================
