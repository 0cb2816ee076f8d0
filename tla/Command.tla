------------------------------- MODULE Command -------------------------------
(***************************************************************************)
(* timeoutx run, from its arguments to its exit status: the flags          *)
(* (cmd/timeoutx/main.go), the defaults and the event stream the runner    *)
(* sets up from them (process/runner.go, process/events.go), the limits    *)
(* the engine refuses, the exit code, and the result file.  How the child  *)
(* runs is in module Runner; here a run ends in any way it can.            *)
(*                                                                         *)
(* The arguments are read one option at a time.  The command may be killed *)
(* at any moment: it catches no signal.                                    *)
(***************************************************************************)
EXTENDS Integers

CONSTANTS
  LimitFlags,    \* the flags that set a time limit
  Durations,     \* durations that are given, in seconds, some negative
  TimeoutExits,  \* values given for --timeout-exit
  MaxOptions     \* bound: options on the command line

ASSUME DurationAssumption == Durations \subseteq Int
ASSUME ExitAssumption == TimeoutExits \subseteq Int
ASSUME OptionAssumption == MaxOptions \in Nat

(* Exit codes of a child, -1 if a signal ended it.                         *)
ChildCodes == {0, 5, 124, -1}

(* Why cmd.Start may fail: there is no such file, the file cannot be       *)
(* executed, or the program was found in the current directory only.       *)
StartErrors == {"missing", "denied", "dot"}

VARIABLES
  stage,        \* where the command is
  options,      \* options read so far
  limits,       \* hard, idle, stall, unit
  killAfter, probeEvery, timeoutExit, signalExit,
  events,       \* --events: off, "-", a file, one that cannot be opened
  eventsFD,
  given,        \* which of eventsPathSet and eventsFDSet are true
  jsonProgress, \* --progress-format json
  sink,         \* where events go: none, fd, stderr or file
  started,      \* was the child started?
  status, cmdErr, childCode, killed,  \* how the run ended
  code,         \* the exit code mapExitCode computes
  result,       \* the file at --result: absent, old, partial or new
  temp,         \* the temporary file: none, partial or whole
  exitStatus    \* what the parent of timeoutx sees, -1 until it exits

flagVars == <<limits, killAfter, probeEvery, timeoutExit, signalExit, events,
              eventsFD, given, jsonProgress>>
runVars == <<sink, started, status, cmdErr, childCode, killed, code>>
fileVars == <<result, temp>>
vars == <<stage, options, flagVars, runVars, fileVars, exitStatus>>

Init ==
  /\ stage = "environment" /\ options = 0
  /\ limits = [f \in LimitFlags |-> 0]
  /\ killAfter = 10 /\ probeEvery = 5
  /\ timeoutExit = 124 /\ signalExit = FALSE
  /\ events = "off" /\ eventsFD = -1 /\ given = {} /\ jsonProgress = FALSE
  /\ sink = "none" /\ started = FALSE
  /\ status = "unset" /\ cmdErr = "nil" /\ childCode = 0 /\ killed = FALSE
  /\ code = 0
  /\ result \in {"absent", "old"} /\ temp = "none"
  /\ exitStatus = -1

(* os.Exit: the parent sees the low eight bits.                            *)
ExitWith(c) ==
  /\ stage' = "exited"
  /\ exitStatus' = c % 256
-----------------------------------------------------------------------------
(* Arguments.                                                              *)

(* TIMEOUTX_MAX_LINE_BYTES is looked at before anything else.              *)
CheckEnvironment ==
  /\ stage = "environment"
  /\ \/ stage' = "options" /\ UNCHANGED exitStatus
     \/ ExitWith(125)
  /\ UNCHANGED <<options, flagVars, runVars, fileVars>>

ReadOption ==
  /\ stage = "options" /\ options < MaxOptions
  /\ options' = options + 1
  /\ UNCHANGED <<stage, runVars, fileVars, exitStatus>>

LimitFlag(f, d) ==
  /\ ReadOption
  /\ limits' = [limits EXCEPT ![f] = d]
  /\ UNCHANGED <<killAfter, probeEvery, timeoutExit, signalExit, events,
                 eventsFD, given, jsonProgress>>

KillAfterFlag(d) ==
  /\ ReadOption
  /\ killAfter' = d
  /\ UNCHANGED <<limits, probeEvery, timeoutExit, signalExit, events,
                 eventsFD, given, jsonProgress>>

ProbeEveryFlag(d) ==
  /\ ReadOption
  /\ probeEvery' = d
  /\ UNCHANGED <<limits, killAfter, timeoutExit, signalExit, events,
                 eventsFD, given, jsonProgress>>

TimeoutExitFlag(c) ==
  /\ ReadOption
  /\ timeoutExit' = c
  /\ UNCHANGED <<limits, killAfter, probeEvery, signalExit, events, eventsFD,
                 given, jsonProgress>>

SignalExitFlag ==
  /\ ReadOption
  /\ signalExit' = TRUE
  /\ UNCHANGED <<limits, killAfter, probeEvery, timeoutExit, events, eventsFD,
                 given, jsonProgress>>

EventsFlag(path) ==
  /\ ReadOption
  /\ events' = path /\ given' = given \union {"path"}
  /\ UNCHANGED <<limits, killAfter, probeEvery, timeoutExit, signalExit,
                 eventsFD, jsonProgress>>

EventsFDFlag(fd) ==
  /\ ReadOption
  /\ eventsFD' = fd /\ given' = given \union {"fd"}
  /\ UNCHANGED <<limits, killAfter, probeEvery, timeoutExit, signalExit,
                 events, jsonProgress>>

ProgressFormatFlag ==
  /\ ReadOption
  /\ jsonProgress' = TRUE
  /\ UNCHANGED <<limits, killAfter, probeEvery, timeoutExit, signalExit,
                 events, eventsFD, given>>

(* A flag that is not known, has no value, or a value that does not parse. *)
BadOption ==
  /\ stage = "options" /\ options < MaxOptions
  /\ ExitWith(125)
  /\ UNCHANGED <<options, flagVars, runVars, fileVars>>

Option ==
  \/ \E d \in Durations :
       (\E f \in LimitFlags : LimitFlag(f, d)) \/ KillAfterFlag(d)
         \/ ProbeEveryFlag(d)
  \/ \E c \in TimeoutExits : TimeoutExitFlag(c)
  \/ \E path \in {"off", "-", "file", "denied"} : EventsFlag(path)
  \/ \E fd \in {-1, 0, 3} : EventsFDFlag(fd)
  \/ SignalExitFlag \/ ProgressFormatFlag \/ BadOption

(* Mutant of EndOptions: the two event flags are not held against each     *)
(* other.                                                                  *)
EndOptionsBothEvents(hasCommand) ==
  /\ stage = "options"
  /\ IF probeEvery <= 0 \/ ~hasCommand
     THEN ExitWith(125)
     ELSE stage' = "events" /\ UNCHANGED exitStatus
  /\ UNCHANGED <<options, flagVars, runVars, fileVars>>

(* The first argument that is no flag, "--", or the last one.              *)
EndOptions(hasCommand) ==
  /\ stage = "options"
  /\ IF given = {"path", "fd"} \/ probeEvery <= 0 \/ ~hasCommand
     THEN ExitWith(125)
     ELSE stage' = "events" /\ UNCHANGED exitStatus
  /\ UNCHANGED <<options, flagVars, runVars, fileVars>>
-----------------------------------------------------------------------------
(* Runner.Run.                                                             *)

(* A descriptor given as 0 counts as not given.                            *)
FD == IF "fd" \in given /\ eventsFD # 0 THEN eventsFD ELSE -1

(* OpenEventWriter: a descriptor wins over a path, and "-" is stderr.      *)
Sink ==
  CASE FD >= 0                      -> "fd"
    [] FD < 0 /\ events = "-"       -> "stderr"
    [] FD < 0 /\ events = "file"    -> "file"
    [] FD < 0 /\ events = "off"     -> "none"
    [] FD < 0 /\ events = "denied"  -> "error"

(* JSON progress without any of that goes to stderr, too.                  *)
OpenEvents ==
  /\ stage = "events" /\ Sink # "error"
  /\ sink' = IF Sink = "none" /\ jsonProgress THEN "stderr" ELSE Sink
  /\ stage' = "run"
  /\ UNCHANGED <<options, flagVars, started, status, cmdErr, childCode, killed,
                 code, fileVars, exitStatus>>

(* The file cannot be opened, and no result is written.                    *)
OpenEventsFails ==
  /\ stage = "events" /\ Sink = "error"
  /\ ExitWith(125)
  /\ UNCHANGED <<options, flagVars, runVars, fileVars>>

(* An option that is not zero is passed on, and refuses to be negative.    *)
Negative == killAfter < 0 \/ \E f \in LimitFlags : limits[f] < 0

RejectConfig ==
  /\ stage = "run" /\ Negative
  /\ status' = "internal_error"
  /\ stage' = "map"
  /\ UNCHANGED <<options, flagVars, sink, started, cmdErr, childCode, killed,
                 code, fileVars, exitStatus>>

(* finish: whatever Func returned, a verdict given before decides.         *)
Ended(st) ==
  /\ stage = "run" /\ ~Negative
  /\ \/ status' = st
     \/ status' = "timeout" /\ \E f \in LimitFlags : limits[f] > 0
  /\ stage' = "map"
  /\ UNCHANGED <<options, flagVars, sink, code, fileVars, exitStatus>>

(* A pipe or the control descriptor cannot be made: cmdErr is not set.     *)
SetupFails ==
  /\ Ended("failed")
  /\ UNCHANGED <<started, cmdErr, childCode, killed>>

StartFails(err) ==
  /\ Ended("failed")
  /\ cmdErr' = err
  /\ UNCHANGED <<started, childCode, killed>>

(* The child ends with code c; it was terminated if Func saw the verdict   *)
(* before it saw the end of the child.                                     *)
ChildEnds(c) ==
  /\ Ended("succeeded")
  /\ started' = TRUE
  /\ cmdErr' = IF c = 0 THEN "nil" ELSE "exit"
  /\ childCode' = c
  /\ killed' \in BOOLEAN /\ (killed' => status' = "timeout")

Supervise ==
  \/ RejectConfig \/ SetupFails
  \/ \E err \in StartErrors : StartFails(err)
  \/ \E c \in ChildCodes : ChildEnds(c)

(* mapExitCode.                                                            *)
TimeoutCode ==
  CASE signalExit /\ killed                         -> 137
    [] ~(signalExit /\ killed) /\ timeoutExit = 0   -> 124
    [] OTHER                                        -> timeoutExit

ErrCode ==
  CASE cmdErr \in {"nil", "exit"}        -> childCode
    [] cmdErr \in {"missing", "denied"}  -> 127
    [] cmdErr = "dot"                    -> 126

ExitCode ==
  CASE status = "timeout"        -> TimeoutCode
    [] status = "internal_error" -> 125
    [] OTHER                     -> ErrCode

MapExitCode ==
  /\ stage = "map"
  /\ code' = ExitCode
  /\ stage' = "create"
  /\ UNCHANGED <<options, flagVars, sink, started, status, cmdErr, childCode,
                 killed, fileVars, exitStatus>>
-----------------------------------------------------------------------------
(* writeResultJSON: a temporary file takes the place of the result.        *)

FileStep(from, to) ==
  /\ stage = from
  /\ stage' = to
  /\ UNCHANGED <<options, flagVars, runVars, exitStatus>>

CreateTemp ==
  \/ FileStep("create", "write") /\ temp' = "partial" /\ UNCHANGED result
  \/ FileStep("create", "exit") /\ UNCHANGED fileVars

(* Mutant of WriteTemp: the error is not looked at.                        *)
WriteTempUnchecked ==
  \/ FileStep("write", "rename") /\ temp' = "whole" /\ UNCHANGED result
  \/ FileStep("write", "rename") /\ UNCHANGED fileVars

(* If the file cannot be written or closed it is removed.                  *)
WriteTemp ==
  \/ FileStep("write", "rename") /\ temp' = "whole" /\ UNCHANGED result
  \/ FileStep("write", "exit") /\ temp' = "none" /\ UNCHANGED result

(* If it cannot be renamed it stays.                                       *)
RenameTemp ==
  \/ /\ FileStep("rename", "exit")
     /\ result' = IF temp = "whole" THEN "new" ELSE "partial"
     /\ temp' = "none"
  \/ FileStep("rename", "exit") /\ UNCHANGED fileVars

(* There is no --result, or all of that is done: its error is ignored.     *)
Exit ==
  /\ stage \in {"create", "exit"}
  /\ ExitWith(code)
  /\ UNCHANGED <<options, flagVars, runVars, fileVars>>

(* A signal ends the command: nothing catches it.                          *)
Killed ==
  /\ stage # "exited"
  /\ ExitWith(143)
  /\ UNCHANGED <<options, flagVars, runVars, fileVars>>

Finished == stage = "exited" /\ UNCHANGED vars

Next ==
  \/ CheckEnvironment \/ Option \/ \E b \in BOOLEAN : EndOptions(b)
  \/ OpenEvents \/ OpenEventsFails \/ Supervise \/ MapExitCode
  \/ CreateTemp \/ WriteTemp \/ RenameTemp \/ Exit
  \/ Killed \/ Finished

Spec == Init /\ [][Next]_vars
=============================================================================
