------------------------------- MODULE Intake --------------------------------
(***************************************************************************)
(* How signals come into a run of the process runner: the control channel  *)
(* on which the child sends lines (protocol/v1.go, on Windows behind the   *)
(* relay of terminate_windows.go), the handles of the units it begins by   *)
(* number (applyEnvelope in process/runner.go), and the command probe      *)
(* (probe.go).  What a signal does to the policies is in module Engine;    *)
(* how the processes and the output pumps end is in module Runner.         *)
(*                                                                         *)
(* sent is all the child ever wrote, and the positions fetched, read, ...  *)
(* say how far each party has come.  A unit is known by the position of    *)
(* the line that began it.                                                 *)
(***************************************************************************)
EXTENDS Integers, Sequences

CONSTANTS
  Platforms,     \* subset of {"unix", "windows"}
  Ids,           \* numbers the child gives to its units
  Reactions,     \* what a probe may be told to do when it fails
  PipeCapacity,  \* lines a pipe or a connection holds
  MaxLines,      \* bound: lines the child writes in a run without a probe
  MaxLinesProbed,  \* bound: lines it writes in a run with a probe
  MaxTicks       \* bound: ticks of the probe's ticker

ASSUME PlatformAssumption == Platforms \subseteq {"unix", "windows"}
ASSUME IdAssumption == 0 \notin Ids
ASSUME ReactionAssumption ==
  Reactions \subseteq {"ignore", "warn", "fail-probe"}
ASSUME CapacityAssumption == PipeCapacity \in Nat \ {0}
ASSUME BoundAssumption == {MaxLines, MaxLinesProbed, MaxTicks} \subseteq Nat

(* A line is decoded to a signal (heartbeat, status, progress) or to the   *)
(* begin or end of a unit; or it is refused by DecodeLineWithLimit ("bad": *)
(* not JSON, another version, no type, or over the limit and yet within    *)
(* the scanner's buffer); or it does not fit the scanner ("long").         *)
Plain(type) == [type |-> type, id |-> 0]
Begin(id) == [type |-> "unit_begin", id |-> id]
End(id) == [type |-> "unit_end", id |-> id]

Lines == {Plain("signal"), Plain("bad"), Plain("long")}
           \union {Begin(id) : id \in Ids} \union {End(id) : id \in Ids}

(* What a run of the probe's command comes to: it fails, prints nothing,   *)
(* or prints lines.                                                        *)
Failure == <<Plain("failure")>>
Outputs == {Failure, <<>>} \union {<<Plain("bad"), l>> : l \in Lines}

VARIABLES
  platform,
  limitValid,  \* is TIMEOUTX_MAX_LINE_BYTES unset or valid? fixed by Init
  sent,      \* the lines the child wrote (history)
  relayed,   \* lines the Windows relay has read from its connection
  relay,     \* its goroutine: in Accept, copying or done
  arrived,   \* lines that reached the control pipe
  fetched,   \* lines the scanner has in its buffer or behind it
  read,      \* lines the read loop is done with
  reader,    \* the goroutine of ReadLoop: unborn, running or done
  writeEnd,  \* the runner's own copy of the write end, open or not
  child,     \* running, left (only a descendant goes on), gone
  conn,      \* the end of the channel they write to: none, open or closed
  handles,   \* unitHandles: the unit begun last under a number, 0 for none
  active,    \* the units the engine holds to be active
  func,      \* where Func is
  reaction,  \* OnFailure of the probe, "none" if there is no probe
  probe,     \* the probe: running its command, using its output, waiting, done
  output,    \* the output that is being used
  held,      \* does another process hold the output of the probe's command?
  tick,      \* the one tick the ticker's channel holds
  ticks,     \* ticks so far
  stopped,   \* probeStop was called
  fatals,    \* calls of onFatal (history)
  failures   \* diag.Failures

configVars == <<platform, limitValid, reaction>>
relayVars == <<relay, relayed, arrived, writeEnd>>
readVars == <<fetched, read, reader>>
lineVars == <<sent, relayVars, readVars>>
childVars == <<child, conn>>
unitVars == <<handles, active>>
probeVars == <<probe, output, held, tick, ticks, fatals, failures>>
vars == <<configVars, lineVars, childVars, unitVars, func, probeVars, stopped>>

Init ==
  /\ platform \in Platforms /\ reaction \in Reactions \union {"none"}
  /\ limitValid \in BOOLEAN
  /\ sent = <<>> /\ relayed = 0 /\ arrived = 0 /\ fetched = 0 /\ read = 0
  /\ reader = "unborn" /\ writeEnd = TRUE /\ child = "running"
  /\ relay = (IF platform = "unix" THEN "none" ELSE "accept")
  /\ conn = (IF platform = "unix" THEN "open" ELSE "none")
  /\ handles = [id \in Ids |-> 0] /\ active = {}
  /\ func = "started"
  /\ probe = "none" /\ output = <<>> /\ held = FALSE
  /\ tick = FALSE /\ ticks = 0 /\ stopped = FALSE
  /\ fatals = 0 /\ failures = 0
-----------------------------------------------------------------------------
(* The child and its line to the runner.                                   *)

(* Lines the kernel holds on the child's end; a full pipe blocks the child.*)
Unread ==
  IF platform = "unix" THEN Len(sent) - fetched ELSE Len(sent) - relayed

Write(line) ==
  /\ conn = "open" /\ func \in {"started", "select"}
  /\ Len(sent) < (IF reaction = "none" THEN MaxLines ELSE MaxLinesProbed)
  /\ Unread < PipeCapacity
  /\ sent' = Append(sent, line)
  /\ arrived' = IF platform = "unix" THEN arrived + 1 ELSE arrived
  /\ UNCHANGED <<configVars, relay, relayed, writeEnd, readVars, childVars,
                 unitVars, func, probeVars, stopped>>

(* On Windows the child finds an address in its environment, and may never *)
(* connect to it.  The kernel takes the connection before Accept does.     *)
Dial ==
  /\ platform = "windows" /\ conn = "none" /\ child # "gone"
  /\ relay = "accept"
  /\ conn' = "open"
  /\ UNCHANGED <<configVars, lineVars, child, unitVars, func, probeVars,
                 stopped>>

(* The channel is closed and the child goes on.                            *)
HangUp ==
  /\ conn = "open"
  /\ conn' = "closed"
  /\ UNCHANGED <<configVars, lineVars, child, unitVars, func, probeVars,
                 stopped>>

(* The child ends, or the descendant that it left.                         *)
ChildEnds ==
  /\ \/ child = "running" /\ child' \in {"left", "gone"}
     \/ child = "left" /\ child' = "gone"
  /\ conn' = IF child' = "gone" /\ conn = "open" THEN "closed" ELSE conn
  /\ UNCHANGED <<configVars, lineVars, unitVars, func, probeVars, stopped>>

Child == (\E line \in Lines : Write(line)) \/ Dial \/ HangUp \/ ChildEnds
-----------------------------------------------------------------------------
(* The relay on Windows, a goroutine nobody waits for.                     *)

(* Accept waits for a connection, for ever if the child makes none.        *)
Accept ==
  /\ relay = "accept" /\ conn # "none"
  /\ relay' = "copy"
  /\ UNCHANGED <<configVars, sent, relayed, arrived, writeEnd, readVars,
                 childVars, unitVars, func, probeVars, stopped>>

(* Accept fails: the listener is closed, and so is the pipe.               *)
AcceptFails ==
  /\ relay = "accept"
  /\ relay' = "done"
  /\ writeEnd' = FALSE
  /\ conn' = IF conn = "open" THEN "closed" ELSE conn
  /\ UNCHANGED <<configVars, sent, relayed, arrived, readVars, child,
                 unitVars, func, probeVars, stopped>>

(* The relay writes to the pipe whose write end Func has closed: the error *)
(* is ignored, and the line is gone.                                       *)
Relay ==
  /\ relay = "copy" /\ relayed < Len(sent)
  /\ writeEnd => arrived - fetched < PipeCapacity
  /\ relayed' = relayed + 1
  /\ arrived' = IF writeEnd THEN arrived + 1 ELSE arrived
  /\ UNCHANGED <<configVars, sent, relay, writeEnd, readVars, childVars,
                 unitVars, func, probeVars, stopped>>

(* The connection has ended (a reset may lose what was in it): the relay   *)
(* closes the pipe, if Func has not.                                       *)
RelayEnds ==
  /\ relay = "copy" /\ conn = "closed"
  /\ relay' = "done"
  /\ writeEnd' = FALSE
  /\ UNCHANGED <<configVars, sent, relayed, arrived, readVars, childVars,
                 unitVars, func, probeVars, stopped>>

Relaying == Accept \/ Relay \/ RelayEnds
-----------------------------------------------------------------------------
(* ReadLoopWithLimit on the control pipe.                                  *)

(* The scanner reads what there is when its buffer holds no whole line.    *)
Fetch ==
  /\ reader = "running" /\ read = fetched /\ fetched < arrived
  /\ func = "select"
  /\ fetched' \in fetched + 1 .. arrived
  /\ UNCHANGED <<configVars, sent, relayVars, read, reader, childVars,
                 unitVars, func, probeVars, stopped>>

NextLine == sent[read + 1]

ReadLine(types) ==
  /\ reader = "running" /\ read < fetched
  /\ NextLine.type \in types
  /\ read' = read + 1
  /\ UNCHANGED <<configVars, sent, relayVars, fetched, childVars, func,
                 probeVars, stopped>>

(* Mutant of PassLine: a line that is refused ends the loop.               *)
PassLineOrEnd ==
  /\ ReadLine({"signal", "bad"})
  /\ reader' = IF NextLine.type = "bad" THEN "done" ELSE reader
  /\ UNCHANGED unitVars

(* Mutant of PassLine: a line is used only while Func waits for the child. *)
PassLineInTime ==
  /\ ReadLine({"signal", "bad"}) /\ func = "select"
  /\ UNCHANGED <<reader, unitVars>>

(* A signal goes to the engine; a line that is refused is reported.        *)
PassLine ==
  /\ ReadLine({"signal", "bad"})
  /\ UNCHANGED <<reader, unitVars>>

(* The scanner gives up, and so does the loop; nothing is reported.        *)
LongLine ==
  /\ ReadLine({"long"})
  /\ reader' = "done"
  /\ UNCHANGED unitVars

(* Mutant of BeginUnit: a number that is in use keeps its handle.          *)
BeginUnitFirstWins ==
  /\ ReadLine({"unit_begin"})
  /\ active' = active \union {read'}
  /\ handles' = [handles EXCEPT ![NextLine.id] = IF @ = 0 THEN read' ELSE @]
  /\ UNCHANGED reader

(* A number that is in use gets a new handle.                              *)
BeginUnit ==
  /\ ReadLine({"unit_begin"})
  /\ active' = active \union {read'}
  /\ handles' = [handles EXCEPT ![NextLine.id] = read']
  /\ UNCHANGED reader

(* A number that is not in the map is ignored.                             *)
EndUnit ==
  /\ ReadLine({"unit_end"})
  /\ active' = active \ {handles[NextLine.id]}
  /\ handles' = [handles EXCEPT ![NextLine.id] = 0]
  /\ UNCHANGED reader

(* All of the buffer is used and the pipe is at its end or closed.         *)
ReaderEnds ==
  /\ reader = "running" /\ read = fetched
  /\ \/ func = "join"
     \/ /\ fetched = arrived /\ ~writeEnd
        /\ platform = "windows" \/ conn = "closed"
  /\ reader' = "done"
  /\ UNCHANGED <<configVars, sent, relayVars, fetched, read, childVars,
                 unitVars, func, probeVars, stopped>>

Reader == Fetch \/ PassLine \/ LongLine \/ BeginUnit \/ EndUnit \/ ReaderEnds
-----------------------------------------------------------------------------
(* Func.                                                                   *)

(* The child has been started: Func closes its copy of the write end and   *)
(* starts the read loop and the probe, which runs its command at once.  A  *)
(* limit that is not a number ends the read loop before its first line.    *)
Launch ==
  /\ func = "started"
  /\ func' = "select"
  /\ writeEnd' = FALSE
  /\ reader' = IF limitValid THEN "running" ELSE "done"
  /\ probe' = IF reaction = "none" THEN "none" ELSE "run"
  /\ UNCHANGED <<configVars, sent, relay, relayed, arrived, fetched, read,
                 childVars, unitVars, output, held, tick, ticks, fatals,
                 failures, stopped>>

(* The child has been reaped: probeStop(); controlR.Close()                *)
Cleanup ==
  /\ func = "select" /\ child # "running"
  /\ func' = "join"
  /\ stopped' = TRUE
  /\ UNCHANGED <<configVars, lineVars, childVars, unitVars, probeVars>>

(* Mutant of Join: the wait group counts the probe.                        *)
JoinProbe ==
  /\ func = "join" /\ reader = "done" /\ probe = "done"
  /\ func' = "returned"
  /\ UNCHANGED <<configVars, lineVars, childVars, unitVars, probeVars,
                 stopped>>

(* wg.Wait() counts the reader and not the probe.                          *)
Join ==
  /\ func = "join" /\ reader = "done"
  /\ func' = "returned"
  /\ UNCHANGED <<configVars, lineVars, childVars, unitVars, probeVars,
                 stopped>>
-----------------------------------------------------------------------------
(* StartCommandProbe.  One goroutine makes all the runs, so the swap of    *)
(* running in runOnce always succeeds and no run is ever skipped.          *)

Tick ==
  /\ probe \notin {"none", "done"} /\ ticks < MaxTicks
  /\ ticks' = ticks + 1
  /\ tick' = TRUE
  /\ UNCHANGED <<configVars, lineVars, childVars, unitVars, func, probe,
                 output, held, fatals, failures, stopped>>

(* The command leaves a process that holds its output, or that process     *)
(* ends: cmd.Run waits for the end of the output.                          *)
HoldOutput ==
  /\ probe = "run" /\ ~stopped /\ ~held
  /\ held' = TRUE
  /\ UNCHANGED <<configVars, lineVars, childVars, unitVars, func, probe,
                 output, tick, ticks, fatals, failures, stopped>>

ReleaseOutput ==
  /\ held
  /\ held' = FALSE
  /\ UNCHANGED <<configVars, lineVars, childVars, unitVars, func, probe,
                 output, tick, ticks, fatals, failures, stopped>>

(* Mutant of CommandEnds: a run that the stop ended counts as a failure.   *)
CommandEndsUnchecked(out) ==
  /\ probe = "run" /\ ~held /\ (stopped => out = Failure)
  /\ probe' = IF out = <<>> THEN "wait" ELSE "use"
  /\ output' = out
  /\ UNCHANGED <<configVars, lineVars, childVars, unitVars, func, held,
                 tick, ticks, fatals, failures, stopped>>

(* Mutant of CommandEnds: the context does not kill the command.           *)
CommandRunsOn(out) ==
  /\ probe = "run" /\ ~held /\ ~stopped
  /\ probe' = IF out = <<>> THEN "wait" ELSE "use"
  /\ output' = out
  /\ UNCHANGED <<configVars, lineVars, childVars, unitVars, func, held,
                 tick, ticks, fatals, failures, stopped>>

(* The context kills the command, and then its outcome is ignored.         *)
CommandEnds(out) ==
  /\ probe = "run" /\ ~held /\ (stopped => out = Failure)
  /\ probe' = IF stopped \/ out = <<>> THEN "wait" ELSE "use"
  /\ output' = IF stopped THEN <<>> ELSE out
  /\ UNCHANGED <<configVars, lineVars, childVars, unitVars, func, held,
                 tick, ticks, fatals, failures, stopped>>

(* A failure is counted, and with fail-probe onFatal stops the probe and   *)
(* terminates the child.                                                   *)
UseFailure ==
  /\ probe = "use" /\ output = Failure
  /\ probe' = "wait"
  /\ output' = <<>>
  /\ failures' = failures + 1
  /\ IF reaction = "fail-probe"
     THEN stopped' = TRUE /\ fatals' = fatals + 1
     ELSE UNCHANGED <<stopped, fatals>>
  /\ UNCHANGED <<configVars, lineVars, childVars, unitVars, func, held,
                 tick, ticks>>

(* ReadLoop on the output: bad lines are counted, a long one ends it, and  *)
(* units are not for a probe to begin or end.                              *)
UseLine ==
  /\ probe = "use" /\ output # Failure
  /\ output' = IF limitValid /\ Head(output).type # "long" THEN Tail(output)
               ELSE <<>>
  /\ probe' = IF output' = <<>> THEN "wait" ELSE "use"
  /\ failures' = IF limitValid /\ Head(output).type = "bad" THEN failures + 1
                 ELSE failures
  /\ UNCHANGED <<configVars, lineVars, childVars, unitVars, func, held,
                 tick, ticks, fatals, stopped>>

(* The select picks either case when both are ready.                       *)
NextRun ==
  /\ probe = "wait" /\ tick
  /\ probe' = "run"
  /\ tick' = FALSE
  /\ UNCHANGED <<configVars, lineVars, childVars, unitVars, func, output,
                 held, ticks, fatals, failures, stopped>>

ProbeEnds ==
  /\ probe = "wait" /\ stopped
  /\ probe' = "done"
  /\ UNCHANGED <<configVars, lineVars, childVars, unitVars, func, output,
                 held, tick, ticks, fatals, failures, stopped>>

Probe == \/ \E out \in Outputs : CommandEnds(out)
         \/ UseFailure \/ UseLine \/ NextRun
-----------------------------------------------------------------------------
Resting == UNCHANGED vars

Next ==
  \/ Child
  \/ Relaying \/ AcceptFails
  \/ Reader
  \/ Launch \/ Cleanup \/ Join
  \/ Tick \/ HoldOutput \/ ReleaseOutput
  \/ Probe \/ ProbeEnds
  \/ Resting

Spec == Init /\ [][Next]_vars

(* Goroutines that can run do run, and the context kills the probe's       *)
(* command.  Nothing is assumed of the child, which need not connect, of   *)
(* the ticker, of how long a command runs by itself, or of processes that  *)
(* hold its output.                                                        *)
KilledEnds == stopped /\ CommandEnds(Failure)

Fairness ==
  /\ WF_vars(Relaying) /\ WF_vars(Reader)
  /\ WF_vars(Launch) /\ WF_vars(Cleanup) /\ WF_vars(Join)
  /\ WF_vars(KilledEnds) /\ WF_vars(UseFailure \/ UseLine)
  /\ SF_vars(ProbeEnds)

FairSpec == Spec /\ Fairness
=============================================================================
