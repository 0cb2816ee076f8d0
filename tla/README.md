# A TLA+ verification of timeout / timeoutx

This directory specifies the Go library `timeout` and the command `timeoutx` in
TLA+. TLC checks the specifications on small instances, and the TLA+ proof
system (TLAPS) proves, for all instances, all the safety properties that hold
(but one on `ENABLED`) and, from hypotheses that section 4 names, all liveness
properties but three.
Every definition was translated from the source; paths below are relative to
the root of the repository.

## 1. The system

`timeout.Run` calls a function, `Func`, under an *execution policy*: a hard
limit on the whole run, an idle limit (no activity), a stall limit (no
meaningful progress) and a limit for each unit of work. `Func` gets an
`Execution` handle on which it, and any goroutine it starts, reports activity.
A monitor goroutine compares the clocks with the limits; the first limit to be
exceeded is the *verdict*, which cancels the context of the execution. `Run`
does not interrupt `Func`: it waits for it and returns a `Result`. The command
`timeoutx run` is a `Func` that starts a child process, turns what the child
writes into signals, and ends the child's process group when its context is
canceled.

| Component | State | Operations | Talks to |
|---|---|---|---|
| Engine (`execution.go`) | clocks, series, units, verdict, `state`, all under `e.mu` | `Heartbeat`, `Status`, `Progress`, `BeginUnit`, `End`, `Snapshot`; `monitor`; `finish` | callers in any goroutine, the clock, the context, the observer |
| Progress (`progress.go`) | the series of the last report | `classifyProgress` | engine, under its lock |
| Observer (`observer.go`) | a buffered channel, a drop counter | `emit`, `loop`, `EventsDropped`, `close` | engine (which emits under `e.mu`), the user's `OnEvent` |
| Clocks (`clock.go`) | `ManualClock`: time under a mutex, a one-element channel | `Now`, `Advance`, `Watcher` | monitors |
| Configuration (`config.go`, `policy.go`) | immutable after `New` | options, `Config.Run` | engine |
| Process runner (`process/runner.go`) | the child, pipes, goroutines, `cmdErr`, `probeFatal`, `killedBySIGKILL` | `Runner.Run` | engine as its `Func`; the operating system |
| Unix termination (`process/terminate_unix.go`) | none of its own | `terminateProcessGroup` | the process group |
| Windows termination (`process/terminate_windows.go`) | the handle of the job object, the relay's connection | `attachJob`, `closeJob`, `terminateProcessGroup`, `prepareControlFD` | the job, the control pipe |
| Control protocol (`protocol/`) | the scanner's buffer | `ReadLoop`, decoding | runner (`applyEnvelope` with its map of handles), probe |
| Command probe (`probe.go`) | the probe's context, `running`, diagnostics | periodic runs, `onFatal` | runner |
| Command line (`cmd/timeoutx`), event writer, result file | flags; the temporary file and the result | `run`: parse, check, open, run, map, write, exit | runner |

What is hard about it:

- *Concurrency in the engine.* `finish` takes and releases `e.mu` several times
  while the monitor may give a verdict, callers may signal and the parent may be
  canceled. A `Func` may leave goroutines behind that go on calling the handle.
- *Emission under the lock.* Events go to the observer inside critical sections
  that the timeouts need too, into a bounded queue, with two drop policies; the
  consumer, the counter and the close do not take the lock.
- *Wakeups.* With a `ManualClock` nothing polls: a lost notification is a lost
  timeout. The notification is sent outside the clock's lock.
- *Processes.* A child may be ended by itself, by SIGTERM, by SIGKILL or by
  others, may ignore SIGTERM, and may leave a descendant that keeps its pipes
  open. Two goroutines may terminate the group at once, `cmd.Wait` reaps the
  child under their feet, and a `select` picks at will between the child's exit
  and the canceled context. On Windows the job's handle is looked at before the
  grace period and used after it, while `closeJob` may close it.
- *Lines from the child.* They pass a pipe, on Windows a relay in front of it, and
  a scanner whose buffer is bounded; units are known by numbers the child
  chooses, and may use twice. The probe's `select` can start another run after
  the probe was stopped.
- *Mistakes and failures of the command.* They are found in four places, each
  with its own way out; the result file is replaced in four steps of which each
  may fail, and a signal may end the command between any two.

What makes each component correct, in brief: a verdict is justified, has the
right priority, is final and is what the `Result` says; an exceeded limit is
noticed and `Run` returns; only advances restart the stall clock; events arrive
in order and drops are accounted for; nobody blocks on an observer; no wakeup is
lost; a run leaves no zombie, loses no output, terminates what it says it
terminates and reports an exit code that can be trusted; a unit's end reaches the
unit that was begun with its number; a child that talks is not blocked; a probe
fails its execution once; an invalid command line runs nothing; the result file
is never half written.

`PROJECT.json` lists the components with their status and every hazard found
while reading the code, at its line, with the properties that guard it.

## 2. Modules

| Module | Models | Extends |
|---|---|---|
| `ProgressSeries` | `classifyProgress` and the malformed reports `Progress` refuses | |
| `Engine` | `Run`, signals, units, monitor, `finish`, the context | `ProgressSeries` |
| `Outcome` | abstract: what one execution promises its caller | |
| `Lifecycle` | abstract: how the monitor, `finish` and the context stop an execution | |
| `EngineProps`, `MCEngine` | properties; instances for TLC | `Engine` |
| `EngineProofs` | proofs about `Engine` | `EngineProps` |
| `Observer` | the channel operations of `emit`, the consumer, the counter, the close, with the emitting skeleton of `execution.go` | |
| `LossyQueue` | abstract: what the observer's queue promises | |
| `ObserverProps`, `MCObserver` | properties, with the refinement of `LossyQueue`; instances for TLC | `Observer` |
| `ObserverProofs` | proofs about `Observer`: invariants, refinement | `ObserverProps` |
| `LossyQueueProofs` | proofs about `LossyQueue` | `LossyQueue` |
| `ObserverGuarantees` | proofs: what follows from the refinement for the user of an observer, for which configurations nothing panics and every drop is counted, that emitters are not blocked | `ObserverProofs`, an instance of `LossyQueueProofs` |
| `ManualClock` | `Advance`, the shared notification, the monitors that wait for it; with its properties | |
| `ManualClockProofs` | proofs about `ManualClock` | `ManualClock` |
| `Runner`, `RunnerProps` | `Func` of `Runner.Run`, both `terminateProcessGroup`, the processes of the group or job, exit codes; properties | |
| `RunnerProofs` | proofs about `Runner` | `RunnerProps` |
| `Intake`, `IntakeProps` | the control channel, the handles of units, the command probe; properties | |
| `IntakeProofs` | proofs about `Intake` | `IntakeProps` |
| `Command`, `CommandProps`, `MCCommand` | `timeoutx run` from its flags to its exit status, the event stream, the result file; properties; an instance for TLC | |
| `CommandProofs` | proofs about `Command` | `CommandProps` |

**Engine.** A method of `Execution` holds `e.mu` for its whole body and reads
the clock inside, so it is one action. `finish` is four: the first critical
section with the cancellation (`StopMonitor`), the wait for the monitor and the
read of the clock, which is outside the lock (`JoinMonitor`), the second
critical section (`CommitFinish`), and the switch, which reads `parent.Err()`
(`ClassifyResult`). The monitor is `tryTimeout` (`MonitorTimeout` if it commits a
verdict, else `MonitorPass`) and the two ways out of its `select`. Map iteration
over the units is a choice among the overdue ones. `Stragglers` says whether
goroutines outlive `Func`. `run` and `monitor` are program counters;
`detectedAt` is a history variable, the timestamp of the timeout event.

`Engine` and `Observer` each model the same methods with another half of their
bodies: policies and signals in the one, the lock and the emissions in the other.
What they share, the order in which monitor, `finish` and context stop an
execution, is `Lifecycle`, and both are proved to follow it. `Outcome` has two
implementations as well, `Engine` and the reduced engine inside `Runner`.

**Observer.** `e.mu` is the variable `holder`, since the consumer, the counter
and the close ignore it. Each `select` of `emit` is an action or two: `Send`,
`QueueFull`, `Evict`, `CountDrop`, `SendOnClosed`. An event is its position in
`log`, so that order, loss and duplication can be told. Verdicts may come at any
time, `LateCalls` says what goroutines that outlive `Func` call.

**ManualClock.** `Advance` is two actions, `AdvanceTime` under the lock and
`AdvanceNotify` after it, and `advancing` counts the calls that are between the
two. Several executions may share the clock. Each has one limit here, and the
moment from which it counts, which signals move or not; all policies together
are in `Engine`. `takenAt`, a history variable, is when a monitor took its last
notification: all executions share one place for it, so that one of them may take
what another needs.

`LossyQueue` is what `Observer` promises the user's `OnEvent`: events come in the
order in which they were emitted and none twice, and one is lost only because
the queue was full, the new one under DropNewest (and counted), the oldest under
DropOldest (and not counted). `ObserverProps` maps the log, the channel and the
consumer to it; the two halves of an eviction are two steps of the queue.

**Runner.** `func` is where `Func` is; the goroutines of `cmd.Wait`, the pumps
and the control reader, and each caller of `terminateProcessGroup`, have their
own state. The child and one descendant are the environment: they fork, write,
close the output, exit, and obey or ignore SIGTERM as they like. The two output
pipes behave alike and one stands for both. The engine is reduced to a verdict
and a cancellation at any time and to the status `finish` computes. `platform`
chooses between the two termination files: a process group that is found through
the child until it is reaped, or a job object (`job`, `members`) that the child is
put into after it has started, so that a descendant it already has stays outside,
and without which only the child is killed.

**Intake.** `sent` is the series of lines the child ever wrote, and `relayed`,
`arrived`, `fetched` and `read` are how far the relay, the kernel, the scanner and
the read loop have come. A line is a signal, the begin or the end of a unit, one
that decoding refuses, or one that does not fit the scanner. `handles` is
`unitHandles`; a unit is known by the position of the line that began it, so that
two units with one number can be told apart. `Func` closes its copy of the pipe's
write end once the child has it, which on Windows cuts off the relay: its writes
fail from then on and their errors are ignored (`runner.go:137`). The relay itself
(`relay`) waits in `Accept` for a connection (`conn`), which the child may never
make, copies until the connection ends, and closes the pipe then or when `Accept`
fails. A line limit that is not a number (`limitValid`) ends the read loop at once;
the command refuses it (`main.go:52`), so only other callers of `Runner.Run` meet
it. The probe is a goroutine with its command, its output, a ticker with one place
and a context.

**Command.** Options are read one at a time and are checked where the code checks
them: while parsing, after it, when the event stream is opened, and by the
engine, which refuses negative limits. A run then ends in any way it can
(`Runner` and `Engine` say which), `mapExitCode` computes the exit code, and
`writeResultJSON` is three steps that may fail each. The command may be killed at
any moment.

A component's *mutants*, operators that change one definition as a plausible bug
would, stand before the definition they change; no specification uses them. They
show that each property can fail.

## 3. Runs

| Run | Question | Instance |
|---|---|---|
| `engine` | Are verdicts justified, prioritised, final, what the `Result` reports and what its snapshot shows? Is only an active unit blamed? Is every exceeded limit noticed, does `Run` return, and does the engine implement `Outcome`? | six policies (units alone, pairs that tie, all four, none, an invalid one), four reports, two units and one tick to four ticks without units, goroutines outlive `Func` |
| `engine_snapshot` | Is the snapshot of the `Result` a consistent view? **No** | an idle limit, one report, four ticks |
| `observer_delivery` | Does the observer's channel implement `LossyQueue`? Are the kinds of events in order, the reported drops right, does the holder of `e.mu` always have a next step and does `emit` return, does everything drain, and who can panic? | queue of two, both drop policies, four events and the last one |
| `observer_closed` | May any goroutine call the handle? **No** | as above |
| `clock` | Is a monitor that sleeps past its limit always about to be woken, or robbed by another execution? Does it notice the limit then, and never early? | two executions on one clock, limits 1 and 2, steps 1 and 2, any overlap of `Advance` calls |
| `runner_processes` | Reaping, output, termination, exit codes, return | Unix and Windows, child and descendant, a fatal probe |
| `runner_group` | Does a timeout end the group? **No** | Unix, no output needed |
| `runner_signal_exit` | Does 137 mean SIGKILL? **No** | Unix, no output needed |
| `intake` | Do ends reach the units they belong to, does the probe fail a run at most once and stop, is the child never blocked by lines that are refused, is what was fetched used up, does `Func` return? | Unix and Windows, a pipe of two lines; three lines without a probe, one line and one tick with it |
| `intake_long` | Does a line over the limit cost only that line? **No** | Unix, a pipe of two lines, three lines |
| `command` | Does an invalid command line run nothing, is the result file whole? | two limits, up to three options, kills at any moment |
| `command_zero` | Can exit status 0 be trusted? **No** | one limit, up to two options |

Why the bounds are enough. In the engine only differences between moments and
limits matter: limits of 1 to 3 and a clock of 4 allow every order of two
deadlines, ties, and a signal before, at and after a deadline. Units and time
multiply, so the bounds depend on the policy: two units where theirs is the only
limit, which give overlap, nesting and an arbitrary choice of the one to blame,
and one unit with two ticks where it can tie with the other limits. In the
observer a queue of two holds an event to evict and one to keep, and four events
and the final one overflow it under both policies; a longer queue adds no new
state of `emit`. The clock's buffer has one place by construction, so two
overlapping calls of `Advance` are the interesting case, for which two time units
are enough, and two executions are enough for one to take the other's
notification. In the runner the second process makes the group differ from the
child, and one chunk of output, from either process, may be copied late or early;
the proofs cover any number. In the intake, three lines begin a number twice and
end it, begin it, end it and begin it again, or are a long line followed by enough
to fill a pipe of two; the read loop does not know the probe, so the two are
combined only with one line, and one tick can be ready with the stop. Three
options are enough for the mistakes of two flags together with a limit that
expires; the proofs cover any number. `MaxTime`, `MaxUnits`, `MaxEvents`,
`MaxOutput`, `MaxLines`, `MaxLinesProbed`, `MaxTicks` and `MaxOptions` bound the
environment and never stop a goroutine of the program.

Deadlock is checked in every run. The steps `Returned`, `Quiet`, `Resting`
and `Finished` say where the program legitimately waits for ever: it has
returned, all monitors sleep with nothing to wake them, or `Func` waits for
processes that do not end.

### Fairness

- *Engine*: the scheduler runs a goroutine that can run (weak fairness for the
  look of the monitor and for `finish`), the ticker keeps firing (weak fairness for
  `MonitorTick`), and a `select` does not ignore a ready case for ever (strong
  fairness for `MonitorExit`, since Go picks uniformly among the ready cases).
  Nothing is assumed of `Func`, callers, clock or parent.
- *ManualClock*: the same, and a call of `Advance` finishes.
- *Observer*: weak fairness for the steps of whoever holds the lock, for the
  consumer's receive and for the monitor's exit; strong fairness for `finish`,
  which needs the lock, because `sync.Mutex` lets no goroutine starve. None for
  `OnEvent`: that it returns is a hypothesis of `Drained` alone.
- *Runner*: goroutines that can run do run and grace periods end. Nothing is
  assumed of the processes, of the policy or of the parent: SIGTERM may be
  ignored for ever, and a descendant may live for ever.
- *Intake*: goroutines that can run do run (for the relay `Relaying`: a connection
  that was made is accepted; that `Accept` fails is never assumed), a context that
  is canceled kills the
  command of the probe (weak fairness for `KilledEnds`), and the probe's `select`
  does not ignore the stop for ever (strong fairness for `ProbeEnds`). Nothing is
  assumed of the child, of the ticker, of how long the probe's command runs by
  itself, or of processes that keep its output open: that they end is the
  hypothesis of `ProbeStops` alone.
- *Command*: none is stated, its properties are invariants.

## 4. Proofs

`EngineProofs` is about `Spec` of `Engine` for every set of policies, reports and
messages, every bound, and with or without goroutines that outlive `Func`. The
assumptions are those on the constants in `ProgressSeries` and `Engine`, which
say what set each constant belongs to.

- `TypeCorrect`: `[]TypeOK`.
- `Invariance`: `[]IInv`, the inductive invariant. None of the safety properties
  is inductive alone. `ResultAgrees`, for instance, speaks of a `Result` that is
  filled in while the lock is free; it holds because the monitor has left before
  the second critical section, no signal is accepted once the state is finished,
  and so what was copied there cannot change any more. `IInv` says this: it ties
  the verdict, the context and the partly filled `Result` to the positions of the
  monitor and of `finish`, and adds that all recorded moments are past ones, so
  that a unit begun after the verdict is never overdue at the verdict.
- From it follow `VerdictsJustified`, `PriorityKept`, `ResultsAgree`,
  `ContextHasCause`, and the action properties `VerdictsFinal` and
  `OnlyActiveUnitsBlamed`.
- `EngineImplementsOutcome`: `Spec => ImplementsOutcome`. The refinement maps a
  run that has returned to a closed promise, a verdict before that to an expired
  one; a step of the engine is a step of `Outcome` or a stutter, by `IInv`.
- `EngineFollowsLifecycle`: `Spec => FollowsLifecycle`. The read of the clock
  between the join and the commit, and where the monitor is in its loop, are
  stutters. By `IInv` a verdict has canceled the context, no verdict comes once
  `finish` has committed, and `finish` commits only after the monitor has left.
- `ActivityCoversProgress` and `StallClockNeedsAdvance` are about the two clocks
  that signals restart; they need only types, and the case analysis of
  `classifyProgress`, for every report.
- `SnapshotsExplain`: the snapshot of a timed-out `Result` shows the blamed clock
  past its limit. Its invariant (`SnapInv`) says that the clock is read after the
  verdict, since `finish` joins the monitor first, and that no signal moves the
  blamed clock after it. Nothing is assumed of goroutines that outlive `Func`; what
  the snapshot of a run without a verdict shows is in section 5.

`ManualClockProofs` is for any number of executions on one clock: the types, that
no verdict is early (`NeverEarly`), and that a monitor sleeps past its limit only
if a notification is on the way or another execution has taken it since the clock
was moved, however calls of `Advance` overlap (`WakeupsNotLost`). With one
execution there is no other, and no wakeup is lost; with more, one may be (section
5).

`ObserverProofs` is for a channel of any size, any number of events, both
policies and any late calls.

- `QueueInvariance`: types, and that a holder of the lock who has evicted an event
  finds room. Nobody else sends, which is why an event is never dropped after an
  eviction; `TypeCorrect` follows.
- `ObserverImplementsQueue`: by the invariant every step maps to one of the lossy
  queue or to a stutter. An eviction and the send after it are the two halves of
  the abstract replacement, and the reader may take events in between.
- `SignalsNeverPanic` adds the order of `finish`, of the monitor's exit and of the
  close (`PhaseInv`): the state is finished before the channel is closed, so the
  methods that look at the state cannot be the ones that send too late.
- `EventsOrdered` adds the order of the kinds in the log (`LogOrder`), which is
  inductive only with what the position of `finish` says of the last entries
  (`LogPhase`).
- `DropsReported` counts the lost events (`DropInv`): with `DropNewest` there are
  never more than the counter says, and whoever holds the lock after the counter
  was read emits a unit's event or the last one.
- `ObserverFollowsLifecycle` (in `ObserverGuarantees`): what the observer's model
  keeps of `finish` and of the monitor follows the protocol the engine follows.

`IntakeProofs` is for any numbers, pipes and lines. `UnitsArePaired` needs that the
map of handles leads from each number to the latest open unit (`HandleInv`), and
that each party on the way of a line is behind the one before it (`LineInv`).
`FatalAtMostOnce` needs that a failure is used at most once before the stop is
seen, and never after it.

`RunnerProofs` is for both platforms, any amount of output, and any exit settings:
`TimeoutExit` is any integer, as `main.go:133` accepts it, and 0 stands for 124.
Its inductive invariant (`Invariance`) has five parts besides the types. What
`Func` knows of the child (`ProcInv`) gives `NoZombie`. That nothing is written
once nobody holds the pipe (`PipeInv`) gives `AllOutputCopied`. That nobody is
born after a termination, and that a job which is closed under a terminating
goroutine's feet takes its members with it (`TermInv`), gives `NobodySurvives`.
That the runner touches the child only for a reason the `Result` shows
(`TouchInv`) gives `SuccessIsTheChilds`; the delicate case is a probe that fails
when `Func` has already looked for its error: the child is reaped by then and out
of its reach. And `ErrInv` with `DoneInv`, what `mapExitCode` is given and that
nothing of it changes after, gives `CodesTell`. `RunnerKeepsPromise` is the
refinement of `Outcome`: the reduced engine around the processes gives one outcome,
and it is a timeout only after a verdict, as it is proved of the engine itself.

`CommandProofs` is for any flags, durations and exit codes. Its invariant says
which mistakes each stage has screened out, what the end of a run says of the
child, and that a temporary file is renamed only when it is whole; from it follow
`InvalidNeverRuns` and `ResultAlwaysWhole`. That exit status 0 means success is
refuted (section 5); `ZeroHasThreeMeanings` proves that the two ways in which TLC
refutes it are the only ones.

Assumptions are those on the constants, which say what set each belongs to; they
are named where the constants are declared, and TLC evaluates them in the runs.

### What the observer's user may rely on

`LossyQueueProofs` proves of the abstract queue that events are observed in the
order of their numbers and none twice (`ObservedInOrder`: the queue and what was
observed together are rising, since an eviction takes from the front too), and
that the books balance (`LossesCounted`: with `DropNewest` the events observed,
waiting and counted as dropped are all there were). `ObserverGuarantees` carries
both to the observer through the refinement, where they speak of `delivered`, of
the channel and of the counter.

It also draws the line around two of the disagreements of section 5. Without unit
calls of goroutines that outlive `Func` nothing ever panics
(`OnlyLateUnitsPanic`), and with `DropNewest` alone every drop is counted
(`NewestCounted`).

### Liveness

A theorem of this kind has the form `FairSpec /\ []CanStep => F ~> G`. That
fairness makes a goroutine move needs to know that its step is enabled, and
`ENABLED` is out of the prover's reach. What is needed of it is a hypothesis,
written down beside the theorem: `GoroutinesCanStep` in `EngineProofs`,
`AllCanStep` in `ManualClockProofs`, `RunnerCanStep` in `RunnerProofs`,
`IntakeCanStep` in `IntakeProofs`. Each of these pairs the guard of a step with
`ENABLED` of that step, and holds by the definition of the step; they say nothing
about the code and are not among the properties of the runs. The exception is
`HolderCanStep`, the hypothesis of `EmittersNeverBlocked`, which looks at all the
steps of `emit` together and says that the holder of `e.mu` never waits for the
observer; `observer_delivery` checks it. The rest of the argument is proved for
all instances: from which states which steps lead where, and that fairness leaves
no way round.

- `RunAlwaysReturns`: a context that `finish` has canceled, or a verdict, is never
  taken back (`JoinedInv`), so the monitor, which may serve its ticker first any
  number of times, leaves by strong fairness.
- `OverdueAlwaysNoticed`: a passed limit stays passed or is lifted by a signal,
  and the monitor comes round to its look again.
- `LimitsNoticed`: a monitor that sleeps past its limit has a notification, or a
  call of `Advance` that will send one (`WakeupsNotLost`), or another execution has
  taken it.
- `EmittersNeverBlocked`: the holder of `e.mu` goes through at most four steps for
  an event and has at most two events to emit; no step waits for the observer.
- `StoppedProbeEnds`: the output in hand is used up in two steps (`OutputInv`), a
  command started after the stop is killed, and a goroutine that waits again and
  again sees the stop by strong fairness.
- `TerminationKillsAll`: a termination that found the group or the job goes on
  through its grace period to the end whatever the other one, `closeJob` and the
  processes do, and leaves none of them alive.
- `FuncGetsToJoin`: from the last process on, `cmd.Wait` gets its result, `Func`
  leaves its `select` and waits for the termination it has begun, and so comes to
  `wg.Wait`. Neither theorem assumes anything of the pumps or of the processes.

Four theorems have one hypothesis more. Where a loop works through something of
any length (lines in a buffer, output in a pipe), fairness gets it to the end by an
induction over a number with a temporal formula in it, which the prover does not
do. The outcome of that induction is the hypothesis: `OutputCopied`, the pump is
again and again not behind the writers, and `LinesUsed`, the read loop is again
and again through its buffer. Both follow from weak fairness of the pump and of
the loop; `runner_processes` and `intake` check them as properties.

- `ExitAlwaysEnds` and `TerminationAlwaysEnds`: with `OutputCopied`, `Func` gets
  from `wg.Wait` to its return, where nobody can hold it up any more.
- `FuncAlwaysReturns`: with `LinesUsed`, the read loop ends once `Func` has closed
  the channel (`ClosedLoop`), although a descendant may hold it.
- `ChildNotBlocked`: while the pipe is full, the limit is valid and no line was too
  long, the read loop is alive (`LoopInv`), and a loop that is through its buffer
  fetches next, which makes room. On Windows the relay accepts the connection and
  makes room, whatever becomes of the lines.

Only model-checked, at the bounds of section 3:

- `Drained`, `OutputCopied` and `LinesUsed`, which are nothing but such a counting,
  of the events in the channel, of the output and of the lines.
- `HolderCanStep`, which is about `ENABLED`.
- The negative answers of section 5, which need no proof.

The types of the engine, of the observer, of the clock, of the runner and of the
command, and `ProgressIsActivity`, are proved for all instances, and no run
repeats them.

## 5. What the checks found

Six runs show a disagreement between the code and what the repository says of
it; `PROJECT.json` quotes the text.

1. `observer_closed`: `BeginUnit` and `End` do not look at the state of the
   execution and emit to a channel that `Run` closes (`observer.go:89`): a
   goroutine that outlives `Func` panics. The same calls on `Heartbeat`, `Status`
   and `Progress` are safe (`OnlyUnitsPanic`).
2. `engine_snapshot`: `finish` reads the clock before it takes the lock
   (`execution.go:308`). A signal in between is later than the snapshot's time,
   and `IdleFor` is negative in what `result.go:58` calls a consistent view. It
   takes a goroutine that outlives `Func`; the runner leaves some itself, of its
   probes and of the file watcher (`runner.go:176-190`). What a timeout reports is
   not affected (`SnapshotExplains`).
3. `runner_group`: the group is found through the child. Once that is reaped,
   nobody signals the rest of the group, and a descendant that keeps the output
   open holds `Run` for ever, whatever the policy says (`terminate_unix.go:29`,
   `runner.go:208`).
4. `runner_signal_exit`: `killedBySIGKILL` is set after every termination
   (`runner.go:198`), so `--signal-exit` gives 137 without a SIGKILL.
5. `intake_long`: a line that does not fit the scanner ends the read loop for
   good, unreported (`v1.go:125`, `runner.go:156`), and a child that goes on
   sending blocks when its pipe is full.
6. `command_zero`: exit status 0 may also mean a setup that failed before the child
   was started (`runner.go:343`), which `docs/cli.md:37` gives 125, or a timeout
   with a `--timeout-exit` that is a multiple of 256.

Met while modelling, and visible in the models, without a run of their own:

- Under `DropOldest` the evicted event is not counted (`observer.go:94`), and the
  branch that counts is never taken: `EventsDropped` stays 0. A design note
  (`001-Timeoutx-Open-Items-Resolution.md:158`) says "drop 発生時は内部カウンタ
  `events_dropped` を加算する", the counter is incremented whenever a drop occurs.
  `DropsCounted` of `ObserverProps` fails; `LossyQueue` says what the code does.
- A `ManualClock` has one notification for all (`clock.go:57`): of two concurrent
  runs of one `Config`, which `config.go:9` allows ("Config may be reused
  concurrently"), one may sleep past its limit, because the other has taken the
  notification. `TakenFrom` in `NoLostWakeup` and `OverdueNoticed` is this case.
- The control channel of Windows is cut off as soon as the child has started
  (`runner.go:137`), because the relay writes to the end `Func` closes.
- A file that exists and cannot be executed gives 127 (`runner.go:350`), and
  `docs/cli.md:38` lists 126 for it.
- A child that returns an error is reported as succeeded, with its exit code
  (`runner.go:214`).
- No run of the probe is ever skipped (`probe.go:97`), as one goroutine makes them
  all.
- `--kill-after 0` means ten seconds (`runner.go:53`), and `--events-fd 0` is
  ignored (`runner.go:59`).
- On Windows a child that never connects leaves the relay in `Accept`, with its
  goroutine and its listener, for ever (`terminate_windows.go:30`). Nobody waits
  for it.
- With a `TIMEOUTX_MAX_LINE_BYTES` that is not valid the read loop never starts
  (`v1.go:98`) and its error is dropped; the command refuses it before (`main.go:52`),
  other callers of `Runner.Run` do not.
- `timeoutx` catches no signal: when it is killed, its child goes on.

## 6. What is left out

- The watcher of `--progress-file` (`runner.go`), which is not joined either.
- More than one probe: `runner.go:174` starts one for every element of
  `req.Probes`, the command passes at most one, and so do the models.
- More than one connection to the relay, which accepts only the first.
- Wall-clock fields of results, ratios and percentages, formatting of events,
  results and diagnostics, warnings.
- Options of the library that override each other and a `Config` that is reused;
  flags that only pass a value on; the other subcommands and the shell helpers,
  which print one line of the protocol each.
- Unix systems other than Linux: `Runner` lets `Getpgid` find a zombie, as Linux
  does.
- Process numbers and their reuse; processes that leave the group; the length of
  the grace period (it may end at any time, which covers all lengths). A process
  that SIGKILL hits is gone at once.
- Child exit codes other than those few that a property tells apart.
- That the program exits, with `os.Exit`, before a slow observer has written its
  last events (`cmd/timeoutx/main.go:29`).
- The version constant, and the tests, examples and scripts.

## 7. Plan

1. *File watcher*: its polling, and that it may signal the engine after `Func` has
   returned, together with `Observer`'s closed channel.
2. *Composition*: `Intake`'s units and signals as the calls of `Engine`, so that a
   number used twice can be followed to a unit timeout.
3. *Proofs*: the countings of section 4, `Drained` among them, when the prover can
   do an induction over temporal formulas.
