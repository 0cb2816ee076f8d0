---------------------------- MODULE IntakeProps -----------------------------
(***************************************************************************)
(* What the control channel and the command probe guarantee.               *)
(***************************************************************************)
EXTENDS Intake

(* The line that ends unit n: the first end of its number that was read    *)
(* after its begin and before the number was used again.                   *)
EndsUnit(n, m) ==
  /\ sent[m] = End(sent[n].id)
  /\ \A k \in n + 1 .. m - 1 : sent[k] # Begin(sent[n].id)

(* The engine's units are those the child began and has not ended: an end  *)
(* reaches the unit that was begun last under its number and no other, and *)
(* only a unit whose number is used again while it is open can never be    *)
(* ended (applyEnvelope).                                                  *)
UnitsPaired ==
  active = {n \in 1 .. read : /\ sent[n].type = "unit_begin"
                              /\ ~ \E m \in n + 1 .. read : EndsUnit(n, m)}

(* A probe fails its execution at most once, although the select may start *)
(* another run after the stop, and only if it was told to: the error of    *)
(* Func is that of the failure which stopped the probe (runOnce, onFatal). *)
FatalOnce ==
  /\ fatals <= (IF reaction = "fail-probe" THEN 1 ELSE 0)
  /\ fatals > 0 => stopped
-----------------------------------------------------------------------------
ReadLong == \E n \in 1 .. read : sent[n].type = "long"

Blocked == conn = "open" /\ Unread = PipeCapacity

Over == func \in {"join", "returned"}

(* Lines that are refused do not stop the read loop: a child that fills    *)
(* its channel is not blocked for ever (ReadLoopWithLimit; Accept and the  *)
(* loop of the relay).  ReadLoop needs a valid limit for that, which the   *)
(* command sees to and Runner.Run does not.                                *)
ChildUnblocked ==
  (Blocked /\ limitValid /\ ~ReadLong) ~> (~Blocked \/ ReadLong \/ Over)

(* The read loop gets through what it fetched, also when Func has closed   *)
(* the pipe meanwhile: no line is left in the scanner's buffer for good.   *)
BufferUsed == reader = "running" => read = fetched

LinesUsed == []<>BufferUsed

(* Func returns when the child has ended, whatever it had sent, even if a  *)
(* descendant keeps the control channel open and the command of the probe  *)
(* never returns (controlR.Close, wg.Wait; the output is in Runner).       *)
FuncReturns == child # "running" ~> (func = "returned")

(* A stopped probe ends, unless other processes keep its output open: a    *)
(* tick that is ready with the stop starts at most runs that are killed.   *)
ProbeStops == <>[]~held => (stopped ~> (probe \in {"none", "done"}))

(* A line over the limit is an error of that line alone: what the child    *)
(* sends after it is still read.                                           *)
LongLineIgnored == (Blocked /\ limitValid) ~> (~Blocked \/ Over)
=============================================================================
