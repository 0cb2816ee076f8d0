------------------------------ MODULE MCEngine ------------------------------
(***************************************************************************)
(* Small instances of Engine for TLC.                                      *)
(***************************************************************************)
EXTENDS EngineProps

Limits(hard, unit, stall, idle) ==
  [hard |-> hard, unit |-> unit, stall |-> stall, idle |-> idle]

(* A policy alone, pairs that can tie, all four, no policy, a negative     *)
(* duration.                                                               *)
AllPolicies ==
  {Limits(0, 0, 2, 0), Limits(3, 0, 2, 1), Limits(0, 1, 0, 0),
   Limits(2, 1, 2, 1), Limits(0, 0, 0, 0), Limits(3, 0, 0, -1)}

IdlePolicy == {Limits(0, 0, 0, 1)}

(* Units and time multiply: two units, to blame one or the other, where    *)
(* there is no limit but theirs, which one tick reaches; one unit with the *)
(* other limits and two ticks; no units and four ticks.                    *)
UnitsUnder(p) ==
  CASE p.unit = 0 -> 0 [] p.unit > 0 /\ p.hard = 0 -> 2 [] OTHER -> 1

Units == [p \in Policies |-> UnitsUnder(p)]

TicksUnder(p) ==
  CASE p.unit = 0 -> 4 [] p.unit > 0 /\ p.hard = 0 -> 1 [] OTHER -> 2

Ticks == [p \in Policies |-> TicksUnder(p)]

Quant(stage, current, total) ==
  [stage |-> stage, current |-> current, total |-> total]

(* Two counts of one series, a second stage, and a malformed report.       *)
AllReports ==
  {Quant("a", 1, 2), Quant("a", 2, 2), Quant("b", 1, 2), Quant("a", -1, 2)}

(* One report: its first arrival starts a series, the others repeat it.    *)
OneReport == {Quant("a", 1, 2)}
=============================================================================
