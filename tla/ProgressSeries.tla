--------------------------- MODULE ProgressSeries ---------------------------
(***************************************************************************)
(* What a progress report means for the stall clock (progress.go).        *)
(*                                                                         *)
(* A report is quantitative when its total is positive.  Consecutive       *)
(* quantitative reports with the same stage and total form a series, and   *)
(* within a series only a count above the previous one is meaningful.      *)
(* The engine remembers one series: that of the last report it accepted.   *)
(***************************************************************************)
EXTENDS Integers

CONSTANT Texts  \* the strings used as stages and status messages

(* Go's empty string, under a name that stands out in a trace.             *)
EmptyText == "(empty)"

ASSUME TextsAssumption == EmptyText \in Texts

Report == [stage: Texts, current: Int, total: Int]

(* progressSeries: the engine's memory of the previous report.  hasQuant   *)
(* says whether that report was quantitative.                              *)
Series == [stage: Texts, total: Int, current: Int, hasQuant: BOOLEAN]

EmptySeries ==
  [stage |-> EmptyText, total |-> 0, current |-> 0, hasQuant |-> FALSE]

Quantitative(p) == p.total > 0

(* execution.Progress returns without recording such a report.             *)
Malformed(p) == Quantitative(p) /\ p.current < 0

SameSeries(prev, p) == prev.stage = p.stage /\ prev.total = p.total

(* classifyProgress, the series remembered after the report.               *)
NextSeries(p) ==
  IF Quantitative(p)
  THEN [stage |-> p.stage, total |-> p.total, current |-> p.current,
        hasQuant |-> TRUE]
  ELSE [EmptySeries EXCEPT !.stage = p.stage]

(* Mutant of Meaningful: a repeated count restarts the stall clock.        *)
MeaningfulIfRepeated(prev, p) ==
  \/ ~Quantitative(p)
  \/ ~prev.hasQuant
  \/ ~SameSeries(prev, p)
  \/ p.current >= prev.current

(* classifyProgress, stallUpdate: does the report restart the stall clock? *)
(* (Its idleUpdate is always true: every report is activity.)              *)
Meaningful(prev, p) ==
  \/ ~Quantitative(p)
  \/ ~prev.hasQuant
  \/ ~SameSeries(prev, p)
  \/ p.current > prev.current
=============================================================================
