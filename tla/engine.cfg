SPECIFICATION FairSpec
CONSTANTS
  Texts = {"(empty)", "a", "b"}
  Policies <- AllPolicies
  Reports <- AllReports
  Messages = {"a"}
  Stragglers = TRUE
  MaxTime <- Ticks
  MaxUnits <- Units
INVARIANTS
  TimeoutJustified
  PriorityRespected
  ResultAgrees
  ContextDoneForCause
  SnapshotExplains
PROPERTIES
  VerdictFinal
  StallNeedsAdvance
  BlamedUnitActive
  ImplementsOutcome
  OverdueNoticed
  RunReturns
