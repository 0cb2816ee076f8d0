SPECIFICATION Spec
CONSTANTS
  Texts = {"(empty)", "a"}
  Policies <- IdlePolicy
  Reports <- OneReport
  Messages = {}
  Stragglers = TRUE
  MaxTime <- Ticks
  MaxUnits <- Units
INVARIANTS
  SnapshotConsistent
