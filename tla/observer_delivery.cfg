SPECIFICATION FairSpec
CONSTANTS
  Capacity = 2
  DropPolicies <- BothPolicies
  LateCalls = {"signal", "unit"}
  MaxEvents = 4
INVARIANTS
  HolderCanStep
  ReportedDrops
  EmissionOrder
  OnlyUnitsPanic
PROPERTIES
  ImplementsLossyQueue
  EmitReturnsAlways
  Drained
