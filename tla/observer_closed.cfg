SPECIFICATION Spec
CONSTANTS
  Capacity = 2
  DropPolicies <- BothPolicies
  LateCalls = {"signal", "unit"}
  MaxEvents = 4
INVARIANTS
  NoPanic
