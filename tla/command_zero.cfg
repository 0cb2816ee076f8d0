SPECIFICATION Spec
CONSTANTS
  LimitFlags = {"hard"}
  Durations <- SomeDurations
  TimeoutExits <- SomeExits
  MaxOptions = 2
INVARIANTS
  ZeroMeansSuccess
