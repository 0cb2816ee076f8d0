SPECIFICATION Spec
CONSTANTS
  LimitFlags = {"hard", "idle"}
  Durations <- SomeDurations
  TimeoutExits <- SomeExits
  MaxOptions = 3
INVARIANTS
  InvalidRunsNothing
  ResultWhole
