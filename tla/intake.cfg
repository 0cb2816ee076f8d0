SPECIFICATION FairSpec
CONSTANTS
  Platforms = {"unix", "windows"}
  Ids = {1}
  Reactions = {"warn", "fail-probe"}
  PipeCapacity = 2
  MaxLines = 3
  MaxLinesProbed = 1
  MaxTicks = 1
INVARIANTS
  UnitsPaired
  FatalOnce
PROPERTIES
  ChildUnblocked
  FuncReturns
  ProbeStops
  LinesUsed
