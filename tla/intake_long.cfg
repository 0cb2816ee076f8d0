SPECIFICATION FairSpec
CONSTANTS
  Platforms = {"unix"}
  Ids = {}
  Reactions = {}
  PipeCapacity = 2
  MaxLines = 3
  MaxLinesProbed = 0
  MaxTicks = 0
PROPERTIES
  LongLineIgnored
