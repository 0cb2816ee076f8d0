SPECIFICATION FairSpec
CONSTANTS
  Platforms = {"unix"}
  MaxOutput = 0
  ProbeFatal = FALSE
  TimeoutExit = 124
  SignalExit = FALSE
PROPERTIES
  TimeoutEndsGroup
