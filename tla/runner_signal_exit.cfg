SPECIFICATION Spec
CONSTANTS
  Platforms = {"unix"}
  MaxOutput = 0
  ProbeFatal = FALSE
  TimeoutExit = 124
  SignalExit = TRUE
INVARIANTS
  SignalExitMeansKill
