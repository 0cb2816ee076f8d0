SPECIFICATION FairSpec
CONSTANTS
  Platforms = {"unix", "windows"}
  MaxOutput = 1
  ProbeFatal = TRUE
  TimeoutExit = 124
  SignalExit = TRUE
INVARIANTS
  ChildReaped
  OutputComplete
  TerminationComplete
  SuccessUntouched
  ExitCodes
PROPERTIES
  TerminationEnds
  ExitEnds
  OutputCopied
