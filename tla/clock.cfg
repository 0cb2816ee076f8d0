SPECIFICATION FairSpec
CONSTANTS
  Runs = {r1, r2}
  Limits = {1, 2}
  Steps = {1, 2}
  MaxTime = 2
INVARIANTS
  NoLostWakeup
  NotEarly
PROPERTIES
  OverdueNoticed
