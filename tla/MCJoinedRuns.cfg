SPECIFICATION Spec
CONSTANTS
  r1 = r1
  r2 = r2
  j1 = j1
  Runs = {r1, r2}
  Joiners = {j1}
  Asks <- AsksOne
  Retention = 1
  MaxRetained = 1
  MaxTime = 1
  MaxCancels = 1
INVARIANTS
  KeepsWhatItPromised
  JoinsTellTheOutcome
  OnlyStrandedRunsRefused
  ShutdownSettlesRows
PROPERTIES
  EveryJoinEnds
CHECK_DEADLOCK FALSE
