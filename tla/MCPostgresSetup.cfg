SPECIFICATION FairSpec
CONSTANTS
  w1 = w1
  w2 = w2
  u1 = u1
  Workers <- Replicas
  Users <- Callers
  IndexCount = 2
  MaxStarts = 2
  MaxFailures = 2
INVARIANTS
  NoPoolLeaks
  IndexedMeansValid
PROPERTIES
  NoBuildIsDropped
  EveryStartEnds
CHECK_DEADLOCK FALSE
