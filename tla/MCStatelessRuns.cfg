SPECIFICATION Spec
CONSTANTS
  MaxCancels = 2
  MaxFailures = 2
INVARIANTS
  DiscardedAtMostOnce
  NoRunOnDiscardedThread
PROPERTIES
  NothingIsLeft
  AbandonedQueuesAreDetached
CHECK_DEADLOCK FALSE
