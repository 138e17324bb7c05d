CONSTANTS
    s1 = s1
    s2 = s2
    Subscribers = {s1, s2}
    Events <- Mixed
    Filters <- EachMode
    QueueSize = 1
    MaxHistory = 2
    MaxBytes = 2
    MaxEvents = 3
SPECIFICATION FairSpec
CHECK_DEADLOCK FALSE
INVARIANTS
    NothingIsLost
PROPERTIES
    KeepsContract
    EveryReaderEnds
