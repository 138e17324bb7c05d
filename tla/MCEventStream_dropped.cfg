CONSTANTS
    s1 = s1
    Subscribers = {s1}
    Events <- Mixed
    Filters <- EachMode
    QueueSize = 1
    MaxHistory = 2
    MaxBytes = 4
    MaxEvents = 5
SPECIFICATION Spec
CHECK_DEADLOCK FALSE
PROPERTIES
    DroppedOnlyForEvictedEvents
