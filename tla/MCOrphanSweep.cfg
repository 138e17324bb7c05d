CONSTANTS
    w1 = w1
    w2 = w2
    Workers = {w1, w2}
    NoWorker = NoWorker
    Unreliable = {w1}
    MaxRuns = 1
    Outcomes = {"success", "error", "interrupted"}
    Beat = 1
    Timeout = 3
    MaxFaults = 1
    MaxCrashes = 1
SPECIFICATION FairSpec
INVARIANTS
    ReportedOnce
    LiveRunsSurvive
    OwnRunsNeverSwept
PROPERTIES
    OrphansEnd
    ThreadsReleased
