CONSTANTS
    r1 = r1
    r2 = r2
    Runs = {r1, r2}
    NoRun = NoRun
    Requests <- EveryRequest
    CancelModes = {}
    MaxCancels = 0
    MaxFaults = 1
    MaxForeign = 0
    SettleRetry = TRUE
SYMMETRY Symmetry
SPECIFICATION Spec
INVARIANTS
    OneExecutor
    RejectedRunsNeverOverlap
PROPERTIES
    OnlyARetryUnmarksThreads
    OneTerminalEvent
    OnlyEnqueueJoinsLiveRuns
