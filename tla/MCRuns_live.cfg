CONSTANTS
    r1 = r1
    r2 = r2
    r3 = r3
    Runs = {r1, r2, r3}
    NoRun = NoRun
    Requests <- AskedRequests
    CancelModes <- WaitedCancel
    MaxCancels = 1
    MaxFaults = 1
    MaxForeign = 0
    SettleRetry = TRUE
SPECIFICATION LiveSpec
PROPERTIES
    EveryRunEnds
    EveryRequestAnswered
    EverySettleHappens
