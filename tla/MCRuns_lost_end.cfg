CONSTANTS
    r1 = r1
    Runs = {r1}
    NoRun = NoRun
    Requests <- Enqueued
    CancelModes <- EveryCancel
    MaxCancels = 1
    MaxFaults = 1
    MaxForeign = 0
    SettleRetry = FALSE
SYMMETRY Symmetry
SPECIFICATION Spec
INVARIANTS
    TerminalEventMatchesRow
