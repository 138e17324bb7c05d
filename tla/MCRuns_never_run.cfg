CONSTANTS
    r1 = r1
    r2 = r2
    Runs = {r1, r2}
    NoRun = NoRun
    Requests <- Superseding
    CancelModes = {}
    MaxCancels = 0
    MaxFaults = 0
    MaxForeign = 0
    SettleRetry = FALSE
SYMMETRY Symmetry
SPECIFICATION Spec
INVARIANTS
    CancelledRunSettlesRow
