CONSTANTS
    r1 = r1
    r2 = r2
    Runs = {r1, r2}
    NoRun = NoRun
    Requests <- Superseding
    CancelModes <- EveryCancel
    MaxCancels = 1
    MaxFaults = 0
    MaxForeign = 1
    SettleRetry = FALSE
SYMMETRY Symmetry
SPECIFICATION Spec
INVARIANTS
    StreamedRunSettlesRow
    TerminalEventMatchesRow
    SuccessNeverStrandsThread
    CancelKeepsItsWord
PROPERTIES
    TerminalIsFinal
