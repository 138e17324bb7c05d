CONSTANTS
    r1 = r1
    r2 = r2
    c1 = c1
    c2 = c2
    c3 = c3
    w1 = w1
    w2 = w2
    NoRun = NoRun
    Thread = Thread
    Runs = {r1, r2}
    Callers = {c1, c2, c3}
    Workers = {w1, w2}
    Home <- TwoProcesses
    Backends = {"memory", "sqlite", "postgres", "mongo"}
    Calls <- ThreeCalls
    FirstRows <- Tables
    PoolSize = 1
    MaxTroubles = 1
SPECIFICATION FairSpec
CHECK_DEADLOCK FALSE
INVARIANTS
    EndedOnce
    EndsStand
    ClaimsAreReported
    RunsKeepTheirThread
    CreatesAgree
PROPERTIES
    EveryCallEnds
