SPECIFICATION FairSpec
CONSTANTS
    d1 = d1
    d2 = d2
    c1 = c1
    None = None
    Delivery = {d1, d2}
    Client = {c1}
    MaxRituals = 3
    MaxRuns = 2
    LastRun = 2
    MaxFaults = 1
INVARIANTS
    TypeOK
    RunsOnce
    NoPhantomPending
PROPERTIES
    TerminalIsFinal
    EveryRitualSettles
CHECK_DEADLOCK FALSE
