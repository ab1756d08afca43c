SPECIFICATION Spec
CONSTANTS
    d1 = d1
    d2 = d2
    c1 = c1
    None = None
    Delivery = {d1, d2}
    Client = {c1}
    MaxRituals = 2
    MaxRuns = 0
    LastRun = 1
    MaxFaults = 0
INVARIANTS
    RecurrenceContinues
CHECK_DEADLOCK FALSE
