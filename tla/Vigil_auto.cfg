SPECIFICATION Spec
CONSTANTS
    o1 = o1
    o2 = o2
    o3 = o3
    t1 = t1
    t2 = t2
    AutoHandoff = AutoHandoff
    None = None
    Operator = {o1, o2, o3}
    Turn = {t1, t2}
    WithColon = {AutoHandoff}
    TTL = 2
    MaxFaults = 0
INVARIANTS
    SeatBlocksSpirit
CHECK_DEADLOCK FALSE
