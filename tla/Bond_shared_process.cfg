SPECIFICATION Spec
CONSTANTS
    p1 = p1
    p2 = p2
    t1 = t1
    t2 = t2
    t3 = t3
    k1 = k1
    None = None
    Process = {p1, p2}
    Turn = {t1, t2, t3}
    Key = {k1}
    Home <- MCHome
    KeyOf <- MCKeyOf
    TTL = 2
    Notifying = {}
INVARIANTS
    LeasedTurnsExclude
CHECK_DEADLOCK FALSE
