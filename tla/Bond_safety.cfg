SPECIFICATION FairSpec
CONSTANTS
    p1 = p1
    p2 = p2
    t1 = t1
    t2 = t2
    t3 = t3
    k1 = k1
    None = None
    Process = {p1, p2}
    Turn = {t1, t2, t3}
    Key = {k1}
    Home <- MCHome
    KeyOf <- MCKeyOf
    TTL = 2
    Notifying = {t2}
INVARIANTS
    TypeOK
    MutexWhileLeased
PROPERTIES
    ActsForOwnProcess
    KeepsPromise
    EveryLockIsFreed
CHECK_DEADLOCK FALSE
