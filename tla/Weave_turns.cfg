SPECIFICATION FairSpec
CONSTANTS
    a1 = a1
    a2 = a2
    a3 = a3
    p1 = p1
    p2 = p2
    p3 = p3
    k1 = k1
    k2 = k2
    k3 = k3
    None = None
    Orphan = Orphan
    Pulse = {p1, p2}
    Attempt = {a1, a2, a3}
    Key = {k1, k2, k3}
    PulseOf <- MCPulseOf
    KeyOf <- MCKeyOf
    RekeyOf <- MCRekeyOf
    SpiritRekeyOf <- MCSpiritRekeyOf
    Stateless = {}
    HasInbox = TRUE
    HasIdempotency = TRUE
    PopIsAtomic = FALSE
    MaxFaults = 1
INVARIANTS
    TypeOK
    ConversationKept
    LocksReturned
    OneReply
PROPERTIES
    EveryAttemptEnds
    SessionsAreSerial
CHECK_DEADLOCK FALSE
