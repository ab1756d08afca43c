SPECIFICATION Spec
CONSTANTS
    a1 = a1
    a2 = a2
    a3 = a3
    p1 = p1
    p2 = p2
    p3 = p3
    k1 = k1
    k2 = k2
    k3 = k3
    None = None
    Orphan = Orphan
    Pulse = {p1, p2, p3}
    Attempt = {a1, a2, a3}
    Key = {k1}
    PulseOf <- MCPulseOfInbox
    KeyOf <- MCKeyOfInbox
    RekeyOf <- MCKeyOfInbox
    SpiritRekeyOf <- MCSpiritRekeyOfInbox
    Stateless = {}
    HasInbox = TRUE
    HasIdempotency = TRUE
    PopIsAtomic = TRUE
    MaxFaults = 0
INVARIANTS
    BusyIsCoalesced
CHECK_DEADLOCK FALSE
