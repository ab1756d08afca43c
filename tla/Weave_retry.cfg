SPECIFICATION Spec
CONSTANTS
    a1 = a1
    a2 = a2
    a3 = a3
    p1 = p1
    p2 = p2
    p3 = p3
    k1 = k1
    k2 = k2
    k3 = k3
    None = None
    Orphan = Orphan
    Pulse = {p1}
    Attempt = {a1, a2}
    Key = {k1}
    PulseOf <- MCPulseOfRetry
    KeyOf <- MCKeyOfInbox
    RekeyOf <- MCKeyOfInbox
    SpiritRekeyOf <- MCSpiritRekeyOfInbox
    Stateless = {}
    HasInbox = TRUE
    HasIdempotency = TRUE
    PopIsAtomic = FALSE
    MaxFaults = 0
PROPERTIES
    RetryIsProcessed
CHECK_DEADLOCK FALSE
