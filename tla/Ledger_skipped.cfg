SPECIFICATION LedgerSpec
CONSTANTS
    SpiritTurn = {"ta", "tb"}
    SpiritKind = {"template"}
    OnExceed = {"alert"}
    Limit = 2
    MaxTokens = 1
    LastMonth = 1
    MaxPulses = 2
INVARIANTS
    SkippedIsReported
CHECK_DEADLOCK FALSE
