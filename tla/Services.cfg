SPECIFICATION ServicesSpec
CONSTANTS
    o1 = o1
    o2 = o2
    t1 = t1
    t2 = t2
    AutoHandoff = AutoHandoff
    None = None
    Operator = {o1, o2}
    Turn = {t1, t2}
    WithColon = {AutoHandoff}
    TTL = 2
    MaxFaults = 1
    Desk = {ana, bo, cy}
    Editor = {ana, bo, cy}
    MaxVersion = 3
    MaxCalls = 5
    Instance = {p1, p2}
    Writer = {ana, bo}
    Config = {old, newer}
    NoLink = NoLink
    MaxWrites = 2
    act = act
    look = look
    send = send
    hand = hand
    open = open
    close = close
    toNew = toNew
    toHome = toHome
    ghost = ghost
    home = home
    new = new
    Signature = {act, look, send, hand, open, close, toNew, toHome, ghost}
    Handoff = hand
    PlanOpen = open
    PlanDone = close
    Subject <- MCSubject
    Delivery = {send}
    Critical = {act}
    Unregistered = {ghost}
    Topic = {home, new}
    HomeTopic = home
    Echoes <- MCEchoes
    Policy <- MCPolicy
    MaxIterations = 4
    MaxActions = 5
    MaxTries = 2
    MaxAttempts = 2
    MaxTrouble = 1
    SpiritTurn = {"ta", "tb"}
    SpiritKind = {"agent", "llm", "template"}
    OnExceed = {"block", "alert"}
    Limit = 2
    MaxTokens = 2
    LastMonth = 2
    MaxPulses = 3
    Fact = {"vegan"}
    Extraction = {"x1", "x2"}
    MaxImprints = 1
    MaxLines = 2
    MaxSaves = 3
    Receptor = {"whatsapp_360dialog", "telegram", "api_default"}
    Webhook = {"w1", "w2", "w3"}
    Carries <- MCCarries
    Sender <- MCSender
    Own = {"b"}
    Handler = {"d1", "d2"}
    MaxExecuting = 2
    MaxConcurrent = 1
    MaxDeliveries = 2
    MaxMishaps = 1
    Client = {"twilio", "dialog360", "chat"}
    SendAttempts = 3
    MaxSends = 1
    Spirit = {"desk", "triage", "billing"}
    NoSpirit = "none"
    SubSpirits <- MCSubSpirits
    Targets <- MCTargets
    Routes <- MCRoutes
    MaxDepth <- MCMaxDepth
    MaxHandoffs <- MCMaxHandoffs
    Parallel = {"desk"}
    Selectable = {"desk", "triage"}
    MaxFrames = 4
    MaxTurns = 2
    EventBuffer = 1
    FrameBuffer = 1
    ModelCalls = 2
    MaxDeltas = 1
    PayloadPulses = 2
    Setup <- MCSetup
    MaxFiles = 2
    Required = {"repositories"}
    Wired = {"vigil"}
    Stored = {"iterations"}
    Unstored = {"outputGuard"}
    Budget = {4, 12}
    Lease = {6, 14}
    Oracle = {"openai", "gemini"}
    Channel <- MCChannel
    Preset <- MCPreset
    BuilderCalls = 4
    Conversation = {"c1", "c2"}
    Name = {"sales", "desk"}
    Cased = {"Desk"}
    SameName <- MCSameName
    Nobody = ""
    Links <- MCLinks
    DefaultPathfinder = "default_llm_pathfinder"
    SubNames <- MCSubNames
    Tool = {"i", "j"}
    ToolName = {"find"}
    OwnActions = {}
    MaxVersions = 2
    MaxChanges = 2
    MaxCasts = 2
    Store = {"mongo", "qdrant", "pgvector", "pinecone", "weaviate"}
    Source <- MCSource
    NoDocument = "none"
    Ingestor = {1, 2}
    MaxChunks = 2
    MaxIngests = 2
    Deletable = {"faq"}
    Provider = {"openai", "anthropic", "bedrock", "gemini", "ollama"}
    MaxParts = 3
    Oracles = {"openai", "anthropic", "bedrock", "gemini", "ollama"}
    Action = {"find", "order"}
    MaxBatch = 2
    MaxAnswers = 2
VIEW PartView
INVARIANTS
    ServicesTypeOK
    SeatIsTheirs
    HoldingIsBacked
    TakeoverSilences
    ChainsBounded
    AuthorOwnsSession
    ResumedIsDecided
    OneActiveVersion
    CachesConverge
    CallsAnswered
    ResumeGoesOn
    ConversationPinned
    ResultsReachCalls
    AnswersAreFresh
    OverrunIsBounded
    StreamIsWhole
    HandledExactlyOnce
    NoCopyUnexplained
    FactsAreKeptOnce
    AnswersAreWhole
    ArtifactsReachTheModel
    EngineIsAsAsked
    CastIsOwn
CHECK_DEADLOCK FALSE
