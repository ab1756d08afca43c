SPECIFICATION ReasoningSpec
CONSTANTS
    look = look
    hand = hand
    open = open
    close = close
    home = home
    Signature = {look, hand, open, close}
    Handoff = hand
    PlanOpen = open
    PlanDone = close
    Subject <- MCSubject
    Delivery = {}
    Critical = {}
    Unregistered = {}
    Topic = {home}
    HomeTopic = home
    Echoes <- MCEchoes
    Policy <- MCPolicy
    MaxIterations = 4
    MaxActions = 5
    MaxTries = 1
    MaxAttempts = 1
    MaxTrouble = 0
INVARIANTS
    RecentKept
CHECK_DEADLOCK FALSE
