SPECIFICATION GatesSpec
CONSTANTS
    r1 = r1
    r2 = r2
    r3 = r3
    r4 = r4
    Key <- AllKeys
    Request <- AllRequests
    Keys <- CrossedKeys
    Limit <- EvenLimits
    MaxQueue = 0
    Blockable = {}
    Hash = {h1, h2}
    None = none
    NoGate = no_gate
    Caller <- AllRequests
    MaxInflight = 1
    Client <- AllRequests
    SlotLimit <- CappedRequests
    MaxQueueSize = 2
    DefaultLimit = 3
    Cooldown = {1, 2}
    MaxNow = 2
    MaxTimers = 2
PROPERTIES
    CooldownHolds
CHECK_DEADLOCK FALSE
