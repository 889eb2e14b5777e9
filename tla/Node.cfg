SPECIFICATION LoopSpec
CONSTANTS
    ElectionTimeout = 5
    HeartbeatInterval = 2
    RpcTimeout = 3
    Slots = {s1, s2}
    StableFor = 6
    None = None
INVARIANTS TypeOK NoLostWakeup
PROPERTIES DeadlinesAreServed HelloAfterStableLead
