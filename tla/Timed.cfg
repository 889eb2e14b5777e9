SPECIFICATION Spec
CONSTANTS
    n1 = n1
    n2 = n2
    n3 = n3
    Voters <- MCVoters
    Data = {"a"}
    None = None
    ElectionTimeout <- MCTimeouts
    HeartbeatInterval = 1
    RpcTimeout = 2
    MaxFrame = 2
    MaxTerm = 5
    Starts <- MCStarts
    MaxLog = 2
    MaxLate = 1
    MaxCuts = 1
    MaxOutage = 4
PROPERTIES StableLeader EveryoneCatchesUp
