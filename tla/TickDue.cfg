SPECIFICATION Spec
CONSTANTS
    ElectionTimeout = 4
    HeartbeatInterval = 2
    RpcTimeout = 3
    Slots = {s1, s2}
PROPERTIES TickMovesDeadline
