SPECIFICATION Spec
CONSTANTS
    n1 = n1
    n2 = n2
    Nodes <- MCNodes
    Backoff <- MCBackoff
    MaxBreaks = 2
    MaxFailures = 2
    MaxConns = 2
INVARIANTS DialIsUnderWay PendingIsConnected
PROPERTIES EventuallyConnected
