SPECIFICATION Spec
CONSTANTS
    n1 = n1
    n2 = n2
    n3 = n3
    c1 = c1
    c2 = c2
    None = None
    Nodes <- MCPair
    Conns = {c1, c2}
    Ends <- MCTwin
    Knows <- MCEverybody
    Callers = {n1, n2}
    MaxId = 1
INVARIANTS TypeOK
PROPERTIES CallsAreUnary
CHECK_DEADLOCK FALSE
