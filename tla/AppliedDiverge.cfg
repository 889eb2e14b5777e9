SPECIFICATION Spec
CONSTANTS
    n1 = n1
    n2 = n2
    n3 = n3
    Voters <- MC3Voters
    Data = {"a"}
    None = None
    MaxTerm = 4
    Electors <- MCReturning
    Links <- MCRing
    MaxLog = 1
    MaxRpc = 2
INVARIANTS StateMachineSafety
CHECK_DEADLOCK FALSE
