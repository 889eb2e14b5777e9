SPECIFICATION Spec
CONSTANTS
    n1 = n1
    n2 = n2
    n3 = n3
    Voters <- MC3Voters
    Data = {"a"}
    None = None
    MaxTerm = 3
    Electors <- MCRivals
    Links <- MCNoReturn
    MaxLog = 2
    MaxRpc = 1
INVARIANTS TypeOK ElectionInv LogMatching CommitSafety
PROPERTIES LeaderAppendOnly
CHECK_DEADLOCK FALSE
