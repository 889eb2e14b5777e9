SPECIFICATION Spec
CONSTANTS
    n1 = n1
    n2 = n2
    n3 = n3
    Voters <- MC3Voters
    Data = {"a"}
    None = None
    MaxTerm = 4
    Electors <- MCRivals
    Links <- MCNoReturn
    MaxLog = 1
    MaxRpc = 1
INVARIANTS ElectionSafety MatchIsReplicated CommitSafety
PROPERTIES CommittedPrefixStable VoteStability
CHECK_DEADLOCK FALSE
