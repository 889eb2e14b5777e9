SPECIFICATION OrderlySpec
CONSTANTS
    n1 = n1
    n2 = n2
    n3 = n3
    Voters <- MC2Voters
    Data = {"a"}
    None = None
    MaxTerm = 3
    Electors <- MCAnyone
    Links <- MCAllLinks
    MaxLog = 2
    MaxRpc = 2
SYMMETRY VoterSymmetry
INVARIANTS LeaderHint LeaderBookkeeping AckedIsStored AppliedWithoutGaps EveryBatchFits InflightIsPending NoSilentStepDown CreditsMatch
PROPERTIES ElectsByBallot
CHECK_DEADLOCK FALSE
