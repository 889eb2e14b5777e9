SPECIFICATION Spec
CONSTANTS
    Voters = {"n1"}
    Data = {"a"}
    None = None
    HardStates <- MCHardStates
    Snapshots <- MCSnapshots
    MaxIndex = 4
    MaxTerm = 2
    MaxBatch = 3
INVARIANTS SlotHoldsItsIndex PersistMatchesLoop AcceptedBatchIsReadBack
