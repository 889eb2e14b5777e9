SPECIFICATION Spec
CONSTANTS
    NodeIds = {1, 2, 3, 256}
    Configs <- MCConfigs
    MaxTries = 2
INVARIANTS NamesRoundTrip
CHECK_DEADLOCK FALSE
