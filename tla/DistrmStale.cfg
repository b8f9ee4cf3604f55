CONSTANTS
    N = 2
    None = None
    Cores = {0, 1, 2}
    ClusterSize = 2
    MaxRounds = 2
    Options <- OnlyWide
    RegionNum = 2
    TryLimit = 2
    MaxDist = 2
    LocalityThresh = 1
    SizeThresh = 1
    InitialOwners <- OneEach
    KillRounds <- Never
SPECIFICATION Spec
INVARIANTS
    StaleStopIsSettled
CHECK_DEADLOCK FALSE
