CONSTANTS
    N = 2
    None = None
    Cores = {0, 1}
    ClusterSize = 1
    MaxRounds = 2
    Options <- NearOrLarge
    RegionNum = 2
    TryLimit = 2
    MaxDist = 2
    LocalityThresh = 0
    SizeThresh = 3
    InitialOwners <- OneTaken
    KillRounds <- UnlessSplit
SPECIFICATION Spec
INVARIANTS
    TypeOK
    NoCoreIsLost
    LocatedIsHolder
    QuietBetweenRounds
    OnlySigintOrEmptyPartCrashes
    FinalAssignmentIsRight
    NobodyWinsOnlyWhenSettled
PROPERTIES
    Termination
    IsCoreOwnership
\* After SIGINT, or when an agent has missed the winner of an election or come to
\* a part without cores, the program may hang or end.
CHECK_DEADLOCK FALSE
