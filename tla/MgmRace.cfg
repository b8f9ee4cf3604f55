CONSTANTS
    N = 2
    NeighborList <- Pair
    MaxDistance = 3
    MaxImprove = 1
    Evals = {"finite"}
    InitialViews <- AllFree
    KillEnabled = FALSE
    Resources = {r1}
SPECIFICATION Spec
INVARIANTS
    StaleStopIsQuiet
