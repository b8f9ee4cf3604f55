CONSTANTS
    N = 3
    NeighborList <- Line
    MaxDistance = 3
    MaxImprove = 1
    Evals = {"finite"}
    InitialViews <- AllFree
    KillEnabled = TRUE
    Resources = {r1}
SPECIFICATION Spec
PROPERTIES
    KillTerminates
\* Without SIGINT the agents of a line may wait for each other forever.
CHECK_DEADLOCK FALSE
