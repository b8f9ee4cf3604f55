CONSTANTS
    N = 3
    NeighborList <- PairAndOne
    MaxDistance = 3
    MaxImprove = 1
    Evals = {"finite"}
    InitialViews <- Disputed
    KillEnabled = FALSE
    Resources = {r1, r2}
SPECIFICATION Spec
INVARIANTS
    ImprovingTheSameView
PROPERTIES
    IsAssignmentSearch
    Termination
