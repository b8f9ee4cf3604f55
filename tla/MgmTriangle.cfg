CONSTANTS
    N = 3
    NeighborList <- Triangle
    MaxDistance = 3
    MaxImprove = 1
    Evals = {"finite", "INF"}
    InitialViews <- AllFree
    KillEnabled = FALSE
    Resources = {r1}
SPECIFICATION Spec
INVARIANTS
    TypeOK
    NeighborsNeverMoveTogether
    RoundsStayApart
    NoInconsistentView
    VerdictIsRight
    OnlyOvertakenStopsAreEarly
