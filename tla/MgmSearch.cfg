CONSTANTS
    Resources = {1, 2, 3, 4}
    Tile <- MCTile
    Type <- MCType
    Scale = 8
    Self = 1
    Neighbors = {2, 3}
    Problems <- MCProblems
    InitialViews <- MCInitialViews
    MaxMoves = 1
SPECIFICATION Spec
INVARIANTS
    TypeOK
    EveryImprovementIsReal
    SearchFindsTheBest
    FreeBeforeForeign
    NativeAndLuaAgree
PROPERTIES
    OptimumIsKnown
