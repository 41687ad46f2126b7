SPECIFICATION Spec
CONSTANTS
    Places <- MCPlaces
    Dist <- MCDist
    Between <- MCBetween
    Bearing <- MCBearing
    Free <- MCFree
    Home <- MCHome
    SemanticPlaces <- MCSemanticPlaces
    Zones <- MCZones
    SavedMaps <- MCSavedMaps
    Files <- MCFiles
    Modes <- MCModes
    Bounds <- MCBounds
    Budgets <- MCBudgets
    SearchTargets <- MCSearchTargets
    Span <- MCSpan
    ViewRange = 1
    EdgeMin = 0
    EdgeMax = 2
    NearestRange = 2
    OdomDist = 1
    OdomRadius = 1
    ShortcutRadius = 3
    AnchorLimit = 1
    HistoryRadius = 0
    VisitRadius = 1
    WaypointRange = 1
    SparseRadius = 1
    QueueMax = 1
    MaxSeeds = 0
    StartupReach = 1
    AugmentTimes = 1
    MaxTriggers = 2
    MaxVertices = 8
    MaxMoves = 1
    MaxQueries = 1
    MinSegment = 2
    SafetyReach = 1
    SpareTime = 1
    FineTopK = 2
    MinLength = 1
    TraverseMax = 1
    MaxLowGainIters = 2
    ReachRadius = 2
    SearchRounds = 0
    SearchPaths = 1
    SearchLoops = 0
    SearchCutoff = 1
    SearchVertices = 1
    SearchEdges = 3
INVARIANTS LocalTypeOK DrawsAreCurrent BuildStaysInLimits LocalGraphIsSafe
PROPERTIES LocalPathIsSafe EvaluationIsHonest SearchPathIsSound RoundEnds
CHECK_DEADLOCK FALSE
