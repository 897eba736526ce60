SPECIFICATION Spec
CONSTANTS
    Neighbour = {n1}
    Self = Self
    Load = 60
    OwnLoad = 100
    CliCeiling = 50
    Override = {0}
    Ticks = 2
    Update <- MCUpdate
    NoKey = NoKey
    MinSamples = 2
    KeptMax = 2
    Chunk = 2
    Topology <- MCTopology
    Params <- MCParams
    Budgets = {1000, 300}
    IndexSize = 8
    MAX_DEGREE = 2
    FixedShared = 280
    Lanes = 16
    MaxGroups = 3
    LaunchTime = 12
    Elapsed = {1, 3, 8}
    MaxNonces = 17
    Height = {0, 1, 2, 3}
    Denominator = 16
    MaxSeen = 20
    Bucket = {b1, b2}
    NoMark = NoMark
    EnvFlag = {"1", "0"}
    EnvWindow = {0, 2}
    DefaultWindow = 3
    LastTime = 7
INVARIANTS
    ThrottleJustified
    SelectorSound
    AdjacencyExact
    ScreenedInOrder
    MarkersOrdered
    WindowsFit
PROPERTIES
    ResumesWhenQuiet
CHECK_DEADLOCK FALSE
