SPECIFICATION Spec
CONSTANTS
    None = None
    p1 = p1
    p2 = p2
    Process = {p1, p2}
    KernelOf <- MCKernelOf
    Requested <- MCRequested
    LimitsOf <- MCLimitsOf
    CapabilityOf <- MCCapabilityOf
    DriverVersion = 12090
    Cached <- MCCached
    s1 = s1
    s2 = s2
    Caller = {c1, c2, c3}
    Pair = {s1, s2}
    NoPair = NoPair
    Bench = {c2}
    PoolFaults = 2
    OffGrid = OffGrid
    UnitMilli = 4
    I8Max = 7
    F24Max = 15
    I32Max = 127
    MsaMaxDegree = 2
    PrepKernel = {"Sa", "Msa", "Gibbs"}
    PrepGraphs <- MCGraphs
    PrepDevice <- MCPrepDevice
    PrepJobs = 2
INVARIANTS
    LoadedIsOwn
    CacheWhole
    DeclaredIsServed
    CapacityFits
    PoolSafe
    SessionSafe
    UploadFaithful
    PlanSound
PROPERTIES
    CallersReturn
CHECK_DEADLOCK FALSE
