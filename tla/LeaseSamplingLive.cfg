SPECIFICATION FairSpec
CONSTANTS
    l1 = l1
    l2 = l2
    SaltsOfL1 = 2
    Lease = {l1, l2}
    MaxSalts = 2
    Salts <- MCSalts
    ChunkMax = 2
    MaxFaults = 0
PROPERTIES
    DeviceRetires
    TurnComes
CHECK_DEADLOCK FALSE
