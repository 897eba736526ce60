SPECIFICATION Spec
CONSTANTS
    l1 = l1
    l2 = l2
    SaltsOfL1 = 3
    Lease = {l1, l2}
    MaxSalts = 3
    Salts <- MCSalts
    ChunkMax = 2
    MaxFaults = 1
INVARIANTS
    HoldsTurn
    AccountedOnce
    VerdictSound
    ResultFits
CHECK_DEADLOCK FALSE
