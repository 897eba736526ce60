SPECIFICATION FairSpec
CONSTANTS
    Width = 1
    Job = {j1, j2}
    None = None
    Kernel = "sa"
    MaxFaults = 2
PROPERTIES
    EveryJobAnswered
    Released
