SPECIFICATION Spec
CONSTANTS
    Width = 1
    Job = {j1, j2}
    None = None
    Kernel = "gibbs"
    MaxFaults = 0
INVARIANTS
    LeavesOnlyOnExit
