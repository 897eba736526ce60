SPECIFICATION Spec
CONSTANTS
    Width = 2
    Job = {j1, j2, j3}
    None = None
    Kernel = "sa"
    MaxFaults = 1
SYMMETRY JobSymmetry
INVARIANTS
    TypeOK
    ResultFidelity
    FreedIsQuiet
    LeavesOnlyOnExit
    SlotInv
PROPERTIES
    ImplementsSlotQueue
