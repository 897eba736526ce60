SPECIFICATION Spec
CONSTANTS
    a1 = a1
    a2 = a2
    a3 = a3
    b = b
    big = big
    empty = empty
    Refused = Refused
    EmptyGraph = EmptyGraph
    None = None
    Width = 2
    Job = {a1, a2, a3, b}
    Gen <- MCGen
    Key <- MCKey
    MaxFaults = 0
SYMMETRY Symmetry
INVARIANTS
    JobsPlaced
    ReturnsWhenAnswered
    OnlyStaleCancelled
PROPERTIES
    ImplementsSlotQueue
CHECK_DEADLOCK FALSE
