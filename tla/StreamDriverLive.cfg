SPECIFICATION FairSpec
CONSTANTS
    a1 = a1
    a2 = a2
    a3 = a3
    b = b
    big = big
    empty = empty
    Refused = Refused
    EmptyGraph = EmptyGraph
    None = None
    Width = 2
    Job = {a1, big, empty}
    Gen <- MCGen
    Key <- MCKey
    MaxFaults = 1
PROPERTIES
    EveryJobAnswered
    Returns
CHECK_DEADLOCK FALSE
