SPECIFICATION FairSpec
CONSTANTS
    Blocks = 2
    EmptyChunk <- LastChunkEmpty
    MaxUploads = 1
CHECK_DEADLOCK FALSE
PROPERTIES
    AllLeave
