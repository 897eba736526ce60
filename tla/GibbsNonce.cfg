SPECIFICATION FairSpec
CONSTANTS
    Blocks = 2
    EmptyChunk <- LastChunkEmpty
    MaxUploads = 3
INVARIANTS
    ModelsWhole
    BarriersMatch
PROPERTIES
    ImplementsWorker
    AllLeaveInStep
CONSTRAINT InStep
