SPECIFICATION Spec
CONSTANTS
    Blocks = 2
    EmptyChunk <- NoEmptyChunk
    MaxUploads = 1
INVARIANTS
    OneSlotPerModel
