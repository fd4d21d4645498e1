SPECIFICATION MetadataSpec
CONSTANTS
    MaxBatch = 3
    WindowSize = 2
    MaxStops = 1
    MaxL1BatchesPerIter = 2
INVARIANTS
    ReadsStateBeforeBatch
    NoCheckFails
    MerklePathsAreComplete
    SavedIsRecorded
PROPERTIES
    KeepsPromise
    SealedIsCommitted
CHECK_DEADLOCK FALSE
