SPECIFICATION DaSpec
CONSTANTS
    MaxBatch = 2
    MaxRowsToDispatch = 2
    MaxRetries = 1
    UseDummyInclusionData = TRUE
    DispatchRealProof = TRUE
    MaxFaults = 1
    MaxBlobs = 6
INVARIANTS
    StoredBlobIsOwn
    InclusionIsOfStoredBlob
    NoUnexplainedBlob
PROPERTY
    ImplementsPromise
