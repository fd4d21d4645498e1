SPECIFICATION DaFairSpec
CONSTANTS
    MaxBatch = 1
    MaxRowsToDispatch = 1
    MaxRetries = 1
    UseDummyInclusionData = TRUE
    DispatchRealProof = FALSE
    MaxFaults = 1
    MaxBlobs = 4
PROPERTIES
    BlobsAreIncluded
