SPECIFICATION BtcFairSpec
CONSTANTS
    MaxBatch = 1
    BlobId = {1}
    InclusionProof = {"client"}
    MaxAggregatedBlocksToCommit = 1
    MaxAggregatedProofsToCommit = 1
    MaxTxsInFlight = 1
    BlockConfirmations = 1
    BlockResend = 1
    PromptMining = FALSE
    MaxEvictions = 1
    MaxReorgs = 0
    MaxTxs = 3
    MaxCrashes = 0
PROPERTIES
    StuckIsResent
