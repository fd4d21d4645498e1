SPECIFICATION BtcFairSpec
CONSTANTS
    MaxBatch = 2
    BlobId = {1}
    InclusionProof = {"client"}
    MaxAggregatedBlocksToCommit = 2
    MaxAggregatedProofsToCommit = 1
    MaxTxsInFlight = 1
    BlockConfirmations = 1
    BlockResend = 3
    PromptMining = TRUE
    MaxEvictions = 0
    MaxReorgs = 0
    MaxTxs = 5
    MaxCrashes = 1
INVARIANTS
    CommitRequestsInOrder
    EachRequestOfOneBatch
    InflightBounded
    InscribedOnce
PROPERTIES
    ReadyBatchIsSettled
