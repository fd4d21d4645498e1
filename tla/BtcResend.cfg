SPECIFICATION BtcSpec
CONSTANTS
    MaxBatch = 1
    BlobId = {1}
    InclusionProof = {"client"}
    MaxAggregatedBlocksToCommit = 1
    MaxAggregatedProofsToCommit = 1
    MaxTxsInFlight = 1
    BlockConfirmations = 2
    BlockResend = 2
    PromptMining = FALSE
    MaxEvictions = 1
    MaxReorgs = 1
    MaxTxs = 4
    MaxCrashes = 1
INVARIANTS
    ProofReferencesConfirmedCommit
    ConfirmedIsOnChain
PROPERTIES
    ConfirmedIsNotResent
