SPECIFICATION MempoolSpec
CONSTANTS
    Alice = Alice
    Bob = Bob
    Account <- MCAccount
    Submitted <- Prices
    Capacity = 9
    SyncBatchSize = 2
    SealQueueCapacity = 1
    RemoveStuckTxs = FALSE
    Price = {1, 2}
    MaxSubmitted = 4
    MaxRestarts = 0
INVARIANT
    NonceIsExact
CHECK_DEADLOCK FALSE
