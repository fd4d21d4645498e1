SPECIFICATION MempoolFairSpec
CONSTANTS
    Alice = Alice
    Bob = Bob
    Account <- MCAccount
    Submitted <- Replace
    Capacity = 9
    SyncBatchSize = 2
    SealQueueCapacity = 1
    RemoveStuckTxs = TRUE
    Price = {1}
    MaxSubmitted = 4
    MaxRestarts = 1
INVARIANTS
    NonceIsExact
    ExecutedIsRecorded
PROPERTY
    NextIsExecuted
CHECK_DEADLOCK FALSE
