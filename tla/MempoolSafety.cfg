SPECIFICATION MempoolSpec
CONSTANTS
    Alice = Alice
    Bob = Bob
    Account <- MCAccount
    Submitted <- Deposits
    Capacity = 2
    SyncBatchSize = 2
    SealQueueCapacity = 1
    RemoveStuckTxs = FALSE
    Price = {1, 2}
    MaxSubmitted = 4
    MaxRestarts = 1
INVARIANTS
    StoreIsConsistent
    PriorityOpsInOrder
CHECK_DEADLOCK FALSE
