SPECIFICATION WatchSpec
CONSTANTS
    Deposit = {d1, d2, d3}
    Confirmations = 1
    BtcBlocksLag = 2
    BootstrapLists <- Lists
    InitialHeight = 1
    MaxHeight = 5
    MaxReorgs = 1
    MaxDbErrors = 1
    MaxStops = 1
INVARIANTS
    SequencerIsElected
    CreditedIsOnChain
    CreditedOnce
    NothingIsSkipped
    IdsHaveNoGap
PROPERTY LaterDepositIsCredited
CHECK_DEADLOCK FALSE
