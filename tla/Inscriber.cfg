SPECIFICATION InscriberSpec
CONSTANTS
    Networks = {"regtest", "mainnet"}
    Coin = {c1, c2}
    MaxRequests = 3
    MaxFailures = 1
    MaxReorgs = 1
PROPERTIES
    OldestIsNotReplaced
    InscribeSucceeds
CHECK_DEADLOCK FALSE
