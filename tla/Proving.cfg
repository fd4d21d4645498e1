SPECIFICATION ProvingSpec
CONSTANTS
    BasicCircuits <- Circuits
    RecursionArity = 2
    MaxAttempts = 3
    Provers = 2
    MaxFaults = 2
INVARIANTS
    AggregatesAllProofs
    ProofIsOfAllCircuits
    SentIsStored
    GeneratedIsKept
PROPERTY BatchIsProven
CHECK_DEADLOCK FALSE
