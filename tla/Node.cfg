SPECIFICATION FairNodeSpec
CONSTANTS
    MaxPanics = 1
    MaxPolling = 2
    Files <- FilesDef
    Keystores <- KeystoresDef
    Mode = "Active"
    Me <- MeDef
    Configs <- ConfigsDef
    Contracts <- ContractsDef
    Logs <- LogsDef
    Oldest = {0, 1, 3, 4}
    AllowMultipleRpcs = FALSE
    CheckRpcPruning = TRUE
INVARIANTS NoWaitCycle WorkersServed VotersTakeTurns
PROPERTIES ShutdownEnds
CHECK_DEADLOCK FALSE
