SPECIFICATION Spec
CONSTANTS
    KnownTokens = {"TOK", "USD"}
    SmartContracts = {"pair", "farm", "wrap", "router", "locked", "distribution", "provider", "esdt", "metabonding"}
    People = {"alice", "bob"}
    Providers = {"provider"}
    EsdtContract = "esdt"
    MetabondingContract = "metabonding"
    DeployAddress = "deploy"
    MexActive = TRUE
    MexSettings <- MCMexSettings
    Hashes = {"swap", "pay"}
    Tx <- MCTx
    Results <- MCResults
    Logs <- MCLogs
    MaxTroubles = 2
CHECK_DEADLOCK FALSE
INVARIANTS NeverForgotten CompletedIsFinal NoMovementLost
