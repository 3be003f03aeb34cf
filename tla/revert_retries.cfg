SPECIFICATION Spec
CONSTANTS
    u1 = u1
    k1 = k1
    k2 = k2
    Users <- MCUsers
    Bets = {1, 2, 3}
    Orders = {1, 3}
    OrderOf <- Together
    Payer <- MCPayer
    Mode <- MCMode
    Stake <- MCStake
    Payout <- MCPayout
    Funds <- MCFunds
    Keys = {k1}
    ChunkSize = 2
    Runners = {1}
    MaxAttempts = 2
    MaxTasks = 2
    MaxInFlight = 1
    MaxErrors = 1
    MaxCrashes = 1
INVARIANTS
    ExposureMatchesPending
    LedgerExplainsBalance
    CompletedLeavesNone
CHECK_DEADLOCK FALSE
