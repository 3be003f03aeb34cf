SPECIFICATION FairSpec
CONSTANTS
    u1 = u1
    k1 = k1
    k2 = k2
    Users <- MCUsers
    Bets = {1}
    Orders = {1}
    OrderOf <- Apart
    Payer <- MCPayer
    Mode <- MCMode
    Stake <- MCStake
    Payout <- MCPayout
    Funds <- MCFunds
    Keys = {k1}
    ChunkSize = 1
    Runners = {1, 2}
    MaxAttempts = 2
    MaxTasks = 2
    MaxInFlight = 1
    MaxErrors = 1
    MaxCrashes = 0
INVARIANTS
    RefundedOnce
PROPERTIES
    BatchesEnd
CHECK_DEADLOCK FALSE
