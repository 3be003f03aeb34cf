SPECIFICATION FairSpec
CONSTANTS
    u1 = u1
    p = p
    q = q
    r1 = r1
    r2 = r2
    NoPana = NoPana
    Panas <- MCPanas
    Users <- MCUsers
    Bets = {1, 2}
    Owner <- MCOwner
    Kind <- MCKind
    Covers <- MCCovers
    Stake <- MCStake
    Payout <- MCPayout
    Funds <- MCFunds
    Runners = {r1}
    FetchLimit = 25
    MaxAttempts = 2
    MaxTasks = 2
    AdminOps = {"lock", "cancel"}
    MaxInFlight = 1
    MaxErrors = 1
    MaxCrashes = 1
INVARIANTS
    WalletMatchesLedger
    ExposureMatchesPending
    OutcomesMatchSettled
PROPERTIES
    IsBetBook
    TasksEnd
CHECK_DEADLOCK FALSE
