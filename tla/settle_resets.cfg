SPECIFICATION Spec
CONSTANTS
    u1 = u1
    p = p
    q = q
    r1 = r1
    r2 = r2
    NoPana = NoPana
    Panas <- MCPanas
    Users <- MCUsers
    Bets = {1}
    Owner <- MCOwner
    Kind <- MCKind
    Covers <- MCCovers
    Stake <- MCStake
    Payout <- MCPayout
    Funds <- MCFunds
    Runners = {r1, r2}
    FetchLimit = 25
    MaxAttempts = 2
    MaxTasks = 2
    AdminOps = {"reset"}
    MaxInFlight = 1
    MaxErrors = 0
    MaxCrashes = 0
INVARIANTS
    PaidOnceUncontested
PROPERTIES
    DecidesOnItsPana
SYMMETRY MCSymmetry
CHECK_DEADLOCK FALSE
