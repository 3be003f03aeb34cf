SPECIFICATION FairSpec
CONSTANTS
    Deposits = {1, 2, 3}
    Provider <- MCProvider
    DepositAmount <- MCDepositAmount
    Payouts = {1, 2}
    PayoutAmount <- MCPayoutAmount
    Funds = 2
    MaxInFlight = 2
    MaxCredits = 2
    MaxBets = 1
INVARIANTS
    NeverOverdrawn
    LedgerExplainsBalance
    PaidOutOnce
    CreditedOnceUncrossed
PROPERTIES
    CapturedIsCredited
CHECK_DEADLOCK FALSE
