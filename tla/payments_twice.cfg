SPECIFICATION Spec
CONSTANTS
    Deposits = {1, 2, 3}
    Provider <- MCProvider
    DepositAmount <- MCDepositAmount
    Payouts = {1, 2}
    PayoutAmount <- MCPayoutAmount
    Funds = 2
    MaxInFlight = 1
    MaxCredits = 2
    MaxBets = 1
INVARIANTS
    CreditedOnce
CHECK_DEADLOCK FALSE
