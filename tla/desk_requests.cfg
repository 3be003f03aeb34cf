SPECIFICATION Spec
CONSTANTS
    u1 = u1
    Users <- MCUsers
    BetIds = {1, 2}
    Orders <- MCOrders
    Owner <- MCOwner
    Asked <- MCAsked
    Amounts <- MCAmounts
    Panas <- MCPanas
    FundsAsked <- MCFundsAsked
    Results <- MCResults
    Funds = 12
    MaxRequests = 3
    MaxInFlight = 2
INVARIANTS
    TypeOK
    LedgerExplainsBalance
    CollectionMatchesExposure
    AdjustedOnce
    AgreesUnlessOvertaken
    ProfitExplained
    WinsShownOnce
CHECK_DEADLOCK FALSE
