SPECIFICATION Spec
CONSTANTS
    UserIds = {1, 2}
    Phones = {"p1", "p2"}
    Tokens = {"t1", "t2"}
    Bonus = 5
    MaxBatch = 1
    MaxSends = 1
    MaxBankAccounts = 2
    BankIds = {1, 2, 3}
    MaxRequests = 4
    MaxInFlight = 2
INVARIANTS
    TypeOK
    SessionsStayEnded
    BanksInOrder
    DevicesReachable
CHECK_DEADLOCK FALSE
