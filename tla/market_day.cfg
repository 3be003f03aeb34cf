SPECIFICATION FairSpec
CONSTANTS
    m1 = m1
    Markets <- MCMarkets
    Offered <- MCOffered
    Edits <- MCEdits
    Days <- MCDays
    DayLength = 4
    Grace = 1
    Runs = {r1}
    MaxRequests = 2
    MaxInFlight = 2
    MaxJobs = 2
    MaxFaults = 1
INVARIANTS
    TypeOK
    OneSessionPerDay
    AdmittedBlind
    EligibleIsListed
PROPERTIES
    EndedStaysEnded
    ReachesClosePhase
CHECK_DEADLOCK FALSE
