SPECIFICATION Spec
CONSTANTS
    Requests <- MCRequests
    MotorChoices <- MCMotorChoices
    Amounts <- MCAmounts
    Draws <- MCDraws
    Odds <- MCOdds
    MinimumBid = 12
    MaximumBid = 24
    BatchFactor = 1
    MaxBatch = 2
    MaxLoops = 3
    MaxBets = 2
    MaxEdits = 1
INVARIANTS
    BookPricesOutcomes
    PreviewMatchesSettlement
    CombosComplete
    HistoryAddsUp
CHECK_DEADLOCK FALSE
