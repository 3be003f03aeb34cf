SPECIFICATION Spec
CONSTANTS
    Defaults <- MCDefaults
    Pairs <- MCPairs
    Payloads <- MCPayloads
    Contacts <- MCContacts
    Merchants <- MCMerchants
    TTL = 2
    MaxTime = 2
    MaxUpdates = 2
    MaxReads = 2
INVARIANTS
    PairsValid
    UsedWasInForce
CHECK_DEADLOCK FALSE
