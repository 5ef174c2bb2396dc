SPECIFICATION Spec
CONSTANTS
    MaxAttempts = 2
    MaxContent = 1
    Cap = 3
    Prices <- MCPrices
    Costs <- MCCosts
INVARIANTS
    TypeOK
    CallsAreAccounted
    AnswersAreWhole
    DeliveredAsReviewed
PROPERTY
    TurnEnds
CHECK_DEADLOCK FALSE
