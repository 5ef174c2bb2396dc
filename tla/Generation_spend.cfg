SPECIFICATION Spec
CONSTANTS
    MaxAttempts = 2
    MaxContent = 1
    Cap = 3
    Prices <- HonestPrices
    Costs <- HonestCosts
INVARIANT
    SpendWithinCap
CHECK_DEADLOCK FALSE
