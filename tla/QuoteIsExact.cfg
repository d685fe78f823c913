SPECIFICATION ExprSpec
CONSTANTS
    TierNames = {"other"}
    MaxTokens = 7
    MaxBody = 3
    MaxTiers = 1
INVARIANT QuoteIsExact
CHECK_DEADLOCK FALSE
