\* An own trade that is executed late hides the trade of others before it.
SPECIFICATION Spec
CONSTANTS
    Strategies = {"carousel"}
    MinVolume = 1
    MaxVolume = 1
    ExtraMin = 0
    ExtraMax = 0
    ExtraEvery = 1
    TradeInterval = 2
    HoldBack = 3
    Amounts <- OneAmount
    Gaps <- WideGap
    MaxPending = 1
PROPERTIES
    HoldsBack
