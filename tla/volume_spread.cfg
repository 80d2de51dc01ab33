\* A strategy that trades in the spread, and a side of the book runs empty.
SPECIFICATION Spec
CONSTANTS
    Strategies = {"spread"}
    MinVolume = 1
    MaxVolume = 1
    ExtraMin = 0
    ExtraMax = 0
    ExtraEvery = 1
    TradeInterval = 2
    HoldBack = 3
    Amounts <- OneAmount
    Gaps <- WideGap
    MaxPending = 1
INVARIANTS
    KeptStrategyHasOrders
