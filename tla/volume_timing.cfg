\* Intervals longer than the period of the loop: when orders are made, and that
\* they are made for ever.
SPECIFICATION FairSpec
CONSTANTS
    Strategies = {"carousel", "spread"}
    MinVolume = 1
    MaxVolume = 1
    ExtraMin = 0
    ExtraMax = 0
    ExtraEvery = 1
    TradeInterval = 2
    HoldBack = 3
    Amounts <- OneAmount
    Gaps <- SomeGaps
    MaxPending = 1
PROPERTIES
    SpacedUnlessUnsettled
    KeepsTrading
