\* The loop on one book: MakeVolume eats what FillOrderBook places.
SPECIFICATION FairSpec
CONSTANTS
    Step = 1
    SpreadSteps = 2
    One = 1
    Factor = 1
    StartPrice = 6
    BuyNo = 1
    SellNo = 1
    CancelOrdersDelta = 1
    OrderAmounts <- TwoUnits
    OrdersHoldBack = 1
    MinVolume = 1
    MaxVolume = 1
    ExtraMin = 0
    ExtraMax = 0
    ExtraEvery = 1
    TradeInterval = 1
    HoldBack = 2
    OrderTtl = 2
    Offers <- OneOffer
    Walls <- TwoWalls
    PromptBlocks = TRUE
    MaxDisturbances = 1
INVARIANTS
    TypeOK
    LadderRests
    FindsOwnOrder
PROPERTIES
    LoopGoesOn
    FindsLadders
    CacheRecovers
