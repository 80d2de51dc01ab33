\* Rounds against blocks, errors and trades of others, with two orders a side.
SPECIFICATION FairSpec
CONSTANTS
    Step = 2
    SpreadSteps = 2
    One = 2
    Factor = 1
    StartPrice = 16
    BuyNo = 2
    SellNo = 2
    CancelOrdersDelta = 2
    OthersPrices <- NearStart
    PromptBlocks = TRUE
    MaxDisturbances = 3
INVARIANTS
    TypeOK
    LaddersApart
PROPERTIES
    NoDoubleLevel
    Settles
