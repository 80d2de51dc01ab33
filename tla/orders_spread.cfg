\* A round that fails between its two transactions leaves one side empty.
SPECIFICATION Spec
CONSTANTS
    Step = 2
    SpreadSteps = 3
    One = 2
    Factor = 1
    StartPrice = 16
    BuyNo = 2
    SellNo = 2
    CancelOrdersDelta = 2
    OthersPrices <- NearStart
    PromptBlocks = TRUE
    MaxDisturbances = 2
INVARIANTS
    SpreadLeftEmpty
