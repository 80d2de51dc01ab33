\* The code's delta, ladders of six orders and a spread of twelve steps: after one
\* failed round cancelling and refilling chase each other.
SPECIFICATION FairSpec
CONSTANTS
    Step = 1
    SpreadSteps = 12
    One = 1
    Factor = 1
    StartPrice = 30
    BuyNo = 6
    SellNo = 6
    CancelOrdersDelta = 5
    OthersPrices <- NextToBuys
    PromptBlocks = TRUE
    MaxDisturbances = 1
PROPERTIES
    Settles
