\* One side of the book, all inputs on five price levels.
SPECIFICATION FairSpec
CONSTANTS
    Step = 2
    SpreadSteps = 2
    NeededOrders = 3
    AmountRanges <- Ranges
    Prices <- Levels
    Books <- AllBooks
    StartPrices <- Starts
INVARIANTS
    TypeOK
    FreshLevels
    NoHole
    Quota
    MatchesLadder
PROPERTIES
    Returns
