\* Budgets and extra volume of the carousel, and the orders it needs, with the shortest
\* intervals; own trades still pending, failed or lost, restarts.
SPECIFICATION Spec
CONSTANTS
    Strategies = {"carousel"}
    MinVolume = 1
    MaxVolume = 3
    ExtraMin = 1
    ExtraMax = 2
    ExtraEvery = 2
    TradeInterval = 1
    HoldBack = 1
    Amounts <- SmallAmounts
    Gaps <- WideGap
    MaxPending = 1
INVARIANTS
    TypeOK
    NeverMissesOrders
    BudgetRespected
    ExtraSpacing
