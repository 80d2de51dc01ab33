\* Cancelling and withdrawing, in any order, while orders are being filled.
SPECIFICATION FairSpec
CONSTANTS
    Buys = {b1, b2}
    Sells = {s1, s2, s3}
    Size = 2
    Denoms <- ThreeDenoms
    Balance0 <- SomeCoins
    Limit = 2
    Page = 2
    Reserve = 2
    Fee = 1
    MaxDisturbances = 3
INVARIANTS
    TypeOK
PROPERTIES
    LeavesTheReserve
    OrdersEnd
    ComesHome
