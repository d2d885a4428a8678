SPECIFICATION Spec
CONSTANTS
    Players = {p1, p2, p3}
    Items = {i1, i2}
    TradedCount = 1
    BagSize = 1
    MaxMoney = 2
    Purse = 1
SYMMETRY TradeSymmetry
INVARIANTS TradesPaired AcceptedIsShown
PROPERTIES TradeIsWhole GoldIsKept
CHECK_DEADLOCK FALSE
