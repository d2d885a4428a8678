SPECIFICATION FairSpec
CONSTANTS
    Continents = {k1, k2}
    Instances = {i1}
    Players = {p1, p2}
INVARIANTS TeleportsPending
PROPERTIES NoTeleportMidUpdate UpdateReturns
