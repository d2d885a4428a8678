SPECIFICATION FairTransferSpec
CONSTANTS
    Continents = {k1, k2}
    Dungeons = {d1, d2}
    Home = k1
INVARIANTS NeverLost
PROPERTIES LogoutEnds
