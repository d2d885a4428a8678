SPECIFICATION Spec
CONSTANTS
    Alliance = {a1, a2, a3}
    Horde = {h1}
    MinPlayersPerTeam = 1
    MaxPlayersPerTeam = 2
    MaxJoins = 3
SYMMETRY TeamSymmetry
CONSTRAINT FewAway
INVARIANTS PlacesCounted SlotsAgree InvitationTimed FreePlaceOffered
PROPERTIES TimeOutOfOwnGroup
CHECK_DEADLOCK FALSE
