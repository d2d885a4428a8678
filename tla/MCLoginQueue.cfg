SPECIFICATION FairSpec
CONSTANTS
    Accounts = {a1, a2, a3}
    Privileged = {}
    PlayerLimit = 1
    HardLimit = 1
    LoginPerTick = 1
    GracePeriod = TRUE
    Limits = {2}
    MaxSessions = 4
INVARIANTS QueueConsistent HardLimitKept
PROPERTIES NobodyOvertakes RoomAdmits
CHECK_DEADLOCK FALSE
