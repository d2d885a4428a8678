SPECIFICATION FairSpec
CONSTANTS
    Chars = {c1, c2}
    Delay = 2
    MaxSessions = 2
    MaxRequests = 2
    MaxVersion = 1
INVARIANTS OwnersAgree ShutdownLogsOutConnected
PROPERTIES OfflineLoginReadsLastSave LoadingEnds UnattendedLeaves
CHECK_DEADLOCK FALSE
