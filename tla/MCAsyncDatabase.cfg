SPECIFICATION FairSpec
CONSTANTS
    Threads = {t1, t2}
    NumWorkers = 2
    SerialIds = {1, 2}
    MaxOps = 2
INVARIANTS NothingLost
PROPERTIES ImplementsSerialExecution ExecutedOnce HaltDrains EventuallyExecuted StopServerReturns
CHECK_DEADLOCK FALSE
