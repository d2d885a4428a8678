SPECIFICATION FairSpec
CONSTANTS
    Timeout = TRUE
    MaxCallbacks = 4
INVARIANTS CallbackOnce UnsafeInOrder QuietOutsideUpdate
PROPERTIES EventuallyExecuted
CHECK_DEADLOCK FALSE
