SPECIFICATION FairSpec
CONSTANTS
    Size = 2
    Kinds = {"SQ", "MQ"}
    Clears = {"AT_NEXT_WORKLOAD", "UPPON_COMPLETION"}
    Handlings = {"IGNORE", "LOG", "TERMINATE"}
    MaxTasks = 4
INVARIANTS TaskStartedOnce WorkloadNotShared
PROPERTIES ImplementsTaskBatch OwnerReturns
CHECK_DEADLOCK FALSE
