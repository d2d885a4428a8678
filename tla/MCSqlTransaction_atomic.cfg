SPECIFICATION Spec
CONSTANTS
    MaxStmts = 2
    MaxLosses = 1
    MaxQueue = 2
INVARIANTS TransactionAtomic
CHECK_DEADLOCK FALSE
