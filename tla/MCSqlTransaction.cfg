SPECIFICATION Spec
CONSTANTS
    MaxStmts = 3
    MaxLosses = 2
    MaxQueue = 2
INVARIANTS PreparedTransactionAtomic OutcomeIsExact AppliedInOrder
CHECK_DEADLOCK FALSE
