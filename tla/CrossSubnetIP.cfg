CONSTANTS
    NodeENIs <- MCNodeENIs
    OldENI <- MCOldENI
    Limit <- MCLimit
    MaxCalls <- MCMaxCalls
SPECIFICATION Spec
CHECK_DEADLOCK FALSE
INVARIANT TypeOK
PROPERTY RollbackCoversAttempt
