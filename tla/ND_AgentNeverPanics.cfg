CONSTANTS
    s1 = s1
    s2 = s2
    Subnets <- MCSubnets
    maxRetryCount <- MCmaxRetryCount
    MaxOtherWrites <- MCMaxOtherWrites
    MaxRuns <- MCMaxRuns
    NodeDeletes = TRUE
    GetErrors = TRUE
SPECIFICATION Spec
CHECK_DEADLOCK FALSE
INVARIANT
    AgentNeverPanics
