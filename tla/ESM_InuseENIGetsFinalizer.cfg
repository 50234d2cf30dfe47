CONSTANTS
    MaxOtherWrites <- MCMaxOtherWrites
SPECIFICATION Spec
CHECK_DEADLOCK FALSE
PROPERTY InuseENIGetsFinalizer
