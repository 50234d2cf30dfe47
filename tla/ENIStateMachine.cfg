CONSTANTS
    MaxOtherWrites <- MCMaxOtherWrites
SPECIFICATION Spec
CHECK_DEADLOCK FALSE
INVARIANT TypeOK
 
PROPERTY PrimaryENIEventuallyKnown
