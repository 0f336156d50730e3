CONSTANTS
    Modes <- MCModes
    MaxCalls = 2
    NoValue = NoValue
SPECIFICATION Spec
INVARIANT TypeOK
 
INVARIANT ConfiguredAsMode
INVARIANT WritesAreBytes
CHECK_DEADLOCK FALSE
