CONSTANTS
    Modes <- MCModes
    MaxCalls = 2
    NoValue = NoValue
SPECIFICATION Spec
CHECK_DEADLOCK FALSE
INVARIANT ConfigSfpReportsFailure
