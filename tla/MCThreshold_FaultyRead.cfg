CONSTANTS
    Procs = {p1}
    ArgVals <- MCArgVals
    InitTemps <- MCInitTemps
    MaxCalls = 1
    FaultyReads = TRUE
    NonNumericReads = TRUE
    NoValue = NoValue
SPECIFICATION Spec
INVARIANT ThresholdsOrdered
CHECK_DEADLOCK FALSE
