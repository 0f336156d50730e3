CONSTANTS
    Procs = {p1}
    ArgVals <- MCArgVals
    InitTemps <- MCInitTemps
    MaxCalls = 4
    FaultyReads = FALSE
    NonNumericReads = TRUE
    NoValue = NoValue
SPECIFICATION Spec
INVARIANT TypeOK
INVARIANT ThresholdsOrdered
CHECK_DEADLOCK FALSE
