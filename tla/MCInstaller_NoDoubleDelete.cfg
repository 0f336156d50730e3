CONSTANTS
    Kos <- MCKos
    OptoePorts <- MCOptoePorts
    Mux0070 = TRUE
    MaxRuns = 3
    NoValue = NoValue

SPECIFICATION Spec

INVARIANT NoDoubleDelete

CHECK_DEADLOCK FALSE
