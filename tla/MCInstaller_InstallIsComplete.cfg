CONSTANTS
    Kos <- MCKos
    OptoePorts <- MCOptoePorts
    Mux0070 = TRUE
    MaxRuns = 3
    NoValue = NoValue

SPECIFICATION Spec

INVARIANT InstallIsComplete

CHECK_DEADLOCK FALSE
