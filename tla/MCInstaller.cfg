CONSTANTS
    Kos <- MCKos
    OptoePorts <- MCOptoePorts
    Mux0070 = TRUE
    MaxRuns = 4
    NoValue = NoValue

SPECIFICATION Spec

INVARIANTS
    TypeOK
    FreshInstallComplete
    CleanRemovesAll

CHECK_DEADLOCK FALSE
