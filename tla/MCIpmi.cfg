CONSTANTS
    ATTEMPTS = 5
    INTERVAL = 3
    RoundInterval = 60
    TimeCap <- MCTimeCap
    Running = Running
SPECIFICATION Spec
INVARIANT TypeOK
INVARIANT RoundSpacing
INVARIANT ReadyNotMissed
PROPERTY IpmiInitRefined
CHECK_DEADLOCK FALSE
