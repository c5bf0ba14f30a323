CONSTANTS
    HasHealth = TRUE
    MaxInFlight = 2

SPECIFICATION FairSpec

INVARIANTS
    TypeOK
    CleanExitDrains
    HealthOutlivesAdmin

PROPERTIES
    FailureIsReported
    SignalEndsProcess

CHECK_DEADLOCK FALSE
