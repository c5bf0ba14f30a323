CONSTANTS
    HasHealth = FALSE
    MaxInFlight = 1

SPECIFICATION FairSpec

PROPERTY SignalEndsProcess

CHECK_DEADLOCK FALSE
