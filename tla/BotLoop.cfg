CONSTANTS
    MaxUpdates = 3
    Updates <- MCUpdates
    Users = {u1, u2}
    Nobody = Nobody
    PerUserQuota = 2
    BatchLimit = 2
    MaxRestarts = 1

SPECIFICATION FairSpec

INVARIANTS
    TypeOK
    AcknowledgedWereServed
    DuplicateOnlyAfterRestart
    ChargedMeansDelivered

PROPERTY EveryUpdateAcknowledged

CHECK_DEADLOCK FALSE
