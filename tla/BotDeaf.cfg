CONSTANTS
    MaxUpdates = 2
    Updates <- MCUpdates
    Users = {u1, u2}
    Nobody = Nobody
    PerUserQuota = 2
    BatchLimit = 2
    MaxRestarts = 2

SPECIFICATION FairSpec

CHECK_DEADLOCK FALSE

PROPERTY EveryUpdateServedWhileUp
