CONSTANTS
    Claimers = {b1, b2}
    Admins = {a1}
    Users = {u1, u2}
    NoUser = NoUser
    NoOne = NoOne
    PerUserQuota = 2
    Size = 32
    Server = 1
    LeftFree = 3
    Taken <- MCTaken

SPECIFICATION FairSpec

INVARIANTS
    TypeOK
    QuotaIsExact
    QuotaNeverExceeded
    AddressesUnique
    PoolIsCompact

PROPERTIES
    ImplementsLedger
    PoolDrains
