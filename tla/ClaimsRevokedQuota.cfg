CONSTANTS
    Claimers = {b1}
    Admins = {a1}
    Users = {u1}
    NoUser = NoUser
    NoOne = NoOne
    PerUserQuota = 1
    Size = 32
    Server = 1
    LeftFree = 2
    Taken <- MCTaken

SPECIFICATION Spec

PROPERTY RevokeMakesRoom
