CONSTANTS
    Versions <- MCVersions
    Builds <- MCBuilds
    Tag <- MCTag
    Good <- MCGood
    Broken <- MCBroken
    First = 1

SPECIFICATION Spec

INVARIANTS
    TypeOK
    DiskIsWhole
    RolledBackIsPrevious

PROPERTIES
    OnlyInstallMends
    MissesOnlyBuilds
