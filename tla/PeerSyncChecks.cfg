CONSTANTS
    MaxPeers = 2
    Peers <- MCPeers

SPECIFICATION FairSpec

INVARIANTS
    TypeOK
    SyncedRowIsInstalled
    RevokedStaysOnlyIfRaced
    KernelMatchesRow
    SyncerKnowsItsRows

PROPERTIES
    TunnelsDropOnlyByRevokeOrWipe
    RevivedOnlyIfRaced
    AccessSpec
    IssuedReachesKernel
    TunnelsStayUp
    RevokedLeavesKernel
    PendingDrains
