CONSTANTS
    MaxPeers = 1
    Peers <- MCPeers

SPECIFICATION FairSpec

PROPERTY RevokedIsRemoved
