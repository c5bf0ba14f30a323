CONSTANT
    Peers = {1}

SPECIFICATION TunnelSpec

INVARIANT ReclaimMends
