----------------------------- MODULE MCPeerSync -----------------------------
(***************************************************************************)
(* PeerSync on small tables.  The row ids are a range, as AUTOINCREMENT    *)
(* hands them out.                                                         *)
(***************************************************************************)
EXTENDS PeerSync

CONSTANT MaxPeers       \* rows the table may grow to

MCPeers == 1..MaxPeers

=============================================================================
