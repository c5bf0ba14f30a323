------------------------------- MODULE Tunnel -------------------------------
(***************************************************************************)
(* PeerSync with the clients: what a .conf handed out by the admin web or  *)
(* the bot says (wg/conf.go; PeerConfigGet in web/handlers.go; the end of  *)
(* handleUpdate in telegram/bot.go), beside what the kernel is configured  *)
(* with for the same peer.  The two ends of a tunnel come from one row by  *)
(* two ways, and a handshake needs them to agree on the preshared key.     *)
(***************************************************************************)
EXTENDS PeerSync

VARIABLE
    confs       \* the .conf each client holds: {}, or the one it got last

tunnel == <<confs, vars>>

\* The parts of a ClientConfig that the two ends must agree on.  A key that
\* is not given leaves the PresharedKey line out.
GenerateClientConfig(p, psk) == [peer |-> p, psk |-> psk]

TunnelTypeOK ==
    /\ TypeOK
    /\ confs \in [Peers -> SUBSET [peer : Peers, psk : BOOLEAN]]
    /\ \A p \in Peers : \A c \in confs[p] : c.peer = p /\ p \in rows

TunnelInit == Init /\ confs = [p \in Peers |-> {}]

\* PeerConfigGet: any row, revoked ones too, and always without the row's
\* preshared key, which the ClientConfig is not given.
PeerConfigGet(p) ==
    /\ pc # "Down"
    /\ p \in rows
    /\ confs' = [confs EXCEPT ![p] = {GenerateClientConfig(p, FALSE)}]
    /\ UNCHANGED vars

\* SendDocument after a claim; the rows of the bot have no preshared key.
SendConf(p) ==
    /\ pc # "Down"
    /\ p \in rows \ withPsk
    /\ confs' = [confs EXCEPT ![p] = {GenerateClientConfig(p, FALSE)}]
    /\ UNCHANGED vars

TunnelNext ==
    \/ Next /\ UNCHANGED confs
    \/ \E p \in Peers : PeerConfigGet(p) \/ SendConf(p)

TunnelSpec == TunnelInit /\ [][TunnelNext]_tunnel

\* "PSK mismatch: ... Re-claim the .conf and try again" (the README's advice
\* for a tunnel without handshakes): the .conf a client has just got and the
\* kernel agree on whether there is a preshared key.
ReclaimMends ==
    \A p \in kernel : \A c \in confs[p] : c.psk = (p \in kernelPsk)

=============================================================================
