----------------------------- MODULE PeerAccess -----------------------------
(***************************************************************************)
(* What wgserver promises about access to the VPN, over three sets: peers  *)
(* that were issued, peers that were revoked, and peers the server's       *)
(* interface lets in.  It is the specification PeerSync implements.        *)
(*                                                                         *)
(* The promise is weaker than "revoked peers are out": a revoke that finds *)
(* an activation of the same peer in flight does not stop it.              *)
(***************************************************************************)
CONSTANT Peers

VARIABLES
    issued,
    revoked,    \* for good: no peer is ever enabled again
    live,       \* peers the interface lets in
    inFlight    \* revoked peers with an activation begun before the revoke

vars == <<issued, revoked, live, inFlight>>

Init == issued = {} /\ revoked = {} /\ live = {} /\ inFlight = {}

Issue(p) ==
    /\ p \in Peers \ issued
    /\ issued' = issued \union {p}
    /\ UNCHANGED <<revoked, live, inFlight>>

Revoke(p) ==
    /\ p \in issued
    /\ revoked' = revoked \union {p}
    /\ \/ UNCHANGED inFlight
       \/ inFlight' = inFlight \union {p}
    /\ UNCHANGED <<issued, live>>

Activate(p) ==
    /\ p \in (issued \ revoked) \union inFlight
    /\ live' = live \union {p}
    /\ UNCHANGED <<issued, revoked, inFlight>>

\* Activations in flight end; they do not begin.
Settle ==
    /\ inFlight' \subseteq inFlight
    /\ UNCHANGED <<issued, revoked, live>>

Deactivate(p) ==
    /\ p \in revoked
    /\ live' = live \ {p}
    /\ UNCHANGED <<issued, revoked, inFlight>>

\* The interface was emptied behind the server's back.
Lose ==
    /\ live' = {}
    /\ UNCHANGED <<issued, revoked, inFlight>>

Next ==
    \/ \E p \in Peers : Issue(p) \/ Revoke(p) \/ Activate(p) \/ Deactivate(p)
    \/ Settle
    \/ Lose

Spec == Init /\ [][Next]_vars

=============================================================================
