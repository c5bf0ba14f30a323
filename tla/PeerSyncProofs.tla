--------------------------- MODULE PeerSyncProofs ---------------------------
(***************************************************************************)
(* Theorems about PeerSync, for every set of row ids, and about Tunnel,    *)
(* which is PeerSync with the .conf each client holds.                     *)
(*                                                                         *)
(* The properties are not inductive by themselves: that a row is marked    *)
(* only after its peer was configured depends on what the syncer has in    *)
(* hand when it marks it, which SyncerKnowsItsRows says.                   *)
(***************************************************************************)
EXTENDS Tunnel, TLAPS

IInv ==
    /\ TypeOK
    /\ SyncerKnowsItsRows
    /\ SyncedRowIsInstalled
    /\ RevokedStaysOnlyIfRaced
    /\ KernelMatchesRow

\* The initial state satisfies the inductive invariant.
LEMMA InitIInv == Init => IInv
  BY DEF Init, IInv, TypeOK, SyncerKnowsItsRows, SyncedRowIsInstalled,
         RevokedStaysOnlyIfRaced, KernelMatchesRow, HeldEnabled, Locations,
         ApplyAt, MarkAt, IsNext

\* Every step of the handlers, the syncer and the environment keeps it.
LEMMA NextIInv == IInv /\ [Next]_vars => IInv'
  <1> SUFFICES ASSUME IInv, [Next]_vars PROVE IInv'
    OBVIOUS
  <1> USE PeersAssumption DEF IInv, TypeOK, SyncerKnowsItsRows,
          SyncedRowIsInstalled, RevokedStaysOnlyIfRaced, KernelMatchesRow,
          HeldEnabled, Locations, ApplyAt, MarkAt, IsNext, db, wg, loop
  <1>1. ASSUME NEW p \in Peers, NEW psk \in BOOLEAN, CreatePeer(p, psk)
        PROVE  IInv'
    BY <1>1 DEF CreatePeer
  <1>2. ASSUME NEW p \in Peers, DisablePeer(p)
        PROVE  IInv'
    BY <1>2 DEF DisablePeer
  <1>3. CASE ListPeersPendingSync
    BY <1>3 DEF ListPeersPendingSync
  <1>4. ASSUME NEW p \in Peers, AddPeer(p)
        PROVE  IInv'
    BY <1>4 DEF AddPeer, ToMark
  <1>5. ASSUME NEW p \in Peers, AddPeerFails(p)
        PROVE  IInv'
    BY <1>5 DEF AddPeerFails, SkipRow
  <1>6. ASSUME NEW p \in Peers, RemovePeer(p)
        PROVE  IInv'
    <2>1. TypeOK'
      BY <1>6 DEF RemovePeer, ToMark
    <2>2. SyncerKnowsItsRows'
      <3>1. \A q \in todo : IsNext(q) => q = p
        BY <1>6 DEF RemovePeer
      <3>2. p \in seenDisabled' /\ p \notin kernel'
        BY <1>6 DEF RemovePeer, ToMark
      <3>3. pc' \in MarkAt /\ todo' = todo /\ seenDisabled' = seenDisabled
        BY <1>6 DEF RemovePeer, ToMark
      <3>4. disabled' = disabled /\ raced' = raced
        BY <1>6 DEF RemovePeer
      <3>5. QED
        BY <3>1, <3>2, <3>3, <3>4
    <2>3. SyncedRowIsInstalled'
      BY <1>6 DEF RemovePeer
    <2>4. RevokedStaysOnlyIfRaced'
      BY <1>6 DEF RemovePeer
    <2>5. KernelMatchesRow'
      BY <1>6 DEF RemovePeer
    <2>6. QED
      BY <2>1, <2>2, <2>3, <2>4, <2>5
  <1>7. ASSUME NEW p \in Peers, RemovePeerFails(p)
        PROVE  IInv'
    BY <1>7 DEF RemovePeerFails, SkipRow
  <1>8. ASSUME NEW p \in Peers, MarkPeerSynced(p)
        PROVE  IInv'
    BY <1>8 DEF MarkPeerSynced, SkipRow
  <1>9. ASSUME NEW p \in Peers, MarkPeerSyncedFails(p)
        PROVE  IInv'
    BY <1>9 DEF MarkPeerSyncedFails, SkipRow
  <1>10. CASE EndOfPass
    BY <1>10 DEF EndOfPass
  <1>11. CASE CurrentWGPeers
    BY <1>11 DEF CurrentWGPeers
  <1>12. CASE ListEnabledPeers
    BY <1>12 DEF ListEnabledPeers
  <1>13. CASE Stop
    BY <1>13 DEF Stop
  <1>14. CASE Start
    BY <1>14 DEF Start
  <1>15. CASE InterfaceUp
    BY <1>15 DEF InterfaceUp
  <1>16. ASSUME NEW b \in BOOLEAN, Wipe(b)
         PROVE  IInv'
    BY <1>16 DEF Wipe
  <1>17. CASE UNCHANGED vars
    BY <1>17 DEF vars
  <1>18. QED
    BY <1>1, <1>2, <1>3, <1>4, <1>5, <1>6, <1>7, <1>8, <1>9, <1>10, <1>11,
       <1>12, <1>13, <1>14, <1>15, <1>16, <1>17
       DEF Next, Syncer, Apply, Handlers, Environment

\* The inductive invariant holds in every reachable state.
THEOREM SpecIInv == Spec => []IInv
  <1>1. QED
    BY InitIInv, NextIInv, PTL DEF Spec

\* Type correctness: every list, key and file is of a row that exists.
THEOREM SpecTypeOK == Spec => []TypeOK
  <1>1. IInv => TypeOK
    BY DEF IInv
  <1>2. QED
    BY <1>1, SpecIInv, PTL

\* A row that says "active" is configured in the kernel or was wiped from it.
THEOREM SpecSyncedRowIsInstalled == Spec => []SyncedRowIsInstalled
  <1>1. IInv => SyncedRowIsInstalled
    BY DEF IInv
  <1>2. QED
    BY <1>1, SpecIInv, PTL

\* A silent desync needs a revoke inside the syncer's window.
THEOREM SpecRevokedStaysOnlyIfRaced == Spec => []RevokedStaysOnlyIfRaced
  <1>1. IInv => RevokedStaysOnlyIfRaced
    BY DEF IInv
  <1>2. QED
    BY <1>1, SpecIInv, PTL

\* The kernel's entry of a peer is its row's data.
THEOREM SpecKernelMatchesRow == Spec => []KernelMatchesRow
  <1>1. IInv => KernelMatchesRow
    BY DEF IInv
  <1>2. QED
    BY <1>1, SpecIInv, PTL

\* The syncer's locals tell of the table and the kernel what they must for its
\* next step to be right.
THEOREM SpecSyncerKnowsItsRows == Spec => []SyncerKnowsItsRows
  <1>1. IInv => SyncerKnowsItsRows
    BY DEF IInv
  <1>2. QED
    BY <1>1, SpecIInv, PTL

\* Each sub-action of the syncer and the environment, by what it does to the
\* kernel: only AddPeer configures a peer, only RemovePeer and Wipe drop one.
LEMMA KernelSteps ==
    ASSUME IInv, [Next]_vars
    PROVE  \/ UNCHANGED kernel
           \/ \E p \in Peers : AddPeer(p) \/ RemovePeer(p)
           \/ \E b \in BOOLEAN : Wipe(b)
  BY DEF Next, Syncer, Apply, Handlers, Environment, vars, db, wg, loop,
         CreatePeer, DisablePeer, ListPeersPendingSync, AddPeerFails,
         RemovePeerFails, MarkPeerSynced, MarkPeerSyncedFails, EndOfPass,
         CurrentWGPeers, ListEnabledPeers, Stop, Start, InterfaceUp

\* The syncer never takes down the tunnel of an enabled peer.
THEOREM SpecTunnelsDropOnlyByRevokeOrWipe == Spec => TunnelsDropOnlyByRevokeOrWipe
  <1>1. ASSUME IInv, [Next]_vars
        PROVE  [\A p \in kernel \ kernel' : p \in disabled \/ p \in lost']_vars
    <2>1. CASE UNCHANGED kernel
      BY <2>1
    <2>2. ASSUME NEW p \in Peers, AddPeer(p)
          PROVE  \A q \in kernel \ kernel' : q \in disabled \/ q \in lost'
      BY <2>2 DEF AddPeer
    <2>3. ASSUME NEW p \in Peers, RemovePeer(p)
          PROVE  \A q \in kernel \ kernel' : q \in disabled \/ q \in lost'
      BY <2>3, <1>1 DEF RemovePeer, IInv, SyncerKnowsItsRows
    <2>4. ASSUME NEW b \in BOOLEAN, Wipe(b)
          PROVE  \A q \in kernel \ kernel' : q \in disabled \/ q \in lost'
      BY <2>4 DEF Wipe
    <2>5. QED
      BY <1>1, <2>1, <2>2, <2>3, <2>4, KernelSteps
  <1>2. QED
    BY <1>1, SpecIInv, PTL DEF Spec, TunnelsDropOnlyByRevokeOrWipe

\* A revoked peer comes back only from a list read before its revoke.
THEOREM SpecRevivedOnlyIfRaced == Spec => RevivedOnlyIfRaced
  <1>1. ASSUME IInv, [Next]_vars
        PROVE  [(kernel' \ kernel) \intersect disabled \subseteq raced]_vars
    <2>1. CASE UNCHANGED kernel
      BY <2>1
    <2>2. ASSUME NEW p \in Peers, AddPeer(p)
          PROVE  (kernel' \ kernel) \intersect disabled \subseteq raced
      BY <2>2, <1>1 DEF AddPeer, IsNext, IInv, SyncerKnowsItsRows, HeldEnabled
    <2>3. ASSUME NEW p \in Peers, RemovePeer(p)
          PROVE  (kernel' \ kernel) \intersect disabled \subseteq raced
      BY <2>3 DEF RemovePeer
    <2>4. ASSUME NEW b \in BOOLEAN, Wipe(b)
          PROVE  (kernel' \ kernel) \intersect disabled \subseteq raced
      BY <2>4 DEF Wipe
    <2>5. QED
      BY <1>1, <2>1, <2>2, <2>3, <2>4, KernelSteps
  <1>2. QED
    BY <1>1, SpecIInv, PTL DEF Spec, RevivedOnlyIfRaced

-----------------------------------------------------------------------------
\* Every step of PeerSync is a step of PeerAccess or leaves it alone.
LEMMA StepSimulates ==
    ASSUME IInv, [Next]_vars
    PROVE  [Access!Next]_(Access!vars)
  <1> USE DEF IInv, TypeOK, SyncerKnowsItsRows, HeldEnabled, db, wg, loop,
          IsNext, Access!Next, Access!vars
  <1> DEFINE flight == HeldEnabled \intersect disabled
  <1>1. ASSUME NEW p \in Peers, NEW psk \in BOOLEAN, CreatePeer(p, psk)
        PROVE  Access!Issue(p)
    BY <1>1 DEF CreatePeer, Access!Issue
  <1>2. ASSUME NEW p \in Peers, DisablePeer(p)
        PROVE  Access!Revoke(p)
    BY <1>2 DEF DisablePeer, Access!Revoke
  <1>3. ASSUME NEW p \in Peers, AddPeer(p)
        PROVE  Access!Activate(p)
    BY <1>3 DEF AddPeer, ToMark, Access!Activate
  <1>4. ASSUME NEW p \in Peers, RemovePeer(p)
        PROVE  Access!Deactivate(p)
    BY <1>4 DEF RemovePeer, ToMark, Access!Deactivate
  <1>5. ASSUME NEW p \in Peers,
               \/ AddPeerFails(p) \/ RemovePeerFails(p)
               \/ MarkPeerSynced(p) \/ MarkPeerSyncedFails(p)
        PROVE  Access!Settle
    BY <1>5 DEF AddPeerFails, RemovePeerFails, MarkPeerSynced,
                MarkPeerSyncedFails, SkipRow, Access!Settle
  <1>6. CASE ListPeersPendingSync \/ ListEnabledPeers
    <2>1. UNCHANGED <<rows, disabled, kernel>>
      BY <1>6 DEF ListPeersPendingSync, ListEnabledPeers
    <2>2. flight' \subseteq flight
      BY <1>6 DEF ListPeersPendingSync, ListEnabledPeers, ApplyAt, MarkAt
    <2>3. QED
      BY <2>1, <2>2 DEF Access!Settle
  <1>7. CASE EndOfPass \/ CurrentWGPeers \/ Start \/ InterfaceUp
    BY <1>7 DEF EndOfPass, CurrentWGPeers, Start, InterfaceUp
  <1>8. CASE Stop
    BY <1>8 DEF Stop, Access!Settle
  <1>9. ASSUME NEW b \in BOOLEAN, Wipe(b)
        PROVE  Access!Lose
    BY <1>9 DEF Wipe, Access!Lose
  <1>10. CASE UNCHANGED vars
    BY <1>10 DEF vars
  <1>11. QED
    BY <1>1, <1>2, <1>3, <1>4, <1>5, <1>6, <1>7, <1>8, <1>9, <1>10
       DEF Next, Syncer, Apply, Handlers, Environment

\* PeerSync implements the promise of PeerAccess.
THEOREM SpecImplementsAccess == Spec => AccessSpec
  <1>1. Init => Access!Init
    BY DEF Init, Access!Init, HeldEnabled
  <1>2. IInv /\ [Next]_vars => [Access!Next]_(Access!vars)
    BY StepSimulates
  <1>3. QED
    BY <1>1, <1>2, SpecIInv, PTL DEF Spec, AccessSpec, Access!Spec

-----------------------------------------------------------------------------
\* Handing out a .conf changes nothing in PeerSync: its theorems hold of it
\* with its clients (PeerConfigGet and SendDocument only read).
THEOREM TunnelImplementsPeerSync == TunnelSpec => Spec
  <1>1. TunnelInit => Init
    BY DEF TunnelInit
  <1>2. [TunnelNext]_tunnel => [Next]_vars
    BY DEF TunnelNext, PeerConfigGet, SendConf, tunnel
  <1> QED
    BY <1>1, <1>2, PTL DEF TunnelSpec, Spec

\* The .conf a client holds and the kernel disagree on the preshared key for
\* exactly the peers that have one.
OnlyPsksMisfit ==
    \A p \in kernel : \A c \in confs[p] : c.psk = (p \in kernelPsk) <=> p \notin withPsk

\* A tunnel is closed by its preshared key or not at all by the .conf: every
\* peer without one can complete a handshake with any .conf it was ever handed,
\* and no other peer can with any (GenerateClientConfig's callers, AddPeer).
THEOREM SpecOnlyPsksMisfit == TunnelSpec => []OnlyPsksMisfit
  <1> DEFINE WithoutPsk == confs \in [Peers -> SUBSET [peer : Peers, psk : {FALSE}]]
  <1>1. TunnelInit => WithoutPsk
    BY DEF TunnelInit
  <1>2. WithoutPsk /\ [TunnelNext]_tunnel => WithoutPsk'
    <2>1. ASSUME WithoutPsk, NEW p \in Peers, PeerConfigGet(p) \/ SendConf(p)
          PROVE  WithoutPsk'
      <3>1. GenerateClientConfig(p, FALSE) \in [peer : Peers, psk : {FALSE}]
        BY DEF GenerateClientConfig
      <3>2. confs' = [confs EXCEPT ![p] = {GenerateClientConfig(p, FALSE)}]
        BY <2>1 DEF PeerConfigGet, SendConf
      <3> QED
        BY <2>1, <3>1, <3>2
    <2> QED
      BY <2>1 DEF TunnelNext, tunnel
  <1>3. TypeOK /\ KernelMatchesRow /\ WithoutPsk => OnlyPsksMisfit
    <2> SUFFICES ASSUME TypeOK, KernelMatchesRow, WithoutPsk,
                        NEW p \in kernel, NEW c \in confs[p]
                 PROVE  c.psk = (p \in kernelPsk) <=> p \notin withPsk
      BY DEF OnlyPsksMisfit
    <2>1. c.psk = FALSE
      <3>1. p \in Peers
        BY DEF TypeOK
      <3>2. c \in [peer : Peers, psk : {FALSE}]
        BY <3>1
      <3> QED
        BY <3>2
    <2>2. p \in kernelPsk <=> p \in withPsk
      BY DEF KernelMatchesRow
    <2> HIDE DEF WithoutPsk
    <2>3. CASE p \in kernelPsk
      BY <2>1, <2>2, <2>3
    <2>4. CASE p \notin kernelPsk
      <3>1. (p \in kernelPsk) = FALSE
        BY <2>4
      <3> QED
        BY <2>1, <2>2, <2>4, <3>1
    <2> QED
      BY <2>3, <2>4
  <1> QED
    BY <1>1, <1>2, <1>3, TunnelImplementsPeerSync, SpecTypeOK, SpecKernelMatchesRow, PTL
       DEF TunnelSpec

=============================================================================
