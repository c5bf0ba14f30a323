------------------------------ MODULE PeerSync ------------------------------
(***************************************************************************)
(* The heart of wgserver: the peers table (internal/store/peers.go), the   *)
(* WireGuard interface of the kernel as internal/wg drives it, and the     *)
(* syncer goroutine (internal/syncer/loop.go) that carries the table over  *)
(* to the kernel, with the handlers that write the table running at any    *)
(* moment in between.  Nothing holds a lock or a transaction across two    *)
(* of these steps: the syncer reads rows, runs wg, and updates the row     *)
(* later, and a revoke may commit between any two of them.                 *)
(*                                                                         *)
(* A peer stands for its row's immutable columns (public key and assigned  *)
(* IP, both UNIQUE), so the columns that change are sets of peers.         *)
(***************************************************************************)
EXTENDS Naturals

CONSTANT
    Peers       \* row ids the table may hand out: bounds the number of creates

ASSUME PeersAssumption == Peers \subseteq Nat

VARIABLES
    \* The peers table, on disk.
    rows,       \* ids of the rows that exist; rows are never deleted
    disabled,   \* rows with disabled = 1
    pending,    \* rows with pending_sync = 1
    withPsk,    \* rows whose preshared_key is not NULL
    \* The interface clients.interface in the kernel, and the PSK directory.
    up,         \* whether the interface exists
    kernel,     \* peers configured on it
    kernelPsk,  \* those configured with a preshared key
    pskFiles,   \* peers that have a file in the PSK directory
    \* The syncer goroutine's locals.
    pc,         \* where in RunOnce it is
    todo,       \* rows of the list it ranges over that it has not finished
    seenDisabled, \* those that were disabled when the list was read
    shown,      \* the keys `wg show peers` printed for this reconcile
    \* History variables: what the properties need to remember.
    lost,       \* peers the interface lost to a wipe and has not got back
    raced       \* peers revoked while the syncer held them as enabled

db   == <<rows, disabled, pending, withPsk>>
wg   == <<up, kernel, kernelPsk, pskFiles>>
loop == <<pc, todo, seenDisabled, shown>>
vars == <<rows, disabled, pending, withPsk, up, kernel, kernelPsk, pskFiles,
          pc, todo, seenDisabled, shown, lost, raced>>

(***************************************************************************)
(* RunOnce: list the pending rows, apply and mark each (the pending pass), *)
(* show the kernel's peers, list the enabled rows, apply and mark each one *)
(* the kernel lacks (the reconcile pass).  "Down" is a stopped daemon.     *)
(***************************************************************************)
Locations == {"Down", "Idle", "PendingApply", "PendingMark", "Show", "List",
              "ReconcileApply", "ReconcileMark"}

ApplyAt == {"PendingApply", "ReconcileApply"}
MarkAt  == {"PendingMark", "ReconcileMark"}

TypeOK ==
    /\ rows \subseteq Peers
    /\ disabled \subseteq rows
    /\ pending \subseteq rows
    /\ withPsk \subseteq rows
    /\ up \in BOOLEAN
    /\ kernel \subseteq rows
    /\ kernelPsk \subseteq kernel
    /\ pskFiles \subseteq rows
    /\ pc \in Locations
    /\ todo \subseteq rows
    /\ seenDisabled \subseteq todo
    /\ shown \subseteq rows
    /\ lost \subseteq rows
    /\ raced \subseteq disabled

\* Rows the syncer will still treat as enabled, whatever the table now says.
HeldEnabled == todo \ seenDisabled

Init ==
    /\ rows = {} /\ disabled = {} /\ pending = {} /\ withPsk = {}
    /\ up = TRUE /\ kernel = {} /\ kernelPsk = {} /\ pskFiles = {}
    /\ pc = "Idle" /\ todo = {} /\ seenDisabled = {} /\ shown = {}
    /\ lost = {} /\ raced = {}

-----------------------------------------------------------------------------
(***************************************************************************)
(* Handlers.  They run in the daemon's own process, so they need it up.    *)
(***************************************************************************)

\* Mutated form of CreatePeer: the insert leaves pending_sync to a caller
\* that set it to 0.
CreatePeerSynced(p, psk) ==
    /\ pc # "Down"
    /\ p \in Peers \ rows
    /\ \A q \in Peers \ rows : p <= q
    /\ rows' = rows \union {p}
    /\ withPsk' = IF psk THEN withPsk \union {p} ELSE withPsk
    /\ UNCHANGED <<disabled, pending, wg, loop, lost, raced>>

\* PeerNewPost and the bot's claim end in this insert (a new row takes the
\* next AUTOINCREMENT id); no wg command runs.  The bot's rows have no PSK.
CreatePeer(p, psk) ==
    /\ pc # "Down"
    /\ p \in Peers \ rows
    /\ \A q \in Peers \ rows : p <= q
    /\ rows' = rows \union {p}
    /\ pending' = pending \union {p}
    /\ withPsk' = IF psk THEN withPsk \union {p} ELSE withPsk
    /\ UNCHANGED <<disabled, wg, loop, lost, raced>>

\* Mutated form of DisablePeer: the update forgets the disabled column.
DisablePeerPendingOnly(p) ==
    /\ pc # "Down"
    /\ p \in rows
    /\ pending' = pending \union {p}
    /\ raced' = IF p \in HeldEnabled THEN raced \union {p} ELSE raced
    /\ UNCHANGED <<rows, disabled, withPsk, wg, loop, lost>>

\* Mutated form of DisablePeer: the update forgets pending_sync.
DisablePeerQuietly(p) ==
    /\ pc # "Down"
    /\ p \in rows
    /\ disabled' = disabled \union {p}
    /\ raced' = IF p \in HeldEnabled THEN raced \union {p} ELSE raced
    /\ UNCHANGED <<rows, pending, withPsk, wg, loop, lost>>

\* PeerRevokePost: one UPDATE, whatever the row's state was (a revoke may be
\* repeated).  A row that does not exist is a 404 and changes nothing.
DisablePeer(p) ==
    /\ pc # "Down"
    /\ p \in rows
    /\ disabled' = disabled \union {p}
    /\ pending' = pending \union {p}
    /\ raced' = IF p \in HeldEnabled THEN raced \union {p} ELSE raced
    /\ UNCHANGED <<rows, withPsk, wg, loop, lost>>

-----------------------------------------------------------------------------
(***************************************************************************)
(* The syncer.                                                             *)
(***************************************************************************)

\* Rows are applied in id order.
IsNext(p) == p \in todo /\ \A q \in todo : p <= q

\* Mutated form of ListPeersPendingSync: the disabled column is not read.
ListEveryPendingAsEnabled ==
    /\ pc = "Idle"
    /\ pc' = "PendingApply"
    /\ todo' = pending
    /\ seenDisabled' = {}
    /\ UNCHANGED <<db, wg, shown, lost, raced>>

\* Mutated form of ListPeersPendingSync: disabled scans as true on every row.
ListEveryPendingAsDisabled ==
    /\ pc = "Idle"
    /\ pc' = "PendingApply"
    /\ todo' = pending
    /\ seenDisabled' = pending
    /\ UNCHANGED <<db, wg, shown, lost, raced>>

\* Mutated form of ListPeersPendingSync: AND disabled = 0 in the query.
ListPendingEnabledOnly ==
    /\ pc = "Idle"
    /\ pc' = "PendingApply"
    /\ todo' = pending \ disabled
    /\ seenDisabled' = {}
    /\ UNCHANGED <<db, wg, shown, lost, raced>>

\* A tick: read the pending rows.  (If the read fails RunOnce returns and the
\* syncer stays idle until the next tick.)
ListPeersPendingSync ==
    /\ pc = "Idle"
    /\ pc' = "PendingApply"
    /\ todo' = pending
    /\ seenDisabled' = pending \intersect disabled
    /\ UNCHANGED <<db, wg, shown, lost, raced>>

\* The two ways out of applyOne's wg command: on to the mark, or skip the row.
ToMark ==
    /\ pc' = IF pc = "PendingApply" THEN "PendingMark" ELSE "ReconcileMark"
    /\ UNCHANGED <<todo, seenDisabled, shown>>

SkipRow(p) ==
    /\ todo' = todo \ {p}
    /\ seenDisabled' = seenDisabled \ {p}
    /\ pc' = IF pc \in {"PendingApply", "PendingMark"}
             THEN "PendingApply" ELSE "ReconcileApply"
    /\ UNCHANGED shown

\* Mutated form of AddPeer: wg set runs without the preshared-key argument.
AddPeerNoKey(p) ==
    /\ pc \in ApplyAt /\ IsNext(p) /\ p \notin seenDisabled
    /\ up
    /\ kernel' = kernel \union {p}
    /\ lost' = lost \ {p}
    /\ ToMark
    /\ UNCHANGED <<db, up, kernelPsk, pskFiles, raced>>

\* applyOne on a row read as enabled: write the PSK file if the row has a
\* key, then `wg set <iface> peer <key> allowed-ips <ip> [preshared-key f]`.
AddPeer(p) ==
    /\ pc \in ApplyAt /\ IsNext(p) /\ p \notin seenDisabled
    /\ up
    /\ kernel' = kernel \union {p}
    /\ kernelPsk' = kernelPsk \union ({p} \intersect withPsk)
    /\ pskFiles' = pskFiles \union ({p} \intersect withPsk)
    /\ lost' = lost \ {p}
    /\ ToMark
    /\ UNCHANGED <<db, up, raced>>

\* The file cannot be written, or wg fails (the interface is down, or
\* exec fails): the row is skipped and stays as it is.
AddPeerFails(p) ==
    /\ pc \in ApplyAt /\ IsNext(p) /\ p \notin seenDisabled
    /\ \/ UNCHANGED pskFiles
       \/ pskFiles' = pskFiles \union ({p} \intersect withPsk)
    /\ SkipRow(p)
    /\ UNCHANGED <<db, up, kernel, kernelPsk, lost, raced>>

\* Mutated form of RemovePeer: the PSK file goes first, and a wg failure
\* after it goes unnoticed.
RemovePeerFileOnly(p) ==
    /\ pc \in ApplyAt /\ IsNext(p) /\ p \in seenDisabled
    /\ pskFiles' = pskFiles \ {p}
    /\ ToMark
    /\ UNCHANGED <<db, up, kernel, kernelPsk, lost, raced>>

\* applyOne on a row read as disabled: `wg set <iface> peer <key> remove`,
\* then os.Remove of the PSK file, whose failure is ignored.
RemovePeer(p) ==
    /\ pc \in ApplyAt /\ IsNext(p) /\ p \in seenDisabled
    /\ up
    /\ kernel' = kernel \ {p}
    /\ kernelPsk' = kernelPsk \ {p}
    /\ \/ pskFiles' = pskFiles \ {p}
       \/ UNCHANGED pskFiles
    /\ lost' = lost \ {p}
    /\ ToMark
    /\ UNCHANGED <<db, up, raced>>

RemovePeerFails(p) ==
    /\ pc \in ApplyAt /\ IsNext(p) /\ p \in seenDisabled
    /\ SkipRow(p)
    /\ UNCHANGED <<db, wg, lost, raced>>

\* UPDATE peers SET pending_sync = 0 WHERE id = ?: it does not ask whether
\* the row is still what was applied.
MarkPeerSynced(p) ==
    /\ pc \in MarkAt /\ IsNext(p)
    /\ pending' = pending \ {p}
    /\ SkipRow(p)
    /\ UNCHANGED <<rows, disabled, withPsk, wg, lost, raced>>

\* The update fails (the database is busy): applied, but still pending.
MarkPeerSyncedFails(p) ==
    /\ pc \in MarkAt /\ IsNext(p)
    /\ SkipRow(p)
    /\ UNCHANGED <<db, wg, lost, raced>>

EndOfPass ==
    /\ pc \in ApplyAt /\ todo = {}
    /\ pc' = IF pc = "PendingApply" THEN "Show" ELSE "Idle"
    /\ UNCHANGED <<db, wg, todo, seenDisabled, shown, lost, raced>>

\* reconcile reads the kernel's peers first ...
CurrentWGPeers ==
    /\ pc = "Show"
    /\ \/ /\ up /\ shown' = kernel /\ pc' = "List"
       \/ /\ pc' = "Idle" /\ UNCHANGED shown
    /\ UNCHANGED <<db, wg, todo, seenDisabled, lost, raced>>

\* Mutated form of ListEnabledPeers: only the rows that are pending, which
\* is the syncer without its reconcile pass.
ListPendingAgain ==
    /\ pc = "List"
    /\ todo' = (pending \ disabled) \ shown /\ pc' = "ReconcileApply"
    /\ shown' = {}
    /\ UNCHANGED <<db, wg, seenDisabled, lost, raced>>

\* Mutated form of ListEnabledPeers: every row, disabled or not.
ListEveryPeer ==
    /\ pc = "List"
    /\ \/ /\ todo' = rows \ shown /\ pc' = "ReconcileApply"
       \/ /\ pc' = "Idle" /\ UNCHANGED todo
    /\ shown' = {}
    /\ UNCHANGED <<db, wg, seenDisabled, lost, raced>>

\* ... and the enabled rows second; it ranges over those not shown.  Either
\* read may fail, which ends the tick.
ListEnabledPeers ==
    /\ pc = "List"
    /\ \/ /\ todo' = (rows \ disabled) \ shown /\ pc' = "ReconcileApply"
       \/ /\ pc' = "Idle" /\ UNCHANGED todo
    /\ shown' = {}
    /\ UNCHANGED <<db, wg, seenDisabled, lost, raced>>

-----------------------------------------------------------------------------
(***************************************************************************)
(* The environment: the daemon is stopped or killed and started again (the *)
(* kernel and the table outlive it), and wg-quick@<iface> goes down and up *)
(* or an operator runs wg syncconf, which empties the interface.           *)
(***************************************************************************)
Stop ==
    /\ pc # "Down"
    /\ pc' = "Down"
    /\ todo' = {} /\ seenDisabled' = {} /\ shown' = {}
    /\ UNCHANGED <<db, wg, lost, raced>>

Start ==
    /\ pc = "Down"
    /\ pc' = "Idle"
    /\ UNCHANGED <<db, wg, todo, seenDisabled, shown, lost, raced>>

Wipe(stillUp) ==
    /\ up
    /\ up' = stillUp
    /\ kernel' = {} /\ kernelPsk' = {}
    /\ lost' = lost \union kernel
    /\ UNCHANGED <<db, pskFiles, loop, raced>>

InterfaceUp ==
    /\ ~up
    /\ up' = TRUE
    /\ UNCHANGED <<db, kernel, kernelPsk, pskFiles, loop, lost, raced>>

-----------------------------------------------------------------------------
Apply(p) ==
    \/ AddPeer(p) \/ AddPeerFails(p)
    \/ RemovePeer(p) \/ RemovePeerFails(p)
    \/ MarkPeerSynced(p) \/ MarkPeerSyncedFails(p)

Syncer ==
    \/ ListPeersPendingSync
    \/ \E p \in Peers : Apply(p)
    \/ EndOfPass
    \/ CurrentWGPeers
    \/ ListEnabledPeers

Handlers ==
    \E p \in Peers :
        \/ \E psk \in BOOLEAN : CreatePeer(p, psk)
        \/ DisablePeer(p)

Environment == Stop \/ Start \/ InterfaceUp \/ \E b \in BOOLEAN : Wipe(b)

Next == Syncer \/ Handlers \/ Environment

Spec == Init /\ [][Next]_vars

(***************************************************************************)
(* Fairness.  The daemon's scheduler runs the goroutine (weak fairness on  *)
(* each step it can always take); a wg command, a read or an update that   *)
(* is tried again and again does not fail for ever (strong fairness on the *)
(* successful outcome); a daemon that stopped is started again (by systemd *)
(* after a failure or a boot, by the updater or an operator otherwise),    *)
(* and wg-quick brings the interface back.                                 *)
(***************************************************************************)
ShowSucceeds == CurrentWGPeers /\ pc' = "List"
ListSucceeds == ListEnabledPeers /\ pc' = "ReconcileApply"

Fairness ==
    /\ WF_vars(ListPeersPendingSync)
    /\ WF_vars(EndOfPass)
    /\ WF_vars(\E p \in Peers : Apply(p))
    /\ WF_vars(CurrentWGPeers) /\ SF_vars(ShowSucceeds)
    /\ WF_vars(ListEnabledPeers) /\ SF_vars(ListSucceeds)
    /\ \A p \in Peers :
        /\ SF_vars(AddPeer(p))
        /\ SF_vars(RemovePeer(p))
        /\ SF_vars(MarkPeerSynced(p))
    /\ WF_vars(Start)
    /\ WF_vars(InterfaceUp)

FairSpec == Spec /\ Fairness

-----------------------------------------------------------------------------
(***************************************************************************)
(* Safety.                                                                 *)
(***************************************************************************)

\* A row says "active" (enabled and not pending) only if the kernel has the
\* peer, or had it and was wiped: no failed wg command, lost update, restart
\* or stale list lets a row be marked before its peer was configured.
SyncedRowIsInstalled == rows \ (pending \union disabled) \subseteq kernel \union lost

\* A revoked peer whose row is no longer pending is out of the kernel, unless
\* the revoke committed while the syncer held the row as enabled.  That
\* window, between the list and the mark, is the only way to a silent desync.
RevokedStaysOnlyIfRaced == (disabled \intersect kernel) \ pending \subseteq raced

\* What the kernel holds of a peer is its row's data whichever of the two
\* passes put it there, and its PSK file outlives the kernel's use of it.
KernelMatchesRow ==
    /\ kernelPsk = kernel \intersect withPsk
    /\ kernelPsk \subseteq pskFiles

\* The syncer never takes down a live tunnel: a peer leaves the kernel only
\* when its row is disabled, or by a wipe, which the reconcile pass repairs.
TunnelsDropOnlyByRevokeOrWipe ==
    [][\A p \in kernel \ kernel' : p \in disabled \/ p \in lost']_vars

\* Neither pass brings a revoked peer (back) into the kernel, except from a
\* list read before the revoke.
RevivedOnlyIfRaced == [][(kernel' \ kernel) \intersect disabled \subseteq raced]_vars

\* What the syncer's locals are worth against a table and a kernel that move
\* under it: a row it read as disabled is disabled; a row it read as enabled
\* that is not any more was revoked since (raced); and when it is about to
\* mark a row, the command it ran on it still holds, or a wipe undid it.
SyncerKnowsItsRows ==
    /\ seenDisabled \subseteq disabled
    /\ HeldEnabled \intersect disabled \subseteq raced
    /\ pc \notin ApplyAt \union MarkAt => todo = {}
    /\ pc \in MarkAt => \A p \in todo : IsNext(p) =>
           IF p \in seenDisabled THEN p \notin kernel ELSE p \in kernel \union lost

(***************************************************************************)
(* The promise of the component, as PeerAccess states it.                  *)
(***************************************************************************)
Access == INSTANCE PeerAccess WITH
    issued  <- rows,
    revoked <- disabled,
    live    <- kernel,
    inFlight <- HeldEnabled \intersect disabled

AccessSpec == Access!Spec

(***************************************************************************)
(* Liveness, once the daemon stays up and so does the interface.           *)
(***************************************************************************)
Stable == <>[](pc # "Down" /\ up)

\* Every enabled row's peer gets into the kernel, at first and after every
\* wipe, unless it is revoked first.
IssuedReachesKernel ==
    Stable => \A p \in Peers : (p \in rows \ disabled) ~> (p \in kernel \union disabled)

\* If wipes stop too, enabled peers end up in the kernel for good.
TunnelsStayUp ==
    (Stable /\ <>[][~\E b \in BOOLEAN : Wipe(b)]_vars)
        => \A p \in Peers : <>[](p \in rows \ disabled => p \in kernel)

\* A revoked peer leaves the kernel, unless its revoke raced the syncer.
RevokedLeavesKernel ==
    Stable => \A p \in Peers : (p \in disabled \ raced) ~> (p \notin kernel)

\* No row stays pending for ever behind failures of its own or of others.
PendingDrains == Stable => \A p \in Peers : (p \in pending) ~> (p \notin pending)

\* What handlers.go says of a revoke, with no exception: "DisablePeer also
\* sets pending_sync=1 so the sync loop calls `wg set wg0 peer <pubkey>
\* remove`".  The code does not keep it.
RevokedIsRemoved == Stable => \A p \in Peers : (p \in disabled) ~> (p \notin kernel)

=============================================================================
