------------------------------- MODULE Claims -------------------------------
(***************************************************************************)
(* How peers come into the table: the admin form (web.PeerNewPost) and the *)
(* bot's /start (telegram.handleUpdate up to ClaimPeerForTelegramUser),    *)
(* with the address allocation (internal/ipam) both begin with.            *)
(*                                                                         *)
(* The address is chosen by a read of its own, before and outside the      *)
(* write that uses it.  A claim runs in one deferred SQLite transaction in *)
(* WAL mode: its first SELECT takes a snapshot, its first INSERT takes the *)
(* only write lock, and SQLite refuses that upgrade (SQLITE_BUSY_SNAPSHOT) *)
(* if anyone committed in between.                                         *)
(***************************************************************************)
EXTENDS Integers, FiniteSets

CONSTANTS
    Claimers,   \* bot goroutines: one per running instance of the daemon
    Admins,     \* admin requests being served
    Users,      \* Telegram users
    NoUser,     \* the owner of an admin's peer
    NoOne,      \* holds the write lock when nobody does
    PerUserQuota, \* telegram.per_user_quota
    Size,       \* addresses in clients.cidr
    Server,     \* clients.address, as an offset into the CIDR
    Taken       \* addresses of the peers there are to begin with

ASSUME SizeAssumption == Size \in Nat /\ Size >= 32   \* bits - ones >= 5
ASSUME QuotaAssumption == PerUserQuota \in Nat
ASSUME NamesAssumption == NoUser \notin Users /\ NoOne \notin Claimers
                        /\ Claimers \intersect Admins = {}

Addresses == 0..(Size - 1)
Network   == 0
Broadcast == Size - 1
Usable    == Addresses \ {Network, Broadcast, Server}

ASSUME TakenAssumption == Server \in Addresses /\ Taken \subseteq Usable

\* Rows are never deleted, so what the allocator has left in a database that
\* began empty, under the same clients.cidr and clients.address, is the lowest
\* addresses there are.
ASSUME CompactAssumption == \A h \in Taken : \A l \in Usable \ Taken : h < l

VARIABLES
    rows,       \* the peers table: [ip, by], by the user it was claimed by
    revoked,    \* addresses of rows with disabled = 1
    claims,     \* telegram_claims: [ip, by]
    known,      \* users with a row in telegram_users
    quotaUsed,  \* their quota_used
    pc,         \* where each claimer and each admin request is
    user,       \* the sender of the /start a claimer serves
    ip,         \* the address a claimer or an admin request holds
    writer,     \* who holds SQLite's write lock
    stale       \* open snapshots older than the last commit

vars == <<rows, revoked, claims, known, quotaUsed, pc, user, ip, writer, stale>>

\* "counted" is a claim with its three writes done and not yet committed.
ClaimerAt == {"idle", "known", "addressed", "read", "inserted", "claimed",
              "counted", "refused"}
AdminAt   == {"idle", "addressed"}
Writing   == {"inserted", "claimed", "counted"}

Row == [ip : Usable, by : Users \union {NoUser}]

\* An address or a sender nobody has chosen yet: NoUser, and the server's own
\* address, which no peer can have.
TypeOK ==
    /\ rows \subseteq Row
    /\ revoked \subseteq {r.ip : r \in rows}
    /\ claims \subseteq rows
    /\ known \subseteq Users
    /\ quotaUsed \in [Users -> 0..PerUserQuota]
    /\ pc \in [Claimers \union Admins -> ClaimerAt]
    /\ \A a \in Admins : pc[a] \in AdminAt
    /\ user \in [Claimers -> known \union {NoUser}]
    /\ ip \in [Claimers \union Admins -> Usable \union {Server}]
    /\ writer \in Claimers \union {NoOne}
    /\ \A c \in Claimers : pc[c] \in Writing <=> writer = c
    /\ stale \subseteq {c \in Claimers : pc[c] = "read"}

Used == {r.ip : r \in rows}
Free == Usable \ Used
OwnedBy(u) == {r \in rows : r.by = u}

\* A database with some admins' peers in it and no Telegram user yet.
Init ==
    /\ rows = [ip : Taken, by : {NoUser}]
    /\ revoked = {} /\ claims = {} /\ known = {}
    /\ quotaUsed = [u \in Users |-> 0]
    /\ pc = [p \in Claimers \union Admins |-> "idle"]
    /\ user = [c \in Claimers |-> NoUser]
    /\ ip = [p \in Claimers \union Admins |-> Server]
    /\ writer = NoOne
    /\ stale = {}

-----------------------------------------------------------------------------
\* p commits: the snapshots open elsewhere are now out of date.
CommitBy(p) == stale' = {c \in Claimers \ {p} : pc[c] = "read"}

Goto(p, l) == pc' = [pc EXCEPT ![p] = l]

\* The request is over, whatever came of it.
Finish(p) ==
    /\ Goto(p, "idle")
    /\ ip' = [ip EXCEPT ![p] = Server]
    /\ user' = IF p \in Claimers THEN [user EXCEPT ![p] = NoUser] ELSE user

\* Mutated form of Allocate: the loop moves on once more before it looks.
AllocateNext == {h \in Free : Cardinality({l \in Free : l < h}) = 1}

\* Mutated form of Allocate: the addresses of revoked peers look free.
AllocateRevoked ==
    {h \in Free \union revoked : \A l \in Free \union revoked : h <= l}

\* ipam.Allocate: the lowest host of the CIDR that no row has, enabled or
\* not, and that is neither the server's nor the network or broadcast one; or
\* none.
Allocate == {h \in Free : \A l \in Free : h <= l}

-----------------------------------------------------------------------------
(***************************************************************************)
(* The admin's request: Allocate, then one INSERT of its own.              *)
(***************************************************************************)
WebAllocate(a) ==
    /\ pc[a] = "idle"
    /\ \E h \in Allocate : ip' = [ip EXCEPT ![a] = h]
    /\ Goto(a, "addressed")
    /\ UNCHANGED <<rows, revoked, claims, known, quotaUsed, user, writer, stale>>

WebCreate(a) ==
    /\ pc[a] = "addressed"
    /\ writer = NoOne
    /\ ip[a] \notin Used                                \* UNIQUE
    /\ rows' = rows \union {[ip |-> ip[a], by |-> NoUser]}
    /\ CommitBy(a)
    /\ Finish(a)
    /\ UNCHANGED <<revoked, claims, known, quotaUsed, writer>>

\* The address went to someone else meanwhile, keygen failed, or the write
\* lock was not to be had in five seconds: a 500, and nothing written.
WebFails(a) ==
    /\ pc[a] = "addressed"
    /\ Finish(a)
    /\ UNCHANGED <<rows, revoked, claims, known, quotaUsed, writer, stale>>

\* PeerRevokePost.  Rows, addresses and quotas stay as they are.  (A bound:
\* only peers that came after the start are revoked.)
DisablePeer(h) ==
    /\ writer = NoOne
    /\ h \in Used \ Taken
    /\ revoked' = revoked \union {h}
    /\ CommitBy(NoOne)
    /\ UNCHANGED <<rows, claims, known, quotaUsed, pc, user, ip, writer>>

\* Any other commit, of the syncer's marks for one.
OtherCommit ==
    /\ writer = NoOne
    /\ CommitBy(NoOne)
    /\ UNCHANGED <<rows, revoked, claims, known, quotaUsed, pc, user, ip, writer>>

-----------------------------------------------------------------------------
(***************************************************************************)
(* The bot's request.                                                      *)
(***************************************************************************)

\* A /start arrives: the sender's row is inserted with quota_used = 0, or
\* updated in every column but that one.
UpsertTelegramUser(c, u) ==
    /\ pc[c] = "idle"
    /\ writer = NoOne
    /\ known' = known \union {u}
    /\ user' = [user EXCEPT ![c] = u]
    /\ CommitBy(c)
    /\ Goto(c, "known")
    /\ UNCHANGED <<rows, revoked, claims, quotaUsed, ip, writer>>

BotAllocate(c) ==
    /\ pc[c] = "known"
    /\ \E h \in Allocate : ip' = [ip EXCEPT ![c] = h]
    /\ Goto(c, "addressed")
    /\ UNCHANGED <<rows, revoked, claims, known, quotaUsed, user, writer, stale>>

\* Mutated form of ReadQuota: used > limit.
ReadQuotaOffByOne(c) ==
    /\ pc[c] = "addressed"
    /\ Goto(c, IF quotaUsed[user[c]] > PerUserQuota THEN "refused" ELSE "read")
    /\ UNCHANGED <<rows, revoked, claims, known, quotaUsed, user, ip, writer, stale>>

\* Mutated form of ReadQuota: the limit is on what everybody claimed.
ReadQuotaOfAll(c) ==
    /\ pc[c] = "addressed"
    /\ Goto(c, IF Cardinality(claims) >= PerUserQuota THEN "refused" ELSE "read")
    /\ UNCHANGED <<rows, revoked, claims, known, quotaUsed, user, ip, writer, stale>>

\* The transaction's first statement: the snapshot, and the quota in it.
ReadQuota(c) ==
    /\ pc[c] = "addressed"
    /\ Goto(c, IF quotaUsed[user[c]] >= PerUserQuota THEN "refused" ELSE "read")
    /\ UNCHANGED <<rows, revoked, claims, known, quotaUsed, user, ip, writer, stale>>

\* Mutated form of InsertPeer: assigned_ip is not UNIQUE.
InsertPeerNotUnique(c) ==
    /\ pc[c] = "read"
    /\ writer = NoOne
    /\ c \notin stale
    /\ writer' = c
    /\ Goto(c, "inserted")
    /\ UNCHANGED <<rows, revoked, claims, known, quotaUsed, user, ip, stale>>

\* The upgrade to a write, and the UNIQUE check against a current snapshot.
InsertPeer(c) ==
    /\ pc[c] = "read"
    /\ writer = NoOne
    /\ c \notin stale
    /\ ip[c] \notin Used
    /\ writer' = c
    /\ Goto(c, "inserted")
    /\ UNCHANGED <<rows, revoked, claims, known, quotaUsed, user, ip, stale>>

InsertClaim(c) ==
    /\ pc[c] = "inserted"
    /\ Goto(c, "claimed")
    /\ UNCHANGED <<rows, revoked, claims, known, quotaUsed, user, ip, writer, stale>>

IncrementQuota(c) ==
    /\ pc[c] = "claimed"
    /\ Goto(c, "counted")
    /\ UNCHANGED <<rows, revoked, claims, known, quotaUsed, user, ip, writer, stale>>

\* What the writes made so far come to when they are committed.
Written(c, l) ==
    LET row == [ip |-> ip[c], by |-> user[c]] IN
    /\ rows' = rows \union {row}
    /\ claims' = IF l = "inserted" THEN claims ELSE claims \union {row}
    /\ quotaUsed' = IF l = "counted"
                    THEN [quotaUsed EXCEPT ![user[c]] = @ + 1] ELSE quotaUsed
    /\ CommitBy(c)

Commit(c) ==
    /\ pc[c] = "counted"
    /\ Written(c, "counted")
    /\ writer' = NoOne
    /\ Finish(c)
    /\ UNCHANGED <<revoked, known>>

\* Mutated form of Abort: each statement commits by itself, so an error after
\* the first leaves it in the table.
AbortWithoutTx(c) ==
    /\ pc[c] \in {"known", "addressed", "read"} \union Writing
    /\ IF pc[c] \in Writing THEN Written(c, pc[c])
       ELSE stale' = stale \ {c} /\ UNCHANGED <<rows, claims, quotaUsed>>
    /\ writer' = IF writer = c THEN NoOne ELSE writer
    /\ Finish(c)
    /\ UNCHANGED <<revoked, known>>

\* Mutated form of Abort: no deferred Rollback, so the lock is never let go.
AbortWithoutRollback(c) ==
    /\ pc[c] \in {"known", "addressed", "read"} \union Writing
    /\ Finish(c)
    /\ stale' = stale \ {c}
    /\ UNCHANGED <<rows, revoked, claims, known, quotaUsed, writer>>

\* Any error on the way (no free address, keygen, an address taken meanwhile,
\* an old snapshot, a lock timeout, a failed commit) and a daemon that dies
\* roll the transaction back; the bot moves on to the next update.
Abort(c) ==
    /\ pc[c] \in {"known", "addressed", "read"} \union Writing
    /\ stale' = stale \ {c}
    /\ writer' = IF writer = c THEN NoOne ELSE writer
    /\ Finish(c)
    /\ UNCHANGED <<rows, revoked, claims, known, quotaUsed>>

\* ErrQuotaExceeded: "you've reached your quota of %d configs".
TellQuotaExceeded(c) ==
    /\ pc[c] = "refused"
    /\ Finish(c)
    /\ UNCHANGED <<rows, revoked, claims, known, quotaUsed, writer, stale>>

-----------------------------------------------------------------------------
Bot(c) ==
    \/ \E u \in Users : UpsertTelegramUser(c, u)
    \/ BotAllocate(c) \/ ReadQuota(c)
    \/ InsertPeer(c) \/ InsertClaim(c) \/ IncrementQuota(c) \/ Commit(c)
    \/ Abort(c) \/ TellQuotaExceeded(c)

Web(a) == WebAllocate(a) \/ WebCreate(a) \/ WebFails(a)

Next ==
    \/ \E c \in Claimers : Bot(c)
    \/ \E a \in Admins : Web(a)
    \/ \E h \in Usable : DisablePeer(h)
    \/ OtherCommit

Spec == Init /\ [][Next]_vars

\* An admin keeps asking, now and then while no claim is being written (one
\* holds the lock for milliseconds); a request that is under way goes on; and
\* one that could succeed again and again is not beaten to it for ever.
Fairness ==
    /\ \A c \in Claimers :
        WF_vars(InsertClaim(c) \/ IncrementQuota(c) \/ Commit(c) \/ Abort(c))
    /\ \A a \in Admins :
        /\ SF_vars(writer = NoOne /\ WebAllocate(a))
        /\ WF_vars(WebCreate(a) \/ WebFails(a))
        /\ SF_vars(WebCreate(a))

FairSpec == Spec /\ Fairness

-----------------------------------------------------------------------------
\* Every peer a user got was counted and recorded, once, and nothing else was:
\* quota_used, telegram_claims and the peers table say the same of each user,
\* however claims, admins' requests, rollbacks and crashes interleave.
QuotaIsExact ==
    /\ claims = {r \in rows : r.by # NoUser}
    /\ \A u \in Users : quotaUsed[u] = Cardinality(OwnedBy(u))

\* "a second bot instance or a direct DB write cannot bypass it".
QuotaNeverExceeded == \A u \in Users : Cardinality(OwnedBy(u)) <= PerUserQuota

\* Two peers never have one address.
AddressesUnique == \A r, s \in rows : r.ip = s.ip => r = s

\* No address is skipped: every free address is above all that are in use,
\* although requests choose theirs from old reads and may fail after choosing.
PoolIsCompact == \A l \in Free : \A h \in Used : h < l

\* While an admin keeps asking the pool is used up to its last address: no
\* revoked peer, lost race or abandoned claim blocks the allocation.
PoolDrains == <>(Free = {})

Ledger == INSTANCE ClaimLedger WITH
    Usable  <- Usable,
    Quota   <- PerUserQuota,
    Before  <- Taken,
    granted <- rows,
    toldNo  <- {user[c] : c \in {d \in Claimers : pc[d] = "refused"}}

\* With its early reads, snapshots and races, every claim and every admin's
\* insert comes to one step at its commit: it grants the address that is the
\* lowest free one then, not only when it was chosen; and nobody is refused
\* on the strength of an old snapshot or of others' claims (Allocate,
\* ClaimPeerForTelegramUser).
ImplementsLedger == Ledger!Spec

\* The reply to a refused user (bot.go): "ask the admin to raise it or revoke
\* an old one", so nobody is refused who has fewer configs than the quota that
\* are not revoked.
RevokeMakesRoom ==
    [][\A c \in Claimers : pc[c] = "addressed" /\ pc'[c] = "refused" =>
          Cardinality({r \in OwnedBy(user[c]) : r.ip \notin revoked}) >= PerUserQuota]_vars

=============================================================================
