# wgserver in TLA+

A formal model of wgserver (`src/`): the daemon that keeps a table of WireGuard
peers and carries it over to the kernel, the two ways peers get into that table
(an admin's web form and a Telegram bot), the life of its process, and the
updater that replaces its binary. The modules are model-checked with TLC; the
theorems are proved with TLAPS for every value of the constants.

`PROJECT.json` holds the machine-readable side: the components, the runs, the
lines of the source each definition stands for, one plausible bug ("mutant") per
property that makes it fail, the hazards, the findings and the theorems.

## 1. The system

One Go binary, `wgserver`, runs as a systemd service and starts these goroutines:
the HTTP servers (admin, and health if configured), the syncer, the Telegram bot
if it has a token, and one that waits for a signal. They share a SQLite database
(WAL mode, 5 s busy timeout, deferred transactions) and, through `wg`, the
kernel's interface. They share no lock and no in-memory state but the sessions.
A second binary, `wgserver-updater`, is started by a systemd timer every hour.

| Component (source) | State | Operations | Hard behaviour | What makes it correct |
|---|---|---|---|---|
| Syncer (`internal/syncer/loop.go`) | locals only: the list it ranges over | a tick: pending pass, then reconcile pass | rows change between its list, its `wg` command and its mark; any step fails; the daemon dies between two | a row marked synced is in the kernel; live tunnels stay; revoked peers go; nothing stays pending |
| Peers table (`internal/store/peers.go`) | rows, disabled, pending_sync, preshared_key | create, disable, mark, lists | one statement each, so everything interleaves | address unique; revoke is final |
| WireGuard driver (`internal/wg`) | kernel peers, PSK files | add, remove, show | file and command are two steps; the interface is emptied by wg-quick | the kernel has the row's data |
| IP allocator (`internal/ipam`) | none | Allocate | reads outside the transaction that uses the answer | unique, compact, finds the last one |
| Claims (`internal/store/telegram.go`) | telegram_users, telegram_claims | upsert, claim | snapshot read before the write lock, three writes, rollback | quota exact and never exceeded |
| Bot loop (`internal/telegram`) | offset, batch (memory only) | poll, serve an update | restart between claim and delivery or delivery and acknowledgement; time-outs | none lost, duplicates only by restart, charged means delivered |
| Admin web: peers (`internal/web/handlers.go`) | none | create, revoke, show | runs beside all of the above | as the table |
| Admin web: login (`sessions.go`, `middleware.go`, `csrf.go`, `store/admins.go`) | sessions map (memory), csrf key, admins | login, lookup, destroy, create and disable admins | separate critical sections; concurrent requests; lost answers; a restart forgets every session | a session that is over lets nobody in; a form acts for the admin it was shown to; a disabled admin is out in the end |
| Start of a process (`cmd/wgserver/main.go`, `store/db.go`, `web/listen.go`) | the database's schema, csrf.key, socket file | migrate, read or create the key, bind | a crash at any step; create-admin on the same new database | each migration once, in order; the daemon comes back |
| Client .conf (`wg/conf.go`) | what clients downloaded | render | two ends from one row by two ways | both ends agree |
| Process life (`cmd/wgserver/main.go`, `web/listen.go`) | channel of results, shutdown context | serve, shut down | a listener dies while a shutdown begins; a request never ends | ends after a signal, drains first, reports failures |
| Updater (`cmd/wgserver-updater`, `internal/updater`) | files only: binary, backups | check, install, rollback | any step fails, context expires, killed, installed over | the binary is whole; the service survives; rollback restores |
| Configuration, templates | read once at start | | | |
| `deploy/`: install.sh, units, health check script | the host | install, restart | runs at any time beside the updater | |

Who acts on what: handlers and bot write the table; the syncer reads it, runs
`wg`, and clears `pending_sync`; nothing else clears it. The kernel outlives the
daemon, and wg-quick (or an operator) empties the interface behind its back.
Telegram keeps updates until a later poll acknowledges them. systemd restarts
what fails. The updater knows of the daemon only the version its binary prints
and `/healthz`.

## 2. The modules

Built so far:

| Module | Models | Is used by |
|---|---|---|
| `PeerSync` | table, kernel, syncer, handlers, daemon stops, wipes | `MCPeerSync`, `Tunnel` |
| `PeerAccess` | abstract: who may be let in | `PeerSync` (INSTANCE, refinement) |
| `PeerSyncProofs` | theorems about `PeerSync` and `Tunnel` | |
| `Claims` | allocation, admin's insert, the bot's transaction | `MCClaims`, `ClaimsProofs` |
| `ClaimLedger` | abstract: who is granted which address, and who is refused | `Claims` (INSTANCE, refinement) |
| `ClaimsProofs` | theorems about `Claims` and the allocator | |
| `Bot` | updates, offset, batch, charges, deliveries, restarts | `MCBot`, `BotProofs` |
| `BotProofs` | theorems about `Bot` | |
| `Serve` | servers, signal goroutine, main goroutine | run directly, `ServeProofs` |
| `ServeProofs` | theorems about `Serve` | |
| `Semver` | the order of versions, and the order of numbers it is meant to be | `Updater`, `SemverProofs` |
| `SemverProofs` | theorems about `Semver` | `UpdaterProofs` |
| `Updater` | a check, its failures, the files, the service, install.sh | `MCUpdater`, `UpdaterProofs` |
| `UpdaterProofs` | theorems about `Updater` | |
| `Startup` | the start of the daemon and of create-admin: schema, key, socket | `AdminWeb` (INSTANCE) |
| `Sessions` | accounts, sessions, forms, concurrent requests | `AdminWeb` (INSTANCE) |
| `AdminWeb` | Startup and Sessions of one host | run directly, `AdminWebProofs` |
| `AdminWebProofs` | theorems about `AdminWeb`, and so about `Startup` and `Sessions` | |
| `Tunnel` | PeerSync and the .conf each client holds | run directly, `PeerSyncProofs` |
| `IncIP` | the step from an address to the one after it, and a theorem on it | |

The `MC*` modules only give constants values (ranges, subsets, the versions' names).
Definitions named "Mutated form of X" stand just before X; nothing in a
specification uses them.

### PeerSync

A peer is a row id; its public key and address are unique columns that never
change, so it also stands for them. Each column that changes is a set of peers
(`disabled`, `pending`, `withPsk`), as is what the kernel holds (`kernel`,
`kernelPsk`) and the PSK directory. The actions are the code's own atomic steps:

* `CreatePeer`, `DisablePeer`: the handlers' single statements.
* `ListPeersPendingSync`: a tick's first query. `todo` and `seenDisabled` are what
  the syncer then holds, however the table moves on.
* `AddPeer`, `AddPeerFails`, `RemovePeer`, `RemovePeerFails`: `applyOne` on a row
  as it was read, with the PSK file written before and removed after the command.
* `MarkPeerSynced(Fails)`: the update that clears `pending_sync`, whatever the row
  has become.
* `CurrentWGPeers`, `ListEnabledPeers`: the reconcile pass: kernel first, rows second.
* `Stop`, `Start`, `Wipe`, `InterfaceUp`: the environment.

Two history variables: `lost` (wiped and not yet put back) and `raced` (revoked
while the syncer held the row as enabled).

`PeerAccess` is the promise over four sets. Refinement mapping: issued is `rows`,
revoked is `disabled`, live is `kernel`, and an activation in flight is a row the
syncer holds as enabled that is disabled by now. It is weaker than "revoked
peers are out", because the code is: see finding 1.

### Claims

Addresses are offsets into the CIDR; `IncIP` proves that `incIP`, with its carries
from byte to byte, steps from one offset to the one after it. `ReadQuota` takes the
snapshot, `InsertPeer` the write lock (refused if the snapshot is stale, as SQLite does), the writes
become visible in `Commit` only; `Abort` stands for every error and for the death
of the process. Several claimers are several bots on one database, the case
`store/telegram.go` names in its comment. One remark the model made: dropping the
stale-snapshot check violates nothing. The address is allocated before the
snapshot is taken, so a claim that was overtaken by another claim holds that
claim's address and fails on UNIQUE(assigned_ip). The quota is protected twice.

`ClaimLedger` is the promise with none of that: one set of grants, written at once, each
with the lowest address that is free at that moment, and a refusal only for a user who
has the quota. Refinement mapping: granted is `rows`, those being told no are the users of
the claimers at "refused". That the address is still the lowest free one at the commit,
though it was chosen before the snapshot, needs that rows never go.

### Bot

Telegram's side is `unconfirmed`; `Poll` acknowledges what is up to `offset` and
fetches the front of the rest, at most `BatchLimit` updates (`Front`: Telegram's limit is
100, and a batch that leaves some behind is what matters). A call that fails may have failed on its way back. `Claim`
commits before `Send`; `Send` may deliver and still report an error. `Stop` at any
point loses offset and batch.

### Serve

`serveErr` is the channel with room for two; `main` collects as many results as it
has room for. net/http's `Shutdown` is external: it closes the listener at once
and returns when the server is idle or the ten seconds are over.

### Updater

A version is a number, in the order of the commits they were made from; its `Tag` is
the name the code has for it, and the code sees that only: whether it is later than
another is `semverCompare` of their tags (`Semver`, which has `Value` and `Earlier`, the
order of numbers, to compare it with). `Builds` are what deploy.sh makes between
releases, named by `git describe`. `disk` is the version at `CurrentBin` or
`Torn`; `executable` is its mode; `running` what the service runs. Every step has
its failure; `Expire` is the five-minute context, `Kill` systemd or a reboot,
`Install` the deploy script at any moment. `ServiceSurvivesUntilSwap` is the part of
`OnlyInstallMends` before the first swap; from the swap on, the property is about every step:
a restart that fails, a kill, a rollback, a boot or a later check may take the service down,
and none of them brings a version up.

### Startup, Sessions, AdminWeb

`Startup` follows a process from its start to its work: `store.Open` with the read of
schema_version and one transaction per migration (`ApplyMigration` takes SQLite's write
lock, `CommitMigration` makes statements and version visible together), then for the
daemon csrf.key (`CreateKey` leaves an empty file, `FillKey` the key) and the UNIX
socket. A process that read schema_version before another one applied a migration runs
into its `CREATE TABLE` (`MigrationFails`) and exits. `Die` is a crash at any step, or a
call that fails; it leaves the files as they are.

In `Sessions` a request is a record that goes through the code's critical sections one
by one: `Login` (the read of the account) and `Create` with bcrypt in between; `Lookup`
(the map, under its lock), `Admit` or `Refuse` (the expiry), `Enter` or `RefuseForm` (the
form's token, `Verified`, which is read with the body) and the handler. Between any two of
them other requests, logouts and the expiry go on. A request without a form is a GET or a
POST without a token; the latter changes nothing (`RefuseForm`). Ids are handed out in order. A form's token is an HMAC of the
session's id under a key that never changes, so it stands for the id. Every answer that
sets a cookie or shows a form may be lost. `late` marks, as history, a request sent with
the cookie of a session that a logout had ended by then.

`AdminWeb` puts them together as the process does: requests are served while the
daemon is up, its end at any step of any request is `Sessions!Restart` (the map is a
local of `serve`), and create-admin's insert is the last step of its start. Their
properties are checked of the composition only.

### Tunnel

`confs` is what each client got last, from `PeerConfigGet` or from the bot; the kernel's
end comes from PeerSync. Both callers leave `PresharedKey` out.

## 3. The runs

| Run | Module | Bounds | States | Shows |
|---|---|---|---|---|
| `PeerSyncChecks` | MCPeerSync | 2 rows | 21.5 k | type, row/kernel agreement, both action properties, refinement of PeerAccess; issued peers get in, tunnels stay, revoked ones leave, pending drains |
| `PeerSyncDesync` | MCPeerSync | 1 row | | finding 1 (violation) |
| `ClaimsChecks` | MCClaims | 2 bots, 2 users, 1 admin, 3 free addresses, quota 2 | 158 k | quota exact and never exceeded, addresses unique and compact, refinement of ClaimLedger, the pool is used to its last address |
| `ClaimsRevokedQuota` | MCClaims | quota 1, 2 free addresses | | finding 3 (violation) |
| `BotLoop` | MCBot | 3 updates, 2 to a poll, 2 users, 1 restart, quota 2 | 60 k | none lost, duplicates, charges, acknowledgement |
| `BotDeaf` | MCBot | 2 updates, 2 to a poll, 2 restarts | | finding 2 (violation) |
| `ServeShutdown` | Serve | 2 servers, 2 requests each | 1.7 k | drains, health outlives admin, failures reported, ends after a signal |
| `ServeSingle` | Serve | 1 server, 1 request | | finding 4 (violation) |
| `UpdaterChecks` | MCUpdater | 5 releases, 1 build | 88 k | disk whole, service survives until the swap and is mended by install.sh only after it, rollback restores, only a host with a build misses a later release |
| `UpdaterUnrunnable` | MCUpdater | 5 releases, 1 build | | finding 5 (violation) |
| `AdminWeb` | AdminWeb | 1 create-admin, 2 migrations, 2 admins, 1 browser, 2 logins, 2 concurrent requests | 350 k | schema whole, the daemon comes back, logged out stays out, forms keep their admin, disabled admins lose access |
| `TunnelPsk` | Tunnel | 1 row | | finding 6 (violation) |

Why the bounds are enough. The syncer treats its rows one by one and in id order,
and properties speak of one peer at a time: two rows let one be held up by the
other. (Every safety property of every passing run is proved for constants of any size,
section 4; the bounds matter for liveness, and for finding out what is true.) Quota 2 with three free addresses lets a user fill
the quota with an address to spare, and two users exhaust the pool between them. Of
three updates two can be of one user with one of another between them, a poll that answers
with two leaves one in the queue, and one restart is enough to serve twice. Two requests leave one under way when another is answered. The
versions are two releases that work (so that there is something to roll back to twice
over), one that starts and is not healthy, one that does not start, a build made to mend
it, and a later release that works; their names cross from v0.9 to v0.10, where the
order of numbers and that of text differ. Two migrations have an order and a place
between them to die at; one create-admin is a second process on the database. A browser
with two logins has the cookie of one session and forms of another; two requests race
each other (a lookup and a logout, a form and a login).

Bounds inside modules: `Peers` bounds creates, `Updates` messages, `MaxRestarts`
starts of the bot, `BatchLimit` the updates of a poll, `MaxInFlight` requests of Serve, `Ids` logins, `Requests` requests
under way; `Claims!DisablePeer` revokes only peers that came after the start; nobody
starts create-admin once every one of `Admins` has an account.

Deadlock is checked except in `BotLoop` and `BotDeaf` (messages and restarts run
out: the bounds stop the system) and in the two Serve runs (the process exits).

### Fairness, and why

* Goroutines run: weak fairness on each step that stays possible (`ListPeersPendingSync`,
  `EndOfPass`, `Collect`, `Serve(m)`, ...). The Go scheduler gives that.
* An operation tried again and again does not fail for ever: strong fairness on
  the successful `wg`, read, update, poll. The properties that use it say what
  happens when the fault is transient; with a fault for ever nothing can be promised.
* `Start`: a stopped daemon is started again. `Restart=on-failure` and the boot
  cover failures; a clean stop is by the updater or an operator, who starts it.
  Liveness is stated under `Stable` (up from some time on) besides.
* `InterfaceUp`: wg-quick brings the interface back.
* Not assumed: that anybody answers a request, sends a signal, revokes, or stops
  wiping (`TunnelsStayUp` has the end of wipes as a hypothesis), or that
  Telegram's answers arrive.
* Startup: systemd starts the daemon as long as it is wanted (`again`), a process that
  runs takes its next step, and a transaction that has the write lock commits. Crashes
  are never ruled out by the specification: `ComesBack` has their end as its hypothesis
  (`<>[][~Die]`), and a torn key as the one way not to come back (see section 5).
* Sessions: a handler that runs returns, and a session's 24 hours end.
* `Claims`: an admin keeps asking, and is not beaten to the address for ever.

## 4. What is proved

Every invariant, every action property and every refinement that a passing run checks
is a theorem of its specification, for every value of the constants that satisfies the
assumptions below. The pattern is the same in every `*Proofs` module: an inductive
invariant `IInv` (checked with TLC on a small instance before it
was proved), `InitIInv`, one lemma per group of actions with a case per action, and a
theorem per property.

### Assumptions

TLC evaluates each of them in the runs.

| Assumption | Says | Why the code justifies it |
|---|---|---|
| `PeersAssumption`, `UpdatesAssumption` | ids are numbers | SQLite's and Telegram's are |
| `NobodyAssumption`, `NamesAssumption`, parts of `VersionsAssumption` and `AdminWebAssumption` | "none" is not one of the things it is none of, kinds are apart | names of the model |
| `BoundsAssumption`, `QuotaAssumption`, `ServeAssumption` | quotas and counts are natural numbers, a poll may answer with at least one update | Telegram answers with up to 100 |
| `SizeAssumption` | the CIDR has at least five host bits | `ipam` refuses smaller ones |
| `TakenAssumption`, `CompactAssumption` | the database it starts with has hosts of the CIDR, the lowest there are | the allocator left them, rows are never deleted, clients.cidr and clients.address as they were |
| `ReleasesAssumption` | releases are tagged upwards, with three numbers of up to four digits and no leading zero | tags are made in order; what "up to date" should mean otherwise, nothing says |
| `BuildsAssumption` | a build is named for the last release before it, and has more characters after its third number | `git describe` on a linear history |

Nothing needs a set to be finite: there may be any number of rows, bots, users,
messages, processes, requests and releases.

### PeerSync and Tunnel (`PeerSyncProofs`)

`SpecTypeOK`, `SpecSyncedRowIsInstalled`, `SpecRevokedStaysOnlyIfRaced`,
`SpecKernelMatchesRow`, `SpecSyncerKnowsItsRows` (invariants),
`SpecTunnelsDropOnlyByRevokeOrWipe`, `SpecRevivedOnlyIfRaced` (action properties),
`SpecImplementsAccess` (PeerSync implements PeerAccess), `TunnelImplementsPeerSync`,
`SpecOnlyPsksMisfit`.

"Synced rows are installed" is not inductive: `MarkPeerSynced` clears
`pending` without a look at the kernel, so one has to know that the row it marks
was applied, and still is. `SyncerKnowsItsRows` says that: a row read as disabled is
disabled (revokes are final, so the list cannot be stale that way); a row read as
enabled that is disabled now is in `raced`; and between a command and its mark the
command's effect stands, or a wipe undid it, because only the syncer itself runs
`wg` and it is between two of its steps. With it the conjunction

    IInv == TypeOK /\ SyncerKnowsItsRows /\ SyncedRowIsInstalled
            /\ RevokedStaysOnlyIfRaced /\ KernelMatchesRow

is inductive (`InitIInv`, `NextIInv`: one step per action). The action properties follow
since only `AddPeer`, `RemovePeer` and `Wipe` change the kernel (`KernelSteps`), and the
refinement from a step-by-step simulation (`StepSimulates`). Steps of Tunnel are steps of
PeerSync or leave its state alone, so Tunnel has all of this, and with
`KernelMatchesRow` it gives the exact extent of finding 6.

### Claims (`ClaimsProofs`)

`SpecTypeOK`, `SpecQuotaIsExact`, `SpecQuotaNeverExceeded`, `SpecAddressesUnique`,
`SpecPoolIsCompact`, `SpecImplementsLedger`, `AllocateFindsOne`.

The quota is not inductive by itself, since a claim decides from a snapshot, before it
has the lock. `Knowledge` says what a claimer still knows: if nobody committed after its
snapshot (`stale`), and so always when it holds the write lock, its user has room in the
quota; and the address it inserted is in nobody's row. `HeldIsLowest` says that no free
address is below one that is held, though the held one may be taken by now: addresses
only go. Exactness counts rows, so it carries the finiteness of each user's rows
(`QuotasAreFinite`, with the cardinality theorems). `SpecPoolIsCompact` and
`SpecImplementsLedger` follow: at the commit the address is free (`Knowledge`) and the
lowest (`HeldIsLowest`), which is the grant of `ClaimLedger`. `AllocateFindsOne`, about the
operator alone, is by well-founded induction on the addresses.

### Bot (`BotProofs`)

`SpecTypeOK`, `SpecAcknowledgedWereServed`, `SpecDuplicateOnlyAfterRestart`,
`SpecChargedMeansDelivered`.

A poll acknowledges everything up to `offset`, also what this run never saw.
`PassedWereServed` is what makes that right, and is kept when the offset moves because the
batch is the front of the queue (`BatchIsFront`; `FrontIsBelow` for what a poll leaves
behind, by the cardinality theorems): nothing unserved is between the old
offset and the new one, as ids come in order (`ArrivedInOrder`). That an update grants
once per run is `RunGrantsOnce`: what is above the offset was granted by earlier runs only,
unless its document is being sent right now.

### Serve (`ServeProofs`)

`SpecTypeOK`, `SpecCleanExitDrains`, `SpecHealthOutlivesAdmin`, `SpecCleanMeansClosed`.

`DrainedSoFar` says for each stage of the signal goroutine what it has behind it (a
closed listener accepts nothing, so a server seen idle stays idle); `ResultsAddUp` that the
results in the channel and the ones collected are one per server that returned, and a
failure among them is in the channel or has been acted on. A clean exit has collected two.

### Semver and Updater (`SemverProofs`, `UpdaterProofs`)

`lessNumericIsLess`: on numbers without leading zeros, comparing lengths and then text is `<`.
`semverCompareIsOrder`: `semverCompare` is the order of releases. `UpdatesGoForward`: with
builds among them, what it calls an update still is one; it errs only by missing one.
Then `SpecTypeOK` (no check goes on with a version below the one installed),
`SpecDiskIsWhole`, `SpecServiceSurvivesUntilSwap`, `SpecRolledBackIsPrevious`,
`SpecMissesOnlyBuilds` (an action property), `SpecOnlyInstallMends` (one more, with the
invariant before the swap) and `SpecRollbackStopsService`.

The rollback's guarantee needs `PreviousIsKept`: from the backup on, the last backup is
whole and holds what the check found, as long as nobody else wrote CurrentBin meanwhile
(`meddled`) and the clock was not set back (`stepped`: the backup's name is a time). That a check
is about a release (`LatestIsRelease`) is what makes `UpdatesGoForward` apply.
`SpecOnlyInstallMends` and `SpecRollbackStopsService` need besides that a file a check has
written is never executable (`SpecWrittenCannotRun`): the service cannot be started from it,
and a check that cannot ask it for its version ends at once.

### Startup, Sessions and AdminWeb (`AdminWebProofs`)

`SpecTypeOK`, `SpecSchemaWhole`, `SpecLoggedOutStaysOut`, `SpecFormsKeepTheirAdmin`,
`SpecTornKeyIsForGood`, `SpecImplementsStartup`, `SpecImplementsSessions`.

The invariant is one per component and one of their composition: every step of AdminWeb
is a step of Startup, of Sessions or of both (the daemon's end is a restart of the sessions),
which gives both refinements. For the schema, `AppliedIsCommitted`: what a process has
seen applied is committed, and so is everything before it, though several migrate at once.
For sessions, `LoggedOutIsGone`: an id that was logged out is in the map no more and is
never handed out again; so the lookup of a late request fails, and what gets past it was sent before the logout. `FormsOfTheSession`: past RequireCSRF the form is
that of the session or there is none. `SpecTornKeyIsForGood` is the other side of the
exception in `ComesBack`: with a torn key the daemon is not up, so no form is ever signed with
it (the part of the type invariant about the key), and no step mends it.

### IncIP

`IncIPAddsOne`, with no assumption: for every address of four bytes, by cases on
how far the carry goes. It is what lets Claims count addresses as offsets.

### Only model-checked

* Liveness (out of the prover's reach, as is ENABLED): `IssuedReachesKernel`,
  `TunnelsStayUp`, `RevokedLeavesKernel`, `PendingDrains`, `PoolDrains`,
  `EveryUpdateAcknowledged`, `FailureIsReported` (but its safety half,
  `SpecCleanMeansClosed`), `SignalEndsProcess`, `ComesBack`, `DisabledLosesAccess`.
* The properties of the violation runs, which are false.

Out of reach besides: version numbers of more than four digits, which would need induction
over the digits of a number. `Value` is therefore written out for four.


## 5. Findings

1. **A revoke can be lost** (`PeerSyncDesync`). A revoke that commits between the
   syncer's list and its mark has its `pending_sync` cleared by that mark. The peer
   stays in the kernel; the reconcile pass looks at enabled rows only. The proof
   shows this is the only window (`SpecRevokedStaysOnlyIfRaced`).
2. **The bot can go deaf** (`BotDeaf`). Run returns on `context.DeadlineExceeded`, which
   the HTTP client's own time-out also is.
3. **Revoking does not make room in the quota** (`ClaimsRevokedQuota`), though the
   reply to a refused user says so.
4. **With a single listener the process does not end after a signal** (`ServeSingle`):
   main waits for two results. systemd's `TimeoutStopSec` (90 s by default) then kills it.
   `SpecCleanMeansClosed`: without a health listener no clean exit is ever reached.
5. **What the updater installs cannot be executed** (`UpdaterUnrunnable`): the mode of
   `os.CreateTemp` survives. The health check fails, the rolled-back binary is not
   executable either, and later checks take it for a dev build and skip (`OnlyInstallMends`).
   `SpecRollbackStopsService`: so it is after every rollback that completes, whatever the
   releases.
6. **A preshared key closes the tunnel it is meant for** (`TunnelPsk`). No .conf the server
   hands out has the row's key, which the kernel is configured with; the README's
   remedy, claiming the .conf again, cannot help. `SpecOnlyPsksMisfit`: the peers with a
   preshared key are all that are hit, and all of them are.

What the models show without a run that fails:

* A csrf.key cut short (a crash in `os.WriteFile`, a full disk) keeps the daemon from
  starting until somebody removes it: `TornKey` in `ComesBack`, and `SpecTornKeyIsForGood`.
* A build of deploy.sh misses the next patch release, its `2-1-ga` being longer, and so
  "later", than `3`. `MissesOnlyBuilds` (checked, and proved as `SpecMissesOnlyBuilds`)
  says that nobody else does.
* Disabling an admin does not end their sessions; `DisabledLosesAccess` holds by their
  expiry, and by LoginPost's look at the column, without which there would always be new ones.

Seen and not modelled:

* The updater's health URL is plain HTTP to the admin address, wrong if that has TLS or is
  a UNIX socket and no health_addr is set.
* install.sh between a backup and its rollback is undone by the rollback (the model has
  it; nothing promises otherwise).
* `SessionStore.GC` is called by nobody: an expired session that is not presented again
  stays in memory.
* LoginGet is outside LoadSession, so its redirect of an admin who is logged in does not happen.
* csrf.key is kept across restarts, the sessions it signs for are not.
* `git describe --always` without a tag prints a bare hash, which `lessNumeric` takes for
  later than any release.
* A write that is in the page cache only when the host loses power.

## 6. Not modelled, and why

* The layout of the .conf, the parsing of templates, the loading of the configuration
  (YAML, read once and not validated), the request encodings of the Telegram API, the `wg`
  and key generation command lines: conversions and calls without state that no property
  is about.
* startupCheck of the bot, which only logs.
* The TCP and TLS listeners: they bind or fail, as the socket does, and leave nothing behind.
* xray, iptables, host set-up in `deploy/`: no state the Go program reads or writes.
  What the scripts do to the running system (restarts, wipes, an installed binary)
  is in the environment actions.
* The health check script, logs and metrics: they only read.
* Names, timestamps and `expires_at` of peers: no code reads the last, and the
  others only appear on pages.

## 7. The plan

Order: the path from table to kernel first (an error there gives or takes access),
then who gets into the table, then delivery, then process and binary, then the web in
front of it. Done in this order: PeerSync, PeerAccess, PeerSyncProofs, Claims, Bot, Serve,
Updater; Startup, Sessions, AdminWeb, Tunnel, Semver, IncIP, ClaimLedger.

The proofs followed: PeerSync, then Claims, Bot, Serve, Semver, Updater, AdminWeb, Tunnel.

Next:

* More action properties where a run checks none: what no step of Claims, Serve or
  AdminWeb may do (an address that changes hands, a channel's result taken back, an
  account that comes back).
* The exact extent of findings 1, 2 and 3 as theorems, as for 4, 5 and 6.
* Abstract specifications of Bot (an outbox that delivers at least once) and of Updater
  (a binary that is replaced or kept), with their refinements.
