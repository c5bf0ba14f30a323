------------------------------ MODULE Startup ------------------------------
(***************************************************************************)
(* The way of a wgserver process from its start to its work: the daemon    *)
(* (serve) until its admin socket accepts requests, and the create-admin   *)
(* command, which opens the same database (cmd/wgserver/main.go;           *)
(* store/db.go, Open and migrate; web/listen.go, listenUnix).              *)
(*                                                                         *)
(* A migration is a number; its statements and its row of schema_version   *)
(* are written in one transaction.  SQLite is external: one writer at a    *)
(* time, and a transaction that is not committed leaves nothing behind.    *)
(* What outlives a process is the database, the key file csrf.key and the  *)
(* file of the UNIX socket.                                                *)
(***************************************************************************)
EXTENDS Naturals

CONSTANTS
    Daemon,     \* the process systemd runs
    Tools,      \* processes of create-admin
    Migrations  \* versions of the migrations embedded in the binary

Procs == {Daemon} \union Tools

VARIABLES
    at,         \* the place each process has reached, "off" when it does not run
    applied,    \* migrate's map and loop: the migrations each process is done with
    tables,     \* migrations whose statements are in the database
    versions,   \* rows of schema_version
    key,        \* csrf.key: "absent", "short" (fewer than 32 bytes) or "whole"
    socket,     \* there is a file at http.unix_socket
    again       \* systemd (re)starts the daemon when it is down

database == <<tables, versions>>
files == <<key, socket>>
vars == <<at, applied, tables, versions, key, socket, again>>

Opened == {"key", "writekey", "listen", "up", "insert"}

TypeOK ==
    /\ at \in [Procs -> {"off", "open", "migrate", "writing", "failed"} \union Opened]
    /\ \A t \in Tools : at[t] \notin {"key", "writekey", "listen", "up"}
    /\ at[Daemon] # "insert"
    /\ applied \in [Procs -> SUBSET Migrations]
    /\ tables \subseteq Migrations /\ versions \subseteq Migrations
    /\ \A p, q \in Procs : at[p] = "writing" /\ at[q] = "writing" => p = q
    /\ key \in {"absent", "short", "whole"}
    /\ at[Daemon] \in {"listen", "up"} => key = "whole"
    /\ socket \in BOOLEAN /\ again \in BOOLEAN
    /\ at[Daemon] = "up" => socket

Before(v) == {w \in Migrations : w < v}

\* A new host, or one whose database an older release has migrated.
Init ==
    /\ at = [p \in Procs |-> "off"]
    /\ applied = [p \in Procs |-> {}]
    /\ versions \in {{}, Migrations} \union {Before(v) : v \in Migrations}
    /\ tables = versions
    /\ key = "absent" /\ socket = FALSE
    /\ again = TRUE

Goto(p, place) == at' = [at EXCEPT ![p] = place]

-----------------------------------------------------------------------------
(***************************************************************************)
(* store.Open.                                                             *)
(***************************************************************************)
Start(p) ==
    /\ at[p] = "off"
    /\ Goto(p, "open")
    /\ again' = (again \/ p = Daemon)
    /\ UNCHANGED <<applied, database, files>>

\* CREATE TABLE IF NOT EXISTS schema_version, then SELECT version: the
\* migrations another process commits from here on are not noticed.
ReadVersions(p) ==
    /\ at[p] = "open"
    /\ Goto(p, "migrate")
    /\ applied' = [applied EXCEPT ![p] = versions]
    /\ UNCHANGED <<database, files, again>>

\* Version v is the next of p's loop, and p gets the write lock.  The loop is
\* in the order of the file names; these have numbers of equal length.
NextMigration(p, v) ==
    /\ at[p] = "migrate"
    /\ v \in Migrations \ applied[p] /\ Before(v) \subseteq applied[p]
    /\ \A q \in Procs : at[q] # "writing"

\* Mutated form of ApplyMigration: the statements are run outside the
\* transaction that records the version.
ApplyMigrationDirectly(p) ==
    \E v \in Migrations :
        /\ NextMigration(p, v)
        /\ v \notin tables
        /\ tables' = tables \union {v}
        /\ Goto(p, "writing")
        /\ UNCHANGED <<applied, versions, files, again>>

\* tx.Exec(body): CREATE TABLE fails when the table is there.
ApplyMigration(p) ==
    \E v \in Migrations :
        /\ NextMigration(p, v)
        /\ v \notin tables
        /\ Goto(p, "writing")
        /\ UNCHANGED <<applied, database, files, again>>

\* Another process has applied it since ReadVersions.
MigrationFails(p) ==
    \E v \in tables :
        /\ NextMigration(p, v)
        /\ Goto(p, "failed")
        /\ UNCHANGED <<applied, database, files, again>>

\* The row of schema_version, and COMMIT.
CommitMigration(p) ==
    /\ at[p] = "writing"
    /\ \E v \in Migrations \ applied[p] :
        /\ Before(v) \subseteq applied[p]
        /\ tables' = tables \union {v}
        /\ versions' = versions \union {v}
        /\ applied' = [applied EXCEPT ![p] = @ \union {v}]
    /\ Goto(p, "migrate")
    /\ UNCHANGED <<files, again>>

Migrated(p) ==
    /\ at[p] = "migrate" /\ applied[p] = Migrations
    /\ Goto(p, IF p = Daemon THEN "key" ELSE "insert")
    /\ UNCHANGED <<applied, database, files, again>>

-----------------------------------------------------------------------------
(***************************************************************************)
(* The rest of serve's start, and of create-admin.                         *)
(***************************************************************************)
\* Mutated form of ReadKey: the length is not checked.
ReadKeyUnchecked ==
    /\ at[Daemon] = "key" /\ key # "absent"
    /\ Goto(Daemon, "listen")
    /\ UNCHANGED <<applied, database, files, again>>

\* A key that is too short is an error.
ReadKey ==
    /\ at[Daemon] = "key" /\ key # "absent"
    /\ Goto(Daemon, IF key = "whole" THEN "listen" ELSE "failed")
    /\ UNCHANGED <<applied, database, files, again>>

\* os.WriteFile creates the file, empty, and then fills it.
CreateKey ==
    /\ at[Daemon] = "key" /\ key = "absent"
    /\ key' = "short"
    /\ Goto(Daemon, "writekey")
    /\ UNCHANGED <<applied, database, socket, again>>

FillKey ==
    /\ at[Daemon] = "writekey"
    /\ key' = "whole"
    /\ Goto(Daemon, "listen")
    /\ UNCHANGED <<applied, database, socket, again>>

\* Mutated form of ListenUnix: a stale socket file is not removed, and
\* bind(2) refuses its path.
ListenUnixOnce ==
    /\ at[Daemon] = "listen" /\ ~socket
    /\ socket' = TRUE
    /\ Goto(Daemon, "up")
    /\ UNCHANGED <<applied, database, key, again>>

\* Remove the file a crash has left, bind, chmod; then serve requests.
ListenUnix ==
    /\ at[Daemon] = "listen"
    /\ socket' = TRUE
    /\ Goto(Daemon, "up")
    /\ UNCHANGED <<applied, database, key, again>>

\* store.CreateAdmin by create-admin, which is then done.
CreateAdmin(t) ==
    /\ at[t] = "insert"
    /\ \A q \in Procs : at[q] # "writing"
    /\ Goto(t, "off")
    /\ applied' = [applied EXCEPT ![t] = {}]
    /\ UNCHANGED <<database, files, again>>

-----------------------------------------------------------------------------
(***************************************************************************)
(* The end of a process.                                                   *)
(***************************************************************************)
\* os.Exit(1) after one of the errors above.
Exit(p) ==
    /\ at[p] = "failed"
    /\ Goto(p, "off")
    /\ applied' = [applied EXCEPT ![p] = {}]
    /\ UNCHANGED <<database, files, again>>

\* A crash, or a call that fails and that main turns into an exit with
\* status 1.  The file of the socket goes only if listenUnix has removed it.
Die(p) ==
    /\ at[p] \notin {"off", "failed"}
    /\ Goto(p, "off")
    /\ applied' = [applied EXCEPT ![p] = {}]
    /\ IF at[p] = "listen" THEN socket' \in {FALSE, socket} ELSE socket' = socket
    /\ UNCHANGED <<database, key, again>>

\* systemctl stop.  A daemon that serves closes its listener, which unlinks
\* the socket; one that is still starting is killed by the signal.
Stop ==
    /\ again
    /\ again' = FALSE
    /\ Goto(Daemon, "off")
    /\ applied' = [applied EXCEPT ![Daemon] = {}]
    /\ socket' = (socket /\ at[Daemon] # "up")
    /\ UNCHANGED <<database, key>>

Open(p) ==
    \/ ReadVersions(p) \/ ApplyMigration(p) \/ MigrationFails(p)
    \/ CommitMigration(p) \/ Migrated(p) \/ Exit(p)

ServeStart == ReadKey \/ CreateKey \/ FillKey \/ ListenUnix

Next ==
    \/ \E p \in Procs : Start(p) \/ Open(p) \/ Die(p)
    \/ ServeStart
    \/ \E t \in Tools : CreateAdmin(t)
    \/ Stop

\* systemd starts the daemon again, and a process that runs goes on.
Fairness ==
    /\ WF_vars(again /\ Start(Daemon))
    /\ WF_vars(Open(Daemon) \/ ServeStart)
    /\ \A t \in Tools : WF_vars(CommitMigration(t))

Spec == Init /\ [][Next]_vars
FairSpec == Spec /\ Fairness

-----------------------------------------------------------------------------
(***************************************************************************)
(* Properties.                                                             *)
(***************************************************************************)
\* The tables and schema_version never disagree, the migrations are applied
\* in order, and a process that has come through migrate, whichever of two
\* on one database, works on the whole schema (applyMigration's transaction).
SchemaWhole ==
    /\ tables = versions
    /\ \A v \in versions : Before(v) \subseteq versions
    /\ \A p \in Procs : at[p] \in Opened => versions = Migrations

\* A daemon that died while its key was being written has left a key file
\* that readOrCreateKey refuses.
TornKey == key = "short" /\ at[Daemon] # "writekey"

\* Once processes no longer crash, and as long as systemd restarts it, the
\* daemon serves, whatever crashes have left behind: half a migration, a lost
\* race for one, a stale socket file; all but a torn key.
ComesBack ==
    <>[][~\E p \in Procs : Die(p)]_vars =>
        (again ~> (at[Daemon] = "up" \/ ~again \/ TornKey))

=============================================================================
