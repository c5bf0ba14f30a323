------------------------------ MODULE AdminWeb ------------------------------
(***************************************************************************)
(* The admin web of one host: Startup, which brings the daemon up and      *)
(* down and lets create-admin open the same database, and Sessions, which  *)
(* the daemon serves while it is up (cmd/wgserver/main.go, serve).         *)
(***************************************************************************)
EXTENDS Naturals

CONSTANTS Daemon, Tools, Migrations
CONSTANTS Admins, Browsers, Ids, Requests, None

ASSUME AdminWebAssumption ==
    /\ Daemon \notin Tools
    /\ Migrations \subseteq Nat /\ Ids \subseteq Nat
    /\ None \notin Ids \union Admins

VARIABLES at, applied, tables, versions, key, socket, again
VARIABLES accounts, disabled, sessions, owner, expired, loggedOut, cookie,
          forms, req

Boot == INSTANCE Startup
Web == INSTANCE Sessions

boot == <<at, applied, tables, versions, key, socket, again>>
web == <<accounts, disabled, sessions, owner, expired, loggedOut, cookie,
         forms, req>>
vars == <<at, applied, tables, versions, key, socket, again, accounts,
          disabled, sessions, owner, expired, loggedOut, cookie, forms, req>>

Up == at[Daemon] = "up"

TypeOK ==
    /\ Boot!TypeOK
    /\ Web!TypeOK
    /\ ~Up => sessions = {} /\ \A r \in Requests : req[r] = Web!Idle
    /\ accounts # {} => versions = Migrations

Init == Boot!Init /\ Web!Init

-----------------------------------------------------------------------------
\* A process starts, or does a step that the web does not see.  Nobody runs
\* create-admin once every admin has an account: bounds its runs.
BootStep ==
    /\ \/ Boot!Start(Daemon)
       \/ \E t \in Tools : Boot!Die(t) \/ (accounts # Admins /\ Boot!Start(t))
       \/ \E p \in Boot!Procs : Boot!Open(p)
       \/ Boot!ServeStart
    /\ UNCHANGED web

\* create-admin inserts its row, beside whatever the daemon does.
ToolCreatesAdmin ==
    \E t \in Tools, a \in Admins : Boot!CreateAdmin(t) /\ Web!CreateAdmin(a)

\* The map of sessions is a local of serve: NewSessionStore.
DaemonEnds == (Boot!Die(Daemon) \/ Boot!Stop) /\ Web!Restart

OperatorDisables ==
    /\ \E a \in Admins : Web!DisableAdmin(a)
    /\ UNCHANGED boot

Serve == Up /\ Web!Served /\ UNCHANGED boot

Next == BootStep \/ ToolCreatesAdmin \/ DaemonEnds \/ OperatorDisables \/ Serve

Spec == Init /\ [][Next]_vars
FairSpec == Spec /\ Boot!Fairness /\ Web!Fairness

-----------------------------------------------------------------------------
(***************************************************************************)
(* The properties of the two components hold of the composition: a stop or *)
(* a crash at any step of a request, a start on what they left behind.     *)
(***************************************************************************)
\* A process past migrate works on the whole schema (store.Open).
SchemaWhole == Boot!SchemaWhole

\* The daemon serves again after a crash, but for a torn key (serve).
ComesBack == Boot!ComesBack

\* A request sent after its session's logout is refused (LogoutPost, Get).
LoggedOutStaysOut == Web!LoggedOutStaysOut

\* A form acts for the admin it was shown to, or not at all (RequireCSRF).
FormsKeepTheirAdmin == Web!FormsKeepTheirAdmin

\* A disabled admin is out once their sessions have expired, or the daemon
\* has ended, and logs in no more (LoginPost, Get).
DisabledLosesAccess == Web!DisabledLosesAccess

=============================================================================
