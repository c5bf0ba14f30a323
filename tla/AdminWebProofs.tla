--------------------------- MODULE AdminWebProofs ---------------------------
(***************************************************************************)
(* Theorems about AdminWeb, for every set of migrations, any number of     *)
(* create-admin processes, admins, browsers, logins and requests: each     *)
(* component keeps its own invariant, and the composition one of its own.  *)
(***************************************************************************)
EXTENDS AdminWeb, TLAPS

\* migrate: the transactions commit whole and in order, and what a process
\* takes to be applied is committed.
AppliedIsCommitted ==
    \A p \in Boot!Procs :
        /\ applied[p] \subseteq versions
        /\ \A v \in applied[p] : Boot!Before(v) \subseteq applied[p]

BootInv == Boot!TypeOK /\ AppliedIsCommitted /\ Boot!SchemaWhole

\* Every request is a record of what it knows; one that was let through by the
\* lookup is of a session somebody had logged in to.
Request ==
    [at : {"idle", "hash", "found", "session", "in"}, by : Browsers \union {None},
     admin : Admins \union {None}, sid : Ids \union {None},
     form : Ids \union {None}, late : {FALSE}]

\* LoadSession has found a session for the request's cookie.
Looked(r) == req[r].at \in {"found", "session", "in"}

RequestsType ==
    /\ req \in [Requests -> Request]
    /\ \A r \in Requests : Looked(r) => owner[req[r].sid] # None

\* A logout takes the session from the map, and no id is handed out twice.
LoggedOutIsGone == \A id \in loggedOut : id \notin sessions /\ owner[id] # None

\* What has passed RequireCSRF has the form of its own session, or none.
FormsOfTheSession ==
    \A r \in Requests : Web!InHandler(r) => req[r].form \in {None, req[r].sid}

WebInv == Web!TypeOK /\ RequestsType /\ LoggedOutIsGone /\ FormsOfTheSession

IInv == TypeOK /\ BootInv /\ WebInv

-----------------------------------------------------------------------------
(***************************************************************************)
(* Startup.                                                                *)
(***************************************************************************)
\* A new host, or one of an older release, satisfies the invariant of Startup.
LEMMA BootInit == Boot!Init => BootInv
  <1> SUFFICES ASSUME Boot!Init PROVE BootInv
    OBVIOUS
  <1> USE AdminWebAssumption DEF Boot!Init, Boot!Procs, Boot!Before
  <1>1. versions \subseteq Migrations
    OBVIOUS
  <1>2. \A v \in versions : Boot!Before(v) \subseteq versions
    <2>1. ASSUME NEW w \in Migrations, versions = Boot!Before(w),
                 NEW v \in versions, NEW u \in Boot!Before(v)
          PROVE  u \in versions
      <3>1. u \in Migrations /\ u < v /\ v < w
        BY <2>1
      <3>2. u \in Nat /\ v \in Nat /\ w \in Nat
        BY <2>1, <3>1
      <3> QED
        BY <2>1, <3>1, <3>2
    <2>2. CASE versions \in {{}, Migrations}
      BY <2>2
    <2> QED
      BY <2>1, <2>2
  <1>3. Boot!TypeOK
    BY <1>1 DEF Boot!TypeOK
  <1> QED
    BY <1>2, <1>3 DEF BootInv, AppliedIsCommitted, Boot!SchemaWhole, Boot!Opened

\* A start, the read of schema_version and the ends of a process keep it.
LEMMA StartOrEnd ==
    ASSUME BootInv, NEW p \in Boot!Procs,
           Boot!Start(p) \/ Boot!ReadVersions(p) \/ Boot!Exit(p) \/ Boot!Die(p)
    PROVE  BootInv'
  <1> USE AdminWebAssumption
      DEF BootInv, AppliedIsCommitted, Boot!SchemaWhole, Boot!Procs, Boot!Opened,
          Boot!Before, Boot!Goto, Boot!database, Boot!files
  <1>1. CASE Boot!Start(p)
    BY <1>1 DEF Boot!Start, Boot!TypeOK
  <1>2. CASE Boot!ReadVersions(p)
    BY <1>2 DEF Boot!ReadVersions, Boot!TypeOK
  <1>3. CASE Boot!Exit(p)
    BY <1>3 DEF Boot!Exit, Boot!TypeOK
  <1>4. CASE Boot!Die(p)
    BY <1>4 DEF Boot!Die, Boot!TypeOK
  <1> QED
    BY <1>1, <1>2, <1>3, <1>4

\* So do the steps of migrate's loop.
LEMMA Migrate ==
    ASSUME BootInv, NEW p \in Boot!Procs,
           \/ Boot!ApplyMigration(p) \/ Boot!MigrationFails(p)
           \/ Boot!CommitMigration(p) \/ Boot!Migrated(p)
    PROVE  BootInv'
  <1> USE AdminWebAssumption
      DEF BootInv, AppliedIsCommitted, Boot!SchemaWhole, Boot!Procs, Boot!Opened,
          Boot!Before, Boot!Goto, Boot!database, Boot!files
  <1>1. CASE Boot!ApplyMigration(p)
    BY <1>1 DEF Boot!ApplyMigration, Boot!NextMigration, Boot!TypeOK
  <1>2. CASE Boot!MigrationFails(p)
    BY <1>2 DEF Boot!MigrationFails, Boot!NextMigration, Boot!TypeOK
  <1>3. CASE Boot!CommitMigration(p)
    BY <1>3 DEF Boot!CommitMigration, Boot!TypeOK
  <1>4. CASE Boot!Migrated(p)
    BY <1>4 DEF Boot!Migrated, Boot!TypeOK
  <1> QED
    BY <1>1, <1>2, <1>3, <1>4

\* So does the rest of the daemon's start, create-admin's insert and a stop.
LEMMA KeyAndSocket ==
    ASSUME BootInv,
           Boot!ServeStart \/ Boot!Stop \/ \E t \in Tools : Boot!CreateAdmin(t)
    PROVE  BootInv'
  <1> USE AdminWebAssumption
      DEF BootInv, AppliedIsCommitted, Boot!SchemaWhole, Boot!Procs, Boot!Opened,
          Boot!Before, Boot!Goto, Boot!database, Boot!files
  <1>1. CASE Boot!ReadKey
    BY <1>1 DEF Boot!ReadKey, Boot!TypeOK
  <1>2. CASE Boot!CreateKey
    BY <1>2 DEF Boot!CreateKey, Boot!TypeOK
  <1>3. CASE Boot!FillKey
    BY <1>3 DEF Boot!FillKey, Boot!TypeOK
  <1>4. CASE Boot!ListenUnix
    BY <1>4 DEF Boot!ListenUnix, Boot!TypeOK
  <1>5. ASSUME NEW t \in Tools, Boot!CreateAdmin(t) PROVE BootInv'
    BY <1>5 DEF Boot!CreateAdmin, Boot!TypeOK
  <1>6. CASE Boot!Stop
    BY <1>6 DEF Boot!Stop, Boot!TypeOK
  <1> QED
    BY <1>1, <1>2, <1>3, <1>4, <1>5, <1>6 DEF Boot!ServeStart

\* Every step of Startup, and every step that leaves its state alone, keeps
\* its invariant.
LEMMA BootKeeps == BootInv /\ [Boot!Next]_boot => BootInv'
  <1>1. BootInv /\ UNCHANGED boot => BootInv'
    BY DEF boot, BootInv, Boot!TypeOK, AppliedIsCommitted, Boot!SchemaWhole,
           Boot!Procs, Boot!Opened, Boot!Before
  <1>2. BootInv /\ Boot!Next => BootInv'
    BY StartOrEnd, Migrate, KeyAndSocket DEF Boot!Next, Boot!Open
  <1> QED
    BY <1>1, <1>2

-----------------------------------------------------------------------------
(***************************************************************************)
(* Sessions.                                                               *)
(***************************************************************************)
\* Before there is any account the invariant of Sessions holds.
LEMMA WebInit == Web!Init => WebInv
  BY AdminWebAssumption
     DEF Web!Init, WebInv, Web!TypeOK, Request, RequestsType, Looked, LoggedOutIsGone,
         FormsOfTheSession, Web!InHandler, Web!Idle

\* What the flag of a late request is while no session is logged out.
LEMMA NotInIsFalse == ASSUME NEW x, NEW S, x \notin S PROVE (x \in S) = FALSE
  OBVIOUS

\* The steps of a login keep it: the id it hands out is new.
LEMMA LoginSteps ==
    ASSUME WebInv, NEW r \in Requests,
           \/ Web!LoginFails(r) \/ Web!Create(r)
           \/ \E b \in Browsers, a \in Admins : Web!Login(r, b, a)
    PROVE  WebInv'
  <1> USE AdminWebAssumption
      DEF WebInv, Request, RequestsType, Looked, LoggedOutIsGone, FormsOfTheSession,
          Web!InHandler, Web!Idle, Web!Done, Web!rows, Web!memory, Web!browser
  <1>1. ASSUME NEW b \in Browsers, NEW a \in Admins, Web!Login(r, b, a) PROVE WebInv'
    BY <1>1 DEF Web!Login, Web!GetAdminByUsername, Web!TypeOK
  <1>2. CASE Web!LoginFails(r)
    BY <1>2 DEF Web!LoginFails, Web!TypeOK
  <1>3. CASE Web!Create(r)
    <2>1. PICK id \in Ids :
              /\ \A i \in Ids : owner[i] = None <=> i >= id
              /\ sessions' = sessions \union {id}
              /\ owner' = [owner EXCEPT ![id] = req[r].admin]
              /\ Web!SetCookie(r, id)
      BY <1>3 DEF Web!Create
    <2>2. /\ owner[id] = None /\ req[r].at = "hash"
          /\ req' = [req EXCEPT ![r] = Web!Idle]
          /\ UNCHANGED <<accounts, disabled, expired, loggedOut, forms>>
      <3>1. id \in Nat /\ id >= id
        OBVIOUS
      <3> QED
        BY <1>3, <2>1, <3>1 DEF Web!Create
    <2>3. req[r].admin \in accounts /\ req[r].admin # None /\ req[r].by \in Browsers
      BY <2>2 DEF Web!TypeOK
    <2>4. /\ owner' \in [Ids -> accounts \union {None}] /\ owner'[id] # None
          /\ \A i \in Ids : owner[i] # None => owner'[i] = owner[i]
      BY <2>1, <2>2, <2>3 DEF Web!TypeOK
    <2>5. cookie' \in [Browsers -> Ids \union {None}]
      BY <2>1, <2>3 DEF Web!SetCookie, Web!TypeOK
    <2>6. \A i \in sessions' : i \in Ids /\ owner'[i] # None
      BY <2>1, <2>4 DEF Web!TypeOK
    <2>7. Web!TypeOK'
      BY <2>2, <2>4, <2>5, <2>6 DEF Web!TypeOK
    <2>8. RequestsType'
      <3>1. req' \in [Requests -> Request]
        BY <2>2
      <3>2. \A q \in Requests : Looked(q) => req[q].sid \in Ids
        BY DEF Web!TypeOK
      <3>3. \A q \in Requests : Looked(q)' => owner'[req'[q].sid] # None
        <4> SUFFICES ASSUME NEW q \in Requests, q # r, Looked(q)
                     PROVE  owner'[req[q].sid] # None
          BY <2>2
        <4>1. req[q].sid \in Ids /\ owner[req[q].sid] # None
          BY <3>2
        <4> QED
          BY <2>4, <4>1
      <3> QED
        BY <3>1, <3>3
    <2>9. LoggedOutIsGone' /\ FormsOfTheSession'
      BY <2>1, <2>2, <2>4 DEF Web!TypeOK
    <2> QED
      BY <2>7, <2>8, <2>9
  <1> QED
    BY <1>1, <1>2, <1>3

\* So do the steps of a request on its way to a handler.
LEMMA LookupSteps ==
    ASSUME WebInv, NEW r \in Requests,
           \/ \E b \in Browsers : Web!Lookup(r, b)
           \/ Web!Refuse(r) \/ Web!Admit(r) \/ Web!Enter(r) \/ Web!RefuseForm(r)
    PROVE  WebInv'
  <1> USE AdminWebAssumption
      DEF WebInv, Request, RequestsType, Looked, LoggedOutIsGone, FormsOfTheSession,
          Web!InHandler, Web!Idle, Web!Done, Web!rows, Web!memory, Web!browser
  <1>1. ASSUME NEW b \in Browsers, Web!Lookup(r, b) PROVE WebInv'
    <2> USE <1>1 DEF Web!Lookup
    <2> DEFINE late == cookie[b] \in loggedOut
    <2>0. late = FALSE
      <3> HIDE DEF WebInv, RequestsType, LoggedOutIsGone, FormsOfTheSession
      <3>1. cookie[b] \notin loggedOut
        BY DEF WebInv, LoggedOutIsGone
      <3> QED
        BY <3>1, NotInIsFalse
    <2>1. PICK form \in forms[b] \union {None} :
              req' = [req EXCEPT ![r] = [at |-> "found", by |-> b, admin |-> None,
                          sid |-> cookie[b], form |-> form, late |-> FALSE]]
      <3> HIDE DEF late, WebInv
      <3>1. PICK form \in forms[b] \union {None} :
                req' = [req EXCEPT ![r] = [at |-> "found", by |-> b, admin |-> None,
                            sid |-> cookie[b], form |-> form, late |-> late]]
        BY DEF late
      <3> QED
        BY <2>0, <3>1
    <2>2. cookie[b] \in Ids /\ owner[cookie[b]] # None /\ form \in Ids \union {None}
      BY DEF Web!TypeOK
    <2>3. Web!TypeOK'
      BY <2>1, <2>2 DEF Web!TypeOK
    <2>4. RequestsType'
      BY <2>1, <2>2
    <2>5. LoggedOutIsGone' /\ FormsOfTheSession'
      BY <2>1
    <2> QED
      BY <2>3, <2>4, <2>5
  <1>2. CASE Web!Refuse(r)
    BY <1>2 DEF Web!Refuse, Web!TypeOK
  <1>3. CASE Web!Admit(r) \/ Web!Enter(r)
    <2>1. PICK place \in {"session", "in"} :
              /\ req' = [req EXCEPT ![r] = [req[r] EXCEPT !.at = place]]
              /\ Looked(r)
              /\ place = "in" => Web!Verified(r)
              /\ UNCHANGED <<accounts, disabled, sessions, owner, expired,
                             loggedOut, cookie, forms>>
      BY <1>3 DEF Web!Admit, Web!Enter
    <2>2. /\ req'[r] = [req[r] EXCEPT !.at = place]
          /\ \A q \in Requests : q # r => req'[q] = req[q]
          /\ UNCHANGED <<accounts, disabled, sessions, owner, expired, loggedOut,
                         cookie, forms>>
      BY <2>1
    <2>3. RequestsType'
      <3>1. req' \in [Requests -> Request]
        BY <2>1
      <3>2. \A q \in Requests : Looked(q)' => owner[req'[q].sid] # None
        BY <2>1, <2>2
      <3> QED
        BY <2>2, <3>1, <3>2
    <2>4. Web!TypeOK'
      <3>1. /\ req'[r].at = place /\ req'[r].by = req[r].by
            /\ req'[r].sid = req[r].sid /\ req'[r].form = req[r].form
        BY <2>2
      <3>2. req[r].by \in Browsers /\ req[r].sid \in Ids /\ req[r].form \in Ids \union {None}
        BY <2>1 DEF Web!TypeOK
      <3> QED
        BY <2>2, <3>1, <3>2 DEF Web!TypeOK
    <2>5. LoggedOutIsGone' /\ FormsOfTheSession'
      BY <2>1, <2>2 DEF Web!Verified
    <2> QED
      BY <2>3, <2>4, <2>5
  <1>4. CASE Web!RefuseForm(r)
    BY <1>4 DEF Web!RefuseForm, Web!TypeOK
  <1> QED
    BY <1>1, <1>2, <1>3, <1>4

\* So do the handlers.
LEMMA HandlerSteps ==
    ASSUME WebInv, NEW r \in Requests, Web!Page(r) \/ Web!Change(r) \/ Web!LogoutPost(r)
    PROVE  WebInv'
  <1> USE AdminWebAssumption
      DEF WebInv, Request, RequestsType, Looked, LoggedOutIsGone, FormsOfTheSession,
          Web!InHandler, Web!Idle, Web!Done, Web!rows, Web!memory, Web!browser
  <1>1. CASE Web!Page(r)
    <2> USE <1>1 DEF Web!Page
    <2>1. forms' \in [Browsers -> SUBSET Ids]
      BY DEF Web!TypeOK
    <2>2. Web!TypeOK'
      BY <2>1 DEF Web!TypeOK
    <2> QED
      BY <2>2
  <1>2. CASE Web!Change(r)
    BY <1>2 DEF Web!Change, Web!TypeOK
  <1>3. CASE Web!LogoutPost(r)
    <2> USE <1>3 DEF Web!LogoutPost, Web!SetCookie
    <2>1. req[r].sid \in Ids /\ owner[req[r].sid] # None
      BY DEF Web!TypeOK
    <2>2. cookie' \in [Browsers -> Ids \union {None}]
      BY DEF Web!TypeOK
    <2>3. Web!TypeOK'
      BY <2>1, <2>2 DEF Web!TypeOK
    <2>4. RequestsType' /\ LoggedOutIsGone' /\ FormsOfTheSession'
      BY <2>1
    <2> QED
      BY <2>3, <2>4
  <1> QED
    BY <1>1, <1>2, <1>3

\* So do time, the accounts and the end of the daemon.
LEMMA AroundSteps ==
    ASSUME WebInv,
           \/ \E id \in Ids : Web!Expire(id)
           \/ \E a \in Admins : Web!CreateAdmin(a) \/ Web!DisableAdmin(a)
           \/ Web!Restart \/ UNCHANGED web
    PROVE  WebInv'
  <1> USE AdminWebAssumption
      DEF WebInv, Request, RequestsType, Looked, LoggedOutIsGone, FormsOfTheSession,
          Web!InHandler, Web!Idle, Web!rows, Web!memory, Web!browser
  <1>1. ASSUME NEW id \in Ids, Web!Expire(id) PROVE WebInv'
    BY <1>1 DEF Web!Expire, Web!TypeOK
  <1>2. ASSUME NEW a \in Admins, Web!CreateAdmin(a) PROVE WebInv'
    BY <1>2 DEF Web!CreateAdmin, Web!TypeOK
  <1>3. ASSUME NEW a \in Admins, Web!DisableAdmin(a) PROVE WebInv'
    BY <1>3 DEF Web!DisableAdmin, Web!TypeOK
  <1>4. CASE Web!Restart
    BY <1>4 DEF Web!Restart, Web!TypeOK
  <1>5. CASE UNCHANGED web
    BY <1>5 DEF web, Web!TypeOK
  <1> QED
    BY <1>1, <1>2, <1>3, <1>4, <1>5

\* Every step of Sessions, and every step that leaves its state alone, keeps
\* its invariant.
LEMMA WebKeeps == WebInv /\ [Web!Next]_web => WebInv'
  BY LoginSteps, LookupSteps, HandlerSteps, AroundSteps
     DEF Web!Next, Web!Served, Web!Finish

-----------------------------------------------------------------------------
(***************************************************************************)
(* The composition.                                                        *)
(***************************************************************************)
\* A step of the composition is a step of each component, or nothing to it.
LEMMA StepOfEach == Next => [Boot!Next]_boot /\ [Web!Next]_web
  <1>1. CASE BootStep
    BY <1>1 DEF BootStep, Boot!Next, Boot!Procs, web
  <1>2. CASE ToolCreatesAdmin
    BY <1>2 DEF ToolCreatesAdmin, Boot!Next, Web!Next
  <1>3. CASE DaemonEnds
    BY <1>3 DEF DaemonEnds, Boot!Next, Boot!Procs, Web!Next
  <1>4. CASE OperatorDisables
    BY <1>4 DEF OperatorDisables, Web!Next, boot
  <1>5. CASE Serve
    BY <1>5 DEF Serve, Web!Next, boot
  <1> QED
    BY <1>1, <1>2, <1>3, <1>4, <1>5 DEF Next

\* The initial state satisfies the inductive invariant.
LEMMA InitIInv == Init => IInv
  BY BootInit, WebInit DEF Init, IInv, TypeOK, BootInv, WebInv, Web!Init, Web!Idle

\* What ties the two together: the daemon has sessions only while it is up,
\* and an account only in a database that is migrated.
LEMMA TypeStep ==
    ASSUME IInv, [Next]_vars, BootInv', WebInv' PROVE TypeOK'
  <1> USE AdminWebAssumption DEF Up, Boot!Procs, Boot!Goto
  <1> SUFFICES /\ ~Up' => sessions' = {} /\ \A r \in Requests : req'[r] = Web!Idle
               /\ accounts' # {} => versions' = Migrations
    BY DEF TypeOK, BootInv, WebInv, Web!Idle
  <1> USE DEF IInv, TypeOK, BootInv, WebInv
  <1>1. CASE BootStep
    <2>1. Up => Up'
      <3> USE DEF Boot!TypeOK
      <3>1. CASE Boot!Start(Daemon)
        BY <3>1 DEF Boot!Start
      <3>2. ASSUME NEW t \in Tools, Boot!Die(t) \/ Boot!Start(t) PROVE Up => Up'
        BY <3>2 DEF Boot!Start, Boot!Die
      <3>3. ASSUME NEW p \in Boot!Procs, Boot!Open(p) PROVE Up => Up'
        BY <3>3 DEF Boot!Open, Boot!ReadVersions, Boot!ApplyMigration, Boot!MigrationFails,
                    Boot!NextMigration, Boot!CommitMigration, Boot!Migrated, Boot!Exit
      <3>4. CASE Boot!ServeStart
        BY <3>4 DEF Boot!ServeStart, Boot!ReadKey, Boot!CreateKey, Boot!FillKey,
                    Boot!ListenUnix
      <3> QED
        BY <1>1, <3>1, <3>2, <3>3, <3>4 DEF BootStep
    <2>2. versions \subseteq versions'
      BY <1>1 DEF BootStep, Boot!Start, Boot!Die, Boot!Open, Boot!ReadVersions,
                  Boot!ApplyMigration, Boot!MigrationFails, Boot!CommitMigration,
                  Boot!Migrated, Boot!Exit, Boot!ServeStart, Boot!ReadKey,
                  Boot!CreateKey, Boot!FillKey, Boot!ListenUnix, Boot!database
    <2>3. versions' \subseteq Migrations
      BY DEF Boot!TypeOK
    <2> QED
      BY <1>1, <2>1, <2>2, <2>3 DEF BootStep, web
  <1>2. CASE ToolCreatesAdmin
    <2>1. PICK t \in Tools, a \in Admins : Boot!CreateAdmin(t) /\ Web!CreateAdmin(a)
      BY <1>2 DEF ToolCreatesAdmin
    <2>2. at[t] = "insert" /\ at'[Daemon] = at[Daemon] /\ versions' = versions
      BY <2>1 DEF Boot!CreateAdmin, Boot!database, Boot!TypeOK
    <2>3. versions = Migrations
      BY <2>2 DEF Boot!SchemaWhole, Boot!Opened
    <2> QED
      BY <2>1, <2>2, <2>3 DEF Web!CreateAdmin, Web!memory
  <1>3. CASE DaemonEnds
    BY <1>3 DEF DaemonEnds, Boot!Die, Boot!Stop, Boot!database, Web!Restart, Web!rows
  <1>4. CASE OperatorDisables
    BY <1>4 DEF OperatorDisables, Web!DisableAdmin, Web!memory, boot
  <1>5. CASE Serve
    <2>1. accounts' = accounts
      BY <1>5 DEF Serve, Web!Served, Web!Finish, Web!LoginFails, Web!Create, Web!Refuse,
                  Web!Admit, Web!Enter, Web!RefuseForm, Web!Page, Web!Change, Web!LogoutPost,
                  Web!Lookup, Web!Login, Web!Expire, Web!rows
    <2> QED
      BY <1>5, <2>1 DEF Serve, boot
  <1>6. CASE UNCHANGED vars
    BY <1>6 DEF vars
  <1> QED
    BY <1>1, <1>2, <1>3, <1>4, <1>5, <1>6 DEF Next

-----------------------------------------------------------------------------
\* The inductive invariant holds in every reachable state.
THEOREM SpecIInv == Spec => []IInv
  <1>1. IInv /\ [Next]_vars => IInv'
    <2> SUFFICES ASSUME IInv, [Next]_vars PROVE IInv'
      OBVIOUS
    <2>1. [Boot!Next]_boot /\ [Web!Next]_web
      BY StepOfEach DEF vars, boot, web
    <2>2. BootInv' /\ WebInv'
      BY <2>1, BootKeeps, WebKeeps DEF IInv
    <2> QED
      BY <2>2, TypeStep DEF IInv
  <1> QED
    BY <1>1, InitIInv, PTL DEF Spec

\* Types: above all, sessions only in a daemon that is up, accounts only in a
\* database with the whole schema, and one writer at a time.
THEOREM SpecTypeOK == Spec => []TypeOK
  <1>1. IInv => TypeOK
    BY DEF IInv
  <1> QED
    BY <1>1, SpecIInv, PTL

\* A process past migrate works on the whole schema (store.Open).
THEOREM SpecSchemaWhole == Spec => []SchemaWhole
  <1>1. IInv => SchemaWhole
    BY DEF IInv, BootInv, SchemaWhole
  <1> QED
    BY <1>1, SpecIInv, PTL

\* A request sent after its session's logout is refused (LogoutPost, Get).
THEOREM SpecLoggedOutStaysOut == Spec => []LoggedOutStaysOut
  <1>1. IInv => LoggedOutStaysOut
    BY DEF IInv, WebInv, RequestsType, Request, LoggedOutStaysOut, Web!LoggedOutStaysOut
  <1> QED
    BY <1>1, SpecIInv, PTL

\* A form acts for the admin it was shown to, or not at all (RequireCSRF).
THEOREM SpecFormsKeepTheirAdmin == Spec => []FormsKeepTheirAdmin
  <1>1. IInv => FormsKeepTheirAdmin
    BY DEF IInv, WebInv, FormsOfTheSession, FormsKeepTheirAdmin,
           Web!FormsKeepTheirAdmin
  <1> QED
    BY <1>1, SpecIInv, PTL

\* What the composition does to Startup's state is what Startup may do alone:
\* the web, and the requests cut off with a daemon, add nothing to it (serve).
THEOREM SpecImplementsStartup == Spec => Boot!Spec
  <1>1. Init => Boot!Init
    BY DEF Init
  <1>2. [Next]_vars => [Boot!Next]_boot
    BY StepOfEach DEF vars, boot
  <1> QED
    BY <1>1, <1>2, PTL DEF Spec, Boot!Spec, boot, Boot!vars

\* The same of Sessions: what is proved of its safety alone holds in the daemon.
THEOREM SpecImplementsSessions == Spec => Web!Spec
  <1>1. Init => Web!Init
    BY DEF Init
  <1>2. [Next]_vars => [Web!Next]_web
    BY StepOfEach DEF vars, web
  <1> QED
    BY <1>1, <1>2, PTL DEF Spec, Web!Spec, web, Web!vars

-----------------------------------------------------------------------------
(***************************************************************************)
(* The torn key, the one way for ComesBack not to bring the daemon back.   *)
(***************************************************************************)
\* Once a crash has cut csrf.key short, no step of any process mends it: every
\* start runs into it again (readOrCreateKey).
TornForGood == [][Boot!TornKey => Boot!TornKey']_vars

\* The key is only ever written by the daemon that found no file.
LEMMA KeyStaysTorn == ASSUME IInv, [Next]_vars, Boot!TornKey PROVE Boot!TornKey'
  <1> USE AdminWebAssumption
      DEF IInv, BootInv, Boot!TypeOK, Boot!TornKey, Boot!Procs, Boot!Goto, Boot!database,
          Boot!files
  <1>1. CASE BootStep
    <2>1. ASSUME NEW p \in Boot!Procs, Boot!Start(p) \/ Boot!Die(p) \/ Boot!Open(p)
          PROVE  Boot!TornKey'
      BY <2>1 DEF Boot!Start, Boot!Die, Boot!Open, Boot!ReadVersions, Boot!ApplyMigration,
                  Boot!MigrationFails, Boot!NextMigration, Boot!CommitMigration,
                  Boot!Migrated, Boot!Exit
    <2>2. CASE Boot!ServeStart
      BY <2>2 DEF Boot!ServeStart, Boot!ReadKey, Boot!CreateKey, Boot!FillKey,
                  Boot!ListenUnix
    <2> QED
      BY <1>1, <2>1, <2>2 DEF BootStep
  <1>2. CASE ToolCreatesAdmin
    BY <1>2 DEF ToolCreatesAdmin, Boot!CreateAdmin
  <1>3. CASE DaemonEnds
    BY <1>3 DEF DaemonEnds, Boot!Die, Boot!Stop
  <1>4. CASE OperatorDisables \/ Serve \/ UNCHANGED vars
    BY <1>4 DEF OperatorDisables, Serve, boot, vars
  <1> QED
    BY <1>1, <1>2, <1>3, <1>4 DEF Next

\* A daemon with a torn key does not serve, and so signs no form with it; and
\* it is for good: somebody has to remove the file (readOrCreateKey).
THEOREM SpecTornKeyIsForGood ==
    Spec => [](Boot!TornKey => ~Up) /\ TornForGood
  <1>1. IInv => (Boot!TornKey => ~Up)
    BY DEF IInv, BootInv, Boot!TypeOK, Boot!TornKey, Up
  <1>2. IInv /\ [Next]_vars => [Boot!TornKey => Boot!TornKey']_vars
    BY KeyStaysTorn
  <1> QED
    BY <1>1, <1>2, SpecIInv, PTL DEF Spec, TornForGood

=============================================================================
