------------------------------ MODULE Sessions ------------------------------
(***************************************************************************)
(* The admins' accounts, sessions and forms (web/sessions.go,              *)
(* web/middleware.go, web/csrf.go, LoginPost and LogoutPost of             *)
(* web/handlers.go, render of web/render.go, store/admins.go).             *)
(*                                                                         *)
(* Requests run concurrently, and each goes through separate critical      *)
(* sections: the read of the account and the creation of the session; the  *)
(* lookup of the session, the check of its expiry, that of the form's      *)
(* token (once the body is read), and the handler.  Sessions live in the   *)
(* daemon's memory; the accounts and what a browser holds, its cookie and  *)
(* the forms of its open tabs, outlive the daemon.                         *)
(*                                                                         *)
(* A form's token is an HMAC of the session's id: it stands for the id.    *)
(* An answer may be lost, so that the browser does not get its cookie.     *)
(***************************************************************************)
EXTENDS Naturals

CONSTANTS
    Admins,     \* user names
    Browsers,
    Ids,        \* session ids, handed out in order: bounds the logins
    Requests,   \* bounds the requests under way
    None

VARIABLES
    accounts,   \* rows of admins
    disabled,   \* those with disabled = 1
    sessions,   \* the ids in SessionStore's map
    owner,      \* the admin each id was created for
    expired,    \* ids whose ExpiresAt has passed
    loggedOut,  \* history: ids a logout has ended
    cookie,     \* the session cookie of each browser
    forms,      \* the session ids in the forms each browser shows
    req         \* the requests under way

rows == <<accounts, disabled>>
memory == <<sessions, owner, expired, loggedOut>>
browser == <<cookie, forms>>
vars == <<accounts, disabled, sessions, owner, expired, loggedOut, cookie,
          forms, req>>

Idle == [at |-> "idle", by |-> None, admin |-> None, sid |-> None,
         form |-> None, late |-> FALSE]

\* "hash" is bcrypt's place in a login; "found" is after the map's lookup,
\* "session" is with the session in the request's context, and the body of a
\* POST still to be read, "in" is in the handler.  A request with a form is a
\* POST, of a change or of the logout button.
TypeOK ==
    /\ accounts \subseteq Admins /\ disabled \subseteq accounts
    /\ owner \in [Ids -> accounts \union {None}]
    /\ \A id \in sessions : id \in Ids /\ owner[id] # None
    /\ expired \subseteq Ids /\ loggedOut \subseteq Ids
    /\ cookie \in [Browsers -> Ids \union {None}]
    /\ forms \in [Browsers -> SUBSET Ids]
    /\ \A r \in Requests :
        \/ req[r] = Idle
        \/ /\ req[r].at = "hash"
           /\ req[r].by \in Browsers /\ req[r].admin \in accounts
        \/ /\ req[r].at \in {"found", "session", "in"}
           /\ req[r].by \in Browsers /\ req[r].sid \in Ids
           /\ req[r].form \in Ids \union {None}

Init ==
    /\ accounts = {} /\ disabled = {}
    /\ sessions = {} /\ owner = [id \in Ids |-> None]
    /\ expired = {} /\ loggedOut = {}
    /\ cookie = [b \in Browsers |-> None]
    /\ forms = [b \in Browsers |-> {}]
    /\ req = [r \in Requests |-> Idle]

InHandler(r) == req[r].at = "in"

\* http.SetCookie, in an answer that reaches the browser or not.
SetCookie(r, id) == cookie' \in {cookie, [cookie EXCEPT ![req[r].by] = id]}

Done(r) == req' = [req EXCEPT ![r] = Idle]

-----------------------------------------------------------------------------
(***************************************************************************)
(* Login.                                                                  *)
(***************************************************************************)
GetAdminByUsername(a) == a \in accounts

\* Mutated form of Login: the Disabled column is not looked at.
LoginDisabled(r, b, a) ==
    /\ req[r] = Idle
    /\ GetAdminByUsername(a)
    /\ req' = [req EXCEPT ![r] = [Idle EXCEPT !.at = "hash", !.by = b, !.admin = a]]
    /\ UNCHANGED <<rows, memory, browser>>

\* An account that is missing or disabled is refused, which changes nothing.
Login(r, b, a) ==
    /\ req[r] = Idle
    /\ GetAdminByUsername(a) /\ a \notin disabled
    /\ req' = [req EXCEPT ![r] = [Idle EXCEPT !.at = "hash", !.by = b, !.admin = a]]
    /\ UNCHANGED <<rows, memory, browser>>

\* bcrypt: the password is wrong.
LoginFails(r) ==
    /\ req[r].at = "hash"
    /\ Done(r)
    /\ UNCHANGED <<rows, memory, browser>>

\* SessionStore.Create, with the account as it was read, and the cookie.
Create(r) ==
    /\ req[r].at = "hash"
    /\ \E id \in Ids :
        /\ \A i \in Ids : owner[i] = None <=> i >= id
        /\ sessions' = sessions \union {id}
        /\ owner' = [owner EXCEPT ![id] = req[r].admin]
        /\ SetCookie(r, id)
    /\ Done(r)
    /\ UNCHANGED <<rows, expired, loggedOut, forms>>

-----------------------------------------------------------------------------
(***************************************************************************)
(* A request with a session cookie.                                        *)
(***************************************************************************)
\* LoadSession looks the cookie up in the map.  A request without a cookie,
\* or with one that is not in the map, is redirected to the login.
Lookup(r, b) ==
    /\ req[r] = Idle
    /\ cookie[b] \in sessions
    /\ \E form \in forms[b] \union {None} :
        req' = [req EXCEPT ![r] = [Idle EXCEPT !.at = "found", !.by = b,
                    !.sid = cookie[b], !.form = form,
                    !.late = cookie[b] \in loggedOut]]
    /\ UNCHANGED <<rows, memory, browser>>

\* Get destroys the session if its time is over.
Refuse(r) ==
    /\ req[r].at = "found"
    /\ req[r].sid \in expired
    /\ sessions' = sessions \ {req[r].sid}
    /\ Done(r)
    /\ UNCHANGED <<rows, owner, expired, loggedOut, browser>>

\* Get returns the session, and RequireAdmin has one: what becomes of it from
\* here on is not noticed.
Admit(r) ==
    /\ req[r].at = "found"
    /\ req[r].sid \notin expired
    /\ req' = [req EXCEPT ![r].at = "session"]
    /\ UNCHANGED <<rows, memory, browser>>

\* Mutated form of Verified: the token may be of any session.
VerifiedForAny(r) == req[r].form \in Ids \union {None}

\* RequireCSRF: the form of a POST must be of the session of the cookie.
Verified(r) == req[r].form \in {None, req[r].sid}

Enter(r) ==
    /\ req[r].at = "session"
    /\ Verified(r)
    /\ req' = [req EXCEPT ![r].at = "in"]
    /\ UNCHANGED <<rows, memory, browser>>

\* A form of another session, or a POST without any.
RefuseForm(r) ==
    /\ req[r].at = "session"
    /\ ~Verified(r) \/ req[r].form = None
    /\ Done(r)
    /\ UNCHANGED <<rows, memory, browser>>

\* render puts the session's token into the page's forms.
Page(r) ==
    /\ InHandler(r) /\ req[r].form = None
    /\ forms' \in {forms, [forms EXCEPT ![req[r].by] = @ \union {req[r].sid}]}
    /\ Done(r)
    /\ UNCHANGED <<rows, memory, cookie>>

\* PeerNewPost or PeerRevokePost, on behalf of the session's admin.
Change(r) ==
    /\ InHandler(r) /\ req[r].form # None
    /\ Done(r)
    /\ UNCHANGED <<rows, memory, browser>>

\* Mutated form of LogoutPost: only the cookie goes.
LogoutCookieOnly(r) ==
    /\ InHandler(r) /\ req[r].form # None
    /\ loggedOut' = loggedOut \union {req[r].sid}
    /\ SetCookie(r, None)
    /\ Done(r)
    /\ UNCHANGED <<rows, sessions, owner, expired, forms>>

\* Destroy, and a cookie that clears whichever one the browser has by now.
LogoutPost(r) ==
    /\ InHandler(r) /\ req[r].form # None
    /\ sessions' = sessions \ {req[r].sid}
    /\ loggedOut' = loggedOut \union {req[r].sid}
    /\ SetCookie(r, None)
    /\ Done(r)
    /\ UNCHANGED <<rows, owner, expired, forms>>

-----------------------------------------------------------------------------
(***************************************************************************)
(* Time, the accounts, and the end of the daemon.                          *)
(***************************************************************************)
Expire(id) ==
    /\ id \in sessions \ expired
    /\ expired' = expired \union {id}
    /\ UNCHANGED <<rows, sessions, owner, loggedOut, browser, req>>

\* create-admin; the user name is unique.
CreateAdmin(a) ==
    /\ a \notin accounts
    /\ accounts' = accounts \union {a}
    /\ UNCHANGED <<disabled, memory, browser, req>>

\* store.DisableAdmin.  No command calls it: an operator updates the row.
DisableAdmin(a) ==
    /\ a \in accounts \ disabled
    /\ disabled' = disabled \union {a}
    /\ UNCHANGED <<accounts, memory, browser, req>>

\* The daemon's process ends, and with it the requests and NewSessionStore.
Restart ==
    /\ sessions' = {}
    /\ expired' = {}
    /\ req' = [r \in Requests |-> Idle]
    /\ UNCHANGED <<rows, owner, loggedOut, browser>>

Finish(r) ==
    \/ LoginFails(r) \/ Create(r)
    \/ Refuse(r) \/ Admit(r) \/ Enter(r) \/ RefuseForm(r)
    \/ Page(r) \/ Change(r) \/ LogoutPost(r)

\* What the daemon does while it serves.
Served ==
    \/ \E r \in Requests :
        \/ Finish(r)
        \/ \E b \in Browsers : Lookup(r, b) \/ \E a \in Admins : Login(r, b, a)
    \/ \E id \in Ids : Expire(id)

Next ==
    \/ Served
    \/ \E a \in Admins : CreateAdmin(a) \/ DisableAdmin(a)
    \/ Restart

\* A handler returns, and a session lasts no longer than its 24 hours.
Fairness ==
    /\ \A r \in Requests : WF_vars(Finish(r))
    /\ \A id \in Ids : WF_vars(Expire(id))

Spec == Init /\ [][Next]_vars
FairSpec == Spec /\ Fairness

-----------------------------------------------------------------------------
(***************************************************************************)
(* Properties.                                                             *)
(***************************************************************************)
\* Once a logout has ended a session, no request sent with its cookie, which
\* a browser may still have, gets to a handler (Destroy in LogoutPost).
LoggedOutStaysOut == \A r \in Requests : InHandler(r) => ~req[r].late

\* A form acts for the admin it was shown to, or not at all: with two tabs
\* and a login as somebody else in one of them, a change or a logout sent
\* from the other is not charged to the new admin (SignCSRF, RequireCSRF).
FormsKeepTheirAdmin ==
    \A r \in Requests :
        InHandler(r) /\ req[r].form # None => owner[req[r].form] = owner[req[r].sid]

\* A disabled admin is out in the end, in both ways there are: no login of
\* theirs gets as far as bcrypt, and no request of theirs to a handler.  The
\* sessions end by their expiry, for nothing else ends them, also the one that
\* a login still under way at the time of the disabling has created
\* (LoginPost, Session.ExpiresAt, Get).
DisabledLosesAccess ==
    \A a \in Admins :
        a \in disabled ~>
            [](\A r \in Requests :
                /\ req[r].at = "hash" => req[r].admin # a
                /\ InHandler(r) => owner[req[r].sid] # a)

=============================================================================
