---------------------------- MODULE AuthSession ----------------------------
(***************************************************************************)
(* The sessions of one account: the refresh tokens of                      *)
(* backend/app/api/v1/auth.py and auth_service.py, and the browsers that   *)
(* live on them (frontend/src/api/authorizedRequest.ts, authStore.ts,      *)
(* useAuthBootstrap.ts, useLogout.ts and the pages that log in, change the *)
(* password or write the user back into the store).                        *)
(*                                                                         *)
(* A browser runs several calls at once.  Each is a chain of requests, and *)
(* each request is served by the backend in one or more steps and answered *)
(* in another, so that answers arrive late and out of order.               *)
(*                                                                         *)
(* The backend checks of an access token only the instant it expires at;   *)
(* the instant at which a session was last seen valid for it is history.   *)
(* Passwords are numbered in the order they were set.                      *)
(***************************************************************************)
EXTENDS Integers

CONSTANTS
  Browsers,
  Calls,                \* calls a browser may have in flight at once
  Jtis,                 \* the ids uuid4() may give to refresh tokens
  NULL,
  Kinds,                \* what the user of a browser does
  AccessTTL,            \* access_token_expire_minutes, in instants
  RefreshTTL,           \* refresh_token_expire_days, in instants
  MaxNow,               \* bound: the clock stops at this instant
  MaxPassword,          \* bound: times the password is changed
  MaxFaults             \* bound: requests or answers lost, errors other than 401

VARIABLES
  password,             \* users.hashed_password
  tokens,               \* table refresh_tokens, NULL where there is no row
  now,
  cookie,               \* the refresh cookie of each browser, or NULL
  store,                \* useAuthStore: access token and status
  call,                 \* the calls in flight
  relogged,             \* history: browsers whose page has logged in since it was loaded
  faults                \* history: faults so far

vars == <<password, tokens, now, cookie, store, call, relogged, faults>>

Kind     == {"request", "profile", "password", "mistyped", "login", "logout", "bootstrap"}
Authorized == {"request", "profile", "password", "mistyped"}
Instants == 0..MaxNow
Access   == [expires : 0..(MaxNow + AccessTTL),
             seen    : Instants]       \* history: when its session was seen valid
Token    == [password : 0..MaxPassword,
             expires  : 0..(MaxNow + RefreshTTL),
             revoked  : Instants \cup {NULL}]

ASSUME SessionConstants ==
  /\ AccessTTL \in Nat \ {0} /\ RefreshTTL \in Nat \ {0} /\ MaxNow \in Nat
  /\ MaxPassword \in Nat /\ MaxFaults \in Nat
  /\ Kinds \subseteq Kind
  /\ NULL \notin Jtis /\ NULL \notin Instants /\ NULL \notin Access /\ NULL \notin Token

\* mine: the access token the component that made the call had in its closure.
Call == [kind   : Kind,
         leg    : {"first", "refresh", "retry", "login", "me", "logout"},
         access : Access \cup {NULL},   \* sent with this request
         jti    : Jtis \cup {NULL},     \* the cookie sent with this request
         mine   : Access \cup {NULL},
         pw     : 0..MaxPassword,       \* the password typed, then the one set
         status : {"sent", "checked", "verified", "changed", "ok", "refused", "failed"},
         seen   : Instants \cup {NULL}, \* history: when a refresh was checked
         grant  : Access \cup {NULL},   \* access token in the answer
         set    : Jtis \cup {NULL}]     \* Set-Cookie in the answer

AuthStore == [access : Access \cup {NULL},
              status : {"idle", "loading", "authenticated", "unauthenticated"}]

AuthTypeOK ==
  /\ password \in 0..MaxPassword
  /\ tokens \in [Jtis -> Token \cup {NULL}]
  /\ now \in Instants
  /\ cookie \in [Browsers -> Jtis \cup {NULL}]
  /\ store \in [Browsers -> AuthStore]
  /\ call \in [Browsers -> [Calls -> Call \cup {NULL}]]
  /\ faults \in Nat

Live(access) == access # NULL /\ now < access.expires

\* create_access_token, for a session that was seen valid at an instant.
AccessToken(seen) == [expires |-> now + AccessTTL, seen |-> seen]

Valid(j) == j # NULL /\ tokens[j] # NULL /\ tokens[j].revoked = NULL /\ now < tokens[j].expires

Issued(pw) == [password |-> pw, expires |-> now + RefreshTTL, revoked |-> NULL]

\* A browser has logged in before the page is loaded, or it has not.
Init ==
  /\ password = 0 /\ now = 0 /\ faults = 0 /\ relogged = {}
  /\ cookie \in [Browsers -> Jtis \cup {NULL}]
  /\ \A a, b \in Browsers : a # b /\ cookie[a] # NULL => cookie[a] # cookie[b]
  /\ tokens = [j \in Jtis |-> IF \E b \in Browsers : cookie[b] = j
                              THEN Issued(0) ELSE NULL]
  /\ store = [b \in Browsers |-> [access |-> NULL, status |-> "idle"]]
  /\ call = [b \in Browsers |-> [c \in Calls |-> NULL]]

-----------------------------------------------------------------------------
(***************************************************************************)
(* The browser sends.                                                      *)
(***************************************************************************)
Request(kind, leg, access, jti, mine, pw) ==
  [kind |-> kind, leg |-> leg, access |-> access, jti |-> jti, mine |-> mine, pw |-> pw,
   status |-> "sent", seen |-> NULL, grant |-> NULL, set |-> NULL]

Put(b, c, q) == call' = [call EXCEPT ![b][c] = q]

SetAuth(b, access) ==
  store' = [store EXCEPT ![b] = [access |-> access, status |-> "authenticated"]]

\* Mutant: a status of its own, which the route guards do not know.
ClearAuthToSignedOut(b) ==
  store' = [store EXCEPT ![b] = [access |-> NULL, status |-> "signed out"]]

ClearAuth(b) ==
  store' = [store EXCEPT ![b] = [access |-> NULL, status |-> "unauthenticated"]]

\* A form's button is disabled while its call is on the way.
Doing(b, c, kinds) == call[b][c] # NULL /\ call[b][c].kind \in kinds

PasswordForm == {"password", "mistyped"}

\* authorizedRequest, for a query or mutation ("request"), for a call whose
\* caller writes the returned user into the store ("profile") and for
\* changePassword, with the current password ("password") or another one.
StartAuthorized(b, c) ==
  /\ call[b][c] = NULL
  /\ store[b].status = "authenticated"
  /\ \E kind \in Kinds \cap Authorized :
       /\ kind \in PasswordForm => \A d \in Calls : ~Doing(b, d, PasswordForm)
       /\ Put(b, c, Request(kind, "first", store[b].access, NULL, store[b].access, password))
  /\ UNCHANGED <<password, tokens, now, cookie, store, relogged, faults>>

\* LoginPage and RegisterPage.
StartLogin(b, c) ==
  /\ "login" \in Kinds
  /\ call[b][c] = NULL
  /\ store[b].status = "unauthenticated"
  /\ \A d \in Calls : ~Doing(b, d, {"login"})
  /\ \E pw \in 0..password : Put(b, c, Request("login", "login", NULL, NULL, NULL, pw))
  /\ UNCHANGED <<password, tokens, now, cookie, store, relogged, faults>>

\* useLogout.
StartLogout(b, c) ==
  /\ "logout" \in Kinds
  /\ call[b][c] = NULL
  /\ store[b].status = "authenticated"
  /\ Put(b, c, Request("logout", "logout", NULL, cookie[b], NULL, 0))
  /\ UNCHANGED <<password, tokens, now, cookie, store, relogged, faults>>

\* useAuthBootstrap: the status gate lets it run once.
Bootstrap(b, c) ==
  /\ call[b][c] = NULL
  /\ store[b].status = "idle"
  /\ store' = [store EXCEPT ![b].status = "loading"]
  /\ Put(b, c, Request("bootstrap", "refresh", NULL, cookie[b], NULL, 0))
  /\ UNCHANGED <<password, tokens, now, cookie, relogged, faults>>

\* The page is loaded again: the store and the calls are gone, the cookie stays.
Reload(b) ==
  /\ store[b].status # "idle"
  /\ store' = [store EXCEPT ![b] = [access |-> NULL, status |-> "idle"]]
  /\ call' = [call EXCEPT ![b] = [c \in Calls |-> NULL]]
  /\ relogged' = relogged \ {b}
  /\ UNCHANGED <<password, tokens, now, cookie, faults>>

-----------------------------------------------------------------------------
(***************************************************************************)
(* The backend serves.                                                     *)
(***************************************************************************)
Answer(b, c, status) == Put(b, c, [call[b][c] EXCEPT !.status = status])

Sent(b, c, leg) == call[b][c] # NULL /\ call[b][c].status = "sent" /\ call[b][c].leg \in leg

\* get_current_user: the signature and the expiry of the access token.
ServeAuthorized(b, c) ==
  LET q == call[b][c] IN
  /\ Sent(b, c, {"first", "retry", "me"})
  /\ \/ ~Live(q.access) /\ Answer(b, c, "refused")
     \/ Live(q.access) /\ q.kind \notin {"password", "mistyped"} /\ Answer(b, c, "ok")
     \/ Live(q.access) /\ q.kind = "mistyped" /\ Answer(b, c, "refused")
     \/ Live(q.access) /\ q.kind = "password"
        /\ Answer(b, c, IF q.pw = password THEN "verified" ELSE "refused")
  /\ UNCHANGED <<password, tokens, now, cookie, store, relogged, faults>>

\* revoked_at is not moved once it is set.
Revoked(t) == IF t = NULL THEN NULL
              ELSE [t EXCEPT !.revoked = IF @ = NULL THEN now ELSE @]

\* Mutant: the password is changed and the sessions are left alone.
ChangePasswordOnly(b, c) ==
  /\ Doing(b, c, {"password"}) /\ call[b][c].status = "verified"
  /\ password < MaxPassword
  /\ password' = password + 1
  /\ Put(b, c, [call[b][c] EXCEPT !.status = "changed", !.pw = password + 1])
  /\ UNCHANGED <<tokens, now, cookie, store, relogged, faults>>

\* change_password: the commit of revoke_all_refresh_tokens also writes the hash.
ChangePassword(b, c) ==
  /\ Doing(b, c, {"password"}) /\ call[b][c].status = "verified"
  /\ password < MaxPassword
  /\ password' = password + 1
  /\ tokens' = [j \in Jtis |-> Revoked(tokens[j])]
  /\ Put(b, c, [call[b][c] EXCEPT !.status = "changed", !.pw = password + 1])
  /\ UNCHANGED <<now, cookie, store, relogged, faults>>

\* login: authenticate_user.
ServeLogin(b, c) ==
  /\ Sent(b, c, {"login"})
  /\ Answer(b, c, IF call[b][c].pw = password THEN "verified" ELSE "refused")
  /\ UNCHANGED <<password, tokens, now, cookie, store, relogged, faults>>

\* _issue_tokens, after a login or a change of password.
IssueTokens(b, c) ==
  /\ call[b][c] # NULL
  /\ \/ call[b][c].kind = "login" /\ call[b][c].status = "verified"
     \/ call[b][c].status = "changed"
  /\ \E j \in Jtis :
       /\ tokens[j] = NULL
       /\ tokens' = [tokens EXCEPT ![j] = Issued(call[b][c].pw)]
       /\ Put(b, c, [call[b][c] EXCEPT !.status = "ok", !.set = j,
                                       !.grant = AccessToken(now)])
  /\ UNCHANGED <<password, now, cookie, store, relogged, faults>>

\* Mutant: a revoked token still refreshes.
RefreshUnrevoked(b, c) ==
  /\ Sent(b, c, {"refresh"})
  /\ IF call[b][c].jti # NULL /\ tokens[call[b][c].jti] # NULL
       THEN Put(b, c, [call[b][c] EXCEPT !.status = "checked", !.seen = now])
       ELSE Answer(b, c, "refused")
  /\ UNCHANGED <<password, tokens, now, cookie, store, relogged, faults>>

\* refresh: is_refresh_token_valid.
CheckRefresh(b, c) ==
  /\ Sent(b, c, {"refresh"})
  /\ IF Valid(call[b][c].jti)
       THEN Put(b, c, [call[b][c] EXCEPT !.status = "checked", !.seen = now])
       ELSE Answer(b, c, "refused")
  /\ UNCHANGED <<password, tokens, now, cookie, store, relogged, faults>>

Checked(b, c) == call[b][c] # NULL /\ call[b][c].status = "checked"

\* Mutant: the refresh token is rotated.
RotateRefresh(b, c) ==
  /\ Checked(b, c)
  /\ \E j \in Jtis :
       /\ tokens[j] = NULL
       /\ tokens' = [tokens EXCEPT ![j] = Issued(password),
                                   ![call[b][c].jti] = Revoked(@)]
       /\ Put(b, c, [call[b][c] EXCEPT !.status = "ok", !.set = j,
                                       !.grant = AccessToken(call[b][c].seen)])
  /\ UNCHANGED <<password, now, cookie, store, relogged, faults>>

\* ... then, with a second look-up between the two, the access token: whatever
\* was revoked meanwhile, and the refresh token is not rotated.  (A user is
\* never deleted, so the look-up always finds one.)
GrantRefresh(b, c) ==
  /\ Checked(b, c)
  /\ Put(b, c, [call[b][c] EXCEPT !.status = "ok",
                                  !.grant = AccessToken(call[b][c].seen)])
  /\ UNCHANGED <<password, tokens, now, cookie, store, relogged, faults>>

\* logout: revokes the token of the cookie, if there is one.
ServeLogout(b, c) ==
  /\ Sent(b, c, {"logout"})
  /\ tokens' = IF call[b][c].jti = NULL THEN tokens
               ELSE [tokens EXCEPT ![call[b][c].jti] = Revoked(@)]
  /\ Answer(b, c, "ok")
  /\ UNCHANGED <<password, now, cookie, store, relogged, faults>>

\* logout_all, which the frontend does not call: any client with an access token.
LogoutAll ==
  /\ \E b \in Browsers : Live(store[b].access)
  /\ \E j \in Jtis : Valid(j)
  /\ tokens' = [j \in Jtis |-> Revoked(tokens[j])]
  /\ UNCHANGED <<password, now, cookie, store, call, relogged, faults>>

\* The request or its answer is lost, or the answer is an error other than 401;
\* what was committed stays committed.
Fail(b, c) ==
  /\ call[b][c] # NULL /\ call[b][c].status # "failed"
  /\ faults < MaxFaults
  /\ faults' = faults + 1
  /\ Answer(b, c, "failed")
  /\ UNCHANGED <<password, tokens, now, cookie, store, relogged>>

-----------------------------------------------------------------------------
(***************************************************************************)
(* The answer arrives.                                                     *)
(***************************************************************************)
Done(b, c) == Put(b, c, NULL)

Arrives(b, c, leg, statuses) ==
  call[b][c] # NULL /\ call[b][c].leg = leg /\ call[b][c].status \in statuses

\* The browser stores the cookie of an answer before the page sees it.
StoreCookie(b, c) ==
  cookie' = IF call[b][c].set = NULL THEN cookie ELSE [cookie EXCEPT ![b] = call[b][c].set]

Continue(b, c, leg, access, jti) ==
  Put(b, c, Request(call[b][c].kind, leg, access, jti, call[b][c].mine, call[b][c].pw))

\* What the caller does with a good answer: "profile" writes the user back with
\* the access token of its closure, that of the first render or of a later one.
Succeeded(b, c) ==
  LET q == call[b][c] IN
  /\ Done(b, c)
  /\ \/ q.kind = "request" /\ UNCHANGED <<store, cookie>>
     \/ /\ q.kind = "profile"
        /\ \E a \in {q.mine, store[b].access} \ {NULL} : SetAuth(b, a)
        /\ UNCHANGED cookie
     \/ /\ q.kind = "password"
        /\ SetAuth(b, q.grant)
        /\ cookie' = [cookie EXCEPT ![b] = q.set]

ReceiveFirst(b, c) ==
  /\ \/ Arrives(b, c, "first", {"ok"}) /\ Succeeded(b, c)
     \/ /\ Arrives(b, c, "first", {"refused"})
        /\ Continue(b, c, "refresh", NULL, cookie[b])
        /\ UNCHANGED <<store, cookie>>
     \/ /\ Arrives(b, c, "first", {"failed"})
        /\ Done(b, c)
        /\ UNCHANGED <<store, cookie>>
  /\ UNCHANGED <<password, tokens, now, relogged, faults>>

\* One silent refresh and one retry; whatever fails clears the store.
ReceiveRefresh(b, c) ==
  /\ Doing(b, c, Authorized)
  /\ \/ /\ Arrives(b, c, "refresh", {"ok"})
        /\ SetAuth(b, call[b][c].grant)
        /\ StoreCookie(b, c)
        /\ Continue(b, c, "retry", call[b][c].grant, NULL)
     \/ /\ Arrives(b, c, "refresh", {"refused", "failed"})
        /\ ClearAuth(b) /\ Done(b, c)
        /\ UNCHANGED cookie
  /\ UNCHANGED <<password, tokens, now, relogged, faults>>

ReceiveRetry(b, c) ==
  /\ \/ Arrives(b, c, "retry", {"ok"}) /\ Succeeded(b, c)
     \/ /\ Arrives(b, c, "retry", {"refused", "failed"})
        /\ ClearAuth(b) /\ Done(b, c)
        /\ UNCHANGED cookie
  /\ UNCHANGED <<password, tokens, now, relogged, faults>>

\* loginUser, then fetchCurrentUser; an error is a toast.
ReceiveLogin(b, c) ==
  /\ Doing(b, c, {"login"})
  /\ \/ /\ Arrives(b, c, "login", {"ok"})
        /\ cookie' = [cookie EXCEPT ![b] = call[b][c].set]
        /\ Continue(b, c, "me", call[b][c].grant, NULL)
        /\ relogged' = relogged \cup {b}
        /\ UNCHANGED store
     \/ /\ Arrives(b, c, "me", {"ok"})
        /\ SetAuth(b, call[b][c].access) /\ Done(b, c)
        /\ UNCHANGED <<cookie, relogged>>
     \/ /\ call[b][c].status \in {"refused", "failed"}
        /\ Done(b, c)
        /\ UNCHANGED <<store, cookie, relogged>>
  /\ UNCHANGED <<password, tokens, now, faults>>

ReceiveBootstrap(b, c) ==
  /\ Doing(b, c, {"bootstrap"})
  /\ \/ /\ Arrives(b, c, "refresh", {"ok"})
        /\ Continue(b, c, "me", call[b][c].grant, NULL)
        /\ UNCHANGED store
     \/ /\ Arrives(b, c, "me", {"ok"})
        /\ SetAuth(b, call[b][c].access) /\ Done(b, c)
     \/ /\ call[b][c].status \in {"refused", "failed"}
        /\ ClearAuth(b) /\ Done(b, c)
  /\ StoreCookie(b, c)
  /\ UNCHANGED <<password, tokens, now, relogged, faults>>

\* The store is cleared whatever the answer; the cookie goes with a good one.
ReceiveLogout(b, c) ==
  /\ Arrives(b, c, "logout", {"ok", "refused", "failed"})
  /\ cookie' = IF call[b][c].status = "ok" THEN [cookie EXCEPT ![b] = NULL] ELSE cookie
  /\ ClearAuth(b) /\ Done(b, c)
  /\ UNCHANGED <<password, tokens, now, relogged, faults>>

Tick ==
  /\ now < MaxNow
  /\ now' = now + 1
  /\ UNCHANGED <<password, tokens, cookie, store, call, relogged, faults>>

-----------------------------------------------------------------------------
UserStep ==
  \/ \E b \in Browsers, c \in Calls : StartAuthorized(b, c) \/ StartLogin(b, c) \/ StartLogout(b, c)
  \/ \E b \in Browsers : Reload(b)
  \/ LogoutAll

\* What the backend and the browser do on their own.
Proceed(b, c) ==
  \/ Bootstrap(b, c)
  \/ ServeAuthorized(b, c) \/ ServeLogin(b, c) \/ ServeLogout(b, c)
  \/ CheckRefresh(b, c) \/ GrantRefresh(b, c)
  \/ ChangePassword(b, c) \/ IssueTokens(b, c)
  \/ ReceiveFirst(b, c) \/ ReceiveRefresh(b, c) \/ ReceiveRetry(b, c)
  \/ ReceiveLogin(b, c) \/ ReceiveBootstrap(b, c) \/ ReceiveLogout(b, c)

Next ==
  \/ UserStep
  \/ \E b \in Browsers, c \in Calls : Proceed(b, c) \/ Fail(b, c)
  \/ Tick

Spec == Init /\ [][Next]_vars

-----------------------------------------------------------------------------
(***************************************************************************)
(* A page that is signed in stays signed in while its session is valid,    *)
(* unless its user logs out: however many requests meet an expired access  *)
(* token at once and refresh it side by side, none of them costs the user  *)
(* the session (auth.refresh, "deliberately not rotated";                  *)
(* authorizedRequest: no "full re-login while a valid session still        *)
(* exists").  What still costs it, and nothing else does: a current        *)
(* password that is mistyped or has been changed elsewhere meanwhile, an   *)
(* answer that is lost, a refusal of the cookie the page had before a      *)
(* change of password, and a retry that outlives the access token it was   *)
(* sent with; and, where the user logs out and in again, a refusal that    *)
(* arrives after the login.                                                *)
(***************************************************************************)
LoggingOut(b) == \E c \in Calls : Doing(b, c, {"logout"})

SessionLost(b) ==
  /\ store[b].status = "authenticated" /\ store'[b].status = "unauthenticated"
  /\ Valid(cookie[b])

\* Cookie j is none, or of an earlier password than cookie k.
OfEarlierPassword(j, k) == j = NULL \/ tokens[j].password < tokens[k].password

Excused(b, c) ==
  /\ call[b][c] # NULL /\ call'[b][c] = NULL
  /\ \/ call[b][c].status = "failed"
     \/ call[b][c].kind = "mistyped"
     \/ call[b][c].kind = "password" /\ call[b][c].pw # password
     \/ call[b][c].leg = "refresh" /\ OfEarlierPassword(call[b][c].jti, cookie[b])
     \/ call[b][c].leg = "refresh" /\ b \in relogged /\ call[b][c].jti # cookie[b]
     \/ call[b][c].leg = "retry" /\ ~Live(call[b][c].access)

ValidSessionKept ==
  [][\A b \in Browsers :
       SessionLost(b) => LoggingOut(b) \/ \E c \in Calls : Excused(b, c)]_vars

(***************************************************************************)
(* Every access token a page holds goes back to an instant at which a      *)
(* session of the account was seen neither revoked nor expired: that of    *)
(* its grant, or, where it comes from a refresh, that of the check before  *)
(* the grant.  So once the last session has ended, no page is served for   *)
(* longer than one access token lifetime, whatever was in flight (the      *)
(* tests of /logout and /logout-all), but for the refresh that was checked *)
(* before and granted after: the handler does not look at the session      *)
(* again, and its token lives one lifetime from the grant.                 *)
(***************************************************************************)
SessionAt(j, t) ==
  /\ tokens[j] # NULL
  /\ t < tokens[j].expires
  /\ tokens[j].revoked # NULL => t <= tokens[j].revoked

GrantedInSession ==
  \A b \in Browsers : store[b].access # NULL =>
    \E j \in Jtis : SessionAt(j, store[b].access.seen)

(***************************************************************************)
(* A change of password ends every session begun with an earlier one, on   *)
(* every device, also when its answer is lost (change_password: "kill      *)
(* every existing session").  The one session of an earlier password that  *)
(* a step may leave valid is that of a login, or of a change of password,  *)
(* which a later change has overtaken: verified before it, it stores its   *)
(* token after the others were revoked.                                    *)
(***************************************************************************)
Outlived(j) == Valid(j) /\ tokens[j].password # password

Overtaken(b, c) ==
  /\ call[b][c] # NULL /\ call[b][c].pw < password
  /\ \/ call[b][c].kind = "login" /\ call[b][c].status = "verified"
     \/ call[b][c].status = "changed"

PasswordEndsSessions ==
  [][\A j \in Jtis : Outlived(j)' =>
       \/ Outlived(j)
       \/ /\ tokens[j] = NULL
          /\ \E b \in Browsers, c \in Calls : Overtaken(b, c) /\ call'[b][c].set = j]_vars

-----------------------------------------------------------------------------
(***************************************************************************)
(* The inductive invariant behind GrantedInSession: every access token a   *)
(* page, a request, a closure or an answer holds, and every refresh that   *)
(* has been checked and not granted yet, goes back to a valid session.     *)
(***************************************************************************)
SeenValid(t) == t <= now /\ \E j \in Jtis : SessionAt(j, t)

Granted(access) == access # NULL => SeenValid(access.seen)

SessionInv ==
  /\ AuthTypeOK
  /\ \A b \in Browsers : Granted(store[b].access)
  /\ \A b \in Browsers, c \in Calls : call[b][c] # NULL =>
       /\ Granted(call[b][c].access)
       /\ Granted(call[b][c].mine)
       /\ Granted(call[b][c].grant)
       /\ call[b][c].status = "checked" => call[b][c].seen # NULL /\ SeenValid(call[b][c].seen)

=============================================================================
