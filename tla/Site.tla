-------------------------------- MODULE Site --------------------------------
(***************************************************************************)
(* The site in one browser, as its users change: the route guards of       *)
(* App.tsx, the silent sign-in of useAuthBootstrap, the forms that log in  *)
(* and register, logout, and the sections of the settings page that write  *)
(* the user back into the store.                                           *)
(*                                                                         *)
(* An access token is the account it was issued to.  It expires where a    *)
(* request finds it expired; what that does to the session is AuthSession. *)
(* A user is the account and the state of its row, a number.               *)
(***************************************************************************)
EXTENDS Integers, FiniteSets

CONSTANTS
  Accounts,
  NULL,
  Calls,                \* bound: calls of the settings page in flight at once
  Plans                 \* bound: what happens in one behaviour, and how often

VARIABLES
  status, owner, user,  \* useAuthStore: the status, the account of the token, the user
  path,                 \* the route of the URL
  screen,               \* history: how many screens have been shown
  cookie,               \* the account of the refresh cookie, or NULL
  registered,           \* the accounts there are
  profile,              \* the row of each account
  entry,                \* the bootstrap, login and registration in flight
  leaving,              \* how many logouts are in flight
  call,                 \* the calls in flight
  tangled,              \* history: calls overlapped, were lost or outlived their session
  plan                  \* the bounds: what may still happen

session  == <<status, owner, user, path, cookie>>
calls    == <<registered, profile, entry, leaving, call, tangled>>
siteVars == <<session, screen, calls, plan>>

Guest == {"login", "register"}
Paths == Guest \cup {"pages", "settings"}
User  == [account : Accounts, row : Nat]

\* kind "password" changes no column of the user the page shows.
Call == [kind   : {"quiet hours", "unlink", "check", "password"},
         sentAs : Accounts,             \* the token it was sent with
         held   : User,                 \* the user authorizedRequest read from the store
         screen : Nat,                  \* the screen it was sent from
         leg    : {"first", "refresh", "retry"},
         status : {"sent", "ok", "refused", "failed"},
         answer : Nat]

Entry == [account : Accounts \cup {NULL}, leg : {"first", "me"},
          status : {"sent", "ok", "refused", "failed"}, answer : Nat]

Acts == {"session", "go", "reload", "profile", "push", "categories", "voice", "fault"}

ASSUME SiteConstants ==
  NULL \notin Accounts /\ NULL \notin Call /\ Plans \subseteq [Acts -> Nat]

SiteTypeOK ==
  /\ status \in {"idle", "loading", "authenticated", "unauthenticated"}
  /\ owner \in Accounts \cup {NULL} /\ user \in User \cup {NULL}
  /\ path \in Paths /\ cookie \in registered \cup {NULL}
  /\ registered \subseteq Accounts /\ profile \in [Accounts -> Nat]
  /\ entry \in [{"bootstrap", "login", "register"} -> Entry \cup {NULL}]
  /\ leaving \in Nat
  /\ call \in [Calls -> Call \cup {NULL}]

-----------------------------------------------------------------------------
(***************************************************************************)
(* Routes.                                                                 *)
(***************************************************************************)
\* GuestRoute, ProtectedRoute: what is on the screen; "" while a guard loads or
\* redirects.
Screen ==
  IF (status = "authenticated" /\ path \notin Guest) \/ (status = "unauthenticated" /\ path \in Guest)
    THEN path ELSE ""

\* A component lives as long as its screen.
Rendered == screen' = IF Screen' = Screen THEN screen ELSE screen + 1

OnSettings == Screen = "settings"

Redirect ==
  /\ \/ status = "authenticated" /\ path \in Guest /\ path' = "pages"
     \/ status = "unauthenticated" /\ path \notin Guest /\ path' = "login"
  /\ UNCHANGED <<status, owner, user, cookie, calls, plan>>

Act(kind) == plan[kind] > 0 /\ plan' = [plan EXCEPT ![kind] = @ - 1]

\* NavLink, Link, the search of the top bar.
Navigate ==
  /\ Act("go") /\ Screen # ""
  /\ path' \in (IF path \in Guest THEN Guest ELSE Paths \ Guest) \ {path}
  /\ UNCHANGED <<status, owner, user, cookie, calls>>

SetAuth(account, held) == status' = "authenticated" /\ owner' = account /\ user' = held

ClearAuth == status' = "unauthenticated" /\ owner' = NULL /\ user' = NULL

\* A request or an answer is lost, or a token is found expired.
Fault == Act("fault")

-----------------------------------------------------------------------------
(***************************************************************************)
(* Signing in.                                                             *)
(***************************************************************************)
Entering(kind, account) ==
  entry' = [entry EXCEPT ![kind] = [account |-> account, leg |-> "first",
                                    status |-> "sent", answer |-> 0]]

InFlight == {c \in Calls : call[c] # NULL}

\* useAuthBootstrap, of whichever guard is mounted.
Bootstrap ==
  /\ status = "idle" /\ status' = "loading"
  /\ Entering("bootstrap", cookie)
  /\ UNCHANGED <<owner, user, path, cookie, registered, profile, leaving, call, tangled, plan>>

\* LoginPage and RegisterPage; the button is disabled while isPending.
SubmitEntry(kind) ==
  /\ Act("session")
  /\ Screen = kind /\ entry[kind] = NULL
  /\ \E a \in Accounts : Entering(kind, a)
  /\ tangled' = (tangled \/ InFlight # {} \/ \E k \in DOMAIN entry : entry[k] # NULL)
  /\ UNCHANGED <<session, registered, profile, leaving, call>>

\* Mutant: the new account is not committed.
AccountedUncommitted(kind, account) == registered

\* register_user: a row.
Accounted(kind, account) == registered \cup (IF kind = "register" THEN {account} ELSE {})

\* refresh, login, register, then me.  A password may be mistyped.
ServeEntry(kind) ==
  LET q == entry[kind] IN
  /\ q # NULL /\ q.status = "sent"
  /\ \E answer \in {"ok", "refused"} :
       /\ answer = "ok" => \/ kind = "bootstrap" /\ q.account # NULL
                           \/ kind = "login" /\ q.account \in registered
                           \/ kind = "register" /\ (q.leg = "me" \/ q.account \notin registered)
       /\ answer = "refused" => \/ kind = "bootstrap" /\ q.account = NULL
                                \/ kind = "login" /\ q.leg = "first"
                                \/ kind = "register" /\ q.leg = "first" /\ q.account \in registered
       /\ registered' = Accounted(kind, q.account)
       /\ entry' = [entry EXCEPT ![kind].status = answer,
                                 ![kind].answer = IF answer = "ok" THEN profile[q.account] ELSE 0]
  /\ UNCHANGED <<session, profile, leaving, call, tangled, plan>>

EntryLost(kind) ==
  /\ Fault
  /\ entry[kind] # NULL /\ entry[kind].status # "failed"
  /\ entry' = [entry EXCEPT ![kind].status = "failed"]
  /\ UNCHANGED <<session, registered, profile, leaving, call, tangled>>

\* The answer to the first request brings the cookie; that of me, the user.
ReceiveEntry(kind) ==
  LET q == entry[kind] IN
  /\ q # NULL /\ q.status = "ok"
  /\ \/ /\ q.leg = "first"
        /\ cookie' = q.account
        /\ entry' = [entry EXCEPT ![kind].leg = "me", ![kind].status = "sent"]
        /\ UNCHANGED <<status, owner, user, path>>
     \/ /\ q.leg = "me"
        /\ SetAuth(q.account, [account |-> q.account, row |-> q.answer])
        /\ path' = IF kind = "bootstrap" THEN path ELSE "pages"
        /\ entry' = [entry EXCEPT ![kind] = NULL]
        /\ UNCHANGED cookie
  /\ UNCHANGED <<registered, profile, leaving, call, tangled, plan>>

\* Mutant: an error leaves the loading screen on.
EntryFailsQuietly(kind) ==
  /\ entry[kind] # NULL /\ entry[kind].status \in {"refused", "failed"}
  /\ entry' = [entry EXCEPT ![kind] = NULL]
  /\ UNCHANGED <<session, registered, profile, leaving, call, tangled, plan>>

\* A form shows a toast; the bootstrap gives up.
EntryFails(kind) ==
  /\ entry[kind] # NULL /\ entry[kind].status \in {"refused", "failed"}
  /\ entry' = [entry EXCEPT ![kind] = NULL]
  /\ IF kind = "bootstrap" THEN ClearAuth ELSE UNCHANGED <<status, owner, user>>
  /\ UNCHANGED <<path, cookie, registered, profile, leaving, call, tangled, plan>>

-----------------------------------------------------------------------------
(***************************************************************************)
(* Signing out.                                                            *)
(***************************************************************************)
\* useLogout, from the user menu, which can be opened again meanwhile.
StartLogout ==
  /\ Act("session")
  /\ status = "authenticated" /\ path \notin Guest
  /\ leaving' = leaving + 1
  /\ tangled' = (tangled \/ InFlight # {})
  /\ UNCHANGED <<session, registered, profile, entry, call>>

\* The cookie goes with the answer, the store whether or not there is one.
LogoutAnswered ==
  /\ leaving > 0 /\ leaving' = leaving - 1
  /\ \/ cookie' = NULL /\ UNCHANGED plan
     \/ Fault /\ UNCHANGED cookie
  /\ ClearAuth /\ path' = "login"
  /\ tangled' = (tangled \/ InFlight # {})
  /\ UNCHANGED <<registered, profile, entry, call>>

\* The page is loaded again: what was in memory is gone, not what was served.
Reload ==
  /\ Act("reload") /\ status # "idle"
  /\ status' = "idle" /\ owner' = NULL /\ user' = NULL
  /\ entry' = [k \in DOMAIN entry |-> NULL] /\ leaving' = 0
  /\ call' = [c \in Calls |-> NULL] /\ tangled' = FALSE
  /\ UNCHANGED <<path, cookie, registered, profile>>

-----------------------------------------------------------------------------
(***************************************************************************)
(* The settings that are columns of the user.                              *)
(***************************************************************************)
\* QuietHoursSection, unlinkTelegram, the check of TelegramLinkModal and
\* ChangePasswordSection, each behind a button disabled while it is pending.
StartCall(c, kind) ==
  /\ Act("profile")
  /\ OnSettings /\ call[c] = NULL
  /\ \A d \in InFlight : ~(call[d].kind = kind /\ call[d].screen = screen)
  /\ call' = [call EXCEPT ![c] = [kind |-> kind, sentAs |-> owner, held |-> user,
                                  screen |-> screen, leg |-> "first",
                                  status |-> "sent", answer |-> 0]]
  /\ tangled' = (tangled \/ InFlight # {} \/ leaving # 0)
  /\ UNCHANGED <<session, registered, profile, entry, leaving>>

Writes(kind) == IF kind \in {"quiet hours", "unlink"} THEN 1 ELSE 0

\* The request finds its token expired, or is served.
ServeCall(c) ==
  LET q == call[c] IN
  /\ q # NULL /\ q.status = "sent" /\ q.leg \in {"first", "retry"}
  /\ \/ /\ profile' = [profile EXCEPT ![q.sentAs] = @ + Writes(q.kind)]
        /\ call' = [call EXCEPT ![c].status = "ok", ![c].answer = profile'[q.sentAs]]
        /\ UNCHANGED plan
     \/ /\ Fault /\ q.leg = "first"
        /\ call' = [call EXCEPT ![c].status = "refused"]
        /\ UNCHANGED profile
  /\ UNCHANGED <<session, registered, entry, leaving, tangled>>

\* authorizedRequest: one refresh, with the cookie of the browser.
RefreshCall(c) ==
  /\ call[c] # NULL /\ call[c].status = "refused"
  /\ IF cookie = NULL
       THEN ClearAuth /\ call' = [call EXCEPT ![c] = NULL]
       ELSE /\ SetAuth(cookie, call[c].held)
            /\ call' = [call EXCEPT ![c].status = "sent", ![c].leg = "retry", ![c].sentAs = cookie]
  /\ UNCHANGED <<path, cookie, registered, profile, entry, leaving, tangled, plan>>

CallLost(c) ==
  /\ Fault
  /\ call[c] # NULL /\ call[c].status # "failed"
  /\ call' = [call EXCEPT ![c].status = "failed",
                          ![c].leg = IF call[c].status = "refused" THEN "retry" ELSE @]
  /\ tangled' = TRUE
  /\ UNCHANGED <<session, registered, profile, entry, leaving>>

\* What onSuccess has in its closure: that of the last render of the component,
\* and for the check that of the click.
Closure(q) == IF q.kind # "check" /\ q.screen = screen THEN user ELSE q.held

\* Mutant: the user of the closure is written back.
WrittenBackHeld(q) == SetAuth(Closure(q).account, Closure(q))

\* setAuth(accessToken, updated); changePassword answers with a token instead.
WrittenBack(q) ==
  IF q.kind = "password" THEN SetAuth(q.sentAs, Closure(q))
  ELSE SetAuth(Closure(q).account, [account |-> q.sentAs, row |-> q.answer])

ReceiveCall(c) ==
  LET q == call[c] IN
  /\ q # NULL /\ q.status \in {"ok", "failed"}
  /\ call' = [call EXCEPT ![c] = NULL]
  /\ \/ q.status = "ok" /\ WrittenBack(q)
     \/ q.status = "ok" /\ q.kind = "check" /\ UNCHANGED <<status, owner, user>>  \* not linked yet
     \/ q.status = "failed" /\ (q.leg = "retry" => ClearAuth)
        /\ (q.leg # "retry" => UNCHANGED <<status, owner, user>>)
  /\ UNCHANGED <<path, cookie, registered, profile, entry, leaving, tangled, plan>>

-----------------------------------------------------------------------------
SiteInit ==
  /\ status = "idle" /\ owner = NULL /\ user = NULL
  /\ path \in Paths /\ screen = 0
  /\ registered \in SUBSET Accounts /\ cookie \in registered \cup {NULL}
  /\ profile = [a \in Accounts |-> 0]
  /\ entry = [k \in {"bootstrap", "login", "register"} |-> NULL] /\ leaving = 0
  /\ call = [c \in Calls |-> NULL] /\ tangled = FALSE
  /\ plan \in Plans

SiteUser ==
  \/ Navigate \/ StartLogout
  \/ \E kind \in Guest : SubmitEntry(kind)
  \/ \E c \in Calls, kind \in {"quiet hours", "unlink", "check", "password"} : StartCall(c, kind)

SiteProceeds ==
  \/ Redirect \/ Bootstrap \/ LogoutAnswered
  \/ \E kind \in DOMAIN entry : ServeEntry(kind) \/ ReceiveEntry(kind) \/ EntryFails(kind)
  \/ \E c \in Calls : ServeCall(c) \/ RefreshCall(c) \/ ReceiveCall(c)

SiteFaults ==
  \/ \E kind \in DOMAIN entry : EntryLost(kind)
  \/ \E c \in Calls : CallLost(c)

=============================================================================
