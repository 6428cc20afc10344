------------------------- MODULE AuthSessionProofs -------------------------
(***************************************************************************)
(* Proofs about module AuthSession: types, that every access token goes    *)
(* back to a valid session of the account, that no session                 *)
(* outlives its password and that none is lost but for the named reasons,  *)
(* for any number of browsers, calls, sessions, passwords and instants.    *)
(***************************************************************************)
EXTENDS AuthSession, TLAPS

-----------------------------------------------------------------------------
(***************************************************************************)
(* The invariant again, with the clock and the table as parameters, so     *)
(* that it can be carried from the state before a step to the one after.   *)
(***************************************************************************)
SeenIn(t, n, table) ==
  /\ t <= n
  /\ \E j \in Jtis :
       /\ table[j] # NULL
       /\ t < table[j].expires
       /\ table[j].revoked # NULL => t <= table[j].revoked

GrantedIn(a, n, table) == a # NULL => SeenIn(a.seen, n, table)

SafeStore(s, n, table) == s \in AuthStore /\ GrantedIn(s.access, n, table)

SafeCall(q, n, table) ==
  /\ q \in Call \cup {NULL}
  /\ q # NULL => /\ GrantedIn(q.access, n, table)
                 /\ GrantedIn(q.mine, n, table)
                 /\ GrantedIn(q.grant, n, table)
                 /\ q.status = "checked" => q.seen # NULL /\ SeenIn(q.seen, n, table)

Tables == [Jtis -> Token \cup {NULL}]

ServerTypeOK ==
  /\ password \in 0..MaxPassword
  /\ tokens \in Tables
  /\ now \in Instants
  /\ cookie \in [Browsers -> Jtis \cup {NULL}]
  /\ faults \in Nat

StoresSafe ==
  /\ store \in [Browsers -> AuthStore]
  /\ \A b \in Browsers : SafeStore(store[b], now, tokens)

CallsSafe ==
  /\ call \in [Browsers -> [Calls -> Call \cup {NULL}]]
  /\ \A b \in Browsers, c \in Calls : SafeCall(call[b][c], now, tokens)

\* The steps preserve SessionInv in this form; the two are the same.
LEMMA InvParts == SessionInv <=> ServerTypeOK /\ StoresSafe /\ CallsSafe
<1>0. \A t : SeenValid(t) <=> SeenIn(t, now, tokens)
  BY DEF SeenValid, SeenIn, SessionAt
<1>1. \A a : Granted(a) <=> GrantedIn(a, now, tokens)
  BY <1>0 DEF Granted, GrantedIn
<1>2. ASSUME SessionInv
      PROVE  ServerTypeOK /\ StoresSafe /\ CallsSafe
  <2>1. ServerTypeOK
    BY <1>2 DEF SessionInv, AuthTypeOK, ServerTypeOK, Tables
  <2>2. StoresSafe
    BY <1>1, <1>2 DEF SessionInv, AuthTypeOK, StoresSafe, SafeStore
  <2>3. CallsSafe
    BY <1>0, <1>1, <1>2 DEF SessionInv, AuthTypeOK, CallsSafe, SafeCall
  <2>4. QED
    BY <2>1, <2>2, <2>3
<1>3. ASSUME ServerTypeOK, StoresSafe, CallsSafe
      PROVE  SessionInv
  <2>1. AuthTypeOK
    BY <1>3 DEF ServerTypeOK, StoresSafe, CallsSafe, AuthTypeOK, Tables
  <2>2. \A b \in Browsers : Granted(store[b].access)
    BY <1>1, <1>3 DEF StoresSafe, SafeStore
  <2>3. \A b \in Browsers, c \in Calls : call[b][c] # NULL =>
          /\ Granted(call[b][c].access) /\ Granted(call[b][c].mine)
          /\ Granted(call[b][c].grant)
          /\ call[b][c].status = "checked" =>
               call[b][c].seen # NULL /\ SeenValid(call[b][c].seen)
    BY <1>0, <1>1, <1>3 DEF CallsSafe, SafeCall
  <2>4. QED
    BY <2>1, <2>2, <2>3 DEF SessionInv
<1>4. QED
  BY <1>2, <1>3

-----------------------------------------------------------------------------
(***************************************************************************)
(* The table only gains rows, and a row only gains its revocation, which   *)
(* is stamped with the present: no token granted in the past is disowned.  *)
(***************************************************************************)
RowsKept(old, new, n) ==
  \A j \in Jtis : old[j] # NULL => new[j] = old[j] \/ new[j] = [old[j] EXCEPT !.revoked = n]

LEMMA SeenSurvives ==
  ASSUME NEW n \in Instants, NEW m \in Instants, n <= m,
         NEW old \in Tables, NEW new \in Tables, RowsKept(old, new, n),
         NEW t \in Instants, SeenIn(t, n, old)
  PROVE  SeenIn(t, m, new)
<1>2. t \in Int /\ n \in Int /\ m \in Int
  BY SessionConstants DEF Instants
<1>3. PICK j \in Jtis : /\ old[j] # NULL
                        /\ t < old[j].expires
                        /\ old[j].revoked # NULL => t <= old[j].revoked
  BY DEF SeenIn
<1>4. t <= n
  BY DEF SeenIn
<1>5. old[j] \in Token
  BY <1>3 DEF Tables
<1>6. new[j] = old[j] \/ new[j] = [old[j] EXCEPT !.revoked = n]
  BY <1>3 DEF RowsKept
<1>7. new[j] # NULL
  <2>1. [old[j] EXCEPT !.revoked = n] \in Token
    BY <1>5 DEF Token
  <2>2. QED
    BY <2>1, <1>5, <1>6, SessionConstants
<1>8. new[j].expires = old[j].expires
  BY <1>5, <1>6 DEF Token
<1>9. new[j].revoked # NULL => t <= new[j].revoked
  BY <1>3, <1>4, <1>5, <1>6 DEF Token
<1>10. t <= m
  BY <1>2, <1>4
<1>11. QED
  BY <1>3, <1>7, <1>8, <1>9, <1>10 DEF SeenIn

LEMMA RevokedRow ==
  ASSUME NEW t \in Token \cup {NULL}, now \in Instants
  PROVE  /\ Revoked(t) \in Token \cup {NULL}
         /\ t # NULL => Revoked(t) = t \/ Revoked(t) = [t EXCEPT !.revoked = now]
<1>1. CASE t = NULL
  BY <1>1 DEF Revoked
<1>2. CASE t \in Token
  <2>1. t # NULL
    BY <1>2, SessionConstants
  <2>2. CASE t.revoked = NULL
    BY <1>2, <2>1, <2>2 DEF Revoked, Token
  <2>3. CASE t.revoked # NULL
    <3>1. Revoked(t) = t
      BY <1>2, <2>1, <2>3 DEF Revoked, Token
    <3>2. QED
      BY <3>1
  <2>4. QED
    BY <2>2, <2>3
<1>3. QED
  BY <1>1, <1>2

-----------------------------------------------------------------------------
(***************************************************************************)
(* The server's state and the cookies.                                     *)
(***************************************************************************)
LEMMA CallType ==
  ASSUME CallsSafe, NEW b \in Browsers, NEW c \in Calls, call[b][c] # NULL
  PROVE  call[b][c] \in Call
  BY DEF CallsSafe, SafeCall

Refreshes(b, c) == CheckRefresh(b, c) \/ GrantRefresh(b, c)

\* The steps that leave the table, the clock and the passwords alone.
OneCall(b, c) ==
  \/ StartAuthorized(b, c) \/ StartLogin(b, c) \/ StartLogout(b, c) \/ Bootstrap(b, c)
  \/ Fail(b, c)
  \/ ServeAuthorized(b, c) \/ ServeLogin(b, c) \/ Refreshes(b, c)
  \/ ReceiveFirst(b, c) \/ ReceiveRefresh(b, c) \/ ReceiveRetry(b, c)
  \/ ReceiveLogin(b, c) \/ ReceiveBootstrap(b, c) \/ ReceiveLogout(b, c)

Client == \E b \in Browsers : Reload(b) \/ \E c \in Calls : OneCall(b, c)

LEMMA ClientLeavesServer ==
  ASSUME Client PROVE UNCHANGED <<password, tokens, now>>
<1>1. ASSUME NEW b \in Browsers, Reload(b)
      PROVE  UNCHANGED <<password, tokens, now>>
  BY <1>1 DEF Reload
<1>2. ASSUME NEW b \in Browsers, NEW c \in Calls, OneCall(b, c)
      PROVE  UNCHANGED <<password, tokens, now>>
  BY <1>2 DEF OneCall, StartAuthorized, StartLogin, StartLogout, Bootstrap, Fail,
              ServeAuthorized, ServeLogin, Refreshes, CheckRefresh, GrantRefresh,
              ReceiveFirst, ReceiveRefresh, ReceiveRetry, ReceiveLogin, ReceiveBootstrap,
              ReceiveLogout
<1>3. QED
  BY <1>1, <1>2 DEF Client

LEMMA ClientKeepsCookies ==
  ASSUME ServerTypeOK, CallsSafe, Client
  PROVE  cookie' \in [Browsers -> Jtis \cup {NULL}] /\ faults' \in Nat
<1>1. cookie \in [Browsers -> Jtis \cup {NULL}] /\ faults \in Nat
  BY DEF ServerTypeOK
<1>2. PICK b \in Browsers : Reload(b) \/ \E c \in Calls : OneCall(b, c)
  BY DEF Client
<1>2a. CASE Reload(b)
  BY <1>1, <1>2a DEF Reload
<1>2b. SUFFICES ASSUME NEW c \in Calls, OneCall(b, c)
                PROVE  cookie' \in [Browsers -> Jtis \cup {NULL}] /\ faults' \in Nat
  BY <1>2, <1>2a
<1>3. call[b][c] # NULL => call[b][c].set \in Jtis \cup {NULL}
  BY CallType DEF Call
<1>4. CASE \/ StartAuthorized(b, c) \/ StartLogin(b, c) \/ StartLogout(b, c)
           \/ Bootstrap(b, c)
           \/ ServeAuthorized(b, c) \/ ServeLogin(b, c) \/ Refreshes(b, c)
  BY <1>1, <1>4 DEF StartAuthorized, StartLogin, StartLogout, Bootstrap,
                    ServeAuthorized, ServeLogin, Refreshes, CheckRefresh, GrantRefresh
<1>5. CASE Fail(b, c)
  BY <1>1, <1>5 DEF Fail
<1>6. CASE ReceiveFirst(b, c)
  BY <1>1, <1>3, <1>6 DEF ReceiveFirst, Succeeded, Arrives
<1>7. CASE ReceiveRefresh(b, c)
  BY <1>1, <1>3, <1>7 DEF ReceiveRefresh, StoreCookie, Doing
<1>8. CASE ReceiveRetry(b, c)
  BY <1>1, <1>3, <1>8 DEF ReceiveRetry, Succeeded, Arrives
<1>9. CASE ReceiveLogin(b, c)
  BY <1>1, <1>3, <1>9 DEF ReceiveLogin, Doing
<1>10. CASE ReceiveLogout(b, c)
  BY <1>1, <1>3, <1>10 DEF ReceiveLogout
<1>11. CASE ReceiveBootstrap(b, c)
  BY <1>1, <1>3, <1>11 DEF ReceiveBootstrap, StoreCookie, Doing
<1>12. QED
  BY <1>2b, <1>4, <1>5, <1>6, <1>7, <1>8, <1>9, <1>10, <1>11 DEF OneCall

\* The other steps, and what each does to the server.
Server(b, c) == ChangePassword(b, c) \/ IssueTokens(b, c) \/ ServeLogout(b, c)

LEMMA NextSplit ==
  Next => \/ Client
          \/ \E b \in Browsers, c \in Calls : Server(b, c)
          \/ LogoutAll \/ Tick
  BY DEF Next, UserStep, Proceed, Client, OneCall, Refreshes, Server

LEMMA ServerStep ==
  ASSUME ServerTypeOK, CallsSafe, [Next]_vars
  PROVE  /\ ServerTypeOK'
         /\ RowsKept(tokens, tokens', now)
         /\ now <= now'
<1> DEFINE Goal == ServerTypeOK' /\ RowsKept(tokens, tokens', now) /\ now <= now'
<1>0. /\ password \in 0..MaxPassword /\ tokens \in Tables /\ now \in Instants
      /\ cookie \in [Browsers -> Jtis \cup {NULL}] /\ faults \in Nat
      /\ now \in Int /\ MaxNow \in Int /\ now <= now
  BY SessionConstants DEF ServerTypeOK, Instants
<1>1. CASE Client
  BY <1>0, <1>1, ClientLeavesServer, ClientKeepsCookies DEF ServerTypeOK, RowsKept
<1>2. ASSUME tokens' = [j \in Jtis |-> Revoked(tokens[j])]
      PROVE  tokens' \in Tables /\ RowsKept(tokens, tokens', now)
  <2>1. \A j \in Jtis : tokens[j] \in Token \cup {NULL}
    BY <1>0 DEF Tables
  <2>2. \A j \in Jtis :
          /\ tokens'[j] \in Token \cup {NULL}
          /\ tokens[j] # NULL => tokens'[j] = tokens[j]
                                 \/ tokens'[j] = [tokens[j] EXCEPT !.revoked = now]
    BY <1>0, <1>2, <2>1, RevokedRow
  <2>3. QED
    BY <1>2, <2>2 DEF Tables, RowsKept
<1>3. ASSUME NEW b \in Browsers, NEW c \in Calls, ChangePassword(b, c)
      PROVE  Goal
  <2>1. password' \in 0..MaxPassword
    BY <1>0, <1>3, SessionConstants DEF ChangePassword
  <2>2. tokens' \in Tables /\ RowsKept(tokens, tokens', now)
    BY <1>2, <1>3 DEF ChangePassword
  <2>3. UNCHANGED <<now, cookie, faults>>
    BY <1>3 DEF ChangePassword
  <2>4. QED
    BY <1>0, <2>1, <2>2, <2>3 DEF ServerTypeOK
<1>4. ASSUME NEW b \in Browsers, NEW c \in Calls, IssueTokens(b, c)
      PROVE  Goal
  <2>1. PICK j \in Jtis : /\ tokens[j] = NULL
                          /\ tokens' = [tokens EXCEPT ![j] = Issued(call[b][c].pw)]
    BY <1>4 DEF IssueTokens
  <2>2. Issued(call[b][c].pw) \in Token
    <3>1. call[b][c].pw \in 0..MaxPassword
      BY <1>4, CallType DEF IssueTokens, Call
    <3>2. now + RefreshTTL \in 0..(MaxNow + RefreshTTL)
      BY <1>0, SessionConstants DEF Instants
    <3>3. QED
      BY <3>1, <3>2 DEF Issued, Token
  <2>3. tokens' \in Tables
    BY <1>0, <2>1, <2>2 DEF Tables
  <2>4. RowsKept(tokens, tokens', now)
    BY <1>0, <2>1 DEF RowsKept, Tables
  <2>5. UNCHANGED <<password, now, cookie, faults>>
    BY <1>4 DEF IssueTokens
  <2>6. QED
    BY <1>0, <2>3, <2>4, <2>5 DEF ServerTypeOK
<1>5. ASSUME NEW b \in Browsers, NEW c \in Calls, ServeLogout(b, c)
      PROVE  Goal
  <2>1. call[b][c] # NULL /\ call[b][c].jti \in Jtis \cup {NULL}
    BY <1>5, CallType DEF ServeLogout, Sent, Call
  <2>2. UNCHANGED <<password, now, cookie, faults>>
    BY <1>5 DEF ServeLogout
  <2>3. tokens' \in Tables /\ RowsKept(tokens, tokens', now)
    <3>1. CASE call[b][c].jti = NULL
      <4>1. tokens' = tokens
        BY <1>5, <3>1 DEF ServeLogout
      <4>2. QED
        BY <4>1, <1>0 DEF RowsKept
    <3>2. CASE call[b][c].jti # NULL
      <4>1. tokens' = [tokens EXCEPT ![call[b][c].jti] = Revoked(tokens[call[b][c].jti])]
        BY <1>5, <3>2 DEF ServeLogout
      <4>2. PICK j \in Jtis : tokens' = [tokens EXCEPT ![j] = Revoked(tokens[j])]
        BY <2>1, <3>2, <4>1
      <4>3. tokens[j] \in Token \cup {NULL}
        BY <1>0 DEF Tables
      <4>4. /\ Revoked(tokens[j]) \in Token \cup {NULL}
            /\ tokens[j] # NULL => Revoked(tokens[j]) = tokens[j]
                                   \/ Revoked(tokens[j]) = [tokens[j] EXCEPT !.revoked = now]
        BY <1>0, <4>3, RevokedRow
      <4>5. QED
        BY <1>0, <4>2, <4>4 DEF Tables, RowsKept
    <3>3. QED
      BY <3>1, <3>2
  <2>4. QED
    BY <1>0, <2>2, <2>3 DEF ServerTypeOK
<1>6. CASE LogoutAll
  <2>1. tokens' \in Tables /\ RowsKept(tokens, tokens', now)
    BY <1>2, <1>6 DEF LogoutAll
  <2>2. UNCHANGED <<password, now, cookie, faults>>
    BY <1>6 DEF LogoutAll
  <2>3. QED
    BY <1>0, <2>1, <2>2 DEF ServerTypeOK
<1>7. CASE Tick
  <2>1. now' \in Instants /\ now <= now'
    BY <1>0, <1>7, SessionConstants DEF Tick, Instants
  <2>2. UNCHANGED <<password, tokens, cookie, faults>>
    BY <1>7 DEF Tick
  <2>3. QED
    BY <1>0, <2>1, <2>2 DEF ServerTypeOK, RowsKept
<1>8. CASE UNCHANGED vars
  BY <1>0, <1>8 DEF vars, ServerTypeOK, RowsKept
<1>9. QED
  BY <1>1, <1>3, <1>4, <1>5, <1>6, <1>7, <1>8, NextSplit DEF Server

-----------------------------------------------------------------------------
(***************************************************************************)
(* The stores.                                                             *)
(***************************************************************************)
SeenStays ==
  \A t \in Instants : SeenIn(t, now, tokens) => SeenIn(t, now', tokens')

GrantsSurvive ==
  /\ SeenStays
  /\ \A a \in Access \cup {NULL} :
       GrantedIn(a, now, tokens) => GrantedIn(a, now', tokens')

LEMMA GrantsStep ==
  ASSUME ServerTypeOK, CallsSafe, [Next]_vars
  PROVE  GrantsSurvive
<1>1. now \in Instants /\ tokens \in Tables
  BY DEF ServerTypeOK
<1>2. now' \in Instants /\ tokens' \in Tables /\ now <= now' /\ RowsKept(tokens, tokens', now)
  BY ServerStep DEF ServerTypeOK
<1>3. SeenStays
  BY <1>1, <1>2, SeenSurvives DEF SeenStays
<1>4. QED
  BY <1>3 DEF SeenStays, GrantsSurvive, GrantedIn, Access

LEMMA StoreUnchanged ==
  ASSUME StoresSafe, GrantsSurvive, UNCHANGED store
  PROVE  StoresSafe'
<1>1. \A b \in Browsers : store[b].access \in Access \cup {NULL}
  BY DEF StoresSafe, AuthStore
<1>2. QED
  BY <1>1 DEF StoresSafe, SafeStore, GrantsSurvive

LEMMA StoreSet ==
  ASSUME StoresSafe, GrantsSurvive, NEW b \in Browsers,
         NEW s \in AuthStore, GrantedIn(s.access, now, tokens),
         store' = [store EXCEPT ![b] = s]
  PROVE  StoresSafe'
<1>1. store' \in [Browsers -> AuthStore]
  BY DEF StoresSafe
<1>2. ASSUME NEW d \in Browsers
      PROVE  GrantedIn(store'[d].access, now', tokens')
  <2>1. CASE d = b
    <3>1. store'[d] = s
      BY <2>1 DEF StoresSafe
    <3>2. s.access \in Access \cup {NULL}
      BY DEF AuthStore
    <3>3. QED
      BY <3>1, <3>2 DEF GrantsSurvive
  <2>2. CASE d # b
    <3>1. store'[d] = store[d]
      BY <2>2 DEF StoresSafe
    <3>2. store[d].access \in Access \cup {NULL} /\ GrantedIn(store[d].access, now, tokens)
      BY DEF StoresSafe, SafeStore, AuthStore
    <3>3. QED
      BY <3>1, <3>2 DEF GrantsSurvive
  <2>3. QED
    BY <2>1, <2>2
<1>3. QED
  BY <1>1, <1>2 DEF StoresSafe, SafeStore

LEMMA NullIsGranted == GrantedIn(NULL, now, tokens)
  BY DEF GrantedIn

LEMMA SetAuthSafe ==
  ASSUME StoresSafe, GrantsSurvive, NEW b \in Browsers,
         NEW a \in Access \cup {NULL}, GrantedIn(a, now, tokens), SetAuth(b, a)
  PROVE  StoresSafe'
<1>1. [access |-> a, status |-> "authenticated"] \in AuthStore
  BY DEF AuthStore
<1>2. QED
  BY <1>1, StoreSet DEF SetAuth

LEMMA ClearAuthSafe ==
  ASSUME StoresSafe, GrantsSurvive, NEW b \in Browsers, ClearAuth(b)
  PROVE  StoresSafe'
<1>1. [access |-> NULL, status |-> "unauthenticated"] \in AuthStore
  BY DEF AuthStore
<1>2. QED
  BY <1>1, NullIsGranted, StoreSet DEF ClearAuth

\* What a call in flight holds.
LEMMA CallGrants ==
  ASSUME CallsSafe, NEW b \in Browsers, NEW c \in Calls, call[b][c] # NULL
  PROVE  /\ call[b][c].access \in Access \cup {NULL}
         /\ call[b][c].mine \in Access \cup {NULL}
         /\ call[b][c].grant \in Access \cup {NULL}
         /\ GrantedIn(call[b][c].access, now, tokens)
         /\ GrantedIn(call[b][c].mine, now, tokens)
         /\ GrantedIn(call[b][c].grant, now, tokens)
<1>1. call[b][c] \in Call
  BY CallType
<1>2. SafeCall(call[b][c], now, tokens)
  BY DEF CallsSafe
<1>3. QED
  BY <1>1, <1>2 DEF SafeCall, Call

LEMMA SucceededStore ==
  ASSUME StoresSafe, CallsSafe, GrantsSurvive,
         NEW b \in Browsers, NEW c \in Calls, call[b][c] # NULL, Succeeded(b, c)
  PROVE  StoresSafe'
<1>1. CASE UNCHANGED store
  BY <1>1, StoreUnchanged
<1>2. CASE \E a \in {call[b][c].mine, store[b].access} \ {NULL} : SetAuth(b, a)
  <2>1. store[b].access \in Access \cup {NULL} /\ GrantedIn(store[b].access, now, tokens)
    BY DEF StoresSafe, SafeStore, AuthStore
  <2>2. PICK a \in {call[b][c].mine, store[b].access} : SetAuth(b, a)
    BY <1>2
  <2>3. QED
    BY <2>1, <2>2, CallGrants, SetAuthSafe
<1>3. CASE SetAuth(b, call[b][c].grant)
  BY <1>3, CallGrants, SetAuthSafe
<1>4. QED
  BY <1>1, <1>2, <1>3 DEF Succeeded

LEMMA StoreStep ==
  ASSUME ServerTypeOK, StoresSafe, CallsSafe, [Next]_vars
  PROVE  StoresSafe'
<1>0. GrantsSurvive
  BY GrantsStep
<1>1. ASSUME NEW b \in Browsers, NEW c \in Calls, Server(b, c)
      PROVE  UNCHANGED store
  BY <1>1 DEF Server, ChangePassword, IssueTokens, ServeLogout
<1>2. CASE LogoutAll \/ Tick \/ UNCHANGED vars
  BY <1>0, <1>2, StoreUnchanged DEF LogoutAll, Tick, vars
<1>3. ASSUME NEW b \in Browsers, Reload(b)
      PROVE  StoresSafe'
  <2>1. [access |-> NULL, status |-> "idle"] \in AuthStore
    BY DEF AuthStore
  <2>2. QED
    BY <1>0, <1>3, <2>1, NullIsGranted, StoreSet DEF Reload
<1>4. ASSUME NEW b \in Browsers, NEW c \in Calls, OneCall(b, c)
      PROVE  StoresSafe'
  <2>1. CASE \/ StartAuthorized(b, c) \/ StartLogin(b, c) \/ StartLogout(b, c) \/ Fail(b, c)
             \/ ServeAuthorized(b, c) \/ ServeLogin(b, c) \/ Refreshes(b, c)
    <3>1. UNCHANGED store
      BY <2>1 DEF StartAuthorized, StartLogin, StartLogout, Fail,
                  ServeAuthorized, ServeLogin, Refreshes, CheckRefresh, GrantRefresh
    <3>2. QED
      BY <1>0, <3>1, StoreUnchanged
  <2>2. CASE Bootstrap(b, c)
    <3>1. store' = [store EXCEPT ![b] = [store[b] EXCEPT !.status = "loading"]]
      BY <2>2 DEF Bootstrap
    <3>2. store[b] \in AuthStore /\ GrantedIn(store[b].access, now, tokens)
      BY DEF StoresSafe, SafeStore
    <3>3. PICK s : s = [store[b] EXCEPT !.status = "loading"]
      OBVIOUS
    <3>4. /\ s \in AuthStore /\ GrantedIn(s.access, now, tokens)
          /\ store' = [store EXCEPT ![b] = s]
      BY <3>1, <3>2, <3>3 DEF AuthStore
    <3>5. QED
      BY <1>0, <3>4, StoreSet
  <2>3. CASE ReceiveFirst(b, c)
    <3>1. call[b][c] # NULL /\ (UNCHANGED store \/ Succeeded(b, c))
      BY <2>3 DEF ReceiveFirst, Arrives
    <3>2. QED
      BY <1>0, <3>1, StoreUnchanged, SucceededStore
  <2>4. CASE ReceiveRefresh(b, c)
    <3>1. call[b][c] # NULL /\ (SetAuth(b, call[b][c].grant) \/ ClearAuth(b))
      BY <2>4 DEF ReceiveRefresh, Arrives
    <3>2. QED
      BY <1>0, <3>1, CallGrants, SetAuthSafe, ClearAuthSafe
  <2>5. CASE ReceiveRetry(b, c)
    <3>1. call[b][c] # NULL /\ (Succeeded(b, c) \/ ClearAuth(b))
      BY <2>5 DEF ReceiveRetry, Arrives
    <3>2. QED
      BY <1>0, <3>1, SucceededStore, ClearAuthSafe
  <2>6. CASE ReceiveLogin(b, c) \/ ReceiveBootstrap(b, c)
    <3>1. /\ call[b][c] # NULL
          /\ UNCHANGED store \/ SetAuth(b, call[b][c].access) \/ ClearAuth(b)
      BY <2>6 DEF ReceiveLogin, ReceiveBootstrap, Doing
    <3>2. QED
      BY <1>0, <3>1, CallGrants, StoreUnchanged, SetAuthSafe, ClearAuthSafe
  <2>7. CASE ReceiveLogout(b, c)
    BY <1>0, <2>7, ClearAuthSafe DEF ReceiveLogout
  <2>8. QED
    BY <1>4, <2>1, <2>2, <2>3, <2>4, <2>5, <2>6, <2>7 DEF OneCall
<1>5. QED
  BY <1>0, <1>1, <1>2, <1>3, <1>4, NextSplit, StoreUnchanged DEF Client

-----------------------------------------------------------------------------
(***************************************************************************)
(* The calls.                                                              *)
(***************************************************************************)
LEMMA CallSurvives ==
  ASSUME GrantsSurvive, NEW q \in Call \cup {NULL}, SafeCall(q, now, tokens)
  PROVE  SafeCall(q, now', tokens')
<1>1. CASE q = NULL
  BY <1>1 DEF SafeCall
<1>2. CASE q \in Call
  <2>1. /\ q.access \in Access \cup {NULL} /\ q.mine \in Access \cup {NULL}
        /\ q.grant \in Access \cup {NULL} /\ q.seen \in Instants \cup {NULL}
    BY <1>2 DEF Call
  <2>2. QED
    BY <2>1 DEF GrantsSurvive, SeenStays, SafeCall
<1>3. QED
  BY <1>1, <1>2

LEMMA PutSafe ==
  ASSUME CallsSafe, GrantsSurvive, NEW b \in Browsers, NEW c \in Calls,
         NEW q \in Call \cup {NULL}, SafeCall(q, now', tokens'), Put(b, c, q)
  PROVE  CallsSafe'
<1>1. call' = [call EXCEPT ![b][c] = q]
  BY DEF Put
<1>2. call \in [Browsers -> [Calls -> Call \cup {NULL}]]
  BY DEF CallsSafe
<1>3. call' \in [Browsers -> [Calls -> Call \cup {NULL}]]
  BY <1>1, <1>2
<1>4. ASSUME NEW d \in Browsers, NEW e \in Calls
      PROVE  SafeCall(call'[d][e], now', tokens')
  <2>1. CASE d = b /\ e = c
    BY <1>1, <1>2, <2>1
  <2>2. CASE ~(d = b /\ e = c)
    <3>1. call'[d][e] = call[d][e]
      BY <1>1, <1>2, <2>2
    <3>2. call[d][e] \in Call \cup {NULL} /\ SafeCall(call[d][e], now, tokens)
      BY <1>2 DEF CallsSafe
    <3>3. QED
      BY <3>1, <3>2, CallSurvives
  <2>3. QED
    BY <2>1, <2>2
<1>5. QED
  BY <1>3, <1>4 DEF CallsSafe

LEMMA DoneSafe ==
  ASSUME CallsSafe, GrantsSurvive, NEW b \in Browsers, NEW c \in Calls, Done(b, c)
  PROVE  CallsSafe'
  BY PutSafe DEF Done, SafeCall

LEMMA RequestSafe ==
  ASSUME CallsSafe, GrantsSurvive, NEW b \in Browsers, NEW c \in Calls,
         NEW kind \in Kind,
         NEW leg \in {"first", "refresh", "retry", "login", "me", "logout"},
         NEW access \in Access \cup {NULL}, GrantedIn(access, now, tokens),
         NEW jti \in Jtis \cup {NULL},
         NEW mine \in Access \cup {NULL}, GrantedIn(mine, now, tokens),
         NEW pw \in 0..MaxPassword,
         Put(b, c, Request(kind, leg, access, jti, mine, pw))
  PROVE  CallsSafe'
<1>1. Request(kind, leg, access, jti, mine, pw) \in Call
  BY DEF Request, Call
<1>2. SafeCall(Request(kind, leg, access, jti, mine, pw), now, tokens)
  BY <1>1, NullIsGranted DEF SafeCall, Request
<1>3. QED
  BY <1>1, <1>2, CallSurvives, PutSafe

LEMMA ContinueSafe ==
  ASSUME CallsSafe, GrantsSurvive, NEW b \in Browsers, NEW c \in Calls, call[b][c] # NULL,
         NEW leg \in {"first", "refresh", "retry", "login", "me", "logout"},
         NEW access \in Access \cup {NULL}, GrantedIn(access, now, tokens),
         NEW jti \in Jtis \cup {NULL}, Continue(b, c, leg, access, jti)
  PROVE  CallsSafe'
<1>1. call[b][c] \in Call
  BY CallType
<1>2. call[b][c].kind \in Kind /\ call[b][c].pw \in 0..MaxPassword
  BY <1>1 DEF Call
<1>3. call[b][c].mine \in Access \cup {NULL} /\ GrantedIn(call[b][c].mine, now, tokens)
  BY CallGrants
<1>4. QED
  BY <1>2, <1>3, RequestSafe DEF Continue

Settled == {"sent", "verified", "changed", "ok", "refused", "failed"}

LEMMA AnswerSafe ==
  ASSUME CallsSafe, GrantsSurvive, NEW b \in Browsers, NEW c \in Calls, call[b][c] # NULL,
         NEW status \in Settled,
         Answer(b, c, status)
  PROVE  CallsSafe'
<1>1. PICK q : q = [call[b][c] EXCEPT !.status = status]
  OBVIOUS
<1>2. call[b][c] \in Call
  BY CallType
<1>3. /\ q \in Call /\ q.access = call[b][c].access /\ q.mine = call[b][c].mine
      /\ q.grant = call[b][c].grant /\ q.status # "checked"
  BY <1>1, <1>2 DEF Call, Settled
<1>4. SafeCall(q, now, tokens)
  BY <1>3, CallGrants DEF SafeCall
<1>5. QED
  BY <1>1, <1>3, <1>4, CallSurvives, PutSafe DEF Answer

\* An answer that carries an access token, for a session seen valid now or before.
LEMMA GrantSafe ==
  ASSUME ServerTypeOK, CallsSafe, GrantsSurvive,
         NEW b \in Browsers, NEW c \in Calls, call[b][c] # NULL,
         NEW set \in Jtis \cup {NULL}, NEW seen \in Instants, SeenIn(seen, now', tokens'),
         Put(b, c, [call[b][c] EXCEPT !.status = "ok", !.set = set, !.grant = AccessToken(seen)])
  PROVE  CallsSafe'
<1>1. PICK q : q = [call[b][c] EXCEPT !.status = "ok", !.set = set, !.grant = AccessToken(seen)]
  OBVIOUS
<1>2. AccessToken(seen) \in Access /\ AccessToken(seen).seen = seen
  BY SessionConstants DEF ServerTypeOK, Instants, Access, AccessToken
<1>3. call[b][c] \in Call
  BY CallType
<1>4. /\ q \in Call /\ q.access = call[b][c].access /\ q.mine = call[b][c].mine
      /\ q.grant = AccessToken(seen) /\ q.status = "ok"
  BY <1>1, <1>2, <1>3 DEF Call
<1>5. GrantedIn(AccessToken(seen), now', tokens')
  BY <1>2 DEF GrantedIn
<1>6. GrantedIn(q.access, now', tokens') /\ GrantedIn(q.mine, now', tokens')
  BY <1>4, CallGrants DEF GrantsSurvive
<1>7. SafeCall(q, now', tokens')
  BY <1>4, <1>5, <1>6 DEF SafeCall
<1>8. QED
  BY <1>1, <1>4, <1>7, PutSafe

LEMMA CallsUnchanged ==
  ASSUME CallsSafe, GrantsSurvive, UNCHANGED call
  PROVE  CallsSafe'
<1>1. \A b \in Browsers, c \in Calls : call[b][c] \in Call \cup {NULL}
  BY DEF CallsSafe
<1>2. QED
  BY <1>1, CallSurvives DEF CallsSafe

LEMMA CallStep ==
  ASSUME ServerTypeOK, StoresSafe, CallsSafe, [Next]_vars
  PROVE  CallsSafe'
<1>0. GrantsSurvive
  BY GrantsStep
<1>1. CASE LogoutAll \/ Tick \/ UNCHANGED vars
  BY <1>0, <1>1, CallsUnchanged DEF LogoutAll, Tick, vars
<1>2. ASSUME NEW b \in Browsers, Reload(b)
      PROVE  CallsSafe'
  <2>1. call' = [call EXCEPT ![b] = [c \in Calls |-> NULL]]
    BY <1>2 DEF Reload
  <2>2. call' \in [Browsers -> [Calls -> Call \cup {NULL}]]
    BY <2>1 DEF CallsSafe
  <2>3. ASSUME NEW d \in Browsers, NEW e \in Calls
        PROVE  SafeCall(call'[d][e], now', tokens')
    <3>1. call'[d][e] = NULL \/ call'[d][e] = call[d][e]
      BY <2>1 DEF CallsSafe
    <3>2. call[d][e] \in Call \cup {NULL} /\ SafeCall(call[d][e], now, tokens)
      BY DEF CallsSafe
    <3>3. QED
      BY <1>0, <3>1, <3>2, CallSurvives DEF SafeCall
  <2>4. QED
    BY <2>2, <2>3 DEF CallsSafe
<1>3. ASSUME NEW b \in Browsers, NEW c \in Calls,
             ServeLogout(b, c) \/ Fail(b, c) \/ ServeAuthorized(b, c) \/ ServeLogin(b, c)
      PROVE  CallsSafe'
  <2>1. /\ call[b][c] # NULL
        /\ \E status \in Settled : Answer(b, c, status)
    BY <1>3 DEF Settled, ServeLogout, Fail, ServeAuthorized, ServeLogin, Sent
  <2>2. QED
    BY <1>0, <2>1, AnswerSafe
<1>4. ASSUME NEW b \in Browsers, NEW c \in Calls, ChangePassword(b, c)
      PROVE  CallsSafe'
  <2>1. PICK q : q = [call[b][c] EXCEPT !.status = "changed", !.pw = password + 1]
    OBVIOUS
  <2>2. call[b][c] # NULL /\ Put(b, c, q) /\ password + 1 \in 0..MaxPassword
    BY <1>4, <2>1, SessionConstants DEF ChangePassword, Doing, ServerTypeOK
  <2>3. call[b][c] \in Call
    BY <2>2, CallType
  <2>4. /\ q \in Call /\ q.access = call[b][c].access /\ q.mine = call[b][c].mine
        /\ q.grant = call[b][c].grant /\ q.status = "changed"
    BY <2>1, <2>2, <2>3 DEF Call
  <2>5. SafeCall(q, now, tokens)
    BY <2>2, <2>4, CallGrants DEF SafeCall
  <2>6. QED
    BY <1>0, <2>2, <2>4, <2>5, CallSurvives, PutSafe
<1>5. ASSUME NEW b \in Browsers, NEW c \in Calls, IssueTokens(b, c)
      PROVE  CallsSafe'
  <2>1. PICK j \in Jtis :
          /\ tokens' = [tokens EXCEPT ![j] = Issued(call[b][c].pw)]
          /\ Put(b, c, [call[b][c] EXCEPT !.status = "ok", !.set = j, !.grant = AccessToken(now)])
    BY <1>5 DEF IssueTokens
  <2>2. call[b][c] # NULL /\ UNCHANGED now
    BY <1>5 DEF IssueTokens
  <2>3. /\ tokens'[j].revoked = NULL /\ now < tokens'[j].expires
        /\ tokens'[j] = Issued(call[b][c].pw)
    BY <2>1, SessionConstants DEF ServerTypeOK, Tables, Issued, Instants
  <2>4. tokens'[j] # NULL
    <3>1. call[b][c].pw \in 0..MaxPassword
      BY <2>2, CallType DEF Call
    <3>2. now + RefreshTTL \in 0..(MaxNow + RefreshTTL)
      BY SessionConstants DEF ServerTypeOK, Instants
    <3>3. Issued(call[b][c].pw) \in Token
      BY <3>1, <3>2 DEF Issued, Token
    <3>4. QED
      BY <2>3, <3>3, SessionConstants
  <2>5. now \in Instants /\ SeenIn(now, now', tokens')
    BY <2>2, <2>3, <2>4, SessionConstants DEF ServerTypeOK, Instants, SeenIn
  <2>6. QED
    BY <1>0, <2>1, <2>2, <2>5, GrantSafe
<1>6. ASSUME NEW b \in Browsers, NEW c \in Calls, CheckRefresh(b, c)
      PROVE  CallsSafe'
  <2>1. call[b][c] # NULL /\ UNCHANGED <<now, tokens>>
    BY <1>6 DEF CheckRefresh, Sent
  <2>2. call[b][c] \in Call
    BY <2>1, CallType
  <2>3. CASE Valid(call[b][c].jti)
    <3>1. PICK q : q = [call[b][c] EXCEPT !.status = "checked", !.seen = now]
      OBVIOUS
    <3>2. Put(b, c, q)
      BY <1>6, <2>3, <3>1 DEF CheckRefresh
    <3>3. now \in Instants /\ now # NULL
      BY SessionConstants DEF ServerTypeOK
    <3>4. /\ q \in Call /\ q.access = call[b][c].access /\ q.mine = call[b][c].mine
          /\ q.grant = call[b][c].grant /\ q.seen = now
      BY <2>2, <3>1, <3>3 DEF Call
    <3>5. SeenIn(now, now, tokens)
      BY <2>2, <2>3, <3>3, SessionConstants DEF Valid, Call, SeenIn, Instants
    <3>6. SafeCall(q, now, tokens)
      BY <2>1, <3>3, <3>4, <3>5, CallGrants DEF SafeCall
    <3>7. QED
      BY <1>0, <3>2, <3>4, <3>6, CallSurvives, PutSafe
  <2>4. CASE ~Valid(call[b][c].jti)
    BY <1>0, <1>6, <2>1, <2>4, AnswerSafe DEF CheckRefresh, Settled
  <2>5. QED
    BY <2>3, <2>4
<1>6a. ASSUME NEW b \in Browsers, NEW c \in Calls, GrantRefresh(b, c)
       PROVE  CallsSafe'
  <2>1. call[b][c] # NULL /\ call[b][c].status = "checked"
    BY <1>6a DEF GrantRefresh, Checked
  <2>2. call[b][c] \in Call
    BY <2>1, CallType
  <2>3. PICK set \in Jtis \cup {NULL} : set = call[b][c].set
    BY <2>2 DEF Call
  <2>4. PICK seen \in Instants : seen = call[b][c].seen /\ SeenIn(seen, now, tokens)
    BY <2>1, <2>2 DEF CallsSafe, SafeCall, Call
  <2>5. SeenIn(seen, now', tokens')
    BY <1>0, <2>4 DEF GrantsSurvive, SeenStays
  <2>6. Put(b, c, [call[b][c] EXCEPT !.status = "ok", !.grant = AccessToken(seen)])
    BY <1>6a, <2>4 DEF GrantRefresh
  <2>7. [call[b][c] EXCEPT !.status = "ok", !.grant = AccessToken(seen)]
          = [call[b][c] EXCEPT !.status = "ok", !.set = set, !.grant = AccessToken(seen)]
    BY <2>2, <2>3 DEF Call
  <2>8. QED
    BY <1>0, <2>1, <2>5, <2>6, <2>7, GrantSafe
<1>7. ASSUME NEW b \in Browsers, NEW c \in Calls,
             \/ StartAuthorized(b, c) \/ StartLogin(b, c) \/ StartLogout(b, c) \/ Bootstrap(b, c)
      PROVE  CallsSafe'
  <2>1. /\ store[b].access \in Access \cup {NULL} /\ GrantedIn(store[b].access, now, tokens)
        /\ cookie[b] \in Jtis \cup {NULL} /\ 0..password \subseteq 0..MaxPassword
        /\ password \in 0..MaxPassword /\ 0 \in 0..MaxPassword
    BY SessionConstants DEF StoresSafe, SafeStore, AuthStore, ServerTypeOK
  <2>2. CASE StartAuthorized(b, c)
    <3>1. PICK kind \in Authorized :
            Put(b, c, Request(kind, "first", store[b].access, NULL, store[b].access, password))
      BY <2>2 DEF StartAuthorized
    <3>2. kind \in Kind
      BY DEF Authorized, Kind
    <3>3. QED
      BY <1>0, <2>1, <3>1, <3>2, RequestSafe
  <2>3. CASE StartLogin(b, c)
    <3>1. PICK pw \in 0..password : Put(b, c, Request("login", "login", NULL, NULL, NULL, pw))
      BY <2>3 DEF StartLogin
    <3>2. "login" \in Kind /\ pw \in 0..MaxPassword
      BY <2>1 DEF Kind
    <3>3. QED
      BY <1>0, <2>1, <3>1, <3>2, NullIsGranted, RequestSafe
  <2>4. CASE StartLogout(b, c)
    <3>1. "logout" \in Kind
      BY DEF Kind
    <3>2. QED
      BY <1>0, <2>1, <2>4, <3>1, NullIsGranted, RequestSafe DEF StartLogout
  <2>5. CASE Bootstrap(b, c)
    <3>1. "bootstrap" \in Kind
      BY DEF Kind
    <3>2. QED
      BY <1>0, <2>1, <2>5, <3>1, NullIsGranted, RequestSafe DEF Bootstrap
  <2>6. QED
    BY <1>7, <2>2, <2>3, <2>4, <2>5
<1>8. ASSUME NEW b \in Browsers, NEW c \in Calls,
             \/ ReceiveFirst(b, c) \/ ReceiveRefresh(b, c) \/ ReceiveRetry(b, c)
             \/ ReceiveLogin(b, c) \/ ReceiveBootstrap(b, c) \/ ReceiveLogout(b, c)
      PROVE  CallsSafe'
  <2>1. call[b][c] # NULL
    BY <1>8 DEF ReceiveFirst, ReceiveRefresh, ReceiveRetry, ReceiveLogin,
                ReceiveBootstrap, ReceiveLogout, Arrives, Doing
  <2>2. \/ Done(b, c)
        \/ Continue(b, c, "refresh", NULL, cookie[b])
        \/ Continue(b, c, "retry", call[b][c].grant, NULL)
        \/ Continue(b, c, "me", call[b][c].grant, NULL)
    BY <1>8 DEF ReceiveFirst, ReceiveRefresh, ReceiveRetry, ReceiveLogin,
                ReceiveBootstrap, ReceiveLogout, Succeeded
  <2>3. cookie[b] \in Jtis \cup {NULL}
    BY DEF ServerTypeOK
  <2>4. QED
    BY <1>0, <2>1, <2>2, <2>3, NullIsGranted, CallGrants, DoneSafe, ContinueSafe
<1>9. QED
  BY <1>1, <1>2, <1>3, <1>4, <1>5, <1>6, <1>6a, <1>7, <1>8, CallsUnchanged, NextSplit
  DEF Client, OneCall, Refreshes, Server

-----------------------------------------------------------------------------
(***************************************************************************)
(* The invariant holds at first: no page has a token yet.                  *)
(***************************************************************************)
LEMMA InitInv == Init => SessionInv
<1> SUFFICES ASSUME Init PROVE SessionInv
  OBVIOUS
<1>1. ServerTypeOK
  <2>1. Issued(0) \in Token
    BY SessionConstants DEF Init, Issued, Token
  <2>2. QED
    BY <2>1, SessionConstants DEF Init, ServerTypeOK, Tables, Instants
<1>2. StoresSafe
  BY DEF Init, StoresSafe, SafeStore, AuthStore, GrantedIn
<1>3. CallsSafe
  BY DEF Init, CallsSafe, SafeCall
<1>4. QED
  BY <1>1, <1>2, <1>3, InvParts

LEMMA SessionStep == SessionInv /\ [Next]_vars => SessionInv'
<1> SUFFICES ASSUME SessionInv, [Next]_vars PROVE SessionInv'
  OBVIOUS
<1>1. ServerTypeOK /\ StoresSafe /\ CallsSafe
  BY InvParts
<1>2. ServerTypeOK' /\ StoresSafe' /\ CallsSafe'
  BY <1>1, ServerStep, StoreStep, CallStep
<1>3. QED
  BY <1>2, InvParts, PTL

(***************************************************************************)
(* Types, and every access token a page, a request or an answer holds,     *)
(* like every refresh that is checked and not granted yet, goes back to an *)
(* instant at which a session was valid (refresh: the check, then a second *)
(* look-up, then the token).                                               *)
(***************************************************************************)
THEOREM SessionInvariance == Spec => []SessionInv
  BY InitInv, SessionStep, PTL DEF Spec

(***************************************************************************)
(* The access token of a page is of a session seen valid at its grant or   *)
(* at the check of the refresh that granted it, whatever logout,           *)
(* logout_all and change_password revoke in between.                       *)
(***************************************************************************)
THEOREM TokensWithinSessions == Spec => []GrantedInSession
<1>1. SessionInv => GrantedInSession
  BY DEF SessionInv, Granted, SeenValid, GrantedInSession
<1>2. QED
  BY SessionInvariance, <1>1, PTL

-----------------------------------------------------------------------------
(***************************************************************************)
(* The inductive invariant behind the two action properties.  The rows of  *)
(* the table are of passwords that have been set; a call in flight knows   *)
(* of no later one, and what refused it still stands; a page runs one      *)
(* bootstrap, alone, and one password form; and, until its user has logged *)
(* in again, a page's cookie is not older than the cookies its calls were  *)
(* sent with, and older than the one a change of password of its own is    *)
(* about to bring.                                                         *)
(***************************************************************************)
ValidIn(j, n, table) ==
  j # NULL /\ table[j] # NULL /\ table[j].revoked = NULL /\ n < table[j].expires

Told(q, p, n, table) ==
  /\ q.pw <= p
  /\ q.leg = "retry" => q.kind \in Authorized
  /\ q.leg = "logout" => q.kind = "logout"
  /\ q.jti # NULL => table[q.jti] # NULL
  /\ q.set # NULL => /\ q.kind \in {"password", "login"}
                     /\ q.leg # "refresh"
                     /\ q.status \in {"ok", "failed"}
                     /\ table[q.set] # NULL
                     /\ q.kind = "password" => table[q.set].password = q.pw
  /\ q.status = "verified" => q.leg # "refresh"
  /\ q.status = "changed" => q.leg # "refresh" /\ q.kind = "password"
  /\ q.status = "refused" /\ q.leg = "refresh" => ~ValidIn(q.jti, n, table)
  /\ q.status = "refused" /\ q.leg = "retry" =>
       \/ q.kind = "mistyped"
       \/ q.access = NULL \/ q.access.expires <= n
       \/ q.kind = "password" /\ q.pw < p

RowsOfPast == \A j \in Jtis : tokens[j] # NULL => tokens[j].password <= password

CallsTold ==
  \A b \in Browsers, c \in Calls :
    call[b][c] # NULL => Told(call[b][c], password, now, tokens)

CookieKnown(b) == cookie[b] # NULL => tokens[cookie[b]] # NULL

Page(b) ==
  /\ store[b].status = "idle" => \A c \in Calls : call[b][c] = NULL
  /\ \A c, d \in Calls : Doing(b, c, {"bootstrap"}) =>
       store[b].status = "loading" /\ (c # d => call[b][d] = NULL)
  /\ \A c, d \in Calls : Doing(b, c, PasswordForm) /\ Doing(b, d, PasswordForm) => c = d

\* The password has been changed; the cookie is on its way.
PasswordAhead(q) ==
  q # NULL /\ q.kind = "password" /\ (q.status = "changed" \/ q.set # NULL)

SentWith(q, j) == q # NULL /\ j # NULL /\ q.jti = j

NotOlder(b, j) == j = cookie[b] \/ tokens[j].password < tokens[cookie[b]].password

CookieOrder(b) ==
  /\ \A c \in Calls, j \in Jtis :
       SentWith(call[b][c], j) /\ cookie[b] # NULL => NotOlder(b, j)
  /\ \A c \in Calls : PasswordAhead(call[b][c]) =>
       /\ cookie[b] # NULL => tokens[cookie[b]].password < call[b][c].pw
       /\ \A d \in Calls, j \in Jtis :
            SentWith(call[b][d], j) => tokens[j].password < call[b][c].pw

KeepInv ==
  /\ RowsOfPast
  /\ CallsTold
  /\ \A b \in Browsers : CookieKnown(b) /\ Page(b) /\ (b \notin relogged => CookieOrder(b))

-----------------------------------------------------------------------------
(***************************************************************************)
(* What a step does to the slot (b, c) of a call.                          *)
(***************************************************************************)
Others(b, c) ==
  \A d \in Browsers, e \in Calls : ~(d = b /\ e = c) => call'[d][e] = call[d][e]

LEMMA PutEffect ==
  ASSUME CallsSafe, NEW b \in Browsers, NEW c \in Calls, NEW q, Put(b, c, q)
  PROVE  call'[b][c] = q /\ Others(b, c)
  BY DEF CallsSafe, Put, Others

Begins(b, c) ==
  LET r == call'[b][c] IN
  /\ call[b][c] = NULL
  /\ r.status = "sent" /\ r.set = NULL /\ r.pw \in 0..password
  /\ r.leg \in {"first", "refresh", "login", "logout"}
  /\ r.leg = "logout" => r.kind = "logout"
  /\ r.jti \in {NULL, cookie[b]}

Continues(b, c) ==
  LET q == call[b][c]
      r == call'[b][c] IN
  /\ q # NULL
  /\ r.status = "sent" /\ r.set = NULL /\ r.pw = q.pw /\ r.kind = q.kind
  /\ r.leg \in {"refresh", "retry", "me"}
  /\ r.leg = "retry" => r.kind \in Authorized
  /\ r.jti \in {NULL, cookie[b]}

\* The request is as it was; the answer has gone one step further.
SameRequest(q, r) ==
  /\ r.kind = q.kind /\ r.leg = q.leg /\ r.jti = q.jti /\ r.access = q.access

Refusable(q) ==
  /\ q.leg = "refresh" => ~ValidIn(q.jti, now, tokens)
  /\ q.leg = "retry" => \/ q.kind = "mistyped"
                        \/ q.access = NULL \/ q.access.expires <= now
                        \/ q.kind = "password" /\ q.pw # password

Answers(b, c) ==
  LET q == call[b][c]
      r == call'[b][c] IN
  /\ q # NULL
  /\ SameRequest(q, r) /\ r.pw = q.pw /\ r.set = q.set
  /\ \/ r.status \in {"ok", "failed"}
     \/ r.status = "refused" /\ q.set = NULL /\ Refusable(q)
     \/ r.status = "checked" /\ q.set = NULL
     \/ r.status = "verified" /\ q.set = NULL /\ q.leg # "refresh"

Changes(b, c) ==
  LET q == call[b][c]
      r == call'[b][c] IN
  /\ q # NULL /\ q.kind = "password" /\ q.status = "verified"
  /\ SameRequest(q, r) /\ r.set = q.set
  /\ r.status = "changed" /\ r.pw = password + 1 /\ password' = password + 1

Grants(b, c) ==
  LET q == call[b][c]
      r == call'[b][c] IN
  /\ q # NULL
  /\ \/ q.kind = "login" /\ q.status = "verified"
     \/ q.status = "changed"
  /\ SameRequest(q, r) /\ r.pw = q.pw
  /\ r.status = "ok" /\ r.set \in Jtis
  /\ tokens[r.set] = NULL /\ tokens' = [tokens EXCEPT ![r.set] = Issued(q.pw)]

Ends(b, c) == call[b][c] # NULL /\ call'[b][c] = NULL

SlotMoves(b, c) ==
  \/ Begins(b, c) \/ Continues(b, c) \/ Answers(b, c) \/ Changes(b, c) \/ Grants(b, c)
  \/ Ends(b, c)

LEMMA StartMoves ==
  ASSUME ServerTypeOK, StoresSafe, CallsSafe, NEW b \in Browsers, NEW c \in Calls,
         StartAuthorized(b, c) \/ StartLogin(b, c) \/ StartLogout(b, c) \/ Bootstrap(b, c)
  PROVE  Others(b, c) /\ Begins(b, c)
<1>1. PICK kind, leg, access, jti, mine, pw :
        /\ call[b][c] = NULL
        /\ Put(b, c, Request(kind, leg, access, jti, mine, pw))
        /\ pw \in 0..password
        /\ leg \in {"first", "refresh", "login", "logout"}
        /\ leg = "logout" => kind = "logout"
        /\ jti \in {NULL, cookie[b]}
  <2>1. password \in 0..password /\ 0 \in 0..password
    BY SessionConstants DEF ServerTypeOK
  <2>2. CASE StartAuthorized(b, c)
    BY <2>1, <2>2 DEF StartAuthorized
  <2>3. CASE StartLogin(b, c)
    BY <2>3 DEF StartLogin
  <2>4. CASE StartLogout(b, c)
    BY <2>1, <2>4 DEF StartLogout
  <2>5. CASE Bootstrap(b, c)
    BY <2>1, <2>5 DEF Bootstrap
  <2>6. QED
    BY <2>2, <2>3, <2>4, <2>5
<1>2. call'[b][c] = Request(kind, leg, access, jti, mine, pw) /\ Others(b, c)
  BY <1>1, PutEffect
<1>3. QED
  BY <1>1, <1>2 DEF Begins, Request

LEMMA ReceiveMoves ==
  ASSUME CallsSafe, CallsTold, NEW b \in Browsers, NEW c \in Calls,
         \/ ReceiveFirst(b, c) \/ ReceiveRefresh(b, c) \/ ReceiveRetry(b, c)
         \/ ReceiveLogin(b, c) \/ ReceiveBootstrap(b, c) \/ ReceiveLogout(b, c)
  PROVE  Others(b, c) /\ (Continues(b, c) \/ Ends(b, c))
<1>1. call[b][c] # NULL
  BY DEF ReceiveFirst, ReceiveRefresh, ReceiveRetry, ReceiveLogin, ReceiveBootstrap,
         ReceiveLogout, Arrives, Doing
<1>2. CASE Done(b, c)
  BY <1>1, <1>2, PutEffect DEF Done, Ends
<1>3. ASSUME NEW leg \in {"refresh", "retry", "me"}, NEW access, NEW jti \in {NULL, cookie[b]},
             Continue(b, c, leg, access, jti),
             leg = "retry" => call[b][c].kind \in Authorized
      PROVE  Others(b, c) /\ Continues(b, c)
  <2>1. /\ call'[b][c] = Request(call[b][c].kind, leg, access, jti, call[b][c].mine,
                                 call[b][c].pw)
        /\ Others(b, c)
    BY <1>3, PutEffect DEF Continue
  <2>2. QED
    BY <1>1, <1>3, <2>1 DEF Continues, Request
<1>4. \/ Done(b, c)
      \/ Continue(b, c, "refresh", NULL, cookie[b])
      \/ Continue(b, c, "retry", call[b][c].grant, NULL) /\ call[b][c].kind \in Authorized
      \/ Continue(b, c, "me", call[b][c].grant, NULL)
  BY DEF ReceiveFirst, ReceiveRefresh, ReceiveRetry, ReceiveLogin, ReceiveBootstrap,
         ReceiveLogout, Succeeded, Doing
<1>5. QED
  BY <1>2, <1>3, <1>4

LEMMA ServeMoves ==
  ASSUME ServerTypeOK, CallsSafe, CallsTold, NEW b \in Browsers, NEW c \in Calls,
         \/ Fail(b, c) \/ ServeAuthorized(b, c) \/ ServeLogin(b, c) \/ Refreshes(b, c)
         \/ ServeLogout(b, c)
  PROVE  Others(b, c) /\ Answers(b, c)
<1>1. call[b][c] # NULL
  BY DEF Fail, ServeAuthorized, ServeLogin, Refreshes, CheckRefresh, GrantRefresh, Checked,
         ServeLogout, Sent
<1>2. call[b][c] \in Call
  BY <1>1, CallType
<1>3. call[b][c].status = "sent" => call[b][c].set = NULL
  BY <1>1 DEF CallsTold, Told
<1>4. ASSUME NEW status, Answer(b, c, status),
             \/ status \in {"ok", "failed"}
             \/ status = "refused" /\ call[b][c].set = NULL /\ Refusable(call[b][c])
             \/ status = "verified" /\ call[b][c].set = NULL /\ call[b][c].leg # "refresh"
      PROVE  Others(b, c) /\ Answers(b, c)
  <2>1. call'[b][c] = [call[b][c] EXCEPT !.status = status] /\ Others(b, c)
    BY <1>4, PutEffect DEF Answer
  <2>2. QED
    BY <1>1, <1>2, <1>4, <2>1 DEF Answers, SameRequest, Call
<1>5. CASE Fail(b, c)
  BY <1>4, <1>5 DEF Fail
<1>6. CASE ServeAuthorized(b, c)
  <2>1. /\ call[b][c].leg # "refresh" /\ call[b][c].set = NULL
        /\ now \in Int /\ (call[b][c].access = NULL \/ call[b][c].access.expires \in Int)
    BY <1>2, <1>3, <1>6, SessionConstants
    DEF ServeAuthorized, Sent, ServerTypeOK, Instants, Call, Access
  <2>2. CASE ~Live(call[b][c].access) /\ Answer(b, c, "refused")
    BY <1>4, <2>1, <2>2 DEF Live, Refusable
  <2>3. CASE Answer(b, c, "ok")
    BY <1>4, <2>3
  <2>4. CASE call[b][c].kind = "mistyped" /\ Answer(b, c, "refused")
    BY <1>4, <2>1, <2>4 DEF Refusable
  <2>5. CASE /\ call[b][c].kind = "password"
             /\ Answer(b, c, IF call[b][c].pw = password THEN "verified" ELSE "refused")
    BY <1>4, <2>1, <2>5 DEF Refusable
  <2>6. QED
    BY <1>6, <2>2, <2>3, <2>4, <2>5 DEF ServeAuthorized
<1>7. CASE ServeLogin(b, c)
  BY <1>3, <1>4, <1>7 DEF ServeLogin, Sent, Refusable
<1>8. CASE CheckRefresh(b, c)
  <2>1. CASE Valid(call[b][c].jti)
    <3>1. /\ call'[b][c] = [call[b][c] EXCEPT !.status = "checked", !.seen = now]
          /\ Others(b, c)
      BY <1>8, <2>1, PutEffect DEF CheckRefresh
    <3>2. QED
      BY <1>1, <1>2, <1>3, <1>8, <3>1 DEF CheckRefresh, Sent, Answers, SameRequest, Call
  <2>2. CASE ~Valid(call[b][c].jti)
    <3>1. ~ValidIn(call[b][c].jti, now, tokens)
      BY <2>2 DEF Valid, ValidIn
    <3>2. QED
      BY <1>3, <1>4, <1>8, <2>2, <3>1 DEF CheckRefresh, Sent, Refusable
  <2>3. QED
    BY <2>1, <2>2
<1>8a. CASE GrantRefresh(b, c)
  <2>1. /\ call'[b][c] = [call[b][c] EXCEPT !.status = "ok",
                                            !.grant = AccessToken(call[b][c].seen)]
        /\ Others(b, c)
    BY <1>8a, PutEffect DEF GrantRefresh
  <2>2. QED
    BY <1>1, <1>2, <2>1 DEF Answers, SameRequest, Call
<1>9. CASE ServeLogout(b, c)
  BY <1>4, <1>9 DEF ServeLogout
<1>10. QED
  BY <1>5, <1>6, <1>7, <1>8, <1>8a, <1>9 DEF Refreshes

LEMMA ChangeMoves ==
  ASSUME CallsSafe, NEW b \in Browsers, NEW c \in Calls, ChangePassword(b, c)
  PROVE  Others(b, c) /\ Changes(b, c)
<1>1. call[b][c] \in Call /\ call[b][c] # NULL
  BY CallType DEF ChangePassword, Doing
<1>2. /\ call'[b][c] = [call[b][c] EXCEPT !.status = "changed", !.pw = password + 1]
      /\ Others(b, c)
  BY PutEffect DEF ChangePassword
<1>3. /\ SameRequest(call[b][c], call'[b][c]) /\ call'[b][c].set = call[b][c].set
      /\ call'[b][c].status = "changed" /\ call'[b][c].pw = password + 1
  BY <1>1, <1>2 DEF SameRequest, Call
<1>4. /\ call[b][c].kind = "password" /\ call[b][c].status = "verified"
      /\ password' = password + 1
  BY DEF ChangePassword, Doing
<1>5. QED
  BY <1>1, <1>2, <1>3, <1>4 DEF Changes

LEMMA GrantMoves ==
  ASSUME CallsSafe, NEW b \in Browsers, NEW c \in Calls, IssueTokens(b, c)
  PROVE  Others(b, c) /\ Grants(b, c)
<1>1. call[b][c] \in Call /\ call[b][c] # NULL
  BY CallType DEF IssueTokens
<1>2. PICK j \in Jtis :
        /\ tokens[j] = NULL
        /\ tokens' = [tokens EXCEPT ![j] = Issued(call[b][c].pw)]
        /\ Put(b, c, [call[b][c] EXCEPT !.status = "ok", !.set = j, !.grant = AccessToken(now)])
  BY DEF IssueTokens
<1>3. /\ call'[b][c] = [call[b][c] EXCEPT !.status = "ok", !.set = j,
                                          !.grant = AccessToken(now)]
      /\ Others(b, c)
  BY <1>2, PutEffect
<1>4. /\ SameRequest(call[b][c], call'[b][c]) /\ call'[b][c].pw = call[b][c].pw
      /\ call'[b][c].status = "ok" /\ call'[b][c].set = j
  BY <1>1, <1>3 DEF SameRequest, Call
<1>5. QED
  BY <1>1, <1>2, <1>3, <1>4 DEF IssueTokens, Grants

LEMMA SlotStep ==
  ASSUME ServerTypeOK, StoresSafe, CallsSafe, CallsTold, NEW b \in Browsers, NEW c \in Calls,
         OneCall(b, c) \/ Server(b, c)
  PROVE  Others(b, c) /\ SlotMoves(b, c)
  BY StartMoves, ReceiveMoves, ServeMoves, ChangeMoves, GrantMoves
  DEF OneCall, Server, SlotMoves

-----------------------------------------------------------------------------
(***************************************************************************)
(* What a step leaves true of the table and the clock.                     *)
(***************************************************************************)
RowsStay ==
  /\ password \in Nat /\ password' \in Nat /\ password <= password'
  /\ now \in Int /\ now' \in Int /\ now <= now'
  /\ \A j \in Jtis : tokens[j] # NULL =>
       /\ tokens'[j] # NULL
       /\ tokens'[j].password = tokens[j].password
       /\ tokens[j].password \in Nat
       /\ ~ValidIn(j, now, tokens) => ~ValidIn(j, now', tokens')

LEMMA RowsStayStep ==
  ASSUME ServerTypeOK, CallsSafe, [Next]_vars
  PROVE  RowsStay
<1>1. ServerTypeOK' /\ RowsKept(tokens, tokens', now) /\ now <= now'
  BY ServerStep
<1>2. /\ password \in Nat /\ password' \in Nat /\ now \in Int /\ now' \in Int
      /\ now \in Instants /\ tokens \in Tables /\ tokens' \in Tables /\ now # NULL
  BY <1>1, SessionConstants DEF ServerTypeOK, Instants, Access
<1>3. password <= password'
  <2>1. UNCHANGED password \/ \E b \in Browsers, c \in Calls : ChangePassword(b, c)
    BY NextSplit, ClientLeavesServer
    DEF Server, IssueTokens, ServeLogout, LogoutAll, Tick, vars
  <2>2. \A b \in Browsers, c \in Calls : ChangePassword(b, c) => password' = password + 1
    BY DEF ChangePassword
  <2>3. QED
    BY <1>2, <2>1, <2>2
<1>4. ASSUME NEW j \in Jtis, tokens[j] # NULL
      PROVE  /\ tokens'[j] # NULL
             /\ tokens'[j].password = tokens[j].password
             /\ tokens[j].password \in Nat
             /\ ~ValidIn(j, now, tokens) => ~ValidIn(j, now', tokens')
  <2>1. tokens[j] \in Token
    BY <1>2, <1>4 DEF Tables
  <2>2. /\ tokens[j].password \in Nat /\ tokens[j].expires \in Int
        /\ tokens[j].revoked \in Instants \cup {NULL}
    BY <2>1, SessionConstants DEF Token
  <2>3. CASE tokens'[j] = tokens[j]
    BY <1>1, <1>2, <1>4, <2>2, <2>3 DEF ValidIn
  <2>4. CASE tokens'[j] = [tokens[j] EXCEPT !.revoked = now]
    <3>1. /\ tokens'[j] \in Token /\ tokens'[j].password = tokens[j].password
          /\ tokens'[j].revoked = now
      BY <1>2, <2>1, <2>4 DEF Token
    <3>2. tokens'[j] # NULL
      BY <3>1, SessionConstants
    <3>3. QED
      BY <1>2, <2>2, <3>1, <3>2 DEF ValidIn
  <2>5. QED
    BY <1>1, <1>4, <2>3, <2>4 DEF RowsKept
<1>5. QED
  BY <1>1, <1>2, <1>3, <1>4 DEF RowsStay

LEMMA ToldStays ==
  ASSUME RowsStay, NEW q \in Call, Told(q, password, now, tokens)
  PROVE  Told(q, password', now', tokens')
<1>1. /\ q.pw \in Nat /\ (q.access = NULL \/ q.access.expires \in Int)
      /\ q.jti \in Jtis \cup {NULL} /\ q.set \in Jtis \cup {NULL}
  BY SessionConstants DEF Call, Access
<1>2. q.pw <= password'
  BY <1>1 DEF RowsStay, Told
<1>3. q.jti # NULL => tokens'[q.jti] # NULL
  BY <1>1 DEF RowsStay, Told
<1>4. q.set # NULL => /\ tokens'[q.set] # NULL
                      /\ q.kind = "password" => tokens'[q.set].password = q.pw
  BY <1>1 DEF RowsStay, Told
<1>5. q.status = "refused" /\ q.leg = "refresh" => ~ValidIn(q.jti, now', tokens')
  <2>1. CASE q.jti = NULL
    BY <2>1 DEF ValidIn
  <2>2. CASE q.jti # NULL
    BY <1>1, <2>2 DEF RowsStay, Told
  <2>3. QED
    BY <2>1, <2>2
<1>6. q.status = "refused" /\ q.leg = "retry" =>
        \/ q.kind = "mistyped"
        \/ q.access = NULL \/ q.access.expires <= now'
        \/ q.kind = "password" /\ q.pw < password'
  BY <1>1 DEF RowsStay, Told
<1>7. QED
  BY <1>2, <1>3, <1>4, <1>5, <1>6 DEF Told

LEMMA CallTypeAfter ==
  ASSUME CallsSafe', NEW b \in Browsers, NEW c \in Calls, call'[b][c] # NULL
  PROVE  call'[b][c] \in Call
  BY DEF CallsSafe, SafeCall

LEMMA SlotTold ==
  ASSUME ServerTypeOK, CallsSafe, CallsSafe', CallsTold, RowsStay,
         NEW b \in Browsers, NEW c \in Calls, CookieKnown(b), SlotMoves(b, c),
         call'[b][c] # NULL
  PROVE  Told(call'[b][c], password', now', tokens')
<1> DEFINE q == call[b][c]
           r == call'[b][c]
<1>1. r \in Call /\ (q # NULL => q \in Call /\ Told(q, password, now, tokens))
  BY CallType, CallTypeAfter DEF CallsTold
<1>2. q # NULL => Told(q, password', now', tokens')
  BY <1>1, ToldStays
<1>3. cookie[b] # NULL => cookie[b] \in Jtis /\ tokens'[cookie[b]] # NULL
  BY DEF ServerTypeOK, CookieKnown, RowsStay
<1>4. password \in Nat /\ password' \in Nat /\ password <= password'
  BY DEF RowsStay
<1>5. q # NULL => q.pw \in Nat
  BY <1>1, SessionConstants DEF Call
<1>6. CASE Begins(b, c)
  BY <1>3, <1>4, <1>6 DEF Begins, Told
<1>7. CASE Continues(b, c)
  BY <1>2, <1>3, <1>7 DEF Continues, Told
<1>8. CASE Answers(b, c)
  <2>1. q # NULL /\ SameRequest(q, r) /\ r.pw = q.pw /\ r.set = q.set
    BY <1>8 DEF Answers
  <2>2. CASE r.status \in {"ok", "failed"}
    BY <1>2, <2>1, <2>2 DEF SameRequest, Told
  <2>3. CASE r.status = "refused" /\ q.set = NULL /\ Refusable(q)
    <3>1. Told(r, password, now, tokens)
      BY <1>1, <1>4, <1>5, <2>1, <2>3 DEF SameRequest, Told, Refusable
    <3>2. QED
      BY <1>1, <3>1, ToldStays
  <2>4. CASE r.status = "verified" /\ q.set = NULL /\ q.leg # "refresh"
    BY <1>2, <2>1, <2>4 DEF SameRequest, Told
  <2>5. CASE r.status = "checked" /\ q.set = NULL
    BY <1>2, <2>1, <2>5 DEF SameRequest, Told
  <2>6. QED
    BY <1>8, <2>2, <2>3, <2>4, <2>5 DEF Answers
<1>9. CASE Changes(b, c)
  BY <1>2, <1>4, <1>9 DEF Changes, SameRequest, Told
<1>10. CASE Grants(b, c)
  <2>1. /\ r.set \in Jtis /\ tokens'[r.set] = Issued(q.pw)
        /\ q # NULL /\ SameRequest(q, r) /\ r.pw = q.pw /\ r.status = "ok"
    BY <1>10 DEF Grants, ServerTypeOK, Tables
  <2>2. q.leg # "refresh" /\ q.kind \in {"password", "login"}
    BY <1>2, <1>10 DEF Grants, Told
  <2>3. tokens'[r.set].password = r.pw
    BY <2>1 DEF Issued
  <2>4. tokens'[r.set] # NULL
    <3>1. q.pw \in 0..MaxPassword
      BY <1>1, <2>1 DEF Call
    <3>2. now + RefreshTTL \in 0..(MaxNow + RefreshTTL)
      BY SessionConstants DEF ServerTypeOK, Instants
    <3>3. Issued(q.pw) \in Token
      BY <3>1, <3>2 DEF Issued, Token
    <3>4. QED
      BY <2>1, <3>3, SessionConstants
  <2>5. QED
    BY <1>2, <2>1, <2>2, <2>3, <2>4 DEF SameRequest, Told
<1>11. QED
  BY <1>6, <1>7, <1>8, <1>9, <1>10 DEF SlotMoves, Ends

LEMMA CallsToldStep ==
  ASSUME ServerTypeOK, StoresSafe, CallsSafe, CallsSafe', CallsTold, [Next]_vars,
         \A b \in Browsers : CookieKnown(b)
  PROVE  CallsTold'
<1>1. RowsStay
  BY RowsStayStep
<1>2. SUFFICES ASSUME NEW b \in Browsers, NEW c \in Calls, call'[b][c] # NULL
               PROVE  Told(call'[b][c], password', now', tokens')
  BY DEF CallsTold
<1>3. CASE call'[b][c] = call[b][c]
  <2>1. call[b][c] \in Call /\ Told(call[b][c], password, now, tokens)
    BY <1>2, <1>3, CallType DEF CallsTold
  <2>2. QED
    BY <1>1, <1>3, <2>1, ToldStays
<1>4. ASSUME NEW d \in Browsers, NEW e \in Calls, OneCall(d, e) \/ Server(d, e)
      PROVE  Told(call'[b][c], password', now', tokens')
  <2>1. Others(d, e) /\ SlotMoves(d, e)
    BY <1>4, SlotStep
  <2>2. CASE d = b /\ e = c
    BY <1>1, <1>2, <2>1, <2>2, SlotTold
  <2>3. QED
    BY <1>3, <2>1, <2>2 DEF Others
<1>5. ASSUME NEW d \in Browsers, Reload(d)
      PROVE  Told(call'[b][c], password', now', tokens')
  <2>1. call'[b][c] = NULL \/ call'[b][c] = call[b][c]
    BY <1>5 DEF Reload, CallsSafe
  <2>2. QED
    BY <1>2, <1>3, <2>1
<1>6. CASE LogoutAll \/ Tick \/ UNCHANGED vars
  BY <1>3, <1>6 DEF LogoutAll, Tick, vars
<1>7. QED
  BY <1>4, <1>5, <1>6, NextSplit DEF Client

LEMMA NewRow ==
  ASSUME ServerTypeOK, NEW j \in Jtis, tokens[j] = NULL, tokens'[j] # NULL, [Next]_vars
  PROVE  \E b \in Browsers, c \in Calls : IssueTokens(b, c)
<1>1. ~UNCHANGED tokens
  OBVIOUS
<1>2. ASSUME tokens' = [k \in Jtis |-> Revoked(tokens[k])]
      PROVE  FALSE
  BY <1>2 DEF Revoked
<1>3. ASSUME NEW b \in Browsers, NEW c \in Calls, ServeLogout(b, c)
      PROVE  FALSE
  BY <1>3 DEF ServeLogout, Revoked, ServerTypeOK, Tables
<1>4. QED
  BY <1>1, <1>2, <1>3, NextSplit, ClientLeavesServer
  DEF Server, ChangePassword, LogoutAll, Tick, vars

LEMMA RowsOfPastStep ==
  ASSUME ServerTypeOK, CallsSafe, CallsTold, RowsOfPast, [Next]_vars
  PROVE  RowsOfPast'
<1>1. RowsStay
  BY RowsStayStep
<1>2. SUFFICES ASSUME NEW j \in Jtis, tokens'[j] # NULL
               PROVE  tokens'[j].password <= password'
  BY DEF RowsOfPast
<1>3. CASE tokens[j] # NULL
  BY <1>1, <1>3 DEF RowsStay, RowsOfPast
<1>4. CASE tokens[j] = NULL
  <2>1. PICK b \in Browsers, c \in Calls : IssueTokens(b, c)
    BY <1>2, <1>4, NewRow
  <2>2. call[b][c] \in Call /\ Told(call[b][c], password, now, tokens)
    BY <2>1, CallType DEF IssueTokens, CallsTold
  <2>3. tokens'[j] = Issued(call[b][c].pw) /\ UNCHANGED password
    BY <1>2, <1>4, <2>1 DEF IssueTokens, ServerTypeOK, Tables
  <2>4. QED
    BY <2>2, <2>3 DEF Issued, Told
<1>5. QED
  BY <1>3, <1>4

-----------------------------------------------------------------------------
(***************************************************************************)
(* What a step does to the pages.                                          *)
(***************************************************************************)
Elsewhere(b) ==
  \A d \in Browsers : d # b =>
    /\ cookie'[d] = cookie[d] /\ store'[d] = store[d]
    /\ d \in relogged' <=> d \in relogged

CookieMoves(b, c) ==
  \/ cookie'[b] \in {cookie[b], NULL} /\ (b \in relogged => b \in relogged')
  \/ call[b][c] # NULL /\ cookie'[b] = call[b][c].set /\ b \in relogged'
  \/ /\ call[b][c] # NULL /\ call[b][c].kind = "password" /\ call'[b][c] = NULL
     /\ cookie'[b] = call[b][c].set /\ (b \in relogged => b \in relogged')

StoreMoves(b, c) ==
  \/ store'[b] = store[b] /\ call[b][c] # NULL
  \/ /\ store'[b] = store[b] /\ call[b][c] = NULL
     /\ store[b].status \in {"authenticated", "unauthenticated"}
     /\ call'[b][c].kind # "bootstrap"
     /\ call'[b][c].kind \in PasswordForm => \A d \in Calls : ~Doing(b, d, PasswordForm)
  \/ /\ store[b].status = "idle" /\ store'[b].status = "loading"
     /\ call[b][c] = NULL /\ call'[b][c].kind = "bootstrap"
  \/ /\ store'[b].status \in {"authenticated", "unauthenticated"}
     /\ call[b][c] # NULL
     /\ call[b][c].kind # "bootstrap" \/ call'[b][c] = NULL

LEMMA SetAuthEffect ==
  ASSUME StoresSafe, NEW b \in Browsers, NEW a, SetAuth(b, a)
  PROVE  /\ store'[b].status = "authenticated"
         /\ \A d \in Browsers : d # b => store'[d] = store[d]
  BY DEF StoresSafe, SetAuth

LEMMA ClearAuthEffect ==
  ASSUME StoresSafe, NEW b \in Browsers, ClearAuth(b)
  PROVE  /\ store'[b].status = "unauthenticated"
         /\ \A d \in Browsers : d # b => store'[d] = store[d]
  BY DEF StoresSafe, ClearAuth

\* The steps that leave the store, the cookies and the logins alone.
LEMMA QuietMoves ==
  ASSUME NEW b \in Browsers, NEW c \in Calls, call[b][c] # NULL,
         UNCHANGED <<store, cookie, relogged>>
  PROVE  Elsewhere(b) /\ CookieMoves(b, c) /\ StoreMoves(b, c)
  BY DEF Elsewhere, CookieMoves, StoreMoves

LEMMA StartPage ==
  ASSUME ServerTypeOK, StoresSafe, CallsSafe, NEW b \in Browsers, NEW c \in Calls,
         StartAuthorized(b, c) \/ StartLogin(b, c) \/ StartLogout(b, c) \/ Bootstrap(b, c)
  PROVE  Elsewhere(b) /\ CookieMoves(b, c) /\ StoreMoves(b, c)
<1>1. CookieMoves(b, c) /\ call[b][c] = NULL /\ UNCHANGED <<cookie, relogged>>
  BY DEF StartAuthorized, StartLogin, StartLogout, Bootstrap, CookieMoves
<1>2. ASSUME NEW kind, NEW leg, NEW access, NEW jti, NEW mine, NEW pw,
             Put(b, c, Request(kind, leg, access, jti, mine, pw))
      PROVE  call'[b][c].kind = kind
  <2>1. call'[b][c] = Request(kind, leg, access, jti, mine, pw)
    BY <1>2, PutEffect
  <2>2. QED
    BY <2>1 DEF Request
<1>3. CASE StartAuthorized(b, c)
  <2>1. PICK kind \in Authorized :
          /\ kind \in PasswordForm => \A d \in Calls : ~Doing(b, d, PasswordForm)
          /\ Put(b, c, Request(kind, "first", store[b].access, NULL, store[b].access, password))
    BY <1>3 DEF StartAuthorized
  <2>2. call'[b][c].kind = kind /\ kind # "bootstrap"
    BY <1>2, <2>1 DEF Authorized
  <2>3. UNCHANGED store /\ store[b].status = "authenticated"
    BY <1>3 DEF StartAuthorized
  <2>4. QED
    BY <1>1, <2>1, <2>2, <2>3 DEF Elsewhere, StoreMoves
<1>4. CASE StartLogin(b, c)
  <2>1. call'[b][c].kind = "login"
    BY <1>2, <1>4 DEF StartLogin
  <2>2. QED
    BY <1>1, <1>4, <2>1 DEF StartLogin, Elsewhere, StoreMoves, PasswordForm
<1>5. CASE StartLogout(b, c)
  <2>1. call'[b][c].kind = "logout"
    BY <1>2, <1>5 DEF StartLogout
  <2>2. QED
    BY <1>1, <1>5, <2>1 DEF StartLogout, Elsewhere, StoreMoves, PasswordForm
<1>6. CASE Bootstrap(b, c)
  <2>1. call'[b][c].kind = "bootstrap"
    BY <1>2, <1>6 DEF Bootstrap
  <2>2. /\ store[b].status = "idle" /\ store'[b].status = "loading"
        /\ \A d \in Browsers : d # b => store'[d] = store[d]
    BY <1>6 DEF Bootstrap, StoresSafe, AuthStore
  <2>3. QED
    BY <1>1, <2>1, <2>2 DEF Elsewhere, StoreMoves
<1>7. QED
  BY <1>3, <1>4, <1>5, <1>6

LEMMA SucceededPage ==
  ASSUME ServerTypeOK, StoresSafe, CallsSafe, NEW b \in Browsers, NEW c \in Calls,
         call[b][c] # NULL, Succeeded(b, c), UNCHANGED relogged
  PROVE  Elsewhere(b) /\ CookieMoves(b, c) /\ StoreMoves(b, c)
<1>1. call'[b][c] = NULL
  BY PutEffect DEF Succeeded, Done
<1>2. CASE UNCHANGED <<store, cookie>>
  BY <1>2, QuietMoves
<1>3. ASSUME NEW a, SetAuth(b, a), UNCHANGED cookie
      PROVE  Elsewhere(b) /\ CookieMoves(b, c) /\ StoreMoves(b, c)
  BY <1>1, <1>3, SetAuthEffect DEF Elsewhere, CookieMoves, StoreMoves
<1>4. CASE /\ call[b][c].kind = "password"
           /\ SetAuth(b, call[b][c].grant)
           /\ cookie' = [cookie EXCEPT ![b] = call[b][c].set]
  <2>1. cookie'[b] = call[b][c].set /\ \A d \in Browsers : d # b => cookie'[d] = cookie[d]
    BY <1>4 DEF ServerTypeOK
  <2>2. QED
    BY <1>1, <1>4, <2>1, SetAuthEffect DEF Elsewhere, CookieMoves, StoreMoves
<1>5. QED
  BY <1>2, <1>3, <1>4 DEF Succeeded

LEMMA ClearedPage ==
  ASSUME StoresSafe, CallsSafe, NEW b \in Browsers, NEW c \in Calls,
         call[b][c] # NULL, ClearAuth(b), Done(b, c), UNCHANGED <<cookie, relogged>>
  PROVE  Elsewhere(b) /\ CookieMoves(b, c) /\ StoreMoves(b, c)
<1>1. call'[b][c] = NULL
  BY PutEffect DEF Done
<1>2. QED
  BY <1>1, ClearAuthEffect DEF Elsewhere, CookieMoves, StoreMoves

LEMMA ReceivePage ==
  ASSUME ServerTypeOK, StoresSafe, CallsSafe, CallsTold, NEW b \in Browsers, NEW c \in Calls,
         \/ ReceiveFirst(b, c) \/ ReceiveRefresh(b, c) \/ ReceiveRetry(b, c)
         \/ ReceiveLogin(b, c) \/ ReceiveBootstrap(b, c) \/ ReceiveLogout(b, c)
  PROVE  Elsewhere(b) /\ CookieMoves(b, c) /\ StoreMoves(b, c)
<1> DEFINE Goal == Elsewhere(b) /\ CookieMoves(b, c) /\ StoreMoves(b, c)
<1>1. call[b][c] # NULL
  BY DEF ReceiveFirst, ReceiveRefresh, ReceiveRetry, ReceiveLogin, ReceiveBootstrap,
         ReceiveLogout, Arrives, Doing
<1>2. Told(call[b][c], password, now, tokens)
  BY <1>1 DEF CallsTold
<1>3. CASE ReceiveFirst(b, c)
  BY <1>1, <1>3, QuietMoves, SucceededPage DEF ReceiveFirst
<1>4. CASE ReceiveRefresh(b, c)
  <2>1. CASE Arrives(b, c, "refresh", {"ok"}) /\ SetAuth(b, call[b][c].grant)
             /\ StoreCookie(b, c)
    <3>1. cookie' = cookie
      BY <1>2, <2>1 DEF Told, Arrives, StoreCookie
    <3>2. call[b][c].kind # "bootstrap" /\ UNCHANGED relogged
      BY <1>4 DEF ReceiveRefresh, Doing, Authorized
    <3>3. QED
      BY <1>1, <2>1, <3>1, <3>2, SetAuthEffect DEF Elsewhere, CookieMoves, StoreMoves
  <2>2. CASE ClearAuth(b) /\ Done(b, c) /\ UNCHANGED cookie
    BY <1>1, <1>4, <2>2, ClearedPage DEF ReceiveRefresh
  <2>3. QED
    BY <1>4, <2>1, <2>2 DEF ReceiveRefresh
<1>5. CASE ReceiveRetry(b, c)
  BY <1>1, <1>5, SucceededPage, ClearedPage DEF ReceiveRetry
<1>6. CASE ReceiveLogin(b, c)
  <2>1. call[b][c].kind # "bootstrap"
    BY <1>6 DEF ReceiveLogin, Doing
  <2>2. CASE /\ cookie' = [cookie EXCEPT ![b] = call[b][c].set]
             /\ relogged' = relogged \cup {b} /\ UNCHANGED store
    BY <1>1, <2>2 DEF ServerTypeOK, Elsewhere, CookieMoves, StoreMoves
  <2>3. CASE SetAuth(b, call[b][c].access) /\ UNCHANGED <<cookie, relogged>>
    BY <1>1, <2>1, <2>3, SetAuthEffect DEF Elsewhere, CookieMoves, StoreMoves
  <2>4. CASE UNCHANGED <<store, cookie, relogged>>
    BY <1>1, <2>4, QuietMoves
  <2>5. QED
    BY <1>6, <2>2, <2>3, <2>4 DEF ReceiveLogin
<1>7. CASE ReceiveBootstrap(b, c)
  <2>1. cookie' = cookie /\ UNCHANGED relogged
    BY <1>2, <1>7 DEF ReceiveBootstrap, Doing, Told, StoreCookie
  <2>2. CASE UNCHANGED store
    BY <1>1, <2>1, <2>2, QuietMoves
  <2>3. CASE SetAuth(b, call[b][c].access) /\ Done(b, c)
    <3>1. call'[b][c] = NULL
      BY <2>3, PutEffect DEF Done
    <3>2. QED
      BY <1>1, <2>1, <2>3, <3>1, SetAuthEffect DEF Elsewhere, CookieMoves, StoreMoves
  <2>4. CASE ClearAuth(b) /\ Done(b, c)
    BY <1>1, <2>1, <2>4, ClearedPage
  <2>5. QED
    BY <1>7, <2>2, <2>3, <2>4 DEF ReceiveBootstrap
<1>8. CASE ReceiveLogout(b, c)
  <2>1. call'[b][c] = NULL
    BY <1>8, PutEffect DEF ReceiveLogout, Done
  <2>2. /\ cookie'[b] \in {cookie[b], NULL}
        /\ \A d \in Browsers : d # b => cookie'[d] = cookie[d]
    BY <1>8 DEF ReceiveLogout, ServerTypeOK
  <2>3. ClearAuth(b) /\ UNCHANGED relogged
    BY <1>8 DEF ReceiveLogout
  <2>4. QED
    BY <1>1, <2>1, <2>2, <2>3, ClearAuthEffect DEF Elsewhere, CookieMoves, StoreMoves
<1>9. QED
  BY <1>3, <1>4, <1>5, <1>6, <1>7, <1>8

LEMMA PageStep ==
  ASSUME ServerTypeOK, StoresSafe, CallsSafe, CallsTold, NEW b \in Browsers, NEW c \in Calls,
         OneCall(b, c) \/ Server(b, c)
  PROVE  Elsewhere(b) /\ CookieMoves(b, c) /\ StoreMoves(b, c)
<1>1. CASE \/ Fail(b, c) \/ ServeAuthorized(b, c) \/ ServeLogin(b, c) \/ Refreshes(b, c)
           \/ Server(b, c)
  <2>1. call[b][c] # NULL /\ UNCHANGED <<store, cookie, relogged>>
    BY <1>1 DEF Fail, ServeAuthorized, ServeLogin, Refreshes, CheckRefresh, GrantRefresh,
                Checked, Server, ChangePassword, IssueTokens, ServeLogout, Sent, Doing
  <2>2. QED
    BY <2>1, QuietMoves
<1>2. QED
  BY <1>1, StartPage, ReceivePage DEF OneCall

-----------------------------------------------------------------------------
(***************************************************************************)
(* The pages step by step: those a step leaves alone, the one that is      *)
(* loaded again, and the one whose call moves.                             *)
(***************************************************************************)
BrowserInv(b) == CookieKnown(b) /\ Page(b) /\ (b \notin relogged => CookieOrder(b))

LEMMA OrderStays ==
  ASSUME ServerTypeOK, CallsTold, RowsOfPast, RowsStay,
         NEW b \in Browsers, CookieKnown(b), CookieOrder(b),
         cookie'[b] \in {cookie[b], NULL},
         \A c \in Calls, j \in Jtis :
           SentWith(call'[b][c], j) => j = cookie[b] \/ SentWith(call[b][c], j),
         \A c \in Calls : PasswordAhead(call'[b][c]) =>
           \/ PasswordAhead(call[b][c]) /\ call'[b][c].pw = call[b][c].pw
           \/ call'[b][c].pw = password + 1
  PROVE  CookieOrder(b)'
<1>1. cookie[b] \in Jtis \cup {NULL} /\ password \in Nat
  BY DEF ServerTypeOK, RowsStay
\* The cookies in play have rows, whose passwords have been set and stay.
<1>2. ASSUME NEW j \in Jtis, j = cookie[b] \/ \E c \in Calls : SentWith(call[b][c], j)
      PROVE  /\ tokens'[j].password = tokens[j].password
             /\ tokens[j].password \in Nat /\ tokens[j].password <= password
  <2>1. j # NULL
    BY SessionConstants
  <2>2. tokens[j] # NULL
    BY <1>2, <2>1 DEF CookieKnown, SentWith, CallsTold, Told
  <2>3. QED
    BY <2>2 DEF RowsStay, RowsOfPast
<1>3. ASSUME NEW c \in Calls, NEW j \in Jtis, SentWith(call'[b][c], j), cookie'[b] # NULL
      PROVE  NotOlder(b, j)'
  <2>1. cookie'[b] = cookie[b] /\ cookie[b] \in Jtis
    BY <1>1, <1>3
  <2>2. CASE j = cookie[b]
    BY <2>1, <2>2 DEF NotOlder
  <2>3. CASE SentWith(call[b][c], j)
    <3>1. NotOlder(b, j)
      BY <1>3, <2>1, <2>3 DEF CookieOrder
    <3>2. /\ tokens'[j].password = tokens[j].password
          /\ tokens'[cookie[b]].password = tokens[cookie[b]].password
      BY <1>2, <2>1, <2>3
    <3>3. QED
      BY <2>1, <3>1, <3>2 DEF NotOlder
  <2>4. QED
    BY <1>3, <2>2, <2>3
<1>4. ASSUME NEW c \in Calls, PasswordAhead(call'[b][c]), NEW j \in Jtis,
             j = cookie[b] \/ \E d \in Calls : SentWith(call[b][d], j)
      PROVE  tokens'[j].password < call'[b][c].pw
  <2>1. /\ tokens'[j].password = tokens[j].password
        /\ tokens[j].password \in Nat /\ tokens[j].password <= password
    BY <1>2, <1>4
  <2>2. CASE call'[b][c].pw = password + 1
    BY <1>1, <2>1, <2>2
  <2>3. CASE PasswordAhead(call[b][c]) /\ call'[b][c].pw = call[b][c].pw
    <3>1. j # NULL
      BY SessionConstants
    <3>2. tokens[j].password < call[b][c].pw
      BY <1>4, <2>3, <3>1 DEF CookieOrder
    <3>3. QED
      BY <2>1, <2>3, <3>2
  <2>4. QED
    BY <1>4, <2>2, <2>3
<1>5. ASSUME NEW c \in Calls, PasswordAhead(call'[b][c])
      PROVE  /\ cookie'[b] # NULL => tokens'[cookie'[b]].password < call'[b][c].pw
             /\ \A d \in Calls, j \in Jtis :
                  SentWith(call'[b][d], j) => tokens'[j].password < call'[b][c].pw
  BY <1>1, <1>4, <1>5
<1>6. QED
  BY <1>3, <1>5 DEF CookieOrder

LEMMA PageAlone ==
  ASSUME ServerTypeOK, CallsTold, RowsOfPast, RowsStay,
         NEW b \in Browsers, BrowserInv(b),
         cookie'[b] = cookie[b], store'[b] = store[b], b \in relogged' <=> b \in relogged,
         \A c \in Calls : call'[b][c] = call[b][c]
  PROVE  BrowserInv(b)'
<1>1. CookieKnown(b)'
  BY DEF BrowserInv, CookieKnown, RowsStay, ServerTypeOK
<1>2. Page(b)'
  BY DEF BrowserInv, Page, Doing
<1>3. b \notin relogged' => CookieOrder(b)'
  BY OrderStays DEF BrowserInv
<1>4. QED
  BY <1>1, <1>2, <1>3 DEF BrowserInv

LEMMA PageLoaded ==
  ASSUME ServerTypeOK, StoresSafe, CallsSafe, RowsStay,
         NEW b \in Browsers, BrowserInv(b), Reload(b)
  PROVE  BrowserInv(b)'
<1>1. \A c \in Calls : call'[b][c] = NULL
  BY DEF Reload, CallsSafe
<1>2. cookie'[b] = cookie[b]
  BY DEF Reload
<1>3. CookieKnown(b)'
  BY <1>2 DEF BrowserInv, CookieKnown, RowsStay, ServerTypeOK
<1>4. Page(b)'
  BY <1>1 DEF Page, Doing
<1>5. CookieOrder(b)'
  BY <1>1 DEF CookieOrder, SentWith, PasswordAhead
<1>6. QED
  BY <1>3, <1>4, <1>5 DEF BrowserInv

LEMMA MovedCookieKnown ==
  ASSUME ServerTypeOK, CallsSafe, CallsTold, RowsStay,
         NEW b \in Browsers, NEW c \in Calls, CookieKnown(b), CookieMoves(b, c)
  PROVE  CookieKnown(b)'
<1>1. cookie[b] \in Jtis \cup {NULL}
  BY DEF ServerTypeOK
<1>2. CASE cookie'[b] \in {cookie[b], NULL}
  BY <1>1, <1>2 DEF CookieKnown, RowsStay
<1>3. CASE call[b][c] # NULL /\ cookie'[b] = call[b][c].set
  <2>1. call[b][c].set \in Jtis \cup {NULL}
    BY <1>3, CallType DEF Call
  <2>2. call[b][c].set # NULL => tokens[call[b][c].set] # NULL
    BY <1>3 DEF CallsTold, Told
  <2>3. QED
    BY <1>3, <2>1, <2>2 DEF CookieKnown, RowsStay
<1>4. QED
  BY <1>2, <1>3 DEF CookieMoves

LEMMA MovedPage ==
  ASSUME NEW b \in Browsers, NEW c \in Calls, Page(b),
         Others(b, c), SlotMoves(b, c), StoreMoves(b, c)
  PROVE  Page(b)'
<1>1. \A d \in Calls : d # c => call'[b][d] = call[b][d]
  BY DEF Others
<1>2. call[b][c] # NULL /\ call'[b][c] # NULL => call'[b][c].kind = call[b][c].kind
  BY DEF SlotMoves, Begins, Continues, Answers, Changes, Grants, Ends, SameRequest
<1>3. CASE call[b][c] # NULL
  <2>1. store[b].status # "idle"
    BY <1>3 DEF Page
  <2>2. /\ \/ store'[b] = store[b]
           \/ /\ store'[b].status \in {"authenticated", "unauthenticated"}
              /\ call[b][c].kind # "bootstrap" \/ call'[b][c] = NULL
    BY <1>3 DEF StoreMoves
  <2>3. ASSUME NEW d \in Calls, NEW kinds, Doing(b, d, kinds)'
        PROVE  Doing(b, d, kinds)
    BY <1>1, <1>2, <1>3, <2>3 DEF Doing
  <2>4. ASSUME NEW d \in Calls, NEW e \in Calls, Doing(b, d, {"bootstrap"})'
        PROVE  store'[b].status = "loading" /\ (d # e => call'[b][e] = NULL)
    <3>1. Doing(b, d, {"bootstrap"})
      BY <2>3, <2>4
    <3>2. d = c /\ call'[b][c] # NULL /\ call[b][c].kind = "bootstrap"
      BY <1>3, <2>4, <3>1 DEF Page, Doing
    <3>3. store'[b] = store[b]
      BY <2>2, <3>2
    <3>4. QED
      BY <1>1, <3>1, <3>2, <3>3 DEF Page
  <2>5. QED
    BY <2>1, <2>2, <2>3, <2>4 DEF Page
<1>4. CASE call[b][c] = NULL /\ store[b].status \in {"authenticated", "unauthenticated"}
  <2>1. /\ store'[b] = store[b] /\ call'[b][c].kind # "bootstrap"
        /\ call'[b][c].kind \in PasswordForm => \A d \in Calls : ~Doing(b, d, PasswordForm)
    BY <1>4 DEF StoreMoves
  <2>2. \A d \in Calls : ~Doing(b, d, {"bootstrap"})'
    BY <1>1, <1>4, <2>1 DEF Page, Doing
  <2>3. ASSUME NEW d \in Calls, NEW e \in Calls,
               Doing(b, d, PasswordForm)', Doing(b, e, PasswordForm)'
        PROVE  d = e
    BY <1>1, <2>1, <2>3 DEF Page, Doing
  <2>4. QED
    BY <1>4, <2>1, <2>2, <2>3 DEF Page
<1>5. CASE call[b][c] = NULL /\ store[b].status = "idle"
  <2>1. store'[b].status = "loading"
    BY <1>5 DEF StoreMoves
  <2>2. \A d \in Calls : d # c => call'[b][d] = NULL
    BY <1>1, <1>5 DEF Page
  <2>3. QED
    BY <2>1, <2>2 DEF Page, Doing
<1>6. QED
  BY <1>3, <1>4, <1>5 DEF StoreMoves

LEMMA MovedOrder ==
  ASSUME ServerTypeOK, CallsSafe, CallsTold, RowsOfPast, RowsStay,
         NEW b \in Browsers, NEW c \in Calls, BrowserInv(b),
         Others(b, c), SlotMoves(b, c), CookieMoves(b, c), b \notin relogged'
  PROVE  CookieOrder(b)'
<1>1. \A d \in Calls : d # c => call'[b][d] = call[b][d]
  BY DEF Others
<1>2. CASE cookie'[b] \in {cookie[b], NULL} /\ (b \in relogged => b \in relogged')
  <2>1. ASSUME NEW d \in Calls, NEW j \in Jtis, SentWith(call'[b][d], j)
        PROVE  j = cookie[b] \/ SentWith(call[b][d], j)
    BY <1>1, <2>1 DEF SlotMoves, Begins, Continues, Answers, Changes, Grants, Ends,
                      SameRequest, SentWith
  <2>2. ASSUME NEW d \in Calls, PasswordAhead(call'[b][d])
        PROVE  \/ PasswordAhead(call[b][d]) /\ call'[b][d].pw = call[b][d].pw
               \/ call'[b][d].pw = password + 1
    BY <1>1, <2>2 DEF SlotMoves, Begins, Continues, Answers, Changes, Grants, Ends,
                      SameRequest, PasswordAhead
  <2>3. CookieKnown(b) /\ CookieOrder(b)
    BY <1>2 DEF BrowserInv
  <2>4. QED
    BY <1>2, <2>1, <2>2, <2>3, OrderStays
<1>3. CASE /\ call[b][c] # NULL /\ call[b][c].kind = "password" /\ call'[b][c] = NULL
           /\ cookie'[b] = call[b][c].set /\ ~(b \in relogged)
  <2>1. \A d \in Calls : ~PasswordAhead(call'[b][d])
    BY <1>1, <1>3 DEF BrowserInv, Page, Doing, PasswordAhead, PasswordForm
  <2>2. ASSUME NEW d \in Calls, NEW j \in Jtis, SentWith(call'[b][d], j), cookie'[b] # NULL
        PROVE  NotOlder(b, j)'
    <3>1. SentWith(call[b][d], j) /\ j # NULL
      BY <1>1, <1>3, <2>2 DEF SentWith
    <3>2. PasswordAhead(call[b][c])
      BY <1>3, <2>2 DEF PasswordAhead
    <3>3. tokens[j].password < call[b][c].pw
      BY <1>3, <3>1, <3>2 DEF BrowserInv, CookieOrder
    <3>4. /\ call[b][c].set \in Jtis /\ tokens[call[b][c].set] # NULL
          /\ tokens[call[b][c].set].password = call[b][c].pw
      BY <1>3, <2>2, CallType DEF CallsTold, Told, Call
    <3>5. tokens[j] # NULL
      BY <3>1 DEF SentWith, CallsTold, Told
    <3>6. QED
      BY <1>3, <3>3, <3>4, <3>5 DEF NotOlder, RowsStay
  <2>3. QED
    BY <2>1, <2>2 DEF CookieOrder
<1>4. QED
  BY <1>2, <1>3 DEF CookieMoves

LEMMA KeepStep ==
  ASSUME SessionInv, KeepInv, [Next]_vars
  PROVE  KeepInv'
<1>0. /\ ServerTypeOK /\ StoresSafe /\ CallsSafe /\ CallsSafe'
      /\ RowsOfPast /\ CallsTold /\ RowsStay
      /\ \A b \in Browsers : BrowserInv(b)
  BY InvParts, CallStep, RowsStayStep DEF KeepInv, BrowserInv
<1>1. RowsOfPast' /\ CallsTold'
  BY <1>0, RowsOfPastStep, CallsToldStep DEF BrowserInv
<1>2. ASSUME NEW b \in Browsers
      PROVE  BrowserInv(b)'
  <2>1. ASSUME NEW d \in Browsers, NEW c \in Calls, OneCall(d, c) \/ Server(d, c)
        PROVE  BrowserInv(b)'
    <3>1. /\ Others(d, c) /\ SlotMoves(d, c)
          /\ Elsewhere(d) /\ CookieMoves(d, c) /\ StoreMoves(d, c)
      BY <1>0, <2>1, SlotStep, PageStep
    <3>2. CASE d # b
      <4>1. \A e \in Calls : call'[b][e] = call[b][e]
        BY <3>1, <3>2 DEF Others
      <4>2. /\ cookie'[b] = cookie[b] /\ store'[b] = store[b]
            /\ b \in relogged' <=> b \in relogged
        BY <3>1, <3>2 DEF Elsewhere
      <4>3. QED
        BY <1>0, <4>1, <4>2, PageAlone
    <3>3. CASE d = b
      BY <1>0, <3>1, <3>3, MovedCookieKnown, MovedPage, MovedOrder DEF BrowserInv
    <3>4. QED
      BY <3>2, <3>3
  <2>2. ASSUME NEW d \in Browsers, Reload(d)
        PROVE  BrowserInv(b)'
    <3>1. CASE d = b
      BY <1>0, <2>2, <3>1, PageLoaded
    <3>2. CASE d # b
      <4>1. /\ \A e \in Calls : call'[b][e] = call[b][e]
            /\ cookie'[b] = cookie[b] /\ store'[b] = store[b]
            /\ b \in relogged' <=> b \in relogged
        BY <1>0, <2>2, <3>2 DEF Reload, CallsSafe, StoresSafe
      <4>2. QED
        BY <1>0, <4>1, PageAlone
    <3>3. QED
      BY <3>1, <3>2
  <2>3. CASE LogoutAll \/ Tick \/ UNCHANGED vars
    <3>1. UNCHANGED <<call, cookie, store, relogged>>
      BY <2>3 DEF LogoutAll, Tick, vars
    <3>2. QED
      BY <1>0, <3>1, PageAlone
  <2>4. QED
    BY <2>1, <2>2, <2>3, NextSplit DEF Client
<1>3. QED
  BY <1>1, <1>2 DEF KeepInv, BrowserInv

LEMMA InitKeep == Init => KeepInv
<1> SUFFICES ASSUME Init PROVE KeepInv
  OBVIOUS
<1>1. \A b \in Browsers, c \in Calls : call[b][c] = NULL
  BY DEF Init
<1>2. password = 0 /\ \A j \in Jtis : tokens[j] # NULL => tokens[j] = Issued(0)
  BY DEF Init
<1>3. RowsOfPast
  BY <1>2 DEF RowsOfPast, Issued
<1>4. ASSUME NEW b \in Browsers
      PROVE  CookieKnown(b) /\ Page(b) /\ CookieOrder(b)
  <2>1. CookieKnown(b)
    <3>1. Issued(0) \in Token
      BY SessionConstants DEF Init, Issued, Token
    <3>2. cookie[b] # NULL => cookie[b] \in Jtis /\ tokens[cookie[b]] = Issued(0)
      BY DEF Init
    <3>3. QED
      BY <3>1, <3>2, SessionConstants DEF CookieKnown
  <2>2. Page(b) /\ CookieOrder(b)
    BY <1>1 DEF Page, Doing, CookieOrder, SentWith, PasswordAhead
  <2>3. QED
    BY <2>1, <2>2
<1>5. QED
  BY <1>1, <1>3, <1>4 DEF KeepInv, CallsTold

(***************************************************************************)
(* No call knows of a password or a cookie the others contradict, for any  *)
(* number of browsers, calls, sessions and changes of password.            *)
(***************************************************************************)
THEOREM KeepInvariance == Spec => [](SessionInv /\ KeepInv)
  BY InitInv, InitKeep, SessionStep, KeepStep, PTL DEF Spec

-----------------------------------------------------------------------------
(***************************************************************************)
(* A change of password ends every session begun with an earlier one, but  *)
(* for that of a login or a change it has itself overtaken                 *)
(* (change_password, revoke_all_refresh_tokens, _issue_tokens).            *)
(***************************************************************************)
THEOREM PasswordEnds == Spec => PasswordEndsSessions
<1> DEFINE Ended ==
      \A j \in Jtis : Outlived(j)' =>
        \/ Outlived(j)
        \/ /\ tokens[j] = NULL
           /\ \E b \in Browsers, c \in Calls : Overtaken(b, c) /\ call'[b][c].set = j
<1>1. SessionInv /\ KeepInv /\ [Next]_vars => Ended
  <2> SUFFICES ASSUME SessionInv, KeepInv, [Next]_vars, NEW j \in Jtis, Outlived(j)'
               PROVE  \/ Outlived(j)
                      \/ /\ tokens[j] = NULL
                         /\ \E b \in Browsers, c \in Calls :
                              Overtaken(b, c) /\ call'[b][c].set = j
    OBVIOUS
  <2>1. ServerTypeOK /\ StoresSafe /\ CallsSafe /\ CallsTold /\ RowsStay
    BY InvParts, RowsStayStep DEF KeepInv
  <2>2. ValidIn(j, now', tokens') /\ tokens'[j].password # password'
    BY DEF Outlived, Valid, ValidIn
\* A row that was there: it was valid, and the password is the same.
  <2>3. CASE tokens[j] # NULL
    <3>1. ValidIn(j, now, tokens) /\ tokens'[j].password = tokens[j].password
      BY <2>1, <2>2, <2>3 DEF RowsStay
    <3>2. password' = password
      <4>1. ASSUME NEW b \in Browsers, NEW c \in Calls, ChangePassword(b, c)
            PROVE  FALSE
        <5>1. tokens'[j] = Revoked(tokens[j])
          BY <4>1 DEF ChangePassword
        <5>2. tokens[j] \in Token /\ tokens[j].revoked = NULL
          BY <2>1, <2>3, <3>1 DEF ValidIn, ServerTypeOK, Tables
        <5>3. tokens'[j].revoked = now
          BY <2>3, <5>1, <5>2 DEF Revoked, Token
        <5>4. now # NULL
          BY <2>1, SessionConstants DEF ServerTypeOK, Instants, Access
        <5>5. QED
          BY <2>2, <5>3, <5>4 DEF ValidIn
      <4>2. QED
        BY <4>1, NextSplit, ClientLeavesServer
        DEF Server, IssueTokens, ServeLogout, LogoutAll, Tick, vars
    <3>3. QED
      BY <2>2, <3>1, <3>2 DEF Outlived, Valid, ValidIn
\* A new row: it has the password of the call that stores it.
  <2>4. CASE tokens[j] = NULL
    <3>1. tokens'[j] # NULL
      BY <2>2 DEF ValidIn
    <3>2. PICK b \in Browsers, c \in Calls : IssueTokens(b, c)
      BY <2>1, <2>4, <3>1, NewRow
    <3>3. Grants(b, c) /\ UNCHANGED password
      BY <2>1, <3>2, GrantMoves DEF IssueTokens
    <3>4. call'[b][c].set = j /\ tokens'[j].password = call[b][c].pw
      BY <2>1, <2>4, <3>1, <3>3 DEF Grants, ServerTypeOK, Tables, Issued
    <3>5. call[b][c].pw \in Nat /\ call[b][c].pw <= password /\ password \in Nat
      BY <2>1, <3>3, CallType, SessionConstants
      DEF Grants, CallsTold, Told, RowsStay, Call
    <3>6. call[b][c].pw < password
      BY <2>2, <3>3, <3>4, <3>5
    <3>7. Overtaken(b, c)
      BY <3>3, <3>6 DEF Grants, Overtaken
    <3>8. QED
      BY <2>4, <3>4, <3>7
  <2>5. QED
    BY <2>3, <2>4
<1>2. PasswordEndsSessions <=> [][Ended]_vars
  BY PTL DEF PasswordEndsSessions
<1>3. QED
  BY KeepInvariance, <1>1, <1>2, PTL DEF Spec

(***************************************************************************)
(* The calls that clear a signed-in page, and why.                         *)
(***************************************************************************)
LEMMA Cleared ==
  ASSUME StoresSafe, CallsSafe, NEW b \in Browsers, Page(b),
         store[b].status = "authenticated", store'[b].status = "unauthenticated", [Next]_vars
  PROVE  \E c \in Calls :
           \/ ReceiveLogout(b, c)
           \/ /\ Arrives(b, c, "refresh", {"refused", "failed"})
              /\ Doing(b, c, Authorized) /\ Done(b, c)
           \/ Arrives(b, c, "retry", {"refused", "failed"}) /\ Done(b, c)
<1>1. store'[b] # store[b]
  OBVIOUS
<1>2. ASSUME NEW d \in Browsers, Reload(d)
      PROVE  FALSE
  BY <1>1, <1>2 DEF Reload, StoresSafe
<1>3. \A d \in Browsers : ClearAuth(d) \/ (\E a : SetAuth(d, a)) => d = b
  BY <1>1, SetAuthEffect, ClearAuthEffect
<1>4. ~(\E a : SetAuth(b, a))
  BY SetAuthEffect
<1>5. ASSUME NEW d \in Browsers, NEW c \in Calls, OneCall(d, c)
      PROVE  /\ d = b
             /\ \/ ReceiveLogout(b, c)
                \/ /\ Arrives(b, c, "refresh", {"refused", "failed"})
                   /\ Doing(b, c, Authorized) /\ Done(b, c)
                \/ Arrives(b, c, "retry", {"refused", "failed"}) /\ Done(b, c)
  <2>1. CASE \/ StartAuthorized(d, c) \/ StartLogin(d, c) \/ StartLogout(d, c)
             \/ Fail(d, c) \/ ServeAuthorized(d, c) \/ ServeLogin(d, c) \/ Refreshes(d, c)
    BY <1>1, <2>1 DEF StartAuthorized, StartLogin, StartLogout, Fail, ServeAuthorized,
                      ServeLogin, Refreshes, CheckRefresh, GrantRefresh
  <2>2. CASE Bootstrap(d, c)
    BY <1>1, <2>2 DEF Bootstrap, StoresSafe
  <2>3. ASSUME Succeeded(d, c)
        PROVE  FALSE
    BY <1>1, <1>3, <1>4, <2>3 DEF Succeeded
  <2>4. CASE ReceiveFirst(d, c)
    BY <1>1, <2>3, <2>4 DEF ReceiveFirst
  <2>5. CASE ReceiveRefresh(d, c)
    BY <1>3, <1>4, <2>5 DEF ReceiveRefresh
  <2>6. CASE ReceiveRetry(d, c)
    BY <1>3, <2>3, <2>6 DEF ReceiveRetry
  <2>7. CASE ReceiveLogin(d, c)
    BY <1>1, <1>3, <1>4, <2>7 DEF ReceiveLogin
  <2>8. CASE ReceiveBootstrap(d, c)
    <3>1. d # b
      BY <2>8 DEF ReceiveBootstrap, Page
    <3>2. QED
      BY <1>1, <1>3, <2>8, <3>1 DEF ReceiveBootstrap
  <2>9. CASE ReceiveLogout(d, c)
    BY <1>3, <2>9 DEF ReceiveLogout
  <2>10. QED
    BY <1>5, <2>1, <2>2, <2>4, <2>5, <2>6, <2>7, <2>8, <2>9 DEF OneCall
<1>6. ASSUME NEW d \in Browsers, NEW c \in Calls, Server(d, c)
      PROVE  FALSE
  BY <1>1, <1>6 DEF Server, ChangePassword, IssueTokens, ServeLogout
<1>7. CASE LogoutAll \/ Tick \/ UNCHANGED vars
  BY <1>1, <1>7 DEF LogoutAll, Tick, vars
<1>8. QED
  BY <1>2, <1>5, <1>6, <1>7, NextSplit DEF Client

(***************************************************************************)
(* A page stays signed in while its session is valid, but for what         *)
(* Excused names, however many of its calls refresh side by side           *)
(* (authorizedRequest, refresh, useLogout).                                *)
(***************************************************************************)
THEOREM SessionKept == Spec => ValidSessionKept
<1> DEFINE Kept ==
      \A b \in Browsers :
        SessionLost(b) => LoggingOut(b) \/ \E c \in Calls : Excused(b, c)
<1>1. SessionInv /\ KeepInv /\ [Next]_vars => Kept
  <2> SUFFICES ASSUME SessionInv, KeepInv, [Next]_vars, NEW b \in Browsers, SessionLost(b)
               PROVE  LoggingOut(b) \/ \E c \in Calls : Excused(b, c)
    OBVIOUS
  <2>1. /\ ServerTypeOK /\ StoresSafe /\ CallsSafe /\ CallsTold
        /\ Page(b) /\ (b \notin relogged => CookieOrder(b))
    BY InvParts DEF KeepInv
  <2>2. PICK c \in Calls :
          \/ ReceiveLogout(b, c)
          \/ /\ Arrives(b, c, "refresh", {"refused", "failed"})
             /\ Doing(b, c, Authorized) /\ Done(b, c)
          \/ Arrives(b, c, "retry", {"refused", "failed"}) /\ Done(b, c)
    BY <2>1, Cleared DEF SessionLost
  <2> DEFINE q == call[b][c]
  <2>3. q # NULL /\ q \in Call /\ Told(q, password, now, tokens)
    BY <2>1, <2>2, CallType DEF ReceiveLogout, Arrives, CallsTold
  <2>4. CASE ReceiveLogout(b, c)
    BY <2>3, <2>4 DEF ReceiveLogout, Arrives, Told, LoggingOut, Doing
  <2>5. CASE Done(b, c) /\ q.status = "failed"
    <3>1. call'[b][c] = NULL
      BY <2>1, <2>5, PutEffect DEF Done
    <3>2. QED
      BY <2>3, <2>5, <3>1 DEF Excused
  <2>6. CASE q.status = "refused" /\ q.leg = "retry" /\ Done(b, c)
    <3>1. call'[b][c] = NULL
      BY <2>1, <2>6, PutEffect DEF Done
    <3>2. \/ q.kind = "mistyped"
          \/ q.access = NULL \/ q.access.expires <= now
          \/ q.kind = "password" /\ q.pw < password
      BY <2>3, <2>6 DEF Told
    <3>3. q.access = NULL \/ q.access.expires <= now => ~Live(q.access)
      BY <2>1, <2>3, SessionConstants DEF Live, Call, Access, ServerTypeOK, Instants
    <3>4. q.pw < password => q.pw # password
      BY <2>1, <2>3, SessionConstants DEF Call, ServerTypeOK
    <3>5. QED
      BY <2>3, <2>6, <3>1, <3>2, <3>3, <3>4 DEF Excused
  <2>7. CASE q.status = "refused" /\ q.leg = "refresh" /\ Done(b, c)
    <3>1. call'[b][c] = NULL
      BY <2>1, <2>7, PutEffect DEF Done
    <3>2. ~ValidIn(q.jti, now, tokens) /\ ValidIn(cookie[b], now, tokens)
      BY <2>3, <2>7 DEF Told, SessionLost, Valid, ValidIn
    <3>3. q.jti # cookie[b] /\ cookie[b] # NULL /\ q.jti \in Jtis \cup {NULL}
      BY <2>3, <3>2 DEF ValidIn, Call
    <3>4. CASE b \in relogged
      BY <2>3, <2>7, <3>1, <3>3, <3>4 DEF Excused
    <3>5. CASE q.jti = NULL
      BY <2>3, <2>7, <3>1, <3>5 DEF Excused, OfEarlierPassword
    <3>6. CASE b \notin relogged /\ q.jti # NULL
      <4>1. SentWith(call[b][c], q.jti)
        BY <2>3, <3>6 DEF SentWith
      <4>2. NotOlder(b, q.jti)
        BY <2>1, <3>3, <3>6, <4>1 DEF CookieOrder
      <4>3. OfEarlierPassword(q.jti, cookie[b])
        BY <3>3, <4>2 DEF NotOlder, OfEarlierPassword
      <4>4. QED
        BY <2>3, <2>7, <3>1, <4>3 DEF Excused
    <3>7. QED
      BY <3>4, <3>5, <3>6
  <2>8. QED
    BY <2>2, <2>4, <2>5, <2>6, <2>7 DEF Arrives
<1>2. ValidSessionKept <=> [][Kept]_vars
  BY PTL DEF ValidSessionKept
<1>3. QED
  BY KeepInvariance, <1>1, <1>2, PTL DEF Spec

=============================================================================
