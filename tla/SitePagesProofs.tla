-------------------------- MODULE SitePagesProofs ---------------------------
(***************************************************************************)
(* Proofs about SitePages, for any accounts, calls, presses, categories,   *)
(* recordings and plans: types, the profile and the badge follow the       *)
(* account of the page, and a save of an untouched row changes nothing.    *)
(***************************************************************************)
EXTENDS SitePages, TLAPS

-----------------------------------------------------------------------------
(***************************************************************************)
(* The inductive invariant of the session.                                 *)
(***************************************************************************)

Entries == {k \in DOMAIN entry : entry[k] # NULL}

\* An account that is answered is registered.
EntriesInv ==
  \A k \in Entries :
    /\ IF k = "bootstrap" THEN entry[k].account \in registered \cup {NULL}
       ELSE entry[k].account \in Accounts
    /\ entry[k].status = "ok" => entry[k].account \in registered

\* A call of this very screen finds the settings open.
ScreensInv ==
  /\ screen \in Nat
  /\ \A c \in InFlight : /\ call[c].screen <= screen
                         /\ call[c].screen = screen => OnSettings

\* The silent sign-in is alone.
LoadingInv ==
  /\ status = "idle" => Entries = {}
  /\ status \in {"idle", "loading"} => InFlight = {} /\ leaving = 0 /\ Entries \subseteq {"bootstrap"}
  /\ "bootstrap" \in Entries => status = "loading"

StoreInv ==
  /\ SiteTypeOK
  /\ status = "authenticated" => user \in User /\ owner \in Accounts
  /\ EntriesInv /\ ScreensInv /\ LoadingInv

\* A call that is alone has what the store and the server have.
Held(q) ==
  /\ q.sentAs = owner /\ q.held = user
  /\ q.status # "failed"
  /\ q.status = "ok" => q.answer = profile[owner]
  /\ q.status # "ok" \/ q.kind \in {"check", "password"} => user.row = profile[owner]

\* A sign-in that is alone.
Enters(k) ==
  /\ status # "authenticated"
  /\ entry[k].status = "ok" => entry[k].answer = profile[entry[k].account]
  /\ entry[k].leg = "me" => cookie \in {entry[k].account, NULL}

\* While nothing overlaps.
AloneInv ==
  ~tangled =>
    /\ \A c, d \in InFlight : c = d
    /\ \A k, l \in Entries : k = l
    /\ InFlight # {} => Entries = {} /\ leaving = 0 /\ status = "authenticated"
    /\ status = "authenticated" => cookie \in {owner, NULL} /\ user.account = owner
    /\ status = "authenticated" /\ InFlight = {} => user.row = profile[owner]
    /\ \A k \in Entries : Enters(k)
    /\ \A c \in InFlight : Held(call[c])

ShellInv == StoreInv /\ AloneInv

\* The session is left alone: by the parts of a page.
LEMMA ShellStands ==
  ASSUME ShellInv, UNCHANGED <<session, screen, calls>>
  PROVE  ShellInv'
<1>1. UNCHANGED <<status, owner, user, path, cookie, screen, registered, profile, entry,
                  leaving, call, tangled>>
  BY DEF session, calls
<1>. QED
  BY <1>1 DEF ShellInv, StoreInv, SiteTypeOK, EntriesInv, ScreensInv, LoadingInv,
     AloneInv, Entries, InFlight, OnSettings, Screen, Held, Enters

-----------------------------------------------------------------------------
(***************************************************************************)
(* The steps of the session, one by one.                                   *)
(***************************************************************************)

\* StoreInv but for the screen, which follows the step.
StoreFacts ==
  /\ SiteTypeOK
  /\ status = "authenticated" => user \in User /\ owner \in Accounts
  /\ EntriesInv /\ LoadingInv

LEMMA RedirectKeeps ==
  ASSUME ShellInv, Redirect
  PROVE  StoreFacts' /\ AloneInv'
<1>. USE DEF ShellInv, StoreInv
<1>1. SiteTypeOK' /\ (status = "authenticated" => user \in User /\ owner \in Accounts)'
  BY SiteConstants DEF Redirect, session, calls, SiteTypeOK, EntriesInv, Entries,
     ScreensInv, InFlight, User, Entry, Call, Paths, Guest
<1>2. EntriesInv'
  BY SiteConstants DEF Redirect, session, calls, SiteTypeOK, EntriesInv, Entries
<1>3. LoadingInv'
  BY SiteConstants DEF Redirect, session, calls, SiteTypeOK, LoadingInv, Entries, InFlight
<1>4. AloneInv'
  BY SiteConstants DEF Redirect, session, calls, SiteTypeOK, AloneInv, Entries,
     InFlight, Held, Enters, LoadingInv, ScreensInv
<1>. QED BY <1>1, <1>2, <1>3, <1>4 DEF StoreFacts

LEMMA NavigateKeeps ==
  ASSUME ShellInv, Navigate
  PROVE  StoreFacts' /\ AloneInv'
<1>. USE DEF ShellInv, StoreInv
<1>1. SiteTypeOK' /\ (status = "authenticated" => user \in User /\ owner \in Accounts)'
  BY SiteConstants DEF Navigate, Act, Screen, session, calls, SiteTypeOK, EntriesInv,
     Entries, ScreensInv, InFlight, User, Entry, Call, Paths, Guest
<1>2. EntriesInv'
  BY SiteConstants DEF Navigate, Act, Screen, session, calls, SiteTypeOK, EntriesInv,
     Entries
<1>3. LoadingInv'
  BY SiteConstants DEF Navigate, Act, Screen, session, calls, SiteTypeOK, LoadingInv,
     Entries, InFlight
<1>4. AloneInv'
  BY SiteConstants DEF Navigate, Act, Screen, session, calls, SiteTypeOK, AloneInv,
     Entries, InFlight, Held, Enters, LoadingInv, ScreensInv
<1>. QED BY <1>1, <1>2, <1>3, <1>4 DEF StoreFacts

LEMMA BootstrapKeeps ==
  ASSUME ShellInv, Bootstrap
  PROVE  StoreFacts' /\ AloneInv'
<1>. USE DEF ShellInv, StoreInv
<1>1. SiteTypeOK' /\ (status = "authenticated" => user \in User /\ owner \in Accounts)'
  BY SiteConstants DEF Bootstrap, Entering, session, calls, SiteTypeOK, EntriesInv,
     Entries, ScreensInv, InFlight, User, Entry, Call, Paths, Guest
<1>2. EntriesInv'
  BY SiteConstants DEF Bootstrap, Entering, session, calls, SiteTypeOK, EntriesInv,
     Entries
<1>3. LoadingInv'
  BY SiteConstants DEF Bootstrap, Entering, session, calls, SiteTypeOK, LoadingInv,
     Entries, InFlight
<1>4. AloneInv'
  BY SiteConstants DEF Bootstrap, Entering, session, calls, SiteTypeOK, AloneInv,
     Entries, InFlight, Held, Enters, LoadingInv, ScreensInv
<1>. QED BY <1>1, <1>2, <1>3, <1>4 DEF StoreFacts

LEMMA SubmitEntryKeeps ==
  ASSUME ShellInv, NEW k \in Guest, SubmitEntry(k)
  PROVE  StoreFacts' /\ AloneInv'
<1>. USE DEF ShellInv, StoreInv
<1>. PICK a \in Accounts : Entering(k, a)
  BY DEF SubmitEntry
<1>. DEFINE e == [account |-> a, leg |-> "first", status |-> "sent", answer |-> 0]
<1>a. /\ e \in Entry /\ entry' = [entry EXCEPT ![k] = e]
      /\ e.account = a /\ e.leg = "first" /\ e.status = "sent"
      /\ k \in {"login", "register"} /\ k \in DOMAIN entry /\ entry[k] = NULL
      /\ status = "unauthenticated"
      /\ tangled' = (tangled \/ InFlight # {} \/ \E l \in DOMAIN entry : entry[l] # NULL)
      /\ UNCHANGED <<status, owner, user, path, cookie, registered, profile, leaving, call>>
  BY DEF Entering, Entry, SubmitEntry, Screen, Guest, session, SiteTypeOK
<1>. HIDE DEF e
<1>1. SiteTypeOK' /\ (status = "authenticated" => user \in User /\ owner \in Accounts)'
  BY <1>a DEF SiteTypeOK
<1>2. EntriesInv'
  <2>1. \A l \in DOMAIN entry : entry'[l] = IF l = k THEN e ELSE entry[l]
    BY <1>a DEF SiteTypeOK
  <2>. QED BY <1>a, <2>1 DEF EntriesInv, Entries, SiteTypeOK
<1>3. LoadingInv'
  BY <1>a DEF SiteTypeOK, LoadingInv, Entries, InFlight
<1>4. AloneInv'
  <2>1. \A l \in DOMAIN entry : entry'[l] = IF l = k THEN e ELSE entry[l]
    BY <1>a DEF SiteTypeOK
  <2>. SUFFICES ASSUME ~tangled' PROVE AloneInv'
    BY DEF AloneInv
  <2>2. ~tangled /\ InFlight = {} /\ Entries = {}
    BY <1>a DEF Entries
  <2>3. InFlight' = {} /\ Entries' \subseteq {k}
    BY <1>a, <2>1, <2>2 DEF InFlight, Entries, SiteTypeOK
  <2>. QED BY <1>a, <2>1, <2>2, <2>3 DEF AloneInv, Enters
<1>. QED BY <1>1, <1>2, <1>3, <1>4 DEF StoreFacts

LEMMA ServeEntryKeeps ==
  ASSUME ShellInv, NEW k \in DOMAIN entry, ServeEntry(k)
  PROVE  StoreFacts' /\ AloneInv'
<1>. USE DEF ShellInv, StoreInv
<1>. DEFINE q == entry[k]
<1>a. PICK answer \in {"ok", "refused"} :
        /\ answer = "ok" => \/ k = "bootstrap" /\ q.account # NULL
                            \/ k = "login" /\ q.account \in registered
                            \/ k = "register" /\ (q.leg = "me" \/ q.account \notin registered)
        /\ registered' = Accounted(k, q.account)
        /\ entry' = [entry EXCEPT ![k].status = answer,
                                  ![k].answer = IF answer = "ok" THEN profile[q.account] ELSE 0]
  BY DEF ServeEntry
<1>b. /\ q \in Entry /\ k \in Entries
      /\ UNCHANGED <<status, owner, user, path, cookie, profile, leaving, call>>
  BY DEF ServeEntry, SiteTypeOK, Entries, session
<1>c. IF k = "bootstrap" THEN q.account \in registered \cup {NULL} ELSE q.account \in Accounts
  BY <1>b DEF EntriesInv
<1>1. SiteTypeOK' /\ (status = "authenticated" => user \in User /\ owner \in Accounts)'
  <2>1. answer = "ok" => q.account \in Accounts
    BY <1>a, <1>c DEF SiteTypeOK
  <2>. DEFINE e == [q EXCEPT !.status = answer,
                             !.answer = IF answer = "ok" THEN profile[q.account] ELSE 0]
  <2>2. e \in Entry
    BY <1>b, <2>1 DEF Entry, SiteTypeOK
  <2>3. entry' = [entry EXCEPT ![k] = e]
    BY <1>a, <1>b DEF SiteTypeOK
  <2>. HIDE DEF e
  <2>4. entry' \in [{"bootstrap", "login", "register"} -> Entry \cup {NULL}]
    BY <2>2, <2>3 DEF SiteTypeOK
  <2>5. registered' \subseteq Accounts /\ registered \subseteq registered'
    BY <1>a, <1>c DEF Accounted, SiteTypeOK
  <2>. QED BY <1>b, <2>4, <2>5 DEF SiteTypeOK
<1>2. EntriesInv'
  BY SiteConstants DEF ServeEntry, Accounted, session, calls, SiteTypeOK, EntriesInv,
     Entries
<1>3. LoadingInv'
  BY SiteConstants DEF ServeEntry, Accounted, session, calls, SiteTypeOK, LoadingInv,
     Entries, InFlight
<1>4. AloneInv'
  BY SiteConstants DEF ServeEntry, Accounted, session, calls, SiteTypeOK, AloneInv,
     Entries, InFlight, Held, Enters, LoadingInv, ScreensInv
<1>. QED BY <1>1, <1>2, <1>3, <1>4 DEF StoreFacts

LEMMA ReceiveEntryKeeps ==
  ASSUME ShellInv, NEW k \in DOMAIN entry, ReceiveEntry(k)
  PROVE  StoreFacts' /\ AloneInv'
<1>. USE DEF ShellInv, StoreInv
<1>. DEFINE q == entry[k]
<1>a. /\ q \in Entry /\ k \in Entries /\ q.status = "ok" /\ q.account \in registered
      /\ q.account \in Accounts
      /\ UNCHANGED <<registered, profile, leaving, call, tangled>>
  BY DEF ReceiveEntry, SiteTypeOK, Entries, EntriesInv
<1>b. CASE q.leg = "first"
  <2>. DEFINE e == [q EXCEPT !.leg = "me", !.status = "sent"]
  <2>1. /\ cookie' = q.account /\ UNCHANGED <<status, owner, user, path>>
        /\ e \in Entry /\ entry' = [entry EXCEPT ![k] = e]
        /\ e.account = q.account /\ e.status = "sent"
    BY <1>a, <1>b DEF ReceiveEntry, Entry, SiteTypeOK
  <2>. HIDE DEF e
  <2>2. \A l \in DOMAIN entry : entry'[l] = IF l = k THEN e ELSE entry[l]
    BY <2>1 DEF SiteTypeOK
  <2>3. SiteTypeOK' /\ (status = "authenticated" => user \in User /\ owner \in Accounts)'
    BY <1>a, <2>1 DEF SiteTypeOK
  <2>4. Entries' \subseteq Entries /\ DOMAIN entry' = DOMAIN entry
    BY <1>a, <2>1, <2>2 DEF Entries, SiteTypeOK
  <2>5. EntriesInv'
    BY <1>a, <2>1, <2>2, <2>4 DEF EntriesInv, Entries
  <2>6. LoadingInv'
    BY <1>a, <2>1, <2>4 DEF LoadingInv, InFlight
  <2>7. AloneInv'
    <3>. SUFFICES ASSUME ~tangled PROVE AloneInv'
      BY <1>a DEF AloneInv
    <3>1. InFlight = {} /\ InFlight' = {} /\ status # "authenticated" /\ Entries = {k}
      BY <1>a DEF AloneInv, InFlight, Enters
    <3>. QED BY <1>a, <2>1, <2>2, <2>4, <3>1 DEF AloneInv, Enters
  <2>. QED BY <2>3, <2>5, <2>6, <2>7 DEF StoreFacts
<1>c. CASE q.leg = "me"
  <2>1. /\ status' = "authenticated" /\ owner' = q.account
        /\ user' = [account |-> q.account, row |-> q.answer]
        /\ path' \in {path, "pages"} /\ cookie' = cookie
        /\ entry' = [entry EXCEPT ![k] = NULL]
    BY <1>a, <1>c DEF ReceiveEntry, SetAuth
  <2>2. user' \in User /\ user'.account = q.account /\ user'.row = q.answer
    BY <1>a, <2>1 DEF User, Entry
  <2>3. SiteTypeOK' /\ (status = "authenticated" => user \in User /\ owner \in Accounts)'
    BY <1>a, <2>1, <2>2 DEF SiteTypeOK, Paths
  <2>4. Entries' = Entries \ {k} /\ DOMAIN entry' = DOMAIN entry
        /\ \A l \in Entries' : entry'[l] = entry[l]
    BY <1>a, <2>1 DEF Entries, SiteTypeOK
  <2>5. EntriesInv'
    BY <1>a, <2>1, <2>4 DEF EntriesInv
  <2>6. LoadingInv'
    <3>1. "bootstrap" \in Entries => k = "bootstrap"
      BY <1>a DEF LoadingInv
    <3>. QED BY <1>a, <2>1, <2>4, <3>1 DEF LoadingInv, InFlight
  <2>7. AloneInv'
    <3>. SUFFICES ASSUME ~tangled PROVE AloneInv'
      BY <1>a DEF AloneInv
    <3>1. /\ InFlight = {} /\ InFlight' = {} /\ Entries = {k} /\ Entries' = {}
          /\ q.answer = profile[q.account] /\ cookie \in {q.account, NULL}
      BY <1>a, <1>c, <2>4 DEF AloneInv, InFlight, Enters
    <3>. QED BY <1>a, <2>1, <2>2, <3>1 DEF AloneInv
  <2>. QED BY <2>3, <2>5, <2>6, <2>7 DEF StoreFacts
<1>. QED BY <1>b, <1>c DEF ReceiveEntry

LEMMA EntryFailsKeeps ==
  ASSUME ShellInv, NEW k \in DOMAIN entry, EntryFails(k)
  PROVE  StoreFacts' /\ AloneInv'
<1>. USE DEF ShellInv, StoreInv
<1>1. SiteTypeOK' /\ (status = "authenticated" => user \in User /\ owner \in Accounts)'
  BY SiteConstants DEF EntryFails, ClearAuth, session, calls, SiteTypeOK, EntriesInv,
     Entries, ScreensInv, InFlight, User, Entry, Call, Paths, Guest
<1>2. EntriesInv'
  BY SiteConstants DEF EntryFails, ClearAuth, session, calls, SiteTypeOK, EntriesInv,
     Entries
<1>3. LoadingInv'
  BY SiteConstants DEF EntryFails, ClearAuth, session, calls, SiteTypeOK, LoadingInv,
     Entries, InFlight
<1>4. AloneInv'
  BY SiteConstants DEF EntryFails, ClearAuth, session, calls, SiteTypeOK, AloneInv,
     Entries, InFlight, Held, Enters, LoadingInv, ScreensInv
<1>. QED BY <1>1, <1>2, <1>3, <1>4 DEF StoreFacts

LEMMA EntryLostKeeps ==
  ASSUME ShellInv, NEW k \in DOMAIN entry, EntryLost(k)
  PROVE  StoreFacts' /\ AloneInv'
<1>. USE DEF ShellInv, StoreInv
<1>1. SiteTypeOK' /\ (status = "authenticated" => user \in User /\ owner \in Accounts)'
  <2>. DEFINE e == [entry[k] EXCEPT !.status = "failed"]
  <2>1. e \in Entry /\ entry' = [entry EXCEPT ![k] = e]
    BY DEF EntryLost, SiteTypeOK, Entry
  <2>2. UNCHANGED <<status, owner, user, path, cookie, registered, profile, leaving, call>>
    BY DEF EntryLost, session
  <2>. HIDE DEF e
  <2>. QED BY <2>1, <2>2 DEF SiteTypeOK
<1>2. EntriesInv'
  BY SiteConstants DEF EntryLost, Fault, Act, session, calls, SiteTypeOK, EntriesInv,
     Entries
<1>3. LoadingInv'
  BY SiteConstants DEF EntryLost, Fault, Act, session, calls, SiteTypeOK, LoadingInv,
     Entries, InFlight
<1>4. AloneInv'
  BY SiteConstants DEF EntryLost, Fault, Act, session, calls, SiteTypeOK, AloneInv,
     Entries, InFlight, Held, Enters, LoadingInv, ScreensInv
<1>. QED BY <1>1, <1>2, <1>3, <1>4 DEF StoreFacts

LEMMA StartLogoutKeeps ==
  ASSUME ShellInv, StartLogout
  PROVE  StoreFacts' /\ AloneInv'
<1>. USE DEF ShellInv, StoreInv
<1>1. SiteTypeOK' /\ (status = "authenticated" => user \in User /\ owner \in Accounts)'
  BY DEF StartLogout, Act, session, SiteTypeOK
<1>2. EntriesInv'
  BY SiteConstants DEF StartLogout, Act, Guest, session, calls, SiteTypeOK, EntriesInv,
     Entries
<1>3. LoadingInv'
  BY SiteConstants DEF StartLogout, Act, Guest, session, calls, SiteTypeOK, LoadingInv,
     Entries, InFlight
<1>4. AloneInv'
  BY SiteConstants DEF StartLogout, Act, Guest, session, calls, SiteTypeOK, AloneInv,
     Entries, InFlight, Held, Enters, LoadingInv, ScreensInv
<1>. QED BY <1>1, <1>2, <1>3, <1>4 DEF StoreFacts

LEMMA LogoutAnsweredKeeps ==
  ASSUME ShellInv, LogoutAnswered
  PROVE  StoreFacts' /\ AloneInv'
<1>. USE DEF ShellInv, StoreInv
<1>1. SiteTypeOK' /\ (status = "authenticated" => user \in User /\ owner \in Accounts)'
  BY DEF LogoutAnswered, ClearAuth, Fault, Act, SiteTypeOK, Paths, Guest
<1>2. EntriesInv'
  BY SiteConstants DEF LogoutAnswered, ClearAuth, Fault, Act, session, calls,
     SiteTypeOK, EntriesInv, Entries
<1>3. LoadingInv'
  BY SiteConstants DEF LogoutAnswered, ClearAuth, Fault, Act, session, calls,
     SiteTypeOK, LoadingInv, Entries, InFlight
<1>4. AloneInv'
  BY SiteConstants DEF LogoutAnswered, ClearAuth, Fault, Act, session, calls,
     SiteTypeOK, AloneInv, Entries, InFlight, Held, Enters, LoadingInv, ScreensInv
<1>. QED BY <1>1, <1>2, <1>3, <1>4 DEF StoreFacts

LEMMA ReloadKeeps ==
  ASSUME ShellInv, Reload
  PROVE  StoreFacts' /\ AloneInv'
<1>. USE DEF ShellInv, StoreInv
<1>1. SiteTypeOK' /\ (status = "authenticated" => user \in User /\ owner \in Accounts)'
  BY SiteConstants DEF Reload, Act, session, calls, SiteTypeOK, EntriesInv, Entries,
     ScreensInv, InFlight, User, Entry, Call, Paths, Guest
<1>2. EntriesInv'
  BY SiteConstants DEF Reload, Act, session, calls, SiteTypeOK, EntriesInv, Entries
<1>3. LoadingInv'
  BY SiteConstants DEF Reload, Act, session, calls, SiteTypeOK, LoadingInv, Entries,
     InFlight
<1>4. AloneInv'
  BY SiteConstants DEF Reload, Act, session, calls, SiteTypeOK, AloneInv, Entries,
     InFlight, Held, Enters, LoadingInv, ScreensInv
<1>. QED BY <1>1, <1>2, <1>3, <1>4 DEF StoreFacts

LEMMA StartCallKeeps ==
  ASSUME ShellInv, NEW c \in Calls,
         NEW kind \in {"quiet hours", "unlink", "check", "password"}, StartCall(c, kind)
  PROVE  StoreFacts' /\ AloneInv'
<1>. USE DEF ShellInv, StoreInv
<1>1. SiteTypeOK' /\ (status = "authenticated" => user \in User /\ owner \in Accounts)'
  BY SiteConstants DEF StartCall, Act, OnSettings, Screen, Guest, session, calls,
     SiteTypeOK, EntriesInv, Entries, ScreensInv, InFlight, User, Entry, Call, Paths,
     Guest
<1>2. EntriesInv'
  BY SiteConstants DEF StartCall, Act, OnSettings, Screen, Guest, session, calls,
     SiteTypeOK, EntriesInv, Entries
<1>3. LoadingInv'
  BY SiteConstants DEF StartCall, Act, OnSettings, Screen, Guest, session, calls,
     SiteTypeOK, LoadingInv, Entries, InFlight
<1>4. AloneInv'
  BY SiteConstants DEF StartCall, Act, OnSettings, Screen, Guest, session, calls,
     SiteTypeOK, AloneInv, Entries, InFlight, Held, Enters, LoadingInv, ScreensInv
<1>. QED BY <1>1, <1>2, <1>3, <1>4 DEF StoreFacts

LEMMA ServeCallKeeps ==
  ASSUME ShellInv, NEW c \in Calls, ServeCall(c)
  PROVE  StoreFacts' /\ AloneInv'
<1>. USE DEF ShellInv, StoreInv
<1>. DEFINE q == call[c]
<1>a. /\ q \in Call /\ q # NULL /\ q.status = "sent" /\ c \in InFlight
      /\ UNCHANGED <<status, owner, user, path, cookie, registered, entry, leaving, tangled>>
  BY DEF ServeCall, SiteTypeOK, InFlight, session
<1>b. PICK s \in {"ok", "refused"}, n \in Nat :
        /\ call' = [call EXCEPT ![c] = [q EXCEPT !.status = s, !.answer = n]]
        /\ s = "ok" => /\ profile' = [profile EXCEPT ![q.sentAs] = @ + Writes(q.kind)]
                       /\ n = profile'[q.sentAs]
        /\ s = "refused" => profile' = profile
  <2>1. CASE profile' = [profile EXCEPT ![q.sentAs] = @ + Writes(q.kind)]
             /\ call' = [call EXCEPT ![c].status = "ok", ![c].answer = profile'[q.sentAs]]
    <3>1. q.sentAs \in Accounts /\ Writes(q.kind) \in {0, 1}
      BY <1>a DEF Call, Writes
    <3>2. PICK n \in Nat : n = profile'[q.sentAs]
      BY <2>1, <3>1 DEF SiteTypeOK
    <3>3. call' = [call EXCEPT ![c].status = "ok", ![c].answer = n]
      BY <2>1, <3>2
    <3>4. call' = [call EXCEPT ![c] = [q EXCEPT !.status = "ok", !.answer = n]]
      BY <1>a, <3>3 DEF SiteTypeOK
    <3>. QED BY <2>1, <3>2, <3>4
  <2>2. CASE profile' = profile /\ call' = [call EXCEPT ![c].status = "refused"]
    <3>1. call' = [call EXCEPT ![c] = [q EXCEPT !.status = "refused", !.answer = q.answer]]
      BY <1>a, <2>2 DEF SiteTypeOK, Call
    <3>. QED BY <1>a, <2>2, <3>1 DEF Call
  <2>. QED BY <2>1, <2>2 DEF ServeCall
<1>. PICK e \in Call : e = [q EXCEPT !.status = s, !.answer = n]
  BY <1>a DEF Call
<1>c. /\ e \in Call /\ e # NULL /\ e.sentAs = q.sentAs /\ e.held = q.held /\ e.kind = q.kind
      /\ e.status = s /\ e.answer = n
  BY <1>a, SiteConstants DEF Call
<1>d. call' = [call EXCEPT ![c] = e]
  BY <1>b
<1>e. call' \in [Calls -> Call \cup {NULL}] /\ InFlight' = InFlight
      /\ \A d \in InFlight : call'[d] = IF d = c THEN e ELSE call[d]
  BY <1>a, <1>c, <1>d DEF SiteTypeOK, InFlight
<1>f. profile' \in [Accounts -> Nat]
  BY <1>a, <1>b DEF SiteTypeOK, Writes, Call
<1>1. SiteTypeOK' /\ (status = "authenticated" => user \in User /\ owner \in Accounts)'
  BY <1>a, <1>e, <1>f DEF SiteTypeOK
<1>2. EntriesInv'
  BY <1>a DEF EntriesInv, Entries
<1>3. LoadingInv'
  BY <1>a, <1>e DEF LoadingInv, Entries
<1>4. AloneInv'
  <2>. SUFFICES ASSUME ~tangled PROVE AloneInv'
    BY <1>a DEF AloneInv
  <2>1. /\ InFlight = {c} /\ Entries = {} /\ leaving = 0 /\ status = "authenticated"
        /\ Held(q) /\ user.row = profile[owner]
    BY <1>a DEF AloneInv, Held
  <2>2. Entries' = {}
    BY <1>a, <2>1 DEF Entries
  <2>3. Held(e)'
    <3>1. s = "ok" => profile'[owner] = profile[owner] + Writes(q.kind)
      BY <1>a, <1>b, <2>1 DEF Held, SiteTypeOK, Call
    <3>2. s = "ok" /\ q.kind \in {"check", "password"} => user.row = profile'[owner]
      <4>1. q.kind \in {"check", "password"} => Writes(q.kind) = 0
        BY DEF Writes
      <4>2. profile[owner] \in Nat
        BY <2>1 DEF SiteTypeOK
      <4>. QED BY <2>1, <3>1, <4>1, <4>2
    <3>3. s = "refused" => user.row = profile'[owner]
      BY <1>b, <2>1
    <3>4. s = "ok" => n = profile'[owner]
      BY <1>b, <2>1 DEF Held
    <3>. QED BY <1>a, <1>c, <2>1, <3>2, <3>3, <3>4 DEF Held
  <2>4. InFlight' = {c} /\ call'[c] = e
    BY <1>a, <1>e, <2>1
  <2>. QED BY <1>a, <2>1, <2>2, <2>3, <2>4 DEF AloneInv
<1>. QED BY <1>1, <1>2, <1>3, <1>4 DEF StoreFacts

LEMMA RefreshCallKeeps ==
  ASSUME ShellInv, NEW c \in Calls, RefreshCall(c)
  PROVE  StoreFacts' /\ AloneInv'
<1>. USE DEF ShellInv, StoreInv
<1>. DEFINE q == call[c]
<1>a. /\ q \in Call /\ q # NULL /\ q.status = "refused" /\ c \in InFlight
      /\ UNCHANGED <<path, cookie, registered, profile, entry, leaving, tangled>>
  BY DEF RefreshCall, SiteTypeOK, InFlight
<1>b. status \in {"authenticated", "unauthenticated"}
  BY <1>a DEF LoadingInv, SiteTypeOK
<1>c. CASE cookie = NULL
  <2>1. /\ status' = "unauthenticated" /\ owner' = NULL /\ user' = NULL
        /\ call' = [call EXCEPT ![c] = NULL]
    BY <1>c DEF RefreshCall, ClearAuth
  <2>2. InFlight' = InFlight \ {c} /\ \A d \in InFlight' : call'[d] = call[d]
    BY <2>1 DEF InFlight, SiteTypeOK
  <2>3. SiteTypeOK' /\ (status = "authenticated" => user \in User /\ owner \in Accounts)'
    BY <1>a, <2>1 DEF SiteTypeOK
  <2>4. EntriesInv' /\ Entries' = Entries
    BY <1>a DEF EntriesInv, Entries
  <2>5. LoadingInv'
    BY <1>a, <1>b, <2>1, <2>2, <2>4 DEF LoadingInv
  <2>6. AloneInv'
    <3>. SUFFICES ASSUME ~tangled PROVE AloneInv'
      BY <1>a DEF AloneInv
    <3>1. InFlight' = {} /\ Entries = {}
      BY <1>a, <2>2 DEF AloneInv
    <3>. QED BY <1>a, <2>1, <2>4, <3>1 DEF AloneInv
  <2>. QED BY <2>3, <2>4, <2>5, <2>6 DEF StoreFacts
<1>d. CASE cookie # NULL
  <2>1. cookie \in Accounts
    BY <1>d DEF SiteTypeOK
  <2>. PICK e \in Call : e = [q EXCEPT !.status = "sent", !.leg = "retry", !.sentAs = cookie]
    BY <1>a, <2>1 DEF Call
  <2>2. /\ status' = "authenticated" /\ owner' = cookie /\ user' = q.held
        /\ call' = [call EXCEPT ![c] = e]
    BY <1>a, <1>d DEF RefreshCall, SetAuth, SiteTypeOK
  <2>3. /\ e \in Call /\ e # NULL /\ q.held \in User
        /\ e.sentAs = cookie /\ e.held = q.held /\ e.status = "sent" /\ e.kind = q.kind
    BY <1>a, <2>1, SiteConstants DEF Call
  <2>4. /\ call' \in [Calls -> Call \cup {NULL}] /\ InFlight' = InFlight
        /\ \A d \in InFlight : call'[d] = IF d = c THEN e ELSE call[d]
    BY <1>a, <2>2, <2>3 DEF SiteTypeOK, InFlight
  <2>5. SiteTypeOK' /\ (status = "authenticated" => user \in User /\ owner \in Accounts)'
    BY <1>a, <2>1, <2>2, <2>3, <2>4 DEF SiteTypeOK
  <2>6. EntriesInv' /\ Entries' = Entries
    BY <1>a DEF EntriesInv, Entries
  <2>7. LoadingInv'
    BY <1>a, <1>b, <2>2, <2>4, <2>6 DEF LoadingInv
  <2>8. AloneInv'
    <3>. SUFFICES ASSUME ~tangled PROVE AloneInv'
      BY <1>a DEF AloneInv
    <3>1. /\ InFlight = {c} /\ Entries = {} /\ leaving = 0 /\ cookie = owner
          /\ Held(q) /\ user.account = owner
      BY <1>a, <1>d DEF AloneInv
    <3>2. Held(e)' /\ owner' = owner /\ user' = user
      BY <1>a, <2>2, <2>3, <3>1 DEF Held
    <3>3. InFlight' = {c} /\ call'[c] = e
      BY <1>a, <2>4, <3>1
    <3>. QED BY <1>a, <2>2, <2>6, <3>1, <3>2, <3>3 DEF AloneInv
  <2>. QED BY <2>5, <2>6, <2>7, <2>8 DEF StoreFacts
<1>. QED BY <1>c, <1>d

LEMMA CallLostKeeps ==
  ASSUME ShellInv, NEW c \in Calls, CallLost(c)
  PROVE  StoreFacts' /\ AloneInv'
<1>. USE DEF ShellInv, StoreInv
<1>1. SiteTypeOK' /\ (status = "authenticated" => user \in User /\ owner \in Accounts)'
  <2>. DEFINE q == call[c]
              e == [q EXCEPT !.status = "failed",
                             !.leg = IF q.status = "refused" THEN "retry" ELSE q.leg]
  <2>1. /\ q \in Call
        /\ UNCHANGED <<status, owner, user, path, cookie, registered, profile, entry, leaving>>
    BY DEF CallLost, SiteTypeOK, session
  <2>2. e \in Call
    BY <2>1 DEF Call
  <2>3. call' = [call EXCEPT ![c] = e]
    BY DEF CallLost, SiteTypeOK
  <2>. HIDE DEF e
  <2>. QED BY <2>1, <2>2, <2>3 DEF SiteTypeOK
<1>2. EntriesInv'
  BY SiteConstants DEF CallLost, Fault, Act, session, calls, SiteTypeOK, EntriesInv,
     Entries
<1>3. LoadingInv'
  BY SiteConstants DEF CallLost, Fault, Act, session, calls, SiteTypeOK, LoadingInv,
     Entries, InFlight
<1>4. AloneInv'
  BY SiteConstants DEF CallLost, Fault, Act, session, calls, SiteTypeOK, AloneInv,
     Entries, InFlight, Held, Enters, LoadingInv, ScreensInv
<1>. QED BY <1>1, <1>2, <1>3, <1>4 DEF StoreFacts

LEMMA ReceiveCallKeeps ==
  ASSUME ShellInv, NEW c \in Calls, ReceiveCall(c)
  PROVE  StoreFacts' /\ AloneInv'
<1>. USE DEF ShellInv, StoreInv
<1>1. SiteTypeOK' /\ (status = "authenticated" => user \in User /\ owner \in Accounts)'
  <2>. DEFINE q == call[c]
  <2>1. /\ q \in Call /\ c \in InFlight /\ call' = [call EXCEPT ![c] = NULL]
        /\ UNCHANGED <<path, cookie, registered, profile, entry, leaving>>
    BY DEF ReceiveCall, SiteTypeOK, InFlight
  <2>2. Closure(q) \in User
    <3>1. q.held \in User
      BY <2>1 DEF Call
    <3>2. q.screen = screen => status = "authenticated"
      BY <2>1 DEF ScreensInv, OnSettings, Screen, Guest
    <3>. QED BY <3>1, <3>2 DEF Closure
  <2>3. /\ Closure(q).account \in Accounts /\ q.sentAs \in Accounts
        /\ [account |-> q.sentAs, row |-> q.answer] \in User
    BY <2>1, <2>2 DEF User, Call
  <2>4. \/ UNCHANGED <<status, owner, user>>
        \/ status' = "unauthenticated" /\ owner' = NULL /\ user' = NULL
        \/ status' = "authenticated" /\ owner' \in Accounts /\ user' \in User
    BY <2>2, <2>3 DEF ReceiveCall, WrittenBack, SetAuth, ClearAuth
  <2>5. call' \in [Calls -> Call \cup {NULL}]
    BY <2>1 DEF SiteTypeOK
  <2>. QED BY <2>1, <2>4, <2>5 DEF SiteTypeOK
<1>2. EntriesInv'
  BY SiteConstants DEF ReceiveCall, WrittenBack, Closure, SetAuth, ClearAuth, session,
     calls, SiteTypeOK, EntriesInv, Entries
<1>3. LoadingInv'
  BY SiteConstants DEF ReceiveCall, WrittenBack, Closure, SetAuth, ClearAuth, session,
     calls, SiteTypeOK, LoadingInv, Entries, InFlight
<1>4. AloneInv'
  BY SiteConstants DEF ReceiveCall, WrittenBack, Closure, SetAuth, ClearAuth, session,
     calls, SiteTypeOK, AloneInv, Entries, InFlight, Held, Enters, LoadingInv,
     ScreensInv
<1>. QED BY <1>1, <1>2, <1>3, <1>4 DEF StoreFacts

\* A call keeps the screen it was sent from.
LEMMA CallScreens ==
  ASSUME ShellInv, SiteProceeds \/ SiteUser \/ SiteFaults \/ Reload, NEW c \in InFlight'
  PROVE  \/ c \in InFlight /\ call'[c].screen = call[c].screen
         \/ call'[c].screen = screen /\ OnSettings
<1>1. c \in Calls /\ call'[c] # NULL /\ call \in [Calls -> Call \cup {NULL}]
  BY DEF InFlight, ShellInv, StoreInv, SiteTypeOK
<1>2. CASE UNCHANGED call
  BY <1>1, <1>2 DEF InFlight
<1>3. CASE Reload
  BY <1>1, <1>3 DEF Reload
<1>4. ASSUME NEW d \in Calls, ServeCall(d) \/ RefreshCall(d) \/ ReceiveCall(d) \/ CallLost(d)
      PROVE  c \in InFlight /\ call'[c].screen = call[c].screen
  <2>1. c # d => call'[c] = call[c]
    BY <1>1, <1>4 DEF ServeCall, RefreshCall, ReceiveCall, CallLost
  <2>2. ASSUME c = d PROVE call[c] # NULL /\ call'[c].screen = call[c].screen
    <3>1. call[c] # NULL /\ call[c] \in Call
      BY <1>1, <1>4, <2>2 DEF ServeCall, RefreshCall, ReceiveCall, CallLost
    <3>2. CASE ServeCall(d)
      BY <1>1, <2>2, <3>1, <3>2 DEF ServeCall, Call
    <3>3. CASE RefreshCall(d)
      <4>1. cookie # NULL
        BY <1>1, <2>2, <3>3 DEF RefreshCall
      <4>2. call' = [call EXCEPT ![d] = [call[d] EXCEPT !.status = "sent", !.leg = "retry",
                                                       !.sentAs = cookie]]
        BY <1>1, <3>1, <3>3, <4>1 DEF RefreshCall
      <4>. QED BY <1>1, <2>2, <3>1, <4>2 DEF Call
    <3>4. CASE ReceiveCall(d)
      BY <1>1, <2>2, <3>4 DEF ReceiveCall
    <3>5. CASE CallLost(d)
      BY <1>1, <2>2, <3>1, <3>5 DEF CallLost, Call
    <3>. QED BY <1>4, <3>1, <3>2, <3>3, <3>4, <3>5
  <2>. QED BY <1>1, <2>1, <2>2 DEF InFlight
<1>5. ASSUME NEW d \in Calls, NEW kind \in {"quiet hours", "unlink", "check", "password"},
             StartCall(d, kind)
      PROVE  \/ c \in InFlight /\ call'[c].screen = call[c].screen
             \/ call'[c].screen = screen /\ OnSettings
  <2>1. c # d => call'[c] = call[c]
    BY <1>1, <1>5 DEF StartCall
  <2>2. c = d => call'[c].screen = screen /\ OnSettings
    BY <1>1, <1>5 DEF StartCall
  <2>. QED BY <1>1, <2>1, <2>2 DEF InFlight
<1>6. \/ Reload \/ UNCHANGED call
      \/ \E d \in Calls : ServeCall(d) \/ RefreshCall(d) \/ ReceiveCall(d) \/ CallLost(d)
      \/ \E d \in Calls, kind \in {"quiet hours", "unlink", "check", "password"} : StartCall(d, kind)
  BY DEF SiteProceeds, SiteUser, SiteFaults, Redirect, Navigate, Bootstrap, SubmitEntry,
     ServeEntry, ReceiveEntry, EntryFails, EntryLost, StartLogout, LogoutAnswered, calls
<1>. QED BY <1>2, <1>3, <1>4, <1>5, <1>6

\* A step of the session, with the screen that follows it.
LEMMA ShellStep ==
  ASSUME ShellInv, SiteProceeds \/ SiteUser \/ SiteFaults \/ Reload, Rendered
  PROVE  ShellInv'
<1>1. StoreFacts' /\ AloneInv'
  BY RedirectKeeps, NavigateKeeps, BootstrapKeeps, SubmitEntryKeeps, ServeEntryKeeps,
     ReceiveEntryKeeps, EntryFailsKeeps, EntryLostKeeps, StartLogoutKeeps, LogoutAnsweredKeeps,
     ReloadKeeps, StartCallKeeps, ServeCallKeeps, RefreshCallKeeps, CallLostKeeps,
     ReceiveCallKeeps DEF SiteProceeds, SiteUser, SiteFaults
<1>2. ScreensInv'
  <2>1. /\ screen \in Nat
        /\ \A c \in InFlight : call[c].screen \in Nat /\ call[c].screen <= screen
                               /\ (call[c].screen = screen => OnSettings)
    BY DEF ShellInv, StoreInv, ScreensInv, SiteTypeOK, InFlight, Call
  <2>2. ASSUME NEW c \in InFlight'
        PROVE  /\ call'[c].screen \in Nat /\ call'[c].screen <= screen
               /\ call'[c].screen = screen => OnSettings
    BY <2>1, <2>2, CallScreens
  <2>3. CASE Screen' = Screen
    <3>1. screen' = screen /\ OnSettings' = OnSettings
      BY <2>3 DEF Rendered, OnSettings
    <3>. QED BY <2>1, <2>2, <3>1 DEF ScreensInv
  <2>4. CASE Screen' # Screen
    <3>1. screen' = screen + 1
      BY <2>4 DEF Rendered
    <3>2. screen' \in Nat /\ \A c \in InFlight' : call'[c].screen <= screen' /\ call'[c].screen # screen'
      BY <2>1, <2>2, <3>1
    <3>. QED BY <3>2 DEF ScreensInv
  <2>. QED BY <2>3, <2>4
<1>. QED BY <1>1, <1>2 DEF ShellInv, StoreInv, StoreFacts

-----------------------------------------------------------------------------
(***************************************************************************)
(* The notifications.                                                      *)
(***************************************************************************)

\* What a press has done so far, when no other one overlaps it.
PressAlone(o) ==
  /\ o.step \in {"store", "remove", "drop"} => subscription # 0 /\ o.endpoint = subscription
  /\ o.step = "done" /\ o.on => subscription # 0 /\ pushRow[subscription] = o.servedFor
  /\ o.step = "done" /\ ~o.on => subscription = 0

PressInv ==
  \A p \in PushInFlight :
    /\ pushOp[p].step \in {"ask", "key", "subscribe", "store"} => pushOp[p].on
    /\ pushOp[p].step \in {"get", "remove", "drop"} => ~pushOp[p].on
    /\ settled = NULL
    /\ pushOp[p].alone => PushInFlight = {p} /\ PressAlone(pushOp[p])

\* Nothing was pressed since: the browser and the server agree, and the badge
\* has been read from the browser.
SettledInv ==
  settled # NULL =>
    /\ subscription # 0 => pushRow[subscription] = settled
    /\ effect = "set" => isSubscribed = (subscription # 0)
    /\ effect = "held" => subscription # 0
    /\ effect = "none" => subscription = 0

PushInv == PushTypeOK /\ PressInv /\ SettledInv

\* The other parts leave the notifications alone, but for the badge of a screen.
LEMMA PushStands ==
  ASSUME PushInv, UNCHANGED <<permission, subscription, endpoints, pushRow, settled>>,
         pushOp' = pushOp \/ pushOp' = [p \in PushOps |-> NULL],
         BadgeRendered
  PROVE  PushInv'
<1>1. UNCHANGED <<isSubscribed, effect>> \/ (isSubscribed' = FALSE /\ effect' = "due")
  BY DEF BadgeRendered, badge
<1>2. PushTypeOK'
  BY <1>1 DEF PushInv, PushTypeOK
<1>3. PressInv'
  BY DEF PushInv, PressInv, PushInFlight, PressAlone, PushTypeOK
<1>4. SettledInv'
  BY <1>1 DEF PushInv, SettledInv
<1>. QED BY <1>2, <1>3, <1>4 DEF PushInv

\* A press goes on: what it writes is its own.
LEMMA PressGoes ==
  ASSUME PushInv, NEW p \in PushOps, pushOp[p] # NULL, NEW o \in PushOp,
         pushOp' = [pushOp EXCEPT ![p] = o],
         o.alone = pushOp[p].alone,
         o.step \in {"ask", "key", "subscribe", "store"} => o.on,
         o.step \in {"get", "remove", "drop"} => ~o.on,
         UNCHANGED <<settled, isSubscribed, effect>>,
         permission' \in {"default", "granted", "denied"},
         endpoints' \in 0..MaxEndpoints, subscription' \in 0..endpoints',
         pushRow' \in [Endpoints -> Accounts \cup {NULL}],
         o.alone => PressAlone(o)'
  PROVE  PushInv'
<1>1. pushOp' \in [PushOps -> PushOp \cup {NULL}]
  BY DEF PushInv, PushTypeOK
<1>2. p \in PushInFlight /\ PushInFlight' \subseteq PushInFlight
  BY DEF PushInFlight, PushInv, PushTypeOK
<1>3. \A r \in PushOps : pushOp'[r] = IF r = p THEN o ELSE pushOp[r]
  BY DEF PushInv, PushTypeOK
<1>4. settled = NULL
  BY <1>2 DEF PushInv, PressInv
<1>5. PressInv'
  <2>1. ASSUME o.alone PROVE PushInFlight' = {p} \/ p \notin PushInFlight'
    BY <1>2, <2>1 DEF PushInv, PressInv
  <2>2. ASSUME NEW r \in PushInFlight', r # p
        PROVE  /\ pushOp'[r] = pushOp[r] /\ r \in PushInFlight
               /\ ~pushOp[r].alone
    <3>1. r \in PushOps /\ pushOp'[r] = pushOp[r] /\ r \in PushInFlight
      BY <1>2, <1>3, <2>2 DEF PushInFlight
    <3>2. pushOp[r].alone => PushInFlight = {r}
      BY <3>1 DEF PushInv, PressInv
    <3>3. pushOp[r].alone \in BOOLEAN
      BY <3>1 DEF PushInv, PushTypeOK, PushOp, PushInFlight
    <3>. QED BY <1>2, <2>2, <3>1, <3>2, <3>3
  <2>3. pushOp'[p] = o
    BY <1>3
  <2>. QED BY <1>4, <2>1, <2>2, <2>3 DEF PushInv, PressInv
<1>. QED BY <1>1, <1>4, <1>5 DEF PushInv, PushTypeOK, SettledInv

LEMMA ReadBadgeKeeps ==
  ASSUME PushInv, GetBadge \/ SetBadge
  PROVE  PushInv'
<1>1. UNCHANGED <<permission, subscription, endpoints, pushRow, pushOp, settled>>
  BY DEF GetBadge, SetBadge
<1>2. \/ UNCHANGED isSubscribed /\ effect' = IF subscription = 0 THEN "none" ELSE "held"
      \/ /\ effect \in {"none", "held"} /\ effect' = "set"
         /\ isSubscribed' = (effect = "held")
  BY DEF GetBadge, SetBadge
<1>3. isSubscribed' \in BOOLEAN
  BY <1>2 DEF PushInv, PushTypeOK
<1>4. PushTypeOK'
  BY <1>1, <1>2, <1>3 DEF PushInv, PushTypeOK
<1>5. PressInv'
  BY <1>1 DEF PushInv, PressInv, PushInFlight, PressAlone
<1>6. SettledInv'
  BY <1>1, <1>2 DEF PushInv, SettledInv
<1>. QED BY <1>4, <1>5, <1>6 DEF PushInv

\* The row of a press that is alone is that of its endpoint, unless it is gone.
LEMMA PressSteps ==
  ASSUME PushInv, SiteTypeOK, NEW p \in PushOps,
         \/ Ask(p) \/ FetchKey(p) \/ Subscribe(p) \/ Store(p) \/ Get(p) \/ Remove(p) \/ Drop(p)
         \/ PushLost(p)
  PROVE  PushInv'
<1>. DEFINE q == pushOp[p]
<1>1. /\ q # NULL /\ q \in PushOp /\ p \in PushInFlight
  BY DEF Ask, FetchKey, Subscribe, Store, Get, Remove, Drop, PushLost, At, PushInv,
     PushTypeOK, PushInFlight
<1>2. /\ q.step \in {"ask", "key", "subscribe", "store"} => q.on
      /\ q.step \in {"get", "remove", "drop"} => ~q.on
      /\ q.alone => PressAlone(q)
      /\ settled = NULL
  BY <1>1 DEF PushInv, PressInv
<1>3. /\ permission \in {"default", "granted", "denied"} /\ endpoints \in 0..MaxEndpoints
      /\ subscription \in 0..endpoints /\ pushRow \in [Endpoints -> Accounts \cup {NULL}]
      /\ pushOp \in [PushOps -> PushOp \cup {NULL}]
  BY DEF PushInv, PushTypeOK
<1>4. Sender \in Accounts \cup {NULL}
  BY DEF Sender, SiteTypeOK
<1>5. CASE Ask(p)
  <2>1. /\ UNCHANGED <<isSubscribed, effect, subscription, endpoints, pushRow, settled>>
        /\ permission' \in {"default", "granted", "denied"} /\ q.step = "ask"
        /\ \/ pushOp' = [pushOp EXCEPT ![p] = [q EXCEPT !.step = "key"]]
           \/ pushOp' = [pushOp EXCEPT ![p] = NULL]
    BY <1>3, <1>5 DEF Ask, At, badge
  <2>2. CASE pushOp' = [pushOp EXCEPT ![p] = [q EXCEPT !.step = "key"]]
    <3>1. PICK o \in PushOp : o = [q EXCEPT !.step = "key"]
      BY <1>1 DEF PushOp
    <3>2. /\ o.alone = q.alone /\ o.on = q.on /\ o.step = "key"
      BY <1>1, <3>1 DEF PushOp
    <3>3. PressAlone(o)'
      BY <3>2 DEF PressAlone
    <3>. QED BY <1>1, <1>2, <1>3, <2>1, <2>2, <3>1, <3>2, <3>3, PressGoes
  <2>3. CASE pushOp' = [pushOp EXCEPT ![p] = NULL]
    <3>1. PushInFlight' = PushInFlight \ {p} /\ \A r \in PushInFlight' : pushOp'[r] = pushOp[r]
      BY <1>3, <2>3 DEF PushInFlight
    <3>2. \A r \in PushInFlight' : ~pushOp[r].alone
      BY <1>1, <3>1 DEF PushInv, PressInv
    <3>3. PressInv'
      BY <1>2, <2>1, <3>1, <3>2 DEF PushInv, PressInv
    <3>. QED BY <1>2, <1>3, <2>1, <2>3, <3>3 DEF PushInv, PushTypeOK, SettledInv
  <2>. QED BY <2>1, <2>2, <2>3
<1>6. CASE FetchKey(p)
  <2>1. PICK o \in PushOp : o = [q EXCEPT !.step = "subscribe"]
    BY <1>1 DEF PushOp
  <2>2. /\ o.alone = q.alone /\ o.on = q.on /\ o.step = "subscribe"
    BY <1>1, <2>1 DEF PushOp
  <2>3. /\ UNCHANGED <<permission, isSubscribed, effect, subscription, endpoints, pushRow, settled>>
        /\ q.step = "key" /\ pushOp' = [pushOp EXCEPT ![p] = o]
    BY <1>1, <1>3, <1>6, <2>1 DEF FetchKey, At, GoesTo, badge
  <2>4. PressAlone(o)'
    BY <2>2 DEF PressAlone
  <2>. QED BY <1>1, <1>2, <1>3, <2>2, <2>3, <2>4, PressGoes
<1>7. CASE Subscribe(p)
  <2>1. /\ subscription' \in 1..endpoints' /\ endpoints' \in 0..MaxEndpoints /\ q.step = "subscribe"
        /\ pushOp' = [pushOp EXCEPT ![p].step = "store", ![p].endpoint = subscription']
        /\ UNCHANGED <<permission, isSubscribed, effect, pushRow, settled>>
    BY <1>3, <1>7, PushConstants DEF Subscribe, At, badge
  <2>2. PICK e \in 0..MaxEndpoints : e = subscription'
    BY <2>1, PushConstants
  <2>3. PICK o \in PushOp : o = [q EXCEPT !.step = "store", !.endpoint = e]
    BY <1>1 DEF PushOp
  <2>4. /\ o.alone = q.alone /\ o.on = q.on /\ o.step = "store"
        /\ o.endpoint = e
    BY <1>1, <2>3 DEF PushOp
  <2>5. pushOp' = [pushOp EXCEPT ![p] = o]
    BY <1>1, <1>3, <2>1, <2>2, <2>3
  <2>6. PressAlone(o)' /\ subscription' \in 0..endpoints'
    BY <2>1, <2>2, <2>4 DEF PressAlone
  <2>. QED BY <1>1, <1>2, <1>3, <2>1, <2>4, <2>5, <2>6, PressGoes
<1>8. ASSUME NEW o \in PushOp, o = [q EXCEPT !.step = "failed"], pushOp' = [pushOp EXCEPT ![p] = o],
             pushRow' \in [Endpoints -> Accounts \cup {NULL}],
             UNCHANGED <<permission, isSubscribed, effect, subscription, endpoints, settled>>
      PROVE  PushInv'
  <2>1. o.alone = q.alone /\ o.step = "failed"
    BY <1>1, <1>8 DEF PushOp
  <2>2. PressAlone(o)'
    BY <2>1 DEF PressAlone
  <2>. QED BY <1>1, <1>3, <1>8, <2>1, <2>2, PressGoes
<1>9. PICK f \in PushOp : f = [q EXCEPT !.step = "failed"]
  BY <1>1 DEF PushOp
<1>10. GoesTo(p, "failed") => pushOp' = [pushOp EXCEPT ![p] = f]
  BY <1>1, <1>3, <1>9 DEF GoesTo
<1>11. CASE Store(p)
  <2>1. /\ UNCHANGED <<permission, isSubscribed, effect, subscription, endpoints, settled>>
        /\ q.step = "store"
    BY <1>11 DEF Store, At, badge
  <2>2. CASE Sender = NULL
    <3>1. GoesTo(p, "failed") /\ pushRow' = pushRow
      BY <1>11, <2>2 DEF Store
    <3>. QED BY <1>3, <1>8, <1>9, <1>10, <2>1, <3>1
  <2>3. CASE Sender # NULL
    <3>1. /\ pushOp' = [pushOp EXCEPT ![p].step = "done", ![p].servedFor = Sender]
          /\ pushRow' = [pushRow EXCEPT ![q.endpoint] = Sender]
      BY <1>11, <2>3 DEF Store, ServedAs
    <3>2. PICK a \in Accounts : a = Sender
      BY <1>4, <2>3
    <3>3. PICK o \in PushOp : o = [q EXCEPT !.step = "done", !.servedFor = a]
      BY <1>1 DEF PushOp
    <3>4. o.alone = q.alone /\ o.on = q.on /\ o.step = "done" /\ o.servedFor = a
      BY <1>1, <3>3 DEF PushOp
    <3>5. pushOp' = [pushOp EXCEPT ![p] = o] /\ pushRow' \in [Endpoints -> Accounts \cup {NULL}]
      BY <1>1, <1>3, <3>1, <3>2, <3>3
    <3>6. o.alone => PressAlone(o)'
      <4>. SUFFICES ASSUME o.alone PROVE PressAlone(o)'
        OBVIOUS
      <4>1. subscription # 0 /\ q.endpoint = subscription /\ q.on
        BY <1>2, <2>1, <3>4 DEF PressAlone
      <4>2. subscription \in Endpoints
        BY <1>3, <4>1, PushConstants DEF Endpoints
      <4>3. pushRow'[subscription] = a
        BY <1>3, <3>1, <3>2, <4>1, <4>2
      <4>. QED BY <2>1, <3>4, <4>1, <4>3 DEF PressAlone
    <3>. QED BY <1>1, <1>3, <2>1, <3>4, <3>5, <3>6, PressGoes
  <2>. QED BY <2>2, <2>3
<1>12. CASE Get(p)
  <2>1. PICK e \in 0..MaxEndpoints : e = subscription
    BY <1>3, PushConstants
  <2>2. PICK o \in PushOp :
          o = [q EXCEPT !.step = IF subscription = 0 THEN "done" ELSE "remove", !.endpoint = e]
    BY <1>1 DEF PushOp
  <2>3. /\ o.alone = q.alone /\ o.on = q.on /\ o.endpoint = e
        /\ o.step = IF subscription = 0 THEN "done" ELSE "remove"
    BY <1>1, <2>2 DEF PushOp
  <2>4. /\ UNCHANGED <<permission, isSubscribed, effect, subscription, endpoints, pushRow, settled>>
        /\ q.step = "get" /\ pushOp' = [pushOp EXCEPT ![p] = o]
    BY <1>1, <1>3, <1>12, <2>1, <2>2 DEF Get, At, badge
  <2>5. PressAlone(o)'
    BY <1>2, <2>1, <2>3, <2>4 DEF PressAlone
  <2>. QED BY <1>1, <1>2, <1>3, <2>3, <2>4, <2>5, PressGoes
<1>13. CASE Remove(p)
  <2>1. /\ UNCHANGED <<permission, isSubscribed, effect, subscription, endpoints, settled>>
        /\ q.step = "remove"
    BY <1>13 DEF Remove, At, badge
  <2>2. CASE Sender = NULL
    <3>1. GoesTo(p, "failed") /\ pushRow' = pushRow
      BY <1>13, <2>2 DEF Remove
    <3>. QED BY <1>3, <1>8, <1>9, <1>10, <2>1, <3>1
  <2>3. CASE Sender # NULL
    <3>1. /\ pushOp' = [pushOp EXCEPT ![p].step = "drop", ![p].servedFor = Sender]
          /\ pushRow' = [pushRow EXCEPT ![q.endpoint] = IF @ = Sender THEN NULL ELSE @]
      BY <1>13, <2>3 DEF Remove, ServedAs
    <3>2. PICK a \in Accounts : a = Sender
      BY <1>4, <2>3
    <3>3. PICK o \in PushOp : o = [q EXCEPT !.step = "drop", !.servedFor = a]
      BY <1>1 DEF PushOp
    <3>4. o.alone = q.alone /\ o.on = q.on /\ o.step = "drop" /\ o.endpoint = q.endpoint
      BY <1>1, <3>3 DEF PushOp
    <3>5. pushOp' = [pushOp EXCEPT ![p] = o] /\ pushRow' \in [Endpoints -> Accounts \cup {NULL}]
      BY <1>1, <1>3, <3>1, <3>2, <3>3
    <3>6. o.alone => PressAlone(o)'
      BY <1>2, <2>1, <3>4 DEF PressAlone
    <3>. QED BY <1>1, <1>2, <1>3, <2>1, <3>4, <3>5, <3>6, PressGoes
  <2>. QED BY <2>2, <2>3
<1>14. CASE Drop(p)
  <2>1. PICK o \in PushOp : o = [q EXCEPT !.step = "done"]
    BY <1>1 DEF PushOp
  <2>2. o.alone = q.alone /\ o.on = q.on /\ o.step = "done"
    BY <1>1, <2>1 DEF PushOp
  <2>3. /\ UNCHANGED <<permission, isSubscribed, effect, endpoints, pushRow, settled>>
        /\ q.step = "drop" /\ pushOp' = [pushOp EXCEPT ![p] = o]
        /\ subscription' = IF subscription = q.endpoint THEN 0 ELSE subscription
    BY <1>1, <1>3, <1>14, <2>1 DEF Drop, At, GoesTo, badge
  <2>4. subscription' \in 0..endpoints'
    BY <1>3, <2>3, PushConstants
  <2>5. o.alone => PressAlone(o)'
    BY <1>2, <2>2, <2>3 DEF PressAlone
  <2>. QED BY <1>1, <1>2, <1>3, <2>2, <2>3, <2>4, <2>5, PressGoes
<1>15. CASE PushLost(p)
  <2>1. /\ UNCHANGED <<permission, isSubscribed, effect, subscription, endpoints, settled>>
        /\ GoesTo(p, "failed")
        /\ pushRow' = pushRow \/ (Sender # NULL /\ pushRow' = [pushRow EXCEPT ![q.endpoint] = Sender])
    BY <1>15 DEF PushLost, badge
  <2>2. pushRow' \in [Endpoints -> Accounts \cup {NULL}]
    BY <1>3, <1>4, <2>1
  <2>. QED BY <1>8, <1>9, <1>10, <2>1, <2>2
<1>. QED BY <1>5, <1>6, <1>7, <1>11, <1>12, <1>13, <1>14, <1>15

LEMMA ToggleKeeps ==
  ASSUME PushInv, ScreensInv, SiteTypeOK, NEW p \in PushOps, Toggle(p)
  PROVE  PushInv'
<1>1. PICK o \in PushOp :
        o = [on |-> ~isSubscribed, step |-> IF isSubscribed THEN "get" ELSE "ask",
             screen |-> screen, endpoint |-> 0, servedFor |-> owner, alone |-> PushInFlight = {}]
  <2>1. /\ 0 \in 0..MaxEndpoints /\ screen \in Nat /\ owner \in Accounts \cup {NULL}
        /\ isSubscribed \in BOOLEAN
    BY PushConstants DEF PushInv, PushTypeOK, ScreensInv, SiteTypeOK
  <2>2. PICK b \in BOOLEAN : b = (PushInFlight = {})
    OBVIOUS
  <2>3. PICK n \in BOOLEAN : n = ~isSubscribed
    OBVIOUS
  <2>4. PICK d \in {"ask", "get"} : d = IF isSubscribed THEN "get" ELSE "ask"
    OBVIOUS
  <2>5. [on |-> n, step |-> d, screen |-> screen, endpoint |-> 0, servedFor |-> owner,
         alone |-> b] \in PushOp
    BY <2>1 DEF PushOp
  <2>. QED BY <2>2, <2>3, <2>4, <2>5
<1>2. /\ o.on = ~isSubscribed /\ o.step = (IF isSubscribed THEN "get" ELSE "ask")
      /\ o.alone = (PushInFlight = {})
  BY <1>1
<1>3. /\ pushOp' = [r \in PushOps |->
           IF r = p THEN o
           ELSE IF pushOp[r] = NULL THEN NULL ELSE [pushOp[r] EXCEPT !.alone = FALSE]]
      /\ settled' = NULL /\ pushOp[p] = NULL
      /\ UNCHANGED <<permission, isSubscribed, effect, subscription, endpoints, pushRow>>
  BY <1>1 DEF Toggle, badge
<1>4. ASSUME NEW r \in PushOps, r # p, pushOp[r] # NULL
      PROVE  /\ pushOp'[r] \in PushOp /\ ~pushOp'[r].alone /\ r \in PushInFlight
             /\ pushOp'[r].step = pushOp[r].step /\ pushOp'[r].on = pushOp[r].on
  <2>1. pushOp[r] \in PushOp /\ pushOp'[r] = [pushOp[r] EXCEPT !.alone = FALSE]
    BY <1>3, <1>4 DEF PushInv, PushTypeOK
  <2>. QED BY <1>4, <2>1 DEF PushOp, PushInFlight
<1>5. \A r \in PushOps : r # p /\ pushOp[r] = NULL => pushOp'[r] = NULL
  BY <1>3
<1>6. pushOp' \in [PushOps -> PushOp \cup {NULL}] /\ pushOp'[p] = o
  BY <1>3, <1>4, <1>5
<1>7. ASSUME PushInFlight = {} PROVE PushInFlight' \subseteq {p}
  BY <1>5, <1>7 DEF PushInFlight
<1>8. \A r \in PushInFlight' : r = p \/ (r \in PushOps /\ r # p /\ pushOp[r] # NULL)
  BY <1>5 DEF PushInFlight
<1>9. o.step \notin {"store", "remove", "drop", "done"} /\ isSubscribed \in BOOLEAN
  BY <1>2 DEF PushInv, PushTypeOK
<1>10. PressInv'
  <2>1. ASSUME p \in PushInFlight'
        PROVE  /\ pushOp'[p].step \in {"ask", "key", "subscribe", "store"} => pushOp'[p].on
               /\ pushOp'[p].step \in {"get", "remove", "drop"} => ~pushOp'[p].on
               /\ pushOp'[p].alone => PushInFlight' = {p}
               /\ pushOp'[p].step \notin {"store", "remove", "drop", "done"}
    BY <1>2, <1>6, <1>7, <1>9, <2>1
  <2>2. ASSUME NEW r \in PushInFlight', r # p
        PROVE  /\ pushOp'[r].step \in {"ask", "key", "subscribe", "store"} => pushOp'[r].on
               /\ pushOp'[r].step \in {"get", "remove", "drop"} => ~pushOp'[r].on
               /\ ~pushOp'[r].alone
    BY <1>4, <1>8, <2>2 DEF PushInv, PressInv
  <2>. QED BY <1>3, <2>1, <2>2 DEF PressInv, PressAlone
<1>. QED BY <1>3, <1>6, <1>10 DEF PushInv, PushTypeOK, SettledInv

\* The press that ends alone leaves both sides as it says.
LEMMA ToggleEndsKeeps ==
  ASSUME PushInv, SiteTypeOK, NEW p \in PushOps, ToggleEnds(p)
  PROVE  PushInv'
<1>. DEFINE o == pushOp[p]
<1>1. /\ o # NULL /\ o \in PushOp /\ p \in PushInFlight /\ o.step \in {"done", "failed"}
      /\ pushOp' = [pushOp EXCEPT ![p] = NULL]
      /\ isSubscribed' = IF o.step = "done" /\ o.screen = screen THEN o.on ELSE isSubscribed
      /\ UNCHANGED <<permission, effect, subscription, endpoints, pushRow>>
  BY DEF ToggleEnds, PushInFlight, PushInv, PushTypeOK
<1>2. settled = NULL /\ (o.alone => PushInFlight = {p} /\ PressAlone(o))
  BY <1>1 DEF PushInv, PressInv
<1>3. \/ settled' = NULL
      \/ /\ o.alone /\ o.step = "done" /\ o.screen = screen /\ o.servedFor = owner
         /\ effect # (IF o.on THEN "none" ELSE "held") /\ settled' = owner
  BY <1>2 DEF ToggleEnds
<1>4. o.on \in BOOLEAN /\ owner \in Accounts \cup {NULL}
  BY <1>1 DEF PushOp, SiteTypeOK
<1>5. PushTypeOK'
  BY <1>1, <1>3, <1>4 DEF PushInv, PushTypeOK
<1>6. PushInFlight' = PushInFlight \ {p} /\ \A r \in PushInFlight' : pushOp'[r] = pushOp[r]
  BY <1>1 DEF PushInFlight, PushInv, PushTypeOK
<1>7. PressInv'
  <2>1. ASSUME NEW r \in PushInFlight' PROVE ~pushOp[r].alone /\ ~o.alone
    BY <1>1, <1>2, <1>6 DEF PushInv, PressInv
  <2>2. PushInFlight' # {} => settled' = NULL
    BY <1>3, <2>1
  <2>. QED BY <1>6, <2>1, <2>2 DEF PushInv, PressInv
<1>8. SettledInv'
  <2>. SUFFICES ASSUME settled' # NULL PROVE SettledInv'
    BY DEF SettledInv
  <2>1. /\ o.alone /\ o.step = "done" /\ o.servedFor = owner /\ settled' = owner
        /\ isSubscribed' = o.on /\ effect # (IF o.on THEN "none" ELSE "held")
    BY <1>1, <1>3
  <2>2. (o.on => subscription # 0 /\ pushRow[subscription] = owner) /\ (~o.on => subscription = 0)
    BY <1>2, <2>1 DEF PressAlone
  <2>. QED BY <1>1, <1>4, <2>1, <2>2 DEF SettledInv
<1>. QED BY <1>5, <1>7, <1>8 DEF PushInv

-----------------------------------------------------------------------------
(***************************************************************************)
(* The categories.                                                         *)
(***************************************************************************)
InList(c) == listed # NULL /\ listed[c] # NULL

\* What is listed or being changed was once given an id, and a row has a draft.
IdsInv ==
  /\ \A c \in Ids : update[c] # NULL => c \in catIds
  /\ \A c \in Ids : InList(c) => c \in catIds /\ draft[c] \in Names
  /\ listing \notin {NULL, Served} => \A c \in Ids : listing[c] # NULL => c \in catIds

\* What an update writes: of a row saved untouched, what is there.
WrittenInv ==
  \A c \in Ids : update[c] # NULL /\ (update[c].status = "ok" \/ update[c].untouched) =>
    catName[c] \in {update[c].name, NULL}

\* The draft of a row that was taken from the server: what is being saved, or
\* the server's name unless it is being typed.
DraftGood(c) ==
  InList(c) /\ c \notin loose =>
    /\ update[c] # NULL => /\ c \in editing /\ draft[c] = update[c].name
                           /\ c \notin touched => update[c].untouched
    /\ update[c] = NULL /\ (c \notin touched \/ c \notin editing) => catName[c] \in {draft[c], NULL}

DraftsInv == \A c \in Ids : DraftGood(c)

CatInv == CategoriesTypeOK /\ IdsInv /\ WrittenInv /\ DraftsInv

\* Rows that take their draft from a list are behind it, or loose.
LEMMA DraftTaken ==
  ASSUME NEW cs, NEW list \in Listing, Draft(cs, list), Loosened(cs, list), UNCHANGED <<catName, update>>,
         NEW c \in Ids \cap cs, c \notin loose'
  PROVE  draft'[c] = list[c] /\ list[c] = catName'[c] /\ update'[c] = NULL
BY DEF Draft, Loosened

\* The other parts leave the categories alone, but for the rows of a new screen.
LEMMA CatStands ==
  ASSUME CatInv, UNCHANGED <<catName, catIds, catCalls>>, SectionRendered
  PROVE  CatInv'
<1>1. UNCHANGED <<catName, catIds, update, deletion, creation, listed>>
  BY DEF catCalls, SectionRendered, catQuery
<1>2. CASE UNCHANGED <<catRows, catQuery>>
  <2>1. UNCHANGED <<editing, draft, isAdding, newName, touched, loose, listing>>
    BY <1>2 DEF catRows, catQuery
  <2>. QED
    BY <1>1, <2>1 DEF CatInv, CategoriesTypeOK, IdsInv, WrittenInv, DraftsInv,
       DraftGood, InList
<1>3. CASE ~UNCHANGED <<catRows, catQuery>>
  <2>. DEFINE rows == IF listed = NULL THEN {} ELSE {c \in Ids : listed[c] # NULL}
  <2>1. /\ Draft(rows, listed) /\ Loosened(rows, listed)
        /\ editing' = {} /\ touched' = {} /\ isAdding' = FALSE /\ newName' = NULL
        /\ listing' \in {listing, Served} /\ listed' = listed
    BY <1>3 DEF SectionRendered
  <2>2. \A c \in Ids : c \in rows <=> InList(c)
    BY DEF InList
  <2>3. \A c \in Ids : InList(c) => listed[c] \in Names
    BY DEF InList, CatInv, CategoriesTypeOK, Listing
  <2>. HIDE DEF rows
  <2>4. draft' \in [Ids -> Names \cup {NULL}]
    BY <2>1, <2>2, <2>3 DEF Draft, CatInv, CategoriesTypeOK
  <2>5. CategoriesTypeOK'
    BY <1>1, <2>1, <2>4 DEF CatInv, CategoriesTypeOK
  <2>6. IdsInv'
    <3>1. \A c \in Ids : InList(c) => draft'[c] \in Names
      BY <2>1, <2>2, <2>3 DEF Draft
    <3>. QED BY <1>1, <2>1, <3>1 DEF CatInv, IdsInv, InList
  <2>7. DraftsInv'
    <3>. SUFFICES ASSUME NEW c \in Ids, InList(c), c \notin loose'
                  PROVE  update'[c] = NULL /\ catName'[c] \in {draft'[c], NULL}
      BY <1>1 DEF DraftsInv, DraftGood, InList
    <3>1. listed \in Listing
      BY DEF InList, CatInv, CategoriesTypeOK
    <3>. QED BY <1>1, <2>1, <2>2, <3>1, DraftTaken
  <2>. QED BY <1>1, <2>5, <2>6, <2>7 DEF CatInv, WrittenInv
<1>. QED BY <1>2, <1>3

LEMMA ReceiveListingKeeps ==
  ASSUME CatInv, ReceiveListing
  PROVE  CatInv'
<1>. DEFINE new == {c \in Ids : listed'[c] # NULL /\ (listed = NULL \/ listed[c] = NULL)}
<1>1. /\ listing \in Listing /\ listing \notin {NULL, Served}
      /\ listed' = listing /\ listing' = NULL /\ listed' # NULL
      /\ Draft(new, listed') /\ Loosened(new, listed')
      /\ editing' = {c \in editing : listed'[c] # NULL}
      /\ UNCHANGED <<catName, catIds, isAdding, newName, touched, update, deletion, creation>>
  BY DEF ReceiveListing, CatInv, CategoriesTypeOK, catCalls
<1>2. \A c \in Ids : c \in new <=> listing[c] # NULL /\ ~InList(c)
  BY <1>1 DEF InList
<1>3. \A c \in Ids : c \notin new => draft'[c] = draft[c] /\ (c \in loose' <=> c \in loose)
  BY <1>1 DEF Draft, Loosened
<1>4. \A c \in Ids : c \in new => draft'[c] = listing[c] /\ listing[c] \in Names
  BY <1>1 DEF Draft, Listing
<1>5. \A c \in Ids : InList(c)' <=> listing[c] # NULL
  BY <1>1 DEF InList
<1>. HIDE DEF new
<1>6. draft' \in [Ids -> Names \cup {NULL}]
  BY <1>1, <1>4 DEF Draft, CatInv, CategoriesTypeOK
<1>7. CategoriesTypeOK'
  BY <1>1, <1>6 DEF CatInv, CategoriesTypeOK
<1>8. IdsInv'
  BY <1>1, <1>2, <1>3, <1>4, <1>5 DEF CatInv, IdsInv
<1>9. DraftsInv'
  <2>. SUFFICES ASSUME NEW c \in Ids, listing[c] # NULL, c \notin loose' PROVE DraftGood(c)'
    BY <1>5 DEF DraftsInv, DraftGood
  <2>1. CASE c \in new
    BY <1>1, <2>1, DraftTaken DEF DraftGood
  <2>2. CASE c \notin new
    <3>1. InList(c) /\ DraftGood(c) /\ draft'[c] = draft[c] /\ c \notin loose
      BY <1>2, <1>3, <2>2 DEF CatInv, DraftsInv
    <3>2. c \in editing' <=> c \in editing
      BY <1>1
    <3>. QED BY <1>1, <3>1, <3>2 DEF DraftGood
  <2>. QED BY <2>1, <2>2
<1>. QED BY <1>1, <1>7, <1>8, <1>9 DEF CatInv, WrittenInv

LEMMA ServeListingKeeps ==
  ASSUME CatInv, ServeListing
  PROVE  CatInv'
<1>1. /\ listing' = catName
      /\ UNCHANGED <<catName, catIds, editing, draft, isAdding, newName, touched, loose,
                     listed, update, deletion, creation>>
  BY DEF ServeListing, catRows, catCalls
<1>2. \A c \in Ids : catName[c] # NULL => c \in catIds
  BY DEF CatInv, CategoriesTypeOK
<1>. QED
  BY <1>1, <1>2 DEF CatInv, CategoriesTypeOK, IdsInv, WrittenInv, DraftsInv, DraftGood,
     InList

\* What is open and what is typed into it.
LEMMA EditKeeps ==
  ASSUME CatInv, NEW c \in Ids, Edit(c)
  PROVE  CatInv'
<1>1. /\ c \notin editing /\ editing' = editing \cup {c} /\ touched' = touched \ {c}
      /\ UNCHANGED <<catName, catIds, draft, isAdding, newName, loose, listed, listing,
                     update, deletion, creation>>
  BY DEF Edit, catQuery, catCalls
<1>2. DraftsInv'
  BY <1>1 DEF CatInv, DraftsInv, DraftGood, InList
<1>. QED BY <1>1, <1>2 DEF CatInv, CategoriesTypeOK, IdsInv, WrittenInv, InList

LEMMA TypeNameKeeps ==
  ASSUME CatInv, NEW c \in Ids, NEW n \in Names, TypeName(c, n)
  PROVE  CatInv'
<1>1. /\ c \in editing /\ draft' = [draft EXCEPT ![c] = n] /\ touched' = touched \cup {c}
      /\ loose' = IF update[c] # NULL THEN loose \cup {c} ELSE loose
      /\ UNCHANGED <<catName, catIds, editing, isAdding, newName, listed, listing,
                     update, deletion, creation>>
  BY DEF TypeName, catQuery, catCalls
<1>2. draft \in [Ids -> Names \cup {NULL}]
  BY DEF CatInv, CategoriesTypeOK
<1>3. draft'[c] = n /\ \A d \in Ids : d # c => draft'[d] = draft[d]
  BY <1>1, <1>2
<1>4. CategoriesTypeOK'
  BY <1>1, <1>2 DEF CatInv, CategoriesTypeOK
<1>5. IdsInv'
  BY <1>1, <1>3 DEF CatInv, IdsInv, InList
<1>6. DraftsInv'
  BY <1>1, <1>3 DEF CatInv, DraftsInv, DraftGood, InList
<1>. QED BY <1>1, <1>4, <1>5, <1>6 DEF CatInv, WrittenInv

LEMMA CancelKeepsDrafts ==
  ASSUME CatInv, NEW c \in Ids, Cancel(c)
  PROVE  CatInv'
<1>1. /\ listed # NULL /\ listed[c] # NULL /\ editing' = editing \ {c}
      /\ Draft({c}, listed) /\ Loosened({c}, listed)
      /\ UNCHANGED <<catName, catIds, isAdding, newName, touched, listed, listing,
                     update, deletion, creation>>
  BY DEF Cancel, Row, catQuery, catCalls
<1>2. listed \in Listing /\ listed[c] \in Names
  BY <1>1 DEF CatInv, CategoriesTypeOK, Listing
<1>3. /\ draft'[c] = listed[c]
      /\ \A d \in Ids : d # c => draft'[d] = draft[d] /\ (d \in loose' <=> d \in loose)
  BY <1>1 DEF Draft, Loosened
<1>4. draft' \in [Ids -> Names \cup {NULL}]
  BY <1>1, <1>2 DEF Draft, CatInv, CategoriesTypeOK
<1>5. CategoriesTypeOK'
  BY <1>1, <1>4 DEF CatInv, CategoriesTypeOK
<1>6. IdsInv'
  BY <1>1, <1>2, <1>3 DEF CatInv, IdsInv, InList
<1>7. DraftsInv'
  <2>. SUFFICES ASSUME NEW d \in Ids PROVE DraftGood(d)'
    BY DEF DraftsInv
  <2>1. CASE d = c
    BY <1>1, <1>2, <2>1, DraftTaken DEF DraftGood
  <2>2. CASE d # c
    <3>1. DraftGood(d) /\ (d \in editing' <=> d \in editing)
      BY <1>1, <2>2 DEF CatInv, DraftsInv
    <3>. QED BY <1>1, <1>3, <2>2, <3>1 DEF DraftGood, InList
  <2>. QED BY <2>1, <2>2
<1>. QED BY <1>1, <1>5, <1>6, <1>7 DEF CatInv, WrittenInv

\* A form of a mutation.
LEMMA MutatingTyped ==
  ASSUME ScreensInv, NEW n \in Names, NEW b \in BOOLEAN
  PROVE  Mutating(n, b) \in Mutation /\ Mutating(n, b) # NULL
BY CategoryConstants DEF ScreensInv, Mutating, Mutation

LEMMA SaveKeeps ==
  ASSUME CatInv, ScreensInv, NEW c \in Ids, Save(c)
  PROVE  CatInv'
<1>. DEFINE b == c \notin touched \cup loose
<1>1. /\ InList(c) /\ c \in editing /\ update[c] = NULL
      /\ update' = [update EXCEPT ![c] = Mutating(draft[c], b)]
      /\ loose' = IF c \in touched THEN loose \ {c} ELSE loose
      /\ UNCHANGED <<catName, catIds, editing, draft, isAdding, newName, touched, listed, listing,
                     deletion, creation>>
  BY DEF Save, Row, InList, catQuery
<1>2. draft[c] \in Names /\ c \in catIds
  BY <1>1 DEF CatInv, IdsInv
<1>3. PICK o \in Mutation : o = Mutating(draft[c], b) /\ o # NULL
  BY <1>2, MutatingTyped
<1>4. o.name = draft[c] /\ o.status = "sent" /\ (o.untouched <=> b)
  BY <1>3 DEF Mutating
<1>. HIDE DEF b
<1>5. update' \in [Ids -> Mutation \cup {NULL}] /\ update'[c] = o
  BY <1>1, <1>3 DEF CatInv, CategoriesTypeOK
<1>6. \A d \in Ids : d # c => update'[d] = update[d] /\ (d \in loose' <=> d \in loose)
  BY <1>1 DEF CatInv, CategoriesTypeOK
<1>7. CategoriesTypeOK'
  BY <1>1, <1>5 DEF CatInv, CategoriesTypeOK
<1>8. IdsInv'
  BY <1>1, <1>2, <1>6 DEF CatInv, IdsInv, InList
<1>9. WrittenInv'
  <2>1. o.untouched => catName[c] \in {draft[c], NULL}
    BY <1>1, <1>4 DEF CatInv, DraftsInv, DraftGood, b
  <2>. QED BY <1>1, <1>4, <1>5, <1>6, <2>1 DEF CatInv, WrittenInv
<1>10. DraftsInv'
  <2>1. DraftGood(c)'
    BY <1>1, <1>3, <1>4, <1>5 DEF DraftGood, b
  <2>2. ASSUME NEW d \in Ids, d # c PROVE DraftGood(d)'
    BY <1>1, <1>6, <2>2 DEF CatInv, DraftsInv, DraftGood, InList
  <2>. QED BY <2>1, <2>2 DEF DraftsInv
<1>. QED BY <1>7, <1>8, <1>9, <1>10 DEF CatInv

LEMMA DeleteKeeps ==
  ASSUME CatInv, ScreensInv, NEW c \in Ids, Delete(c)
  PROVE  CatInv'
<1>1. /\ InList(c) /\ deletion' = [deletion EXCEPT ![c] = Mutating(listed[c], FALSE)]
      /\ UNCHANGED <<catName, catIds, editing, draft, isAdding, newName, touched, loose,
                     listed, listing, update, creation>>
  BY DEF Delete, Row, InList, catRows, catQuery
<1>2. listed[c] \in Names
  BY <1>1 DEF InList, CatInv, CategoriesTypeOK, Listing
<1>3. CategoriesTypeOK'
  BY <1>1, <1>2, MutatingTyped DEF CatInv, CategoriesTypeOK
<1>. QED BY <1>1, <1>3 DEF CatInv, IdsInv, WrittenInv, DraftsInv, DraftGood, InList

LEMMA NewCategoryKeeps ==
  ASSUME CatInv, ScreensInv, ToggleAdding \/ Create \/ \E n \in Names : TypeNew(n)
  PROVE  CatInv'
<1>1. /\ UNCHANGED <<catName, catIds, editing, draft, touched, loose, listed, listing,
                     update, deletion>>
      /\ isAdding' \in BOOLEAN /\ newName' \in Names \cup {NULL}
      /\ creation' = creation \/ (newName \in Names /\ creation' = Mutating(newName, FALSE))
  BY DEF ToggleAdding, Create, TypeNew, catRows, catQuery, catCalls, CatInv,
     CategoriesTypeOK
<1>2. CategoriesTypeOK'
  BY <1>1, MutatingTyped DEF CatInv, CategoriesTypeOK
<1>. QED BY <1>1, <1>2 DEF CatInv, IdsInv, WrittenInv, DraftsInv, DraftGood, InList

\* What the service does.
LEMMA ServeUpdateKeeps ==
  ASSUME CatInv, NEW c \in Ids, ServeUpdate(c)
  PROVE  CatInv'
<1>1. /\ update[c] # NULL /\ update[c] \in Mutation
      /\ catName' = [catName EXCEPT ![c] = IF @ = NULL THEN NULL ELSE update[c].name]
      /\ UNCHANGED <<catIds, editing, draft, isAdding, newName, touched, loose, listed, listing,
                     deletion, creation>>
  BY DEF ServeUpdate, catRows, catQuery, CatInv, CategoriesTypeOK
<1>2. PICK s \in {"ok", "failed"} : update' = [update EXCEPT ![c].status = s]
  BY DEF ServeUpdate
<1>3. PICK o \in Mutation : o = [update[c] EXCEPT !.status = s]
  BY <1>1, <1>2 DEF Mutation
<1>4. o.name = update[c].name /\ o.untouched = update[c].untouched /\ o # NULL
  BY <1>1, <1>3, CategoryConstants DEF Mutation
<1>5. update' = [update EXCEPT ![c] = o] /\ update \in [Ids -> Mutation \cup {NULL}]
  BY <1>2, <1>3 DEF CatInv, CategoriesTypeOK
<1>6. update'[c] = o /\ \A d \in Ids : d # c => update'[d] = update[d]
  BY <1>5
<1>7. catName \in Listing /\ update[c].name \in Names
  BY <1>1 DEF CatInv, CategoriesTypeOK, Mutation
<1>8. /\ catName'[c] \in {o.name, NULL} /\ catName' \in Listing
      /\ catName[c] = NULL => catName'[c] = NULL
      /\ \A d \in Ids : d # c => catName'[d] = catName[d]
  BY <1>1, <1>4, <1>7 DEF Listing
<1>9. CategoriesTypeOK'
  BY <1>1, <1>3, <1>5, <1>8 DEF CatInv, CategoriesTypeOK
<1>10. IdsInv'
  BY <1>1, <1>4, <1>6 DEF CatInv, IdsInv, InList
<1>11. WrittenInv'
  BY <1>1, <1>4, <1>6, <1>8 DEF CatInv, WrittenInv
<1>12. DraftsInv'
  BY <1>1, <1>4, <1>6, <1>8 DEF CatInv, DraftsInv, DraftGood, InList
<1>. QED BY <1>9, <1>10, <1>11, <1>12 DEF CatInv

LEMMA ServeDeleteKeeps ==
  ASSUME CatInv, NEW c \in Ids, ServeDelete(c)
  PROVE  CatInv'
<1>1. /\ deletion[c] # NULL /\ deletion[c] \in Mutation
      /\ catName' = [catName EXCEPT ![c] = NULL]
      /\ UNCHANGED <<catIds, editing, draft, isAdding, newName, touched, loose, listed, listing,
                     update, creation>>
  BY DEF ServeDelete, catRows, catQuery, CatInv, CategoriesTypeOK
<1>2. PICK s \in {"ok", "failed"} : deletion' = [deletion EXCEPT ![c].status = s]
  BY DEF ServeDelete
<1>3. PICK o \in Mutation : o = [deletion[c] EXCEPT !.status = s]
  BY <1>1, <1>2 DEF Mutation
<1>4. deletion' \in [Ids -> Mutation \cup {NULL}]
  BY <1>2, <1>3 DEF CatInv, CategoriesTypeOK
<1>5. /\ catName' \in Listing /\ catName'[c] = NULL
      /\ \A d \in Ids : catName'[d] \in {catName[d], NULL}
  BY <1>1 DEF CatInv, CategoriesTypeOK, Listing
<1>6. CategoriesTypeOK'
  BY <1>1, <1>4, <1>5 DEF CatInv, CategoriesTypeOK
<1>7. WrittenInv' /\ DraftsInv'
  BY <1>1, <1>5 DEF CatInv, WrittenInv, DraftsInv, DraftGood, InList
<1>. QED BY <1>1, <1>6, <1>7 DEF CatInv, IdsInv, InList

\* A new row is not the one of an update or of a listing.
LEMMA ServeCreationKeeps ==
  ASSUME CatInv, ServeCreation
  PROVE  CatInv'
<1>1. /\ creation # NULL /\ creation \in Mutation
      /\ UNCHANGED <<editing, draft, isAdding, newName, touched, loose, listed, listing,
                     update, deletion>>
  BY DEF ServeCreation, catRows, catQuery, CatInv, CategoriesTypeOK
<1>2. PICK c \in Ids \ catIds :
        catName' = [catName EXCEPT ![c] = creation.name] /\ catIds' = catIds \cup {c}
  BY DEF ServeCreation
<1>3. PICK s \in {"ok", "failed"} : creation' = [creation EXCEPT !.status = s]
  BY DEF ServeCreation
<1>4. creation' \in Mutation /\ creation.name \in Names
  BY <1>1, <1>3 DEF Mutation
<1>5. /\ catName' \in Listing
      /\ \A d \in Ids : d # c => catName'[d] = catName[d]
  BY <1>2, <1>4 DEF CatInv, CategoriesTypeOK, Listing
<1>6. update[c] = NULL /\ ~InList(c)
  BY <1>2 DEF CatInv, IdsInv
<1>7. CategoriesTypeOK'
  BY <1>1, <1>2, <1>4, <1>5 DEF CatInv, CategoriesTypeOK
<1>8. IdsInv'
  BY <1>1, <1>2 DEF CatInv, IdsInv, InList
<1>9. WrittenInv'
  BY <1>1, <1>5, <1>6 DEF CatInv, WrittenInv
<1>10. DraftsInv'
  <2>. SUFFICES ASSUME NEW d \in Ids, d # c PROVE DraftGood(d)'
    BY <1>1, <1>6 DEF DraftsInv, DraftGood, InList
  <2>. QED BY <1>1, <1>5 DEF CatInv, DraftsInv, DraftGood, InList
<1>. QED BY <1>7, <1>8, <1>9, <1>10 DEF CatInv

\* A mutation ends, and the list is asked for again.
LEMMA UpdateEndsKeeps ==
  ASSUME CatInv, NEW c \in Ids, UpdateEnds(c)
  PROVE  CatInv'
<1>1. /\ update[c] # NULL /\ update[c] \in Mutation /\ update[c].status # "sent"
      /\ update' = [update EXCEPT ![c] = NULL]
      /\ listing' \in {listing, Served} /\ editing' \in {editing, editing \ {c}}
      /\ update[c].status # "ok" => editing' = editing
      /\ UNCHANGED <<catName, catIds, draft, isAdding, newName, touched, loose, listed,
                     deletion, creation>>
  BY DEF UpdateEnds, InvalidateListing, catQuery, CatInv, CategoriesTypeOK
<1>2. update'[c] = NULL /\ \A d \in Ids : d # c => update'[d] = update[d]
  BY <1>1 DEF CatInv, CategoriesTypeOK
<1>3. CategoriesTypeOK'
  BY <1>1 DEF CatInv, CategoriesTypeOK
<1>4. IdsInv'
  BY <1>1, <1>2 DEF CatInv, IdsInv, InList
<1>5. WrittenInv'
  BY <1>1, <1>2 DEF CatInv, WrittenInv
<1>6. DraftsInv'
  <2>1. DraftGood(c)'
    <3>. SUFFICES ASSUME InList(c), c \notin loose, c \notin touched \/ c \notin editing'
                  PROVE  catName[c] \in {draft[c], NULL}
      BY <1>1, <1>2 DEF DraftGood, InList
    <3>1. c \in editing /\ draft[c] = update[c].name /\ (c \notin touched => update[c].untouched)
      BY <1>1 DEF CatInv, DraftsInv, DraftGood
    <3>2. update[c].status = "ok" \/ update[c].untouched
      BY <1>1, <3>1
    <3>. QED BY <1>1, <3>1, <3>2 DEF CatInv, WrittenInv
  <2>2. ASSUME NEW d \in Ids, d # c PROVE DraftGood(d)'
    <3>1. DraftGood(d) /\ (d \in editing' <=> d \in editing)
      BY <1>1, <2>2 DEF CatInv, DraftsInv
    <3>. QED BY <1>1, <1>2, <2>2, <3>1 DEF DraftGood, InList
  <2>. QED BY <2>1, <2>2 DEF DraftsInv
<1>. QED BY <1>3, <1>4, <1>5, <1>6 DEF CatInv

LEMMA OthersEndKeep ==
  ASSUME CatInv, CreationEnds \/ \E c \in Ids : DeleteEnds(c)
  PROVE  CatInv'
<1>1. /\ UNCHANGED <<catName, catIds, editing, draft, touched, loose, listed, update>>
      /\ listing' \in {listing, Served}
      /\ isAdding' \in {isAdding, FALSE} /\ newName' \in {newName, NULL}
      /\ creation' \in {creation, NULL}
      /\ deletion' = deletion \/ \E c \in Ids : deletion' = [deletion EXCEPT ![c] = NULL]
  BY DEF CreationEnds, DeleteEnds, InvalidateListing, catRows, catQuery
<1>2. CategoriesTypeOK'
  BY <1>1 DEF CatInv, CategoriesTypeOK
<1>. QED BY <1>1, <1>2 DEF CatInv, IdsInv, WrittenInv, DraftsInv, DraftGood, InList

LEMMA CatStep ==
  ASSUME CatInv, ScreensInv, CategoriesUser \/ CategoriesProceed
  PROVE  CatInv'
<1>1. CASE CategoriesUser
  BY <1>1, NewCategoryKeeps, EditKeeps, SaveKeeps, CancelKeepsDrafts, DeleteKeeps, TypeNameKeeps
     DEF CategoriesUser
<1>2. CASE CategoriesProceed
  BY <1>2, ServeListingKeeps, ReceiveListingKeeps, ServeCreationKeeps, OthersEndKeep,
     ServeUpdateKeeps, ServeDeleteKeeps, UpdateEndsKeeps
     DEF CategoriesProceed
<1>. QED BY <1>1, <1>2

-----------------------------------------------------------------------------
(***************************************************************************)
(* The voice notes: types.                                                 *)
(***************************************************************************)
LEMMA VoiceStands ==
  ASSUME VoiceTypeOK, voiceOp' = voiceOp \/ voiceOp' = [v \in VoiceOps |-> NULL], VoiceRendered
  PROVE  VoiceTypeOK'
BY DEF VoiceTypeOK, VoiceRendered

LEMMA ClickKeeps ==
  ASSUME VoiceTypeOK, ScreensInv, NEW v \in VoiceOps, Click(v)
  PROVE  VoiceTypeOK'
<1>1. CASE audio
  BY <1>1 DEF Click, VoiceTypeOK
<1>2. CASE ~audio
  <2>1. isLoading' = TRUE /\ audio' = audio
    BY <1>2 DEF Click
  <2>2. PICK p \in Playback :
          voiceOp' = [voiceOp EXCEPT ![v] = [step |-> "fetch", playback |-> p, screen |-> screen]]
    BY <1>2 DEF Click
  <2>3. [step |-> "fetch", playback |-> p, screen |-> screen] \in VoiceOp
    BY <2>2 DEF VoiceOp, ScreensInv
  <2>. QED BY <2>1, <2>2, <2>3 DEF VoiceTypeOK
<1>. QED BY <1>1, <1>2

LEMMA VoiceSteps ==
  ASSUME VoiceTypeOK, NEW v \in VoiceOps, ReceiveVoice(v) \/ PlaybackSettles(v) \/ ClickEnds(v)
  PROVE  VoiceTypeOK'
<1>1. CASE ClickEnds(v)
  BY <1>1 DEF ClickEnds, VoiceTypeOK
<1>2. CASE ReceiveVoice(v) \/ PlaybackSettles(v)
  <2>1. voiceOp[v] # NULL /\ isLoading' = isLoading /\ audio' \in BOOLEAN
    BY <1>2 DEF ReceiveVoice, PlaybackSettles, VoiceAt, VoiceTypeOK
  <2>2. PICK s \in {"play", "ok", "failed"} : voiceOp' = [voiceOp EXCEPT ![v].step = s]
    BY <1>2 DEF ReceiveVoice, PlaybackSettles
  <2>3. voiceOp[v] \in VoiceOp
    BY <2>1 DEF VoiceTypeOK
  <2>4. PICK o \in VoiceOp : o = [voiceOp[v] EXCEPT !.step = s]
    BY <2>2, <2>3 DEF VoiceOp
  <2>5. voiceOp' = [voiceOp EXCEPT ![v] = o]
    BY <2>2, <2>4 DEF VoiceTypeOK
  <2>. QED BY <2>1, <2>4, <2>5 DEF VoiceTypeOK
<1>. QED BY <1>1, <1>2

-----------------------------------------------------------------------------
(***************************************************************************)
(* The parts together.                                                     *)
(***************************************************************************)
SiteInv == ShellInv /\ PushInv /\ CatInv /\ VoiceTypeOK

LEMMA SiteInitially ==
  ASSUME Init
  PROVE  SiteInv
<1>. USE DEF Init
<1>1. StoreInv
  BY DEF SiteInit, StoreInv, SiteTypeOK, EntriesInv, ScreensInv, LoadingInv, Entries,
     InFlight
<1>2. AloneInv
  BY DEF SiteInit, AloneInv, Entries, InFlight
<1>3. PushInv
  <2>1. PressInv /\ SettledInv
    BY DEF PushInit, PressInv, PushInFlight, SettledInv
  <2>2. endpoints \in 0..MaxEndpoints /\ subscription \in 0..endpoints
    BY PushConstants DEF PushInit
  <2>. QED BY <2>1, <2>2 DEF PushInit, PushInv, PushTypeOK
<1>4. CatInv
  BY DEF CategoriesInit, CatInv, CategoriesTypeOK, IdsInv, WrittenInv, DraftsInv,
     DraftGood, InList
<1>5. VoiceTypeOK
  BY DEF VoiceInit, VoiceTypeOK
<1>. QED BY <1>1, <1>2, <1>3, <1>4, <1>5 DEF SiteInv, ShellInv

\* The parts a step leaves to their screens.
LEMMA PartsStand ==
  ASSUME SiteInv, ShellInv', BadgeRendered, SectionRendered, VoiceRendered,
         UNCHANGED <<permission, subscription, endpoints, pushRow, pushOp, settled>>,
         UNCHANGED <<catName, catIds, catCalls, voiceOp>>
  PROVE  SiteInv'
BY PushStands, CatStands, VoiceStands DEF SiteInv

LEMMA ReloadAllKeeps ==
  ASSUME SiteInv, ReloadAll
  PROVE  SiteInv'
<1>1. ShellInv' /\ PushInv' /\ VoiceTypeOK'
  BY ShellStep, PushStands, VoiceStands DEF SiteInv, ReloadAll
<1>2. /\ listed' = NULL /\ listing' = NULL
      /\ update' = [c \in Ids |-> NULL] /\ deletion' = [c \in Ids |-> NULL] /\ creation' = NULL
      /\ editing' = {} /\ draft' = [c \in Ids |-> NULL] /\ touched' = {} /\ loose' = {}
      /\ isAdding' = FALSE /\ newName' = NULL
      /\ UNCHANGED <<catName, catIds>>
  BY DEF ReloadAll
<1>3. CatInv'
  BY <1>2 DEF SiteInv, CatInv, CategoriesTypeOK, IdsInv, WrittenInv, DraftsInv,
     DraftGood, InList
<1>. QED BY <1>1, <1>3 DEF SiteInv

\* An answer that is lost on the way to the session shows nothing new.
LEMMA FaultsKeep ==
  ASSUME SiteInv, SiteFaults, UNCHANGED <<screen, pushVars, catVars, voiceVars>>
  PROVE  SiteInv'
<1>1. UNCHANGED session
  BY DEF SiteFaults, EntryLost, CallLost
<1>2. Rendered
  BY <1>1 DEF Rendered, Screen, session
<1>3. ShellInv'
  BY <1>2, ShellStep DEF SiteInv
<1>. QED
  BY <1>3, PartsStand DEF BadgeRendered, SectionRendered, VoiceRendered, pushVars,
     badge, catVars, catRows, catQuery, catCalls, voiceVars

LEMMA PushStepKeeps ==
  ASSUME SiteInv, PushProceeds \/ \E p \in PushOps : Toggle(p) \/ PushLost(p),
         UNCHANGED <<catVars, voiceVars>>
  PROVE  SiteInv'
<1>1. UNCHANGED <<session, screen, calls>>
  BY DEF PushProceeds, GetBadge, SetBadge, Ask, FetchKey, Subscribe, Store, Get, Remove, Drop,
     ToggleEnds, Toggle, PushLost, siteVars
<1>2. ShellInv'
  BY <1>1, ShellStands DEF SiteInv
<1>3. PushInv'
  BY ReadBadgeKeeps, PressSteps, ToggleEndsKeeps, ToggleKeeps
     DEF SiteInv, ShellInv, StoreInv, PushProceeds
<1>4. CatInv' /\ VoiceTypeOK'
  <2>1. SectionRendered /\ VoiceRendered
    BY <1>1 DEF SectionRendered, VoiceRendered, catVars, voiceVars
  <2>. QED BY <2>1, CatStands, VoiceStands DEF SiteInv, catVars, voiceVars
<1>. QED BY <1>2, <1>3, <1>4 DEF SiteInv

LEMMA CategoriesStepKeeps ==
  ASSUME SiteInv, CategoriesUser \/ CategoriesProceed, UNCHANGED <<pushVars, voiceVars>>
  PROVE  SiteInv'
<1>1. UNCHANGED <<session, screen, calls>>
  BY DEF CategoriesUser, ToggleAdding, Create, TypeNew, Edit, Save, Cancel, Delete,
     TypeName, CategoriesProceed, ServeListing, ReceiveListing, ServeCreation,
     CreationEnds, ServeUpdate, ServeDelete, UpdateEnds, DeleteEnds, siteVars
<1>2. ShellInv'
  BY <1>1, ShellStands DEF SiteInv
<1>3. CatInv'
  BY CatStep DEF SiteInv, ShellInv, StoreInv
<1>4. PushInv' /\ VoiceTypeOK'
  <2>1. BadgeRendered /\ VoiceRendered
    BY <1>1 DEF BadgeRendered, VoiceRendered, pushVars, voiceVars
  <2>. QED BY <2>1, PushStands, VoiceStands DEF SiteInv, pushVars, voiceVars
<1>. QED BY <1>2, <1>3, <1>4 DEF SiteInv

LEMMA VoiceStepKeeps ==
  ASSUME SiteInv, VoiceProceeds \/ \E v \in VoiceOps : Click(v), UNCHANGED <<pushVars, catVars>>
  PROVE  SiteInv'
<1>1. UNCHANGED <<session, screen, calls>>
  BY DEF VoiceProceeds, ReceiveVoice, PlaybackSettles, ClickEnds, Click, siteVars
<1>2. ShellInv'
  BY <1>1, ShellStands DEF SiteInv
<1>3. VoiceTypeOK'
  BY VoiceSteps, ClickKeeps DEF SiteInv, ShellInv, StoreInv, VoiceProceeds
<1>4. PushInv' /\ CatInv'
  <2>1. BadgeRendered /\ SectionRendered
    BY <1>1 DEF BadgeRendered, SectionRendered, pushVars, catVars
  <2>. QED BY <2>1, PushStands, CatStands DEF SiteInv, pushVars, catVars
<1>. QED BY <1>2, <1>3, <1>4 DEF SiteInv

LEMMA SiteStep ==
  ASSUME SiteInv, [Next]_vars
  PROVE  SiteInv'
<1>1. CASE Shell(SiteProceeds) \/ Shell(SiteUser)
  <2>1. ShellInv'
    BY <1>1, ShellStep DEF SiteInv, Shell
  <2>. QED BY <1>1, <2>1, PartsStand DEF Shell
<1>2. CASE UNCHANGED vars
  <2>1. ShellInv'
    BY <1>2, ShellStands DEF SiteInv, vars, siteVars
  <2>. QED
    BY <1>2, <2>1, PartsStand DEF vars, siteVars, BadgeRendered, SectionRendered,
       VoiceRendered, pushVars, badge, catVars, catRows, catQuery, catCalls, voiceVars
<1>. QED
  BY <1>1, <1>2, ReloadAllKeeps, FaultsKeep, PushStepKeeps, CategoriesStepKeeps, VoiceStepKeeps
     DEF Next, Proceed

(***************************************************************************)
(* The session, the presses and the drafts keep what they rest on, for     *)
(* every step of the page, the browser, the backend and the user.          *)
(***************************************************************************)
THEOREM SiteInvariance == Spec => []SiteInv
<1>1. Init => SiteInv
  BY SiteInitially
<1>2. SiteInv /\ [Next]_vars => SiteInv'
  BY SiteStep
<1>. QED BY <1>1, <1>2, PTL DEF Spec

-----------------------------------------------------------------------------
(***************************************************************************)
(* What the page shows is of its type, for any plan: the store, the calls, *)
(* the presses, the rows and drafts of the categories, the voice notes.    *)
(***************************************************************************)
THEOREM SitePagesTyped == Spec => []SitePagesTypeOK
<1>1. SiteInv => SitePagesTypeOK
  BY DEF SiteInv, ShellInv, StoreInv, PushInv, CatInv, SitePagesTypeOK
<1>. QED BY <1>1, SiteInvariance, PTL

(***************************************************************************)
(* The user shown is the row of the token's account, however settings,     *)
(* refreshes, logins and reloads follow one another, unless two overlap or *)
(* an answer is lost: what onSuccess writes back (QuietHoursSection and    *)
(* the others) is what the server has.                                     *)
(***************************************************************************)
THEOREM ProfileKept == Spec => []ProfileFollows
<1>1. SiteInv => ProfileFollows
  <2>. SUFFICES ASSUME ShellInv, status = "authenticated", InFlight = {}, ~tangled
                PROVE  user = [account |-> owner, row |-> profile[owner]]
    BY DEF SiteInv, ProfileFollows
  <2>1. user \in User /\ user.account = owner /\ user.row = profile[owner]
    BY DEF ShellInv, StoreInv, AloneInv
  <2>. QED BY <2>1 DEF User
<1>. QED BY <1>1, SiteInvariance, PTL

(***************************************************************************)
(* The card of the notifications agrees with the server for the account    *)
(* whose last press went through, for any number of presses, subscriptions *)
(* and accounts on the browser (useWebPush.ts with push_service).          *)
(***************************************************************************)
THEOREM BadgeTold == Spec => []BadgeTrue
<1>1. SiteInv => BadgeTrue
  BY DEF SiteInv, PushInv, SettledInv, BadgeTrue
<1>. QED BY <1>1, SiteInvariance, PTL

\* A new row is another one than any that is being updated.
LEMMA SavesKeep ==
  ASSUME SiteInv, [Next]_vars, NEW c \in Ids
  PROVE  KeptBySave(c)
<1>. SUFFICES ASSUME update[c] # NULL, update[c].untouched
              PROVE  catName'[c] \in {catName[c], NULL}
  BY DEF KeptBySave
<1>. USE DEF SiteInv, CatInv
<1>1. catName[c] \in {update[c].name, NULL} /\ c \in catIds /\ catName \in Listing
  BY DEF WrittenInv, IdsInv, CategoriesTypeOK
<1>2. ASSUME NEW d \in Ids, ServeUpdate(d) PROVE catName'[c] \in {catName[c], NULL}
  BY <1>1, <1>2 DEF ServeUpdate, Listing
<1>3. ASSUME NEW d \in Ids, ServeDelete(d) PROVE catName'[c] \in {catName[c], NULL}
  BY <1>1, <1>3 DEF ServeDelete, Listing
<1>4. CASE ServeCreation
  <2>1. PICK d \in Ids \ catIds : catName' = [catName EXCEPT ![d] = creation.name]
    BY <1>4 DEF ServeCreation
  <2>. QED BY <1>1, <2>1 DEF Listing
<1>5. CASE UNCHANGED catName
  BY <1>5
<1>6. CASE CategoriesProceed
  BY <1>2, <1>3, <1>4, <1>5, <1>6 DEF CategoriesProceed, ServeListing, ReceiveListing,
     CreationEnds, UpdateEnds, DeleteEnds
<1>7. CASE CategoriesUser
  BY <1>5, <1>7 DEF CategoriesUser, ToggleAdding, Create, TypeNew, Edit, Save, Cancel,
     Delete, TypeName
<1>. QED
  BY <1>5, <1>6, <1>7 DEF Next, Proceed, Shell, ReloadAll, vars, catVars

(***************************************************************************)
(* Saving a category that was opened and not typed in writes the name it   *)
(* has, for any rows, listings and updates under way (CategoryRow).        *)
(***************************************************************************)
THEOREM UntouchedSaves == Spec => UntouchedSaveKeeps
<1>. DEFINE Step == \A c \in Ids : KeptBySave(c)
<1>1. SiteInv /\ [Next]_vars => Step
  BY SavesKeep
<1>2. UntouchedSaveKeeps <=> [][Step]_<<siteVars, catVars>>
  BY PTL DEF UntouchedSaveKeeps
<1>. HIDE DEF Step
<1>. QED BY <1>1, <1>2, SiteInvariance, PTL DEF Spec

=============================================================================
