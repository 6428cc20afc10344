------------------------------ MODULE WebPush ------------------------------
(***************************************************************************)
(* Notifications of the browser: hooks/useWebPush.ts with the card of the  *)
(* settings page that switches them, and the rows push_service keeps.      *)
(*                                                                         *)
(* The browser holds one subscription for the site, whoever is signed in;  *)
(* the server gives the row of an endpoint to the account that stored it   *)
(* last.  (Sending: ReminderScheduler.  The user who takes the permission  *)
(* back in the browser's own settings is left out.)                        *)
(***************************************************************************)
EXTENDS Site

CONSTANTS
  PushOps,              \* bound: presses of the button in flight
  MaxEndpoints          \* bound: subscriptions the browser makes

VARIABLES
  permission, isSubscribed,   \* useWebPush
  effect,               \* the mount's reading of the browser: due, answered (none
                        \* or held), or set
  subscription,         \* the endpoint the browser holds, or 0
  endpoints,            \* the endpoints it has made
  pushRow,              \* push_subscriptions: the account of an endpoint, or NULL
  pushOp,               \* the presses in flight
  settled               \* history: the account whose press went through, and no other since

badge    == <<isSubscribed, effect>>
pushVars == <<permission, badge, subscription, endpoints, pushRow, pushOp, settled>>

Endpoints == 1..MaxEndpoints

PushOp == [on : BOOLEAN,                \* subscribe, or unsubscribe
           step : {"ask", "key", "subscribe", "store", "get", "remove", "drop", "done", "failed"},
           screen : Nat,                \* where the button was pressed
           endpoint : 0..MaxEndpoints,
           servedFor : Accounts \cup {NULL},  \* history: the account its request was served for
           alone : BOOLEAN]             \* no other press in flight

ASSUME PushConstants == MaxEndpoints \in Nat

PushTypeOK ==
  /\ permission \in {"default", "granted", "denied"}
  /\ isSubscribed \in BOOLEAN /\ effect \in {"due", "none", "held", "set"}
  /\ endpoints \in 0..MaxEndpoints /\ subscription \in 0..endpoints
  /\ pushRow \in [Endpoints -> Accounts \cup {NULL}]
  /\ pushOp \in [PushOps -> PushOp \cup {NULL}]
  /\ settled \in Accounts \cup {NULL}

PushInFlight == {p \in PushOps : pushOp[p] # NULL}

\* The account a request is served for: authorizedRequest falls back on the cookie.
Sender == IF owner # NULL THEN owner ELSE cookie

\* The hook is mounted with its screen.
BadgeRendered ==
  IF screen' = screen THEN UNCHANGED badge ELSE isSubscribed' = FALSE /\ effect' = "due"

\* The effect of the mount: getSubscription answers, ...
GetBadge ==
  /\ OnSettings /\ effect = "due"
  /\ effect' = IF subscription = 0 THEN "none" ELSE "held"
  /\ UNCHANGED <<siteVars, permission, isSubscribed, subscription, endpoints>>
  /\ UNCHANGED <<pushRow, pushOp, settled>>

\* ... and the state is set afterwards; the button does not wait for it.
SetBadge ==
  /\ OnSettings /\ effect \in {"none", "held"}
  /\ isSubscribed' = (effect = "held") /\ effect' = "set"
  /\ UNCHANGED <<siteVars, permission, subscription, endpoints, pushRow, pushOp, settled>>

\* handleToggle; the button is there unless the permission was denied, and
\* disabled while isLoading.
Toggle(p) ==
  /\ Act("push")
  /\ OnSettings /\ permission # "denied" /\ pushOp[p] = NULL
  /\ \A o \in PushInFlight : pushOp[o].screen # screen
  /\ pushOp' = [o \in PushOps |->
       IF o = p THEN [on |-> ~isSubscribed, step |-> IF isSubscribed THEN "get" ELSE "ask",
                      screen |-> screen, endpoint |-> 0, servedFor |-> owner,
                      alone |-> PushInFlight = {}]
       ELSE IF pushOp[o] = NULL THEN NULL ELSE [pushOp[o] EXCEPT !.alone = FALSE]]
  /\ settled' = NULL
  /\ UNCHANGED <<session, screen, calls, permission, badge, subscription, endpoints, pushRow>>

At(p, step) == pushOp[p] # NULL /\ pushOp[p].step = step

GoesTo(p, step) == pushOp' = [pushOp EXCEPT ![p].step = step]

\* A request of the press is served.
ServedAs(p, step) == pushOp' = [pushOp EXCEPT ![p].step = step, ![p].servedFor = Sender]

\* Notification.requestPermission.  Unless it is granted, subscribe returns
\* early and the card says all the same that notifications are on.
Ask(p) ==
  /\ At(p, "ask")
  /\ permission' \in (IF permission = "default" THEN {"default", "granted", "denied"} ELSE {permission})
  /\ pushOp' = [pushOp EXCEPT ![p] = IF permission' = "granted" THEN [@ EXCEPT !.step = "key"] ELSE NULL]
  /\ UNCHANGED <<siteVars, badge, subscription, endpoints, pushRow, settled>>

FetchKey(p) ==
  /\ At(p, "key")
  /\ GoesTo(p, "subscribe")
  /\ UNCHANGED <<siteVars, permission, badge, subscription, endpoints, pushRow, settled>>

\* pushManager.subscribe: the subscription there is, or a new one.
Subscribe(p) ==
  /\ At(p, "subscribe")
  /\ \/ subscription # 0 /\ UNCHANGED <<subscription, endpoints>>
     \/ /\ subscription = 0 /\ endpoints < MaxEndpoints
        /\ endpoints' = endpoints + 1 /\ subscription' = endpoints'
  /\ pushOp' = [pushOp EXCEPT ![p].step = "store", ![p].endpoint = subscription']
  /\ UNCHANGED <<siteVars, permission, badge, pushRow, settled>>

\* upsert_subscription: a row of another account becomes this one's.
Store(p) ==
  /\ At(p, "store")
  /\ IF Sender = NULL THEN GoesTo(p, "failed") /\ UNCHANGED pushRow
     ELSE /\ ServedAs(p, "done")
          /\ pushRow' = [pushRow EXCEPT ![pushOp[p].endpoint] = Sender]
  /\ UNCHANGED <<siteVars, permission, badge, subscription, endpoints, settled>>

\* getSubscription, before anything is removed.
Get(p) ==
  /\ At(p, "get")
  /\ pushOp' = [pushOp EXCEPT ![p].step = IF subscription = 0 THEN "done" ELSE "remove",
                              ![p].endpoint = subscription]
  /\ UNCHANGED <<siteVars, permission, badge, subscription, endpoints, pushRow, settled>>

\* remove_subscription: the row, if it is this account's.
Remove(p) ==
  /\ At(p, "remove")
  /\ IF Sender = NULL THEN GoesTo(p, "failed") /\ UNCHANGED pushRow
     ELSE /\ ServedAs(p, "drop")
          /\ pushRow' = [pushRow EXCEPT ![pushOp[p].endpoint] = IF @ = Sender THEN NULL ELSE @]
  /\ UNCHANGED <<siteVars, permission, badge, subscription, endpoints, settled>>

\* Mutant: only the server forgets the subscription.
DropRowOnly(p) ==
  /\ At(p, "drop")
  /\ GoesTo(p, "done")
  /\ UNCHANGED <<siteVars, permission, badge, subscription, endpoints, pushRow, settled>>

\* subscription.unsubscribe.
Drop(p) ==
  /\ At(p, "drop")
  /\ subscription' = IF subscription = pushOp[p].endpoint THEN 0 ELSE subscription
  /\ GoesTo(p, "done")
  /\ UNCHANGED <<siteVars, permission, badge, endpoints, pushRow, settled>>

\* setIsSubscribed and the end of isLoading, on the screen of the press; the
\* catch of handleToggle shows a toast.
ToggleEnds(p) ==
  LET o == pushOp[p] IN
  /\ o # NULL /\ o.step \in {"done", "failed"}
  /\ pushOp' = [pushOp EXCEPT ![p] = NULL]
  /\ isSubscribed' = IF o.step = "done" /\ o.screen = screen THEN o.on ELSE isSubscribed
  /\ settled' = IF /\ o.step = "done" /\ o.alone
                    /\ o.screen = screen /\ o.servedFor = owner
                    /\ effect # IF o.on THEN "none" ELSE "held"
                 THEN owner ELSE settled
  /\ UNCHANGED <<siteVars, permission, effect, subscription, endpoints, pushRow>>

\* A request or its answer is lost, or subscribe itself throws.
PushLost(p) ==
  /\ Fault
  /\ pushOp[p] # NULL /\ pushOp[p].step \in {"key", "subscribe", "store", "remove"}
  /\ \/ GoesTo(p, "failed") /\ UNCHANGED pushRow
     \/ At(p, "store") /\ GoesTo(p, "failed") /\ Sender # NULL
        /\ pushRow' = [pushRow EXCEPT ![pushOp[p].endpoint] = Sender]
  /\ UNCHANGED <<session, screen, calls, permission, badge, subscription, endpoints, settled>>

-----------------------------------------------------------------------------
PushInit ==
  /\ permission \in {"default", "granted"} /\ isSubscribed = FALSE /\ effect = "due"
  /\ subscription = 0 /\ endpoints = 0
  /\ pushRow = [e \in Endpoints |-> NULL] /\ pushOp = [p \in PushOps |-> NULL]
  /\ settled = NULL

PushProceeds ==
  \/ GetBadge \/ SetBadge
  \/ \E p \in PushOps :
       Ask(p) \/ FetchKey(p) \/ Subscribe(p) \/ Store(p) \/ Get(p) \/ Remove(p) \/ Drop(p) \/ ToggleEnds(p)

-----------------------------------------------------------------------------
(***************************************************************************)
(* The card tells the truth: an account whose last press went through      *)
(* alone, on this browser, sees "connected" if and only if the server has  *)
(* the browser's subscription under this account, after whatever           *)
(* navigation, reload, logout and login.  The badge is read from the       *)
(* browser only (the effect of useWebPush.ts), so the two must be written  *)
(* together; they part where a request fails, where two presses overlap,   *)
(* for another account on the same browser, where the late answer of a     *)
(* setting puts another account in the store during the press, and where   *)
(* the press overtakes the reading of the mount, whose older answer is     *)
(* then set over it.                                                       *)
(***************************************************************************)
BadgeTrue ==
  OnSettings /\ effect = "set" /\ PushInFlight = {} /\ settled # NULL /\ settled = owner =>
    (isSubscribed <=> subscription # 0 /\ pushRow[subscription] = owner)
=============================================================================
