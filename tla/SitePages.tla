----------------------------- MODULE SitePages ------------------------------
(***************************************************************************)
(* The site with the parts of its pages that outlive neither their screen  *)
(* nor a reload: the switch of the notifications, the categories and the   *)
(* voice notes, beside the session they run in.                            *)
(***************************************************************************)
EXTENDS WebPush, Categories, VoiceNote

vars == <<siteVars, pushVars, catVars, voiceVars>>

\* A step of the session; what is on the screen follows it.
Shell(A) ==
  /\ A /\ Rendered
  /\ BadgeRendered /\ SectionRendered /\ VoiceRendered
  /\ UNCHANGED <<permission, subscription, endpoints, pushRow, pushOp, settled>>
  /\ UNCHANGED <<catName, catIds, catCalls, voiceOp>>

\* A reload drops the cache of the queries and what was under way, too.
ReloadAll ==
  /\ Reload /\ Rendered /\ BadgeRendered /\ VoiceRendered
  /\ pushOp' = [p \in PushOps |-> NULL]
  /\ listed' = NULL /\ listing' = NULL
  /\ update' = [c \in Ids |-> NULL] /\ deletion' = [c \in Ids |-> NULL] /\ creation' = NULL
  /\ editing' = {} /\ draft' = [c \in Ids |-> NULL] /\ touched' = {} /\ loose' = {}
  /\ isAdding' = FALSE /\ newName' = NULL
  /\ voiceOp' = [v \in VoiceOps |-> NULL]
  /\ UNCHANGED <<permission, subscription, endpoints, pushRow, settled, catName, catIds>>

Init == SiteInit /\ PushInit /\ CategoriesInit /\ VoiceInit

\* What the page, the browser and the backend do on their own.
Proceed ==
  \/ Shell(SiteProceeds)
  \/ PushProceeds /\ UNCHANGED <<catVars, voiceVars>>
  \/ CategoriesProceed /\ UNCHANGED <<pushVars, voiceVars>>
  \/ VoiceProceeds /\ UNCHANGED <<pushVars, catVars>>

Next ==
  \/ Proceed
  \/ Shell(SiteUser) \/ ReloadAll
  \/ SiteFaults /\ UNCHANGED <<screen, pushVars, catVars, voiceVars>>
  \/ (\E p \in PushOps : Toggle(p) \/ PushLost(p)) /\ UNCHANGED <<catVars, voiceVars>>
  \/ CategoriesUser /\ UNCHANGED <<pushVars, voiceVars>>
  \/ (\E v \in VoiceOps : Click(v)) /\ UNCHANGED <<pushVars, catVars>>

Spec == Init /\ [][Next]_vars

\* Every request is answered or fails, timers fire, and a component that is due
\* is rendered: each step of Proceed uses up one of them.
FairSpec == Spec /\ WF_vars(Proceed)

SitePagesTypeOK == SiteTypeOK /\ PushTypeOK /\ CategoriesTypeOK /\ VoiceTypeOK

-----------------------------------------------------------------------------
(***************************************************************************)
(* The loading screen goes away: the silent sign-in ends in a session or   *)
(* at the login form, whatever is lost on the way ("so a page reload       *)
(* doesn't force a re-login", and the catch of useAuthBootstrap.ts).       *)
(***************************************************************************)
LoadingEnds == status = "loading" ~> status # "loading"

(***************************************************************************)
(* The account in the store is that of the token, and the user shown is    *)
(* the row the server has: no answer to a setting takes the page back to   *)
(* an earlier user or to another account's, across refreshes and logins.   *)
(* It may after calls that overlapped one another, a login or a logout,    *)
(* and after one whose answer was lost.                                    *)
(***************************************************************************)
ProfileFollows ==
  status = "authenticated" /\ InFlight = {} /\ ~tangled =>
    user = [account |-> owner, row |-> profile[owner]]
=============================================================================
