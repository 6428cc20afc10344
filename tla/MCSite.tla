------------------------------- MODULE MCSite -------------------------------
(***************************************************************************)
(* A small instance of SitePages: two accounts, and one part of the site   *)
(* used in each behaviour, but for a setting answered during a press.      *)
(***************************************************************************)
EXTENDS SitePages

CONSTANTS Me, Old, Name

Plan(budget) == [a \in Acts |-> IF a \in DOMAIN budget THEN budget[a] ELSE 0]

ShortPlans ==
  {Plan(b) : b \in {[session |-> 1, go |-> 1, reload |-> 1, profile |-> 2, fault |-> 1],
                    [session |-> 2, profile |-> 1, fault |-> 2],
                    [session |-> 2, go |-> 1, push |-> 2, fault |-> 1],
                    [go |-> 2, reload |-> 1, push |-> 2, fault |-> 1],
                    [session |-> 2, go |-> 1, profile |-> 1, push |-> 1],
                    [go |-> 2, categories |-> 5, fault |-> 1],
                    [go |-> 1, reload |-> 1, categories |-> 2, fault |-> 1],
                    [go |-> 2, reload |-> 1, voice |-> 2]}}

\* The parts that are not used start in one way, and the first account and the
\* first category stand for either.
MCInit ==
  /\ Init
  /\ cookie \in {NULL, Me} /\ registered \in {{}, {Me}, Accounts}
  /\ plan["session"] = 0 => cookie = Me /\ registered = {Me} /\ path = "settings"
  /\ plan["push"] = 0 => permission = "granted"
  /\ catName = [c \in Ids |-> IF c = Old /\ plan["categories"] > 0 THEN Name ELSE NULL]

MCSpec == MCInit /\ [][Next]_vars
MCFairSpec == MCSpec /\ WF_vars(Proceed)
=============================================================================
