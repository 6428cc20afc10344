---------------------------- MODULE AccountLinks ----------------------------
(***************************************************************************)
(* What linking promises, whatever codes, requests and messages it takes:  *)
(* an account that has no chat is given one that has no account, and keeps *)
(* it until it is unlinked.  TelegramLink is shown to implement it.        *)
(***************************************************************************)
CONSTANTS Users, Chats, NULL

VARIABLE link           \* the chat of each account, or NULL

Init == link = [u \in Users |-> NULL]

LinkTo(u, c) ==
  /\ link[u] = NULL /\ \A v \in Users : link[v] # c
  /\ link' = [link EXCEPT ![u] = c]

Unlink(u) == link' = [link EXCEPT ![u] = NULL]

Next == \E u \in Users : Unlink(u) \/ \E c \in Chats : LinkTo(u, c)

Spec == Init /\ [][Next]_link
=============================================================================
