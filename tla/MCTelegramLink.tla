--------------------------- MODULE MCTelegramLink ---------------------------
(***************************************************************************)
(* Small instances of TelegramLink.                                        *)
(***************************************************************************)
EXTENDS TelegramLink, TLC

\* The behaviours the properties are about, Spec /\ [](RequestsApart /\ ChatsApart).
\* Bound: three of the requests and messages are open at once.
FewOpen ==
  Cardinality({r \in Requests : request[r] # NULL}) + Cardinality({m \in Messages : message[m] # NULL}) <= 3

ApartNext == Next /\ RequestsApart' /\ ChatsApart' /\ FewOpen'
ApartSpec == Init /\ [][ApartNext]_vars

LinkSymmetry == Permutations(Users) \cup Permutations(Chats) \cup Permutations(Codes)
                \cup Permutations(Requests) \cup Permutations(Messages)
=============================================================================
