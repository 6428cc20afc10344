--------------------------- MODULE MCBotDialogue ---------------------------
(***************************************************************************)
(* Small instances of BotDialogue: titles tell the drafts apart.           *)
(***************************************************************************)
EXTENDS BotDialogue, TLC

CONSTANTS Titles, AnyOther

OnlyTitlesDiffer == [q \in Question |-> IF q = "title" THEN Titles ELSE {AnyOther}]

BotSymmetry ==
  Permutations(Handlers) \cup Permutations(Tasks) \cup
  Permutations(Recordings) \cup Permutations(Titles)
=============================================================================
