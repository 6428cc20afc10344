---------------------------- MODULE MCTaskPages -----------------------------
(***************************************************************************)
(* A small instance of TaskPages: two tasks, pages of one row, and a text  *)
(* that finds one of the tasks.                                            *)
(***************************************************************************)
EXTENDS TaskPages

CONSTANTS One, Other, Word

FindsOne == [x \in Texts |-> IF x = Blank THEN Tasks ELSE {One}]
=============================================================================
