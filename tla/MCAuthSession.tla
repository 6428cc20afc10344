--------------------------- MODULE MCAuthSession ---------------------------
(***************************************************************************)
(* Small instances of AuthSession.                                         *)
(***************************************************************************)
EXTENDS AuthSession, TLC

SessionSymmetry == Permutations(Jtis) \cup Permutations(Browsers) \cup Permutations(Calls)
=============================================================================
