---------------------------- MODULE MCTaskCache ----------------------------
(***************************************************************************)
(* Small instances of TaskCache.                                           *)
(***************************************************************************)
EXTENDS TaskCache, TLC

CacheSymmetry == Permutations(Tasks) \cup Permutations(Slots)
=============================================================================
