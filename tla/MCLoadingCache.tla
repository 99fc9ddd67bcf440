--------------------------- MODULE MCLoadingCache ---------------------------
(* LoadingCache for TLC: one key, two entry objects so that a key can be     *)
(* dropped and put again while a loader still holds the old entry.           *)
EXTENDS LoadingCache, TLC

Symmetry == Permutations(Callers) \cup Permutations(Loads) \cup Permutations(Entries)
=============================================================================
