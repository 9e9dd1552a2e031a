---------------------------- MODULE MCDedupCache ----------------------------
(* The dedup cache on a small instance: the two handler threads and a third     *)
(* caller, more identifiers than the cache holds, a clock that outlives two     *)
(* windows.                                                                     *)
EXTENDS DedupCache, TLC

Symmetry == Permutations(Callers) \cup Permutations(CacheIds)
=============================================================================
