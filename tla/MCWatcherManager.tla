-------------------------- MODULE MCWatcherManager --------------------------
(* Instances of WatcherManager for TLC. *)
EXTENDS WatcherManager, TLC

Symmetry == Permutations(Calls) \cup Permutations(Admins) \cup Permutations(Routines)
=============================================================================
