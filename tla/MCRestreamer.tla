---------------------------- MODULE MCRestreamer ----------------------------
(* Small instances of Restreamer: connections and goroutine slots are         *)
(* interchangeable.                                                           *)
EXTENDS Restreamer, TLC

Symmetry == Permutations(Conns) \cup Permutations(Streams)
=============================================================================
