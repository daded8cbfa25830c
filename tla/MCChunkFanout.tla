--------------------------- MODULE MCChunkFanout ---------------------------
(* Instances of ChunkFanout for TLC. *)
EXTENDS ChunkFanout, TLC

Symmetry == Permutations(Clients) \cup Permutations(Chunks) \cup Permutations(Feeders)
=============================================================================
