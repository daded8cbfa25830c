---------------------------- MODULE MCRingBuffer ----------------------------
(* A three-byte buffer shared by two goroutines; chunks shorter than, equal *)
(* to and longer than the capacity, with distinguishable bytes.             *)
EXTENDS RingBuffer

MCChunks == {<<1>>, <<1, 2>>, <<2, 1, 2, 1, 1>>}
=============================================================================
