--------------------------- MODULE MCSocketBuffer ---------------------------
(* Small instances of SocketBuffer for TLC. *)
EXTENDS SocketBufferRefinement, TLC

(* Free chunks are interchangeable. *)
ChunkSymmetry == Permutations(Chunks)
=============================================================================
