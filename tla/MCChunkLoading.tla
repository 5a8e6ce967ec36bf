--------------------------- MODULE MCChunkLoading ---------------------------
(* Small owners for ChunkLoading.                                          *)
EXTENDS ChunkLoading, TLC

CONSTANTS a1, a2, r1, r2

Symmetries == Permutations({a1, a2}) \cup Permutations({r1, r2})

OneDraft == {[rows |-> 1, bytes |-> 1]}
TwoDrafts == {[rows |-> 1, bytes |-> 2], [rows |-> 2, bytes |-> 1]}
=============================================================================
