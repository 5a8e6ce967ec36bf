---------------------------- MODULE MCChunkSender ----------------------------
(* A small player for ChunkSender: two positions seen from either side.    *)
EXTENDS ChunkSender, TLC

CONSTANTS p1, p2

WestEast == {(p1 :> 0) @@ (p2 :> 1), (p1 :> 1) @@ (p2 :> 0)}

Sizes == (p1 :> 1) @@ (p2 :> 2)
=============================================================================
