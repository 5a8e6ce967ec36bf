------------------------------ MODULE MCCpuPool ------------------------------
(* Small pools for CpuPool: kinds and sizes of the jobs of each run.       *)
EXTENDS CpuPool, TLC

CONSTANTS w1, w2, j1, j2, j3, j4

WorkerSymmetry == Permutations({w1, w2})

KindMixed == (j1 :> "Section") @@ (j2 :> "DecodeChunk") @@ (j3 :> "Lighting")
             @@ (j4 :> "DecodeChunk")
KindTwo == (j1 :> "Section") @@ (j2 :> "Packet")

SizeMixed == (j1 :> 1) @@ (j2 :> 1) @@ (j3 :> 2) @@ (j4 :> 3)
SizeTwo == (j1 :> 1) @@ (j2 :> 1)
OneEach == (j1 :> 1) @@ (j2 :> 1) @@ (j3 :> 1) @@ (j4 :> 1)
Residents == ("DecodeChunk" :> 1) @@ ("Lighting" :> 1)
=============================================================================
