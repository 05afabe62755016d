-------------------------- MODULE MCChunkStorage --------------------------
(* Keys and data of ChunkStorage are model values, alike to the code.      *)
EXTENDS ChunkStorage, TLC

CONSTANTS k1, k2, k3, d1, d2

OneData   == {d1}
TwoKeys   == {k1, k2}
ThreeKeys == {k1, k2, k3}
TwoData   == {d1, d2}
Symmetric == Permutations(Keys) \cup Permutations(Data)
=============================================================================
