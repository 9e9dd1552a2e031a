------------------------- MODULE MCCameraReassembler -------------------------
(* The camera reassembler on a small instance: an image of two chunks and one of *)
(* a single chunk, sequence numbers modulo a small number so that they wrap.      *)
EXTENDS CameraReassembler, TLC

CONSTANTS big, small
BothImages == {big, small}
CountOf == [i \in Images |-> IF i = big THEN 2 ELSE 1]
OfSmall == {<<small, 0>>}
Symmetry == Permutations(Threads)
=============================================================================
