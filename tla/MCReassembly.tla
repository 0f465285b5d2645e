---------------------------- MODULE MCReassembly ----------------------------
(* Reassembly for TLC: a block of one frame, blocks of two, two and five     *)
(* frames whose last frame is short, full and of one byte, the longest of    *)
(* the biggest size that is assembled, and one that is too big.              *)
EXTENDS Reassembly

Sizes == <<3, 5, 8, 17, 18>>
SizeOf == [b \in 1 .. 5 |-> Sizes[b]]
BlockRange == 1 .. 5
=============================================================================
