--------------------------- MODULE MCJitterBuffer ---------------------------
(* JitterBuffer for TLC: the sequence numbers 0 .. MaxSeq. *)
EXTENDS JitterBuffer

CONSTANT MaxSeq

SeqRange == 0 .. MaxSeq
=============================================================================
