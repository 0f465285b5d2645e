--------------------------- MODULE MCReceiverTask ---------------------------
(* ReceiverTask for TLC: the sequence numbers 0 .. MaxSeq. *)
EXTENDS ReceiverTask

CONSTANT MaxSeq

SeqRange == 0 .. MaxSeq
=============================================================================
