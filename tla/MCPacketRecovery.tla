-------------------------- MODULE MCPacketRecovery --------------------------
(* PacketRecovery for TLC: the sequence numbers 0 .. MaxSeq. *)
EXTENDS PacketRecovery

CONSTANT MaxSeq

SeqRange == 0 .. MaxSeq
=============================================================================
