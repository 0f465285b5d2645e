--------------------------- MODULE MCDecodeQueue ----------------------------
(* DecodeQueue for TLC: segments of every size, up to more than the queue   *)
(* holds.                                                                   *)
EXTENDS DecodeQueue

AnySize == {0, 1, 2, 3, 7}
Reads == {1, 2, 3, 6}
=============================================================================
