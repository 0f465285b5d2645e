----------------------------- MODULE MCReceiver -----------------------------
(* Receiver for TLC: two streams, two formats.                              *)
EXTENDS Receiver

CONSTANTS s1, s2

TwoStreams == {s1, s2}
TwoFormats == {"pcm", "opus"}
=============================================================================
