---------------------------- MODULE MCStatistics ----------------------------
(* Statistics for TLC: more numbers than a window and a minimal one.        *)
EXTENDS Statistics

Numbers == 0 .. 5
=============================================================================
