---------------------------- MODULE MCClockSync -----------------------------
(* Small clocks for TLC *)
EXTENDS ClockSync

\* Two sinks: the timetags of one are behind the sender's and wrap around one
\* step later; those of the other are ahead, and its micros() starts again last.
Two == {"a", "b"}
Different == [s \in Two |-> IF s = "a" THEN -40 ELSE 200]
Periods == [s \in Two |-> IF s = "a" THEN 4096 ELSE 265]
=============================================================================
