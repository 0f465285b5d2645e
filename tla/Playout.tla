------------------------------- MODULE Playout -------------------------------
(***************************************************************************)
(* What a jitter buffer promises, without slots, counters or priming: a    *)
(* play-out position that only moves forward over the segments it holds.   *)
(* It holds the accepted segments of a window behind the newest one; such  *)
(* a segment leaves only by being played or by falling out of the window.  *)
(* Module JitterBuffer implements this.                                    *)
(***************************************************************************)
EXTENDS Integers

CONSTANTS Window, Segments

VARIABLES
  cursor,  \* last number passed, -1 before the first read
  newest,  \* newest number accepted, -1 before the first
  held,    \* the segments that are going to be played
  result,  \* outcome of the last read
  out      \* segment played last

vars == <<cursor, newest, held, result, out>>

Init ==
  /\ cursor = -1
  /\ newest = -1
  /\ held = {}
  /\ result = "none"
  /\ out = -1

Accept(s) ==
  /\ s > cursor
  /\ s > newest - Window
  /\ s \notin held
  /\ newest' = IF s > newest THEN s ELSE newest
  /\ held' = {t \in held \union {s} : t > newest' - Window}
  /\ UNCHANGED <<cursor, result, out>>

\* s is next in line; only the first read may start anywhere.
IsNext(s) == s = cursor + 1 \/ cursor = -1

\* The oldest held segment is played.
Play(s) ==
  /\ s \in held
  /\ \A t \in held : s <= t
  /\ IsNext(s)
  /\ cursor' = s
  /\ held' = held \ {s}
  /\ result' = "segment"
  /\ out' = s
  /\ UNCHANGED newest

\* A segment that fell out of the window may still be played in its turn.
PlayLate(s) ==
  /\ cursor < s
  /\ s <= newest - Window
  /\ IsNext(s)
  /\ cursor' = s
  /\ result' = "segment"
  /\ out' = s
  /\ UNCHANGED <<newest, held>>

\* Missing numbers are skipped, never a held segment, nor the future.
Gap(c) ==
  /\ cursor < c
  /\ c <= newest
  /\ \A t \in held : c < t
  /\ cursor' = c
  /\ result' = "gap"
  /\ UNCHANGED <<newest, held, out>>

Nothing ==
  /\ result' = "none"
  /\ UNCHANGED <<cursor, newest, held, out>>

Restart ==
  /\ cursor' = -1
  /\ newest' = -1
  /\ held' = {}
  /\ UNCHANGED <<result, out>>

Next ==
  \/ \E s \in Segments : Accept(s) \/ Play(s) \/ PlayLate(s)
  \/ \E c \in cursor + 1 .. newest : Gap(c)
  \/ Nothing
  \/ Restart

Spec == Init /\ [][Next]_vars
==============================================================================
