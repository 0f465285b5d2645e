----------------------------- MODULE Statistics -----------------------------
(***************************************************************************)
(* The statistics of one source line: BufferStatsTracker counts what the   *)
(* jitter buffer stores, and postProcessing() computes the gaps from it,   *)
(* which xrunCount() reports, and asks for the recent quality to decide    *)
(* whether resends are worth asking for and whether the line is kept.      *)
(*                                                                         *)
(* The module extends JitterBuffer, so that exactly the segments are       *)
(* counted which the buffer accepts; what belongs to both has the prefix   *)
(* Stats.  A quality is a pair of segments received and expected.          *)
(***************************************************************************)
EXTENDS JitterBuffer

CONSTANTS
  quality_window_,     \* numbers per window
  min_quality_window_, \* numbers that make a window count
  MaxReceived          \* bound on the number of segments counted

ASSUME WindowsAssumption ==
  /\ quality_window_ \in Nat \ {0, 1}
  /\ min_quality_window_ \in 1 .. quality_window_
  /\ MaxReceived \in Nat

VARIABLES
  min_seq, max_seq, total_received,         \* stats_
  total_gaps,                               \* stats_, as of the last updateStats()
  window_first_, window_max_, window_received_, previous,
  counted,   \* history: the segments counted since the line or the last reset
  again,     \* history: was the line set up again since then?
  gap_end    \* history: the newest number that arrived without the one before

stats_ == <<min_seq, max_seq, total_received, total_gaps>>
window == <<window_first_, window_max_, window_received_, previous>>
tracker == <<stats_, window, counted, again, gap_end>>
line_vars == <<vars, tracker>>

Full == [received |-> 1, expected |-> 1]

ResetTracker ==
  /\ min_seq' = -1 /\ max_seq' = -1 /\ total_received' = 0 /\ total_gaps' = 0
  /\ window_first_' = -1 /\ window_max_' = -1 /\ window_received_' = 0
  /\ previous' = Full
  /\ counted' = {} /\ again' = FALSE /\ gap_end' = -1

StatsInit ==
  /\ Init
  /\ min_seq = -1 /\ max_seq = -1 /\ total_received = 0 /\ total_gaps = 0
  /\ window_first_ = -1 /\ window_max_ = -1 /\ window_received_ = 0
  /\ previous = Full
  /\ counted = {} /\ again = FALSE /\ gap_end = -1

-----------------------------------------------------------------------------

updateWindow_CountsOld(seq) ==
  LET first == IF window_first_ < 0 THEN seq ELSE window_first_
      max == IF window_first_ < 0 \/ seq > window_max_ THEN seq ELSE window_max_
      expected == max - first + 1
      this == [received |-> window_received_ + 1, expected |-> expected]
  IN IF expected >= quality_window_
       THEN /\ previous' = this
            /\ window_first_' = max + 1 /\ window_max_' = max
            /\ window_received_' = 0
       ELSE /\ window_received_' = this.received
            /\ window_first_' = first /\ window_max_' = max
            /\ UNCHANGED previous

updateWindow_NeverCloses(seq) ==
  /\ window_first_' = IF window_first_ < 0 THEN seq ELSE window_first_
  /\ window_max_' = IF window_first_ < 0 \/ seq > window_max_ THEN seq ELSE window_max_
  /\ window_received_' = window_received_ + (IF seq < window_first_ THEN 0 ELSE 1)
  /\ UNCHANGED previous

\* A number before the window belongs to a previous one.  A complete window
\* becomes the previous one.
updateWindow(seq) ==
  LET first == IF window_first_ < 0 THEN seq ELSE window_first_
      max == IF window_first_ < 0 \/ seq > window_max_ THEN seq ELSE window_max_
      expected == max - first + 1
      this == [received |-> window_received_ + 1, expected |-> expected]
  IN IF seq < first THEN UNCHANGED window
     ELSE IF expected >= quality_window_
       THEN /\ previous' = this
            /\ window_first_' = max + 1 /\ window_max_' = max
            /\ window_received_' = 0
       ELSE /\ window_received_' = this.received
            /\ window_first_' = first /\ window_max_' = max
            /\ UNCHANGED previous

received(seq) ==
  /\ total_received' = total_received + 1
  /\ min_seq' = IF min_seq < 0 \/ seq < min_seq THEN seq ELSE min_seq
  /\ max_seq' = IF seq > max_seq THEN seq ELSE max_seq
  /\ updateWindow(seq)
  /\ counted' = counted \union {seq}
  /\ gap_end' = IF seq > max_seq + 1 \/ max_seq < 0 THEN seq ELSE gap_end
  /\ UNCHANGED <<total_gaps, again>>

\* recentQualityPercent(): of the current window, or as long as it is short,
\* of the one before.
recentQuality ==
  LET expected == window_max_ - window_first_ + 1 IN
  IF window_first_ >= 0 /\ expected >= min_quality_window_
    THEN [received |-> window_received_, expected |-> expected]
    ELSE previous

storeEncodedData(seq) ==
  /\ total_received < MaxReceived
  /\ Store(seq)
  /\ received(seq)

readSegment == Read /\ UNCHANGED tracker

\* begin() for another format empties the buffer; the tracker goes on.
begin ==
  /\ Restart
  /\ again' = TRUE
  /\ UNCHANGED <<stats_, window, counted, gap_end>>

\* Without a segment there is nothing to compute.
updateStats ==
  /\ total_gaps' = IF max_seq >= 0 /\ min_seq >= 0
                     THEN max_seq - min_seq + 1 - total_received
                     ELSE total_gaps
  /\ UNCHANGED <<vars, min_seq, max_seq, total_received, window, counted, again,
                 gap_end>>

resetXrunCount == ResetTracker /\ UNCHANGED vars

StatsNext ==
  \/ \E seq \in Segments : storeEncodedData(seq)
  \/ readSegment
  \/ begin
  \/ updateStats
  \/ resetXrunCount

StatsSpec == StatsInit /\ [][StatsNext]_line_vars

-----------------------------------------------------------------------------
(* Properties *)

\* The gaps that xrunCount() sums up are the segments that are missing between
\* the oldest and the newest one, whatever came twice, late or too late.  A
\* line that was set up again counts a segment that comes again a second time.
GapsAreLosses ==
  [][updateStats /\ ~again =>
       total_gaps' = Cardinality({n \in min_seq .. max_seq : n \notin counted})]_line_vars

\* A quality is a percentage: no window counts more segments than it has
\* numbers, also when late segments arrive after it was closed, as long as the
\* line was not set up again.
QualityIsAShare == ~again => recentQuality.received <= recentQuality.expected

\* "a loss early in the stream does not keep this value low for a long time"
\* (recentQualityPercent): one window and a minimal one later the quality of a
\* stream that lost nothing more, and came in order, is full again; also when
\* the line was set up again in between.
RecoversFromLoss ==
  max_seq - gap_end >= quality_window_ + min_quality_window_ - 2
    /\ gap_end .. max_seq \subseteq counted
  => recentQuality.received >= recentQuality.expected
=============================================================================
