-------------------------- MODULE StatisticsProofs --------------------------
(***************************************************************************)
(* Proofs about the Statistics of what a JitterBuffer accepts, for every   *)
(* length of the quality window from two.                                  *)
(***************************************************************************)
EXTENDS Statistics, JitterBufferProofs

USE SizeAssumption, SegmentsAssumption

-----------------------------------------------------------------------------
(* The inductive invariant *)

USE WindowsAssumption

StatsTypeOK ==
  /\ min_seq \in Int /\ max_seq \in Int
  /\ total_received \in Nat /\ total_gaps \in Int
  /\ window_first_ \in Int /\ window_max_ \in Int /\ window_received_ \in Nat
  /\ previous \in [received : Nat, expected : Nat]
  /\ counted \in SUBSET Segments /\ again \in BOOLEAN /\ gap_end \in Int

\* Where the statistics stand: the window is the end of what was counted, and
\* shorter than a complete one.
Extent ==
  /\ max_seq >= -1
  /\ window_max_ = max_seq
  /\ max_seq < 0 => /\ counted = {}
                    /\ min_seq = -1 /\ window_first_ = -1 /\ gap_end = -1
  /\ max_seq >= 0 => /\ min_seq \in counted /\ max_seq \in counted
                     /\ window_first_ >= 0 /\ window_first_ <= max_seq + 1
                     /\ max_seq - window_first_ + 1 < quality_window_
                     /\ gap_end >= 0 /\ gap_end <= max_seq
  /\ \A c \in counted : min_seq <= c /\ c <= max_seq

\* Nothing is missing since gap_end.
NoGapSince == \A n \in Nat : gap_end <= n /\ n <= max_seq => n \in counted

\* What the buffer accepts has not been counted, unless the buffer was emptied
\* since.
CountedIsStored ==
  /\ IsFiniteSet(counted)
  /\ ~again => counted \subseteq stored /\ total_received = Cardinality(counted)

InWindow == {c \in counted : c >= window_first_}

\* The window has counted each of its numbers; late segments belong to windows
\* before, so they do not count here.
WindowCounts ==
  /\ window_received_ >= Cardinality(InWindow)
  /\ ~again => window_received_ = Cardinality(InWindow)

PreviousIsShare == ~again => previous.received <= previous.expected

\* A window closes complete when nothing is missing in it.
PreviousIsFull ==
  gap_end + quality_window_ <= window_first_ => previous.received >= previous.expected

StatsIInv ==
  /\ StatsTypeOK
  /\ Extent
  /\ NoGapSince
  /\ CountedIsStored
  /\ WindowCounts
  /\ PreviousIsShare
  /\ PreviousIsFull

\* A line without a window yet has a full quality.
LEMMA FullIsQuality ==
  Full \in [received : Nat, expected : Nat] /\ Full.received = Full.expected
BY DEF Full

\* Before the first segment, or after resetXrunCount().
Fresh ==
  /\ min_seq = -1 /\ max_seq = -1 /\ total_received = 0 /\ total_gaps = 0
  /\ window_first_ = -1 /\ window_max_ = -1 /\ window_received_ = 0
  /\ previous = Full
  /\ counted = {} /\ again = FALSE /\ gap_end = -1

\* Both begin in order.
LEMMA FreshInv == Fresh => StatsIInv
<1> SUFFICES ASSUME Fresh PROVE StatsIInv
  OBVIOUS
<1> USE FullIsQuality DEF Fresh
<1>1. again \in BOOLEAN /\ counted \in SUBSET Segments
  OBVIOUS
<1>2. StatsTypeOK
  BY <1>1 DEF StatsTypeOK
<1>3. Extent /\ NoGapSince
  BY DEF Extent, NoGapSince
<1>4. InWindow = {}
  BY DEF InWindow
<1>5. CountedIsStored /\ WindowCounts
  BY <1>4, FS_EmptySet DEF CountedIsStored, WindowCounts
<1>6. PreviousIsShare /\ PreviousIsFull
  BY DEF PreviousIsShare, PreviousIsFull
<1> QED BY <1>2, <1>3, <1>5, <1>6 DEF StatsIInv

\* The arithmetic facts of the constants.
LEMMA WindowConstants ==
  /\ quality_window_ \in Nat /\ quality_window_ > 1
  /\ min_quality_window_ \in Nat /\ min_quality_window_ >= 1
  /\ min_quality_window_ <= quality_window_
OBVIOUS

\* A window holds no more numbers than it is long.
LEMMA WindowBound ==
  ASSUME NEW first \in Int, NEW max \in Int, NEW T \in SUBSET Int,
         first <= max + 1, \A t \in T : first <= t /\ t <= max
  PROVE  IsFiniteSet(T) /\ Cardinality(T) \in Nat /\ Cardinality(T) <= max - first + 1
<1>1. T \in SUBSET (first .. max)
  OBVIOUS
<1>2. IsFiniteSet(first .. max) /\ Cardinality(first .. max) = max - first + 1
  BY FS_Interval
<1> QED BY <1>1, <1>2, FS_Subset, FS_CardinalityType

\* And as many when it holds them all.
LEMMA WindowFull ==
  ASSUME NEW first \in Int, NEW max \in Int, NEW T, IsFiniteSet(T),
         first <= max + 1, first .. max \subseteq T
  PROVE  Cardinality(T) \in Nat /\ Cardinality(T) >= max - first + 1
<1>2. IsFiniteSet(first .. max) /\ Cardinality(first .. max) = max - first + 1
  BY FS_Interval
<1>3. (first .. max) \in SUBSET T
  OBVIOUS
<1>4. Cardinality(first .. max) <= Cardinality(T)
  BY <1>3, FS_Subset
<1> QED BY <1>2, <1>4, FS_CardinalityType

\* The first number of the window once seq has come.
First(seq) == IF max_seq < 0 THEN seq ELSE window_first_

IsOld(seq) ==
  /\ max_seq >= 0 /\ seq < window_first_
  /\ window_first_' = window_first_ /\ window_max_' = window_max_
  /\ window_received_' = window_received_ /\ previous' = previous

Stays(seq) ==
  /\ seq >= First(seq) /\ max_seq' - First(seq) + 1 < quality_window_
  /\ window_first_' = First(seq) /\ window_max_' = max_seq'
  /\ window_received_' = window_received_ + 1 /\ previous' = previous

Closes(seq) ==
  /\ seq >= First(seq) /\ max_seq' - First(seq) + 1 >= quality_window_
  /\ window_first_' = max_seq' + 1 /\ window_max_' = max_seq'
  /\ window_received_' = 0
  /\ previous' = [received |-> window_received_ + 1,
                  expected |-> max_seq' - First(seq) + 1]

\* What updateWindow() makes of a segment: it is too old, the window goes on, or
\* it is complete.
LEMMA WindowCases ==
  ASSUME StatsIInv, NEW seq \in Segments, received(seq)
  PROVE  IsOld(seq) \/ Stays(seq) \/ Closes(seq)
<1>1. seq \in Nat /\ window_first_ \in Int /\ max_seq \in Int
  BY DEF StatsIInv, StatsTypeOK
<1>2. window_first_ < 0 <=> max_seq < 0
  BY <1>1 DEF StatsIInv, Extent
<1>3. window_max_ = max_seq
  BY DEF StatsIInv, Extent
<1> DEFINE F == IF window_first_ < 0 THEN seq ELSE window_first_
           X == IF window_first_ < 0 \/ seq > window_max_ THEN seq ELSE window_max_
<1>4. F = First(seq)
  BY <1>2 DEF First
<1>5. X = max_seq'
  BY <1>1, <1>2, <1>3 DEF received
<1>6. \/ seq < F /\ UNCHANGED window
      \/ /\ ~(seq < F) /\ X - F + 1 >= quality_window_
         /\ previous' = [received |-> window_received_ + 1, expected |-> X - F + 1]
         /\ window_first_' = X + 1 /\ window_max_' = X
         /\ window_received_' = 0
      \/ /\ ~(seq < F) /\ ~(X - F + 1 >= quality_window_)
         /\ window_received_' = window_received_ + 1
         /\ window_first_' = F /\ window_max_' = X
         /\ UNCHANGED previous
  BY DEF received, updateWindow
<1>7. /\ First(seq) \in Int /\ max_seq' \in Int /\ quality_window_ \in Int
      /\ max_seq < 0 => First(seq) = seq
      /\ ~(max_seq < 0) => First(seq) = window_first_
  BY <1>1, WindowConstants DEF received, First
<1> HIDE DEF F, X
<1> QED BY <1>1, <1>4, <1>5, <1>6, <1>7 DEF IsOld, Stays, Closes, window

\* Counting a segment keeps the statistics where they should be.
LEMMA ReceivedExtent ==
  ASSUME StatsIInv, NEW seq \in Segments, received(seq)
  PROVE  Extent' /\ NoGapSince' /\ StatsTypeOK'
<1> USE DEF StatsIInv
<1>1. seq \in Nat
  OBVIOUS
<1>2. StatsTypeOK'
  <2>1. /\ min_seq' \in Int /\ max_seq' \in Int /\ total_received' \in Nat
        /\ total_gaps' \in Int /\ gap_end' \in Int
    BY <1>1 DEF StatsTypeOK, received
  <2>2. counted' \in SUBSET Segments /\ again' \in BOOLEAN
    BY DEF StatsTypeOK, received
  <2>3. /\ window_first_' \in Int /\ window_max_' \in Int /\ window_received_' \in Nat
        /\ previous' \in [received : Nat, expected : Nat]
    BY <1>1, WindowConstants DEF StatsTypeOK, received, updateWindow, window
  <2> QED BY <2>1, <2>2, <2>3 DEF StatsTypeOK
<1>3. Extent'
  <2> USE DEF StatsTypeOK
  <2>1. /\ max_seq' \in Int /\ max_seq' >= 0 /\ max_seq' >= max_seq /\ max_seq' >= seq
        /\ min_seq' \in counted' /\ max_seq' \in counted'
        /\ gap_end' >= 0 /\ gap_end' <= max_seq'
    BY <1>1 DEF Extent, received
  <2>2. \A c \in counted' : min_seq' <= c /\ c <= max_seq'
    BY <1>1 DEF Extent, received
  <2>3. /\ window_max_' = max_seq'
        /\ window_first_' >= 0 /\ window_first_' <= max_seq' + 1
        /\ max_seq' - window_first_' + 1 < quality_window_
    <3>1. CASE IsOld(seq)
      BY <1>1, <2>1, <3>1 DEF IsOld, Extent, received
    <3>2. CASE Stays(seq)
      <4>1. First(seq) >= 0 /\ First(seq) \in Int
        BY <1>1 DEF First, Extent
      <4> QED BY <1>1, <2>1, <3>2, <4>1 DEF Stays
    <3>3. CASE Closes(seq)
      <4>1. window_max_' = max_seq' /\ window_first_' = max_seq' + 1
        BY <3>3 DEF Closes
      <4>2. max_seq' \in Int /\ window_first_' \in Int
        BY <2>1, <4>1
      <4>3. ASSUME NEW f \in Int, NEW m \in Int, m >= 0, f = m + 1
            PROVE  f >= 0 /\ f <= m + 1 /\ m - f + 1 < quality_window_
        BY <4>3, WindowConstants
      <4> QED BY <2>1, <4>1, <4>2, <4>3
    <3> QED BY <3>1, <3>2, <3>3, WindowCases
  <2> QED BY <2>1, <2>2, <2>3 DEF Extent
<1>4. NoGapSince'
  BY <1>1 DEF StatsTypeOK, Extent, NoGapSince, received
<1> QED BY <1>2, <1>3, <1>4

\* Counting a segment that the buffer accepts keeps the counts right.
LEMMA ReceivedCounts ==
  ASSUME IInv, StatsIInv, NEW seq \in Segments, storeEncodedData(seq)
  PROVE  CountedIsStored' /\ WindowCounts' /\ PreviousIsShare' /\ PreviousIsFull'
<1> USE DEF StatsIInv
<1>1. /\ seq \in Nat /\ received(seq) /\ Store(seq)
      /\ counted' = counted \union {seq} /\ again' = again
      /\ total_received' = total_received + 1
  BY DEF storeEncodedData, received
<1>2. ~again => seq \notin counted
  BY <1>1, AcceptedIsNew DEF Store, CountedIsStored
<1>3. CountedIsStored'
  <2>1. stored' = stored \union {seq}
    BY <1>1 DEF Store
  <2>2. IsFiniteSet(counted \union {seq})
    BY FS_AddElement DEF CountedIsStored
  <2>3. ~again => Cardinality(counted \union {seq}) = Cardinality(counted) + 1
    BY <1>2, FS_AddElement DEF CountedIsStored
  <2> QED BY <1>1, <2>1, <2>2, <2>3 DEF CountedIsStored
<1>4. /\ max_seq \in Int /\ max_seq' \in Int /\ max_seq' >= max_seq /\ max_seq' >= seq
      /\ window_first_ \in Int /\ window_received_ \in Nat
      /\ counted \in SUBSET Nat /\ counted' \in SUBSET Nat
      /\ First(seq) \in Int /\ First(seq) <= max_seq' + 1
  BY <1>1 DEF StatsTypeOK, Extent, received, First
<1>5. /\ IsFiniteSet(InWindow) /\ Cardinality(InWindow) \in Nat
  <2>1. InWindow \in SUBSET counted
    BY DEF InWindow
  <2> QED BY <2>1, FS_Subset, FS_CardinalityType DEF CountedIsStored
\* The window with seq.
<1> DEFINE T == {c \in counted' : c >= First(seq)}
<1>6. ASSUME seq >= First(seq)
      PROVE  T = InWindow \union {seq}
  <2>1. CASE max_seq < 0
    <3>1. counted = {}
      BY <2>1 DEF Extent
    <3> QED BY <1>1, <1>6, <3>1 DEF InWindow
  <2>2. CASE ~(max_seq < 0)
    BY <1>1, <1>6, <2>2 DEF InWindow, First
  <2> QED BY <2>1, <2>2
<1>7. ASSUME seq >= First(seq)
      PROVE  /\ IsFiniteSet(T) /\ Cardinality(T) \in Nat
             /\ window_received_ + 1 >= Cardinality(T)
             /\ ~again => window_received_ + 1 = Cardinality(T)
  <2>1. ~again => seq \notin InWindow
    BY <1>2 DEF InWindow
  <2> HIDE DEF T
  <2>2. /\ IsFiniteSet(T)
        /\ Cardinality(T) = IF seq \in InWindow THEN Cardinality(InWindow)
                                                ELSE Cardinality(InWindow) + 1
    BY <1>5, <1>6, <1>7, FS_AddElement
  <2> QED BY <1>4, <1>5, <2>1, <2>2 DEF WindowCounts
<1>8. CASE IsOld(seq)
  <2>1. InWindow' = InWindow
    BY <1>1, <1>4, <1>8 DEF IsOld, InWindow
  <2>2. gap_end' = gap_end
    BY <1>1, <1>4, <1>8 DEF IsOld, received, Extent
  <2> QED BY <1>1, <1>3, <1>8, <2>1, <2>2 
          DEF IsOld, WindowCounts, PreviousIsShare, PreviousIsFull
<1>9. CASE Stays(seq)
  <2>1. InWindow' = T
    BY <1>9 DEF Stays, InWindow
  <2>2. WindowCounts' /\ PreviousIsShare'
    BY <1>1, <1>7, <1>9, <2>1 DEF Stays, WindowCounts, PreviousIsShare
  <2>3. PreviousIsFull'
    <3>1. CASE max_seq < 0
      BY <1>1, <1>9, <3>1, WindowConstants DEF Stays, received, First, PreviousIsFull
    <3>2. CASE ~(max_seq < 0)
      BY <1>1, <1>4, <1>9, <3>2, WindowConstants
      DEF Stays, received, First, PreviousIsFull, Extent, StatsTypeOK
    <3> QED BY <3>1, <3>2
  <2> QED BY <1>3, <2>2, <2>3
<1>10. CASE Closes(seq)
  <2>1. InWindow' = {}
    <3>1. \A c \in counted' : c <= max_seq' /\ c \in Int
      BY ReceivedExtent, <1>1, <1>4 DEF Extent
    <3>2. window_first_' = max_seq' + 1
      BY <1>10 DEF Closes
    <3>3. max_seq' \in Int /\ window_first_' \in Int
      BY <1>4, <3>2
    <3>4. \A c \in counted' : ~(c >= window_first_')
      BY <3>1, <3>2, <3>3
    <3> QED BY <3>4 DEF InWindow
  <2>2. WindowCounts'
    BY <1>10, <2>1, FS_EmptySet DEF Closes, WindowCounts
  <2>3. Cardinality(T) <= max_seq' - First(seq) + 1
    <3>1. \A c \in counted' : c <= max_seq' /\ c \in Int
      BY ReceivedExtent, <1>1, <1>4 DEF Extent
    <3>2. T \in SUBSET Int /\ \A t \in T : First(seq) <= t /\ t <= max_seq'
      BY <1>4, <3>1
    <3> HIDE DEF T
    <3> QED BY <1>4, <3>2, WindowBound
  <2>4. PreviousIsShare'
    <3> HIDE DEF T
    <3> QED BY <1>1, <1>7, <1>10, <2>3 DEF Closes, PreviousIsShare
  <2>5. PreviousIsFull'
    <3> SUFFICES ASSUME gap_end' + quality_window_ <= max_seq' + 1
                 PROVE  window_received_ + 1 >= max_seq' - First(seq) + 1
      BY <1>10 DEF Closes, PreviousIsFull
    <3>1. max_seq >= 0 /\ gap_end' = gap_end /\ seq <= max_seq + 1
      BY <1>1, <1>4, WindowConstants DEF received, Extent
    <3>2. First(seq) <= max_seq + 1 /\ max_seq - First(seq) + 1 < quality_window_
      BY <3>1, <1>4 DEF First, Extent
    <3>3. max_seq' = max_seq + 1
      BY <1>1, <1>4, <1>10, <3>1, <3>2, WindowConstants DEF received, Closes
    <3>4. max_seq' - First(seq) + 1 = quality_window_
      BY <1>4, <1>10, <3>2, <3>3, WindowConstants DEF Closes
    <3>5. gap_end' <= First(seq) /\ gap_end' \in Nat /\ First(seq) \in Nat
      <4>1. gap_end \in Nat
        BY <3>1 DEF StatsTypeOK, Extent
      <4>2. First(seq) \in Int /\ max_seq' \in Int
        BY <1>4
      <4>3. gap_end' \in Nat
        BY <3>1, <4>1
      <4>4. ASSUME NEW g \in Int, NEW f \in Int, NEW m \in Int,
                   g + quality_window_ <= m + 1, m - f + 1 = quality_window_
            PROVE  g <= f
        BY <4>4, WindowConstants
      <4>5. gap_end' <= First(seq)
        <5> HIDE DEF T
        <5> DEFINE f == First(seq)
        <5>1. max_seq' - f + 1 = quality_window_ /\ f \in Int /\ gap_end' \in Int
          BY <3>4, <4>2, <4>3
        <5> HIDE DEF f
        <5>2. gap_end' <= f
          BY <4>2, <4>4, <5>1
        <5> QED BY <5>2 DEF f
      <4> QED BY <4>2, <4>3, <4>5
    <3>6. First(seq) .. max_seq' \subseteq T
      <4> SUFFICES ASSUME NEW n \in First(seq) .. max_seq' PROVE n \in counted'
        BY <1>4
      <4> QED BY <1>1, <1>4, <3>5, ReceivedExtent DEF NoGapSince
    <3> HIDE DEF T
    <3> QED BY <1>4, <1>7, <1>10, <3>6, WindowFull DEF Closes
  <2> QED BY <1>3, <2>2, <2>4, <2>5
<1> QED BY <1>1, <1>8, <1>9, <1>10, WindowCases

\* What does not touch the statistics leaves them in order, as long as the
\* buffer does not forget what it stored.
LEMMA TrackerFrame ==
  ASSUME StatsIInv, again' \in BOOLEAN, total_gaps' \in Int,
         ~again' => ~again /\ stored' = stored,
         UNCHANGED <<min_seq, max_seq, total_received, window, counted, gap_end>>
  PROVE  StatsIInv'
<1> USE DEF StatsIInv, window
<1>1. StatsTypeOK'
  BY DEF StatsTypeOK
<1>2. Extent' /\ NoGapSince' /\ PreviousIsFull'
  BY DEF Extent, NoGapSince, PreviousIsFull
<1>3. InWindow' = InWindow
  BY DEF InWindow
<1>4. CountedIsStored' /\ WindowCounts' /\ PreviousIsShare'
  BY <1>3 DEF CountedIsStored, WindowCounts, PreviousIsShare
<1> QED BY <1>1, <1>2, <1>4

\* The statistics only watch: without them the line is the jitter buffer.
LEMMA StatsStep == [StatsNext]_line_vars => [Next]_vars
BY DEF StatsNext, line_vars, storeEncodedData, readSegment, begin, updateStats,
       resetXrunCount, Next

\* So does every step of the line.
LEMMA StatsNextInv ==
  ASSUME IInv, StatsIInv, [StatsNext]_line_vars
  PROVE  StatsIInv'
<1>t. again \in BOOLEAN /\ min_seq \in Int /\ max_seq \in Int /\ total_received \in Nat
      /\ total_gaps \in Int
  BY DEF StatsIInv, StatsTypeOK
<1>1. ASSUME NEW seq \in Segments, storeEncodedData(seq) PROVE StatsIInv'
  <2>1. received(seq)
    BY <1>1 DEF storeEncodedData
  <2> QED BY <1>1, <2>1, ReceivedExtent, ReceivedCounts DEF StatsIInv
<1>2. CASE readSegment
  <2>1. UNCHANGED stored /\ UNCHANGED tracker
    BY <1>2 DEF readSegment, Read, ReadNothing, ReadGap, ReadSegment, unwritten
  <2> QED BY <1>t, <2>1, TrackerFrame DEF tracker, stats_
<1>3. CASE begin
  BY <1>t, <1>3, TrackerFrame DEF begin, stats_
<1>4. CASE updateStats
  <2>1. total_gaps' \in Int
    BY <1>t, <1>4 DEF updateStats
  <2> QED BY <1>t, <1>4, <2>1, TrackerFrame DEF updateStats, vars
<1>5. CASE resetXrunCount
  <2>1. Fresh'
    BY <1>5 DEF resetXrunCount, ResetTracker, Fresh
  <2>2. Fresh' => StatsIInv'
    BY FreshInv, PTL
  <2> QED BY <2>1, <2>2
<1>6. CASE UNCHANGED line_vars
  BY <1>t, <1>6, TrackerFrame DEF line_vars, vars, tracker, stats_
<1> QED BY <1>1, <1>2, <1>3, <1>4, <1>5, <1>6 DEF StatsNext

\* A line with statistics is a jitter buffer, so everything that is proved of
\* JitterBuffer holds of it.
THEOREM TrackerIsPassive == StatsSpec => Spec
<1>1. StatsInit => Init
  BY DEF StatsInit
<1> QED BY <1>1, StatsStep, PTL DEF StatsSpec, Spec

\* Every reachable state satisfies both invariants.
THEOREM StatsInductive == StatsSpec => [](IInv /\ StatsIInv)
<1>1. StatsInit => StatsIInv
  BY FreshInv DEF StatsInit, Fresh
<1>2. IInv /\ StatsIInv /\ [StatsNext]_line_vars => StatsIInv'
  BY StatsNextInv
<1> QED BY <1>1, <1>2, Inductive, TrackerIsPassive, PTL DEF StatsSpec

-----------------------------------------------------------------------------
(* The properties of the statistics *)

\* As long as the line is not set up again, no quality is above 100 percent.
THEOREM QualityIsPercentage == StatsSpec => []QualityIsAShare
<1>1. StatsIInv => QualityIsAShare
  <2> SUFFICES ASSUME StatsIInv, ~again
               PROVE  recentQuality.received <= recentQuality.expected
    BY DEF QualityIsAShare
  <2> USE DEF StatsIInv
  <2> DEFINE e == window_max_ - window_first_ + 1
  <2>1. CASE window_first_ >= 0 /\ e >= min_quality_window_
    <3>1. recentQuality = [received |-> window_received_, expected |-> e]
      BY <2>1 DEF recentQuality
    <3>2. /\ InWindow \in SUBSET Int
          /\ \A t \in InWindow : window_first_ <= t /\ t <= window_max_
      <4>1. \A c \in counted : c \in Int /\ c <= window_max_
        BY DEF Extent, StatsTypeOK
      <4> QED BY <4>1 DEF InWindow, StatsTypeOK
    <3>3. window_first_ <= window_max_ + 1
      BY <2>1 DEF Extent, StatsTypeOK
    <3>4. Cardinality(InWindow) <= e
      <4> HIDE DEF InWindow
      <4> QED BY <3>2, <3>3, WindowBound DEF StatsTypeOK
    <3> QED BY <3>1, <3>4 DEF WindowCounts
  <2>2. CASE ~(window_first_ >= 0 /\ e >= min_quality_window_)
    BY <2>2 DEF recentQuality, PreviousIsShare
  <2> QED BY <2>1, <2>2
<1> QED BY <1>1, StatsInductive, PTL

\* A complete window and a minimal one after the last loss the quality is full.
THEOREM QualityRecovers == StatsSpec => []RecoversFromLoss
<1>1. StatsIInv => RecoversFromLoss
  <2> SUFFICES ASSUME StatsIInv,
                      max_seq - gap_end >= quality_window_ + min_quality_window_ - 2,
                      gap_end .. max_seq \subseteq counted
               PROVE  recentQuality.received >= recentQuality.expected
    BY DEF RecoversFromLoss
  <2> USE DEF StatsIInv
  <2>t. /\ max_seq \in Int /\ gap_end \in Int /\ window_first_ \in Int
        /\ window_max_ = max_seq /\ window_received_ \in Nat
        /\ counted \in SUBSET Nat
    BY DEF StatsTypeOK, Extent
  <2>0. /\ max_seq >= 0 /\ window_first_ >= 0 /\ window_first_ <= max_seq + 1
        /\ max_seq - window_first_ + 1 < quality_window_
        /\ gap_end >= 0
    <3>1. max_seq - gap_end >= 0
      BY <2>t, WindowConstants
    <3>2. max_seq >= 0
      BY <2>t, <3>1 DEF Extent
    <3> QED BY <3>2 DEF Extent
  <2> DEFINE e == max_seq - window_first_ + 1
  <2>1. CASE e >= min_quality_window_
    <3>1. recentQuality = [received |-> window_received_, expected |-> e]
      BY <2>0, <2>1, <2>t DEF recentQuality
    <3>2. gap_end <= window_first_
      BY <2>0, <2>t, WindowConstants
    <3>3. window_first_ .. max_seq \subseteq InWindow
      BY <2>t, <3>2 DEF InWindow
    <3>4. InWindow \in SUBSET counted
      BY DEF InWindow
    <3>5. IsFiniteSet(InWindow)
      BY <3>4, FS_Subset DEF CountedIsStored
    <3>6. Cardinality(InWindow) \in Nat /\ Cardinality(InWindow) >= e
      <4> HIDE DEF InWindow
      <4> QED BY <2>0, <2>t, <3>3, <3>5, WindowFull
    <3> QED BY <2>t, <3>1, <3>6 DEF WindowCounts
  <2>2. CASE ~(e >= min_quality_window_)
    <3>1. recentQuality = previous
      BY <2>2, <2>t DEF recentQuality
    <3>2. gap_end + quality_window_ <= window_first_
      BY <2>0, <2>t, <2>2, WindowConstants
    <3> QED BY <3>1, <3>2 DEF PreviousIsFull
  <2> QED BY <2>1, <2>2
<1> QED BY <1>1, StatsInductive, PTL

\* The numbers that are missing in what was counted.
LEMMA MissingNumbers ==
  ASSUME NEW T, IsFiniteSet(T), NEW low \in Int, NEW high \in Int, low <= high,
         T \subseteq low .. high
  PROVE  Cardinality({n \in low .. high : n \notin T}) = high - low + 1 - Cardinality(T)
<1> DEFINE All == low .. high
<1>1. IsFiniteSet(All) /\ Cardinality(All) = high - low + 1
  BY FS_Interval
<1>2. {n \in low .. high : n \notin T} = All \ T /\ All \cap T = T
  OBVIOUS
<1> HIDE DEF All
<1>3. Cardinality(All \ T) = Cardinality(All) - Cardinality(T)
  BY <1>1, <1>2, FS_Difference
<1>4. Cardinality(T) \in Nat
  BY FS_CardinalityType
<1>5. Cardinality(All \ T) = high - low + 1 - Cardinality(T)
  BY <1>1, <1>3, <1>4
<1> QED BY <1>2, <1>5, Zenon

\* The gaps are the missing segments.
THEOREM GapsCounted == StatsSpec => GapsAreLosses
<1> DEFINE A == updateStats /\ ~again =>
                  total_gaps' = Cardinality({n \in min_seq .. max_seq : n \notin counted})
<1>1. StatsIInv /\ [StatsNext]_line_vars => [A]_line_vars
  <2> SUFFICES ASSUME StatsIInv, updateStats, ~again, line_vars' # line_vars
               PROVE  total_gaps' = Cardinality({n \in min_seq .. max_seq : n \notin counted})
    OBVIOUS
  <2> USE DEF StatsIInv
  <2>1. max_seq >= 0 /\ min_seq >= 0
    <3> SUFFICES ASSUME ~(max_seq >= 0 /\ min_seq >= 0) PROVE line_vars' = line_vars
      OBVIOUS
    <3>1. total_gaps' = total_gaps
      BY DEF updateStats
    <3> QED BY <3>1 DEF updateStats, line_vars, tracker, stats_, window
  <2>2. total_gaps' = max_seq - min_seq + 1 - total_received
    BY <2>1 DEF updateStats
  <2>3. total_received = Cardinality(counted) /\ IsFiniteSet(counted)
    BY DEF CountedIsStored
  <2>4. /\ min_seq \in Int /\ max_seq \in Int /\ min_seq <= max_seq
        /\ counted \subseteq min_seq .. max_seq
    BY <2>1 DEF StatsTypeOK, Extent
  <2> QED BY <2>2, <2>3, <2>4, MissingNumbers
<1> QED BY <1>1, StatsInductive, PTL DEF StatsSpec, GapsAreLosses
=============================================================================
