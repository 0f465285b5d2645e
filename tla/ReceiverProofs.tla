--------------------------- MODULE ReceiverProofs ---------------------------
(* What the receiver keeps for any number of streams and sources and any     *)
(* timing, whatever messages arrive, and the queue from which each of its    *)
(* lines is read (DecodeQueue), for all sizes of segments, queues and reads. *)
EXTENDS Receiver, DecodeQueue, TLAPS

\* Ages are closed under the passing of time.
LEMMA AgesOlder == \A age \in Ages : Older(age) \in Ages
  BY TimesAssumption DEF Ages, Older, Bound, Never

LEMMA AgesEnds == 0 \in Ages /\ Never \in Ages
  BY TimesAssumption DEF Ages, Bound, Never

LEMMA NewLineOK == NewLine \in Line
  BY AgesEnds DEF NewLine, Line

-----------------------------------------------------------------------------
(* The lines *)

LineTypeOK == line \in [Streams -> Line]
ListOK == /\ sources \subseteq Streams
          /\ \A s \in Streams \ sources : line[s] = NewLine

LEMMA WithoutOK ==
  ASSUME LineTypeOK, ListOK, NEW gone
  PROVE  /\ Without(gone) \in [Streams -> Line]
         /\ \A s \in Streams \ (sources \ gone) : Without(gone)[s] = NewLine
  BY NewLineOK DEF LineTypeOK, ListOK, Without

\* Every line has its type, and a stream that is not in the list has a new one.
LEMMA LinesStep == LineTypeOK /\ ListOK /\ [Next]_vars => LineTypeOK' /\ ListOK'
<1> SUFFICES ASSUME LineTypeOK, ListOK, [Next]_vars PROVE LineTypeOK' /\ ListOK'
  OBVIOUS
<1>1. ASSUME NEW s \in Streams, NEW f \in Formats, NEW ok \in BOOLEAN, onStart(s, f, ok)
      PROVE  LineTypeOK' /\ ListOK'
  <2>1. Configured(line[s], f, ok) \in Line
    BY AgesEnds DEF LineTypeOK, Line, Configured
  <2>2. line' \in [Streams -> Line]
    BY <1>1, <2>1 DEF LineTypeOK, onStart
  <2>3. sources' = sources \union {s} /\ \A t \in Streams \ {s} : line'[t] = line[t]
    BY <1>1 DEF onStart, LineTypeOK
  <2> QED  BY <2>2, <2>3 DEF LineTypeOK, ListOK
<1>2. ASSUME NEW s \in Streams, onData(s) PROVE LineTypeOK' /\ ListOK'
  <2>1. CASE onDataUnknown(s)
    <3>1. line' \in [Streams -> Line]
      BY <2>1, AgesEnds DEF onDataUnknown, LineTypeOK, Line
    <3>2. sources' = sources \union {s} /\ \A t \in Streams \ {s} : line'[t] = line[t]
      BY <2>1 DEF onDataUnknown, LineTypeOK
    <3> QED  BY <3>1, <3>2 DEF LineTypeOK, ListOK
  <2>2. CASE onDataStored(s)
    <3>1. s \in sources
      BY <2>2 DEF onDataStored, hasDecoder, ListOK, NewLine
    <3>2. PICK primed \in {TRUE, line[s].primed} :
            line' = [line EXCEPT ![s].last_data_time = 0, ![s].counted = TRUE,
                                 ![s].primed = primed]
      BY <2>2 DEF onDataStored
    <3>3. primed \in BOOLEAN
      BY <3>2 DEF LineTypeOK, Line
    <3>4. line' \in [Streams -> Line]
      <4>1. [line[s] EXCEPT !.last_data_time = 0, !.counted = TRUE, !.primed = primed] \in Line
        BY <3>3, AgesEnds DEF LineTypeOK, Line
      <4>2. line' = [line EXCEPT ![s] =
              [line[s] EXCEPT !.last_data_time = 0, !.counted = TRUE, !.primed = primed]]
        BY <3>2 DEF LineTypeOK, Line
      <4> QED  BY <4>1, <4>2 DEF LineTypeOK
    <3>5. sources' = sources /\ \A t \in Streams \ {s} : line'[t] = line[t]
      BY <2>2, <3>2 DEF onDataStored, LineTypeOK
    <3> QED  BY <3>1, <3>4, <3>5 DEF LineTypeOK, ListOK
  <2>3. CASE onDataDropped(s)
    BY <2>3 DEF onDataDropped, LineTypeOK, ListOK
  <2> QED  BY <1>2, <2>1, <2>2, <2>3 DEF onData
<1>3. ASSUME NEW s \in Streams, onStop(s) PROVE LineTypeOK' /\ ListOK'
  BY <1>3, WithoutOK DEF onStop, removeSources, LineTypeOK, ListOK
<1>4. CASE PostProcessing
  BY <1>4, WithoutOK DEF PostProcessing, postProcessing, LineTypeOK, ListOK
<1>5. CASE end
  BY <1>5, WithoutOK DEF end, LineTypeOK, ListOK, Without
<1>6. CASE Tick
  <2>1. ASSUME NEW s \in Streams PROVE line'[s] \in Line
    <3>1. line[s] \in Line
      BY DEF LineTypeOK
    <3>2. line'[s] = [line[s] EXCEPT !.last_data_time = Older(@), !.start_time = Older(@),
                                     !.last_start_request = Older(@)]
      BY <1>6 DEF Tick
    <3> QED  BY <3>1, <3>2, AgesOlder DEF Line
  <2>2. line' \in [Streams -> Line]
    BY <1>6, <2>1 DEF Tick, LineTypeOK
  <2>3. Older(Never) = Never
    BY TimesAssumption DEF Older, Never, Bound
  <2>4. ASSUME NEW s \in Streams \ sources PROVE line'[s] = NewLine
    <3>1. line[s] = NewLine
      BY DEF ListOK
    <3>2. line'[s] = [NewLine EXCEPT !.last_data_time = Older(@), !.start_time = Older(@),
                                     !.last_start_request = Older(@)]
      BY <1>6, <3>1 DEF Tick
    <3> QED  BY <3>2, <2>3 DEF NewLine
  <2> QED  BY <1>6, <2>2, <2>4 DEF Tick, LineTypeOK, ListOK
<1>7. CASE UNCHANGED vars
  BY <1>7 DEF vars, LineTypeOK, ListOK
<1> QED  BY <1>1, <1>2, <1>3, <1>4, <1>5, <1>6, <1>7 DEF Next, Messages

-----------------------------------------------------------------------------
(* The mixer *)

LEMMA MixerStep ==
  ListOK /\ MixerHasOnlyLines /\ [Next]_vars => MixerHasOnlyLines'
<1> SUFFICES ASSUME ListOK, MixerHasOnlyLines, [Next]_vars PROVE MixerHasOnlyLines'
  OBVIOUS
<1> USE DEF MixerHasOnlyLines
<1>1. ASSUME NEW s \in Streams, NEW f \in Formats, NEW ok \in BOOLEAN, onStart(s, f, ok)
      PROVE  MixerHasOnlyLines'
  BY <1>1 DEF onStart
<1>2. ASSUME NEW s \in Streams, onData(s) PROVE MixerHasOnlyLines'
  BY <1>2 DEF onData, onDataUnknown, onDataStored, onDataDropped
<1>3. ASSUME NEW s \in Streams, onStop(s) PROVE MixerHasOnlyLines'
  BY <1>3 DEF onStop, removeSources, Primed
<1>4. CASE PostProcessing
  BY <1>4 DEF PostProcessing, postProcessing, Primed
<1>5. CASE end \/ Tick \/ UNCHANGED vars
  BY <1>5 DEF end, Tick, vars
<1> QED  BY <1>1, <1>2, <1>3, <1>4, <1>5 DEF Next, Messages

\* No pointer of the mixer outlives its line, for any number of streams.
THEOREM MixerSafe == Spec => []MixerHasOnlyLines
<1> DEFINE Lines == LineTypeOK /\ ListOK
<1>1. Init => Lines /\ MixerHasOnlyLines
  BY NewLineOK DEF Init, LineTypeOK, ListOK, MixerHasOnlyLines
<1>2. Lines /\ MixerHasOnlyLines /\ [Next]_vars => (Lines /\ MixerHasOnlyLines)'
  BY LinesStep, MixerStep
<1> QED  BY <1>1, <1>2, PTL DEF Spec

-----------------------------------------------------------------------------
(* Types *)

HistoryTypeOK ==
  /\ requested \subseteq Streams

LEMMA HistoryStep == HistoryTypeOK /\ [Next]_vars => HistoryTypeOK'
<1> SUFFICES ASSUME HistoryTypeOK, [Next]_vars PROVE HistoryTypeOK'
  OBVIOUS
<1> USE DEF HistoryTypeOK
<1>1. ASSUME NEW s \in Streams, NEW f \in Formats, NEW ok \in BOOLEAN, onStart(s, f, ok)
      PROVE  HistoryTypeOK'
  BY <1>1 DEF onStart
<1>2. ASSUME NEW s \in Streams, onData(s) PROVE HistoryTypeOK'
  BY <1>2, AgesEnds DEF onData, onDataUnknown, onDataStored, onDataDropped
<1>3. ASSUME NEW s \in Streams, onStop(s) PROVE HistoryTypeOK'
  BY <1>3 DEF onStop
<1>4. CASE PostProcessing \/ end \/ UNCHANGED vars
  BY <1>4 DEF PostProcessing, postProcessing, end, vars
<1>5. CASE Tick
  BY <1>5, AgesOlder DEF Tick
<1> QED  BY <1>1, <1>2, <1>3, <1>4, <1>5 DEF Next, Messages

\* Every variable keeps its type, and only listed streams have state.
THEOREM TypeCorrect == Spec => []TypeOK
<1> DEFINE Inv == LineTypeOK /\ ListOK /\ MixerHasOnlyLines /\ HistoryTypeOK
<1>1. Init => Inv
  BY NewLineOK, AgesEnds DEF Init, LineTypeOK, ListOK, MixerHasOnlyLines, HistoryTypeOK
<1>2. Inv /\ [Next]_vars => Inv'
  BY LinesStep, MixerStep, HistoryStep
<1>3. Inv => TypeOK
  BY DEF TypeOK, LineTypeOK, ListOK, MixerHasOnlyLines, HistoryTypeOK
<1> QED  BY <1>1, <1>2, <1>3, PTL DEF Spec

-----------------------------------------------------------------------------
(* Removal and requests *)

\* The mixer that the post processing leaves has every line that is primed, whatever
\* it has removed.
THEOREM PrimedMixed == Spec => PrimedAreMixed
<1> DEFINE Mixed == \A poor \in SUBSET Poor : postProcessing(poor) =>
                      \A s \in sources' : line'[s].primed => s \in mixer'
<1>1. Init => ListOK
  BY DEF Init, ListOK
<1>2. ListOK => Mixed
  <2> SUFFICES ASSUME ListOK, NEW poor \in SUBSET Poor, postProcessing(poor),
                      NEW s \in sources', line'[s].primed
               PROVE  s \in mixer'
    OBVIOUS
  <2> DEFINE gone == poor \union {t \in sources : Stale(t)}
  <2>1. s \in sources \ gone /\ s \in Streams
    BY DEF postProcessing, ListOK
  <2>2. line'[s] = line[s]
    BY <2>1 DEF postProcessing, Without
  <2>3. s \in Primed(sources) /\ s \in Primed(sources \ gone)
    BY <2>1, <2>2 DEF Primed
  <2> QED  BY <2>3 DEF postProcessing
<1>3. LineTypeOK /\ ListOK /\ [Next]_vars => (LineTypeOK /\ ListOK)'
  BY LinesStep
<1>4. Init => LineTypeOK
  BY NewLineOK DEF Init, LineTypeOK
<1>5. ListOK /\ [Next]_vars => [Mixed]_vars
  BY <1>2
<1> QED  BY <1>1, <1>3, <1>4, <1>5, PTL DEF Spec, PrimedAreMixed

\* The limit holds as long as the line lives, through every /start that comes
\* and every format the line is set up for.
LineRequestsAreSpaced ==
  [][\A s \in requested' \intersect sources :
       line[s].last_start_request >= Interval]_vars

\* As long as a line lives it asks for /start at most once per interval.
THEOREM LineRequestsSpaced == Spec => LineRequestsAreSpaced
<1> DEFINE Spaced == \A s \in requested' \intersect sources :
                       line[s].last_start_request >= Interval
<1>1. ASSUME Next PROVE Spaced
  <2>1. ASSUME NEW s \in Streams, onDataUnknown(s) PROVE Spaced
    BY <2>1, TimesAssumption DEF onDataUnknown, RequestDue, Never, Bound
  <2>2. requested' = {} \/ \E s \in Streams : onDataUnknown(s)
    BY <1>1 DEF Next, Messages, onStart, onData, onDataStored, onDataDropped, onStop,
                PostProcessing, postProcessing, end, Tick
  <2> QED  BY <2>1, <2>2
<1>2. [Next]_vars => [Spaced]_vars
  BY <1>1
<1> QED  BY <1>2, PTL DEF Spec, LineRequestsAreSpaced

-----------------------------------------------------------------------------
(* The decoded queue of a line *)

QueueNumbers ==
  /\ capacity \in Nat
  /\ max_decoded_size \in Nat \ {0}
  /\ last_decoded_size \in Nat
  /\ result \in Nat
  /\ decoded \in Nat
  /\ len \in Lengths \union {0}
  /\ underrun \in BOOLEAN
  /\ dropped \in Nat
  /\ seen \subseteq Sizes

\* While a read goes on, an empty queue has space for the biggest segment.
QueueInv ==
  /\ QueueNumbers
  /\ decoded <= capacity
  /\ last_decoded_size <= max_decoded_size
  /\ len > 0 /\ decoded = 0 => capacity >= max_decoded_size

LEMMA SmallerBigger ==
  ASSUME NEW a \in Nat, NEW b \in Nat
  PROVE  /\ Smaller(a, b) \in Nat /\ Smaller(a, b) <= a /\ Smaller(a, b) <= b
         /\ Smaller(a, b) \in {a, b}
         /\ Bigger(a, b) \in Nat /\ Bigger(a, b) >= a /\ Bigger(a, b) >= b
         /\ Bigger(a, b) \in {a, b}
  BY DEF Smaller, Bigger

LEMMA QueueInvInit == QueueInit => QueueInv
<1> SUFFICES ASSUME QueueInit PROVE QueueInv
  OBVIOUS
<1>1. 4 * Expected \in Nat /\ MinQueue \in Nat
  BY SizesAssumption
<1>2. capacity \in Nat
  BY <1>1, SmallerBigger DEF QueueInit
<1>3. decoded = 0 /\ last_decoded_size = 0 /\ len = 0 /\ result = 0
      /\ underrun = FALSE /\ dropped = 0 /\ seen = {} /\ max_decoded_size \in Nat \ {0}
  BY SizesAssumption DEF QueueInit
<1>4. QueueNumbers
  BY <1>2, <1>3 DEF QueueNumbers
<1> QED  BY <1>2, <1>3, <1>4 DEF QueueInv

\* What is written fits.
LEMMA PutFits ==
  ASSUME QueueInv, NEW size \in Nat, Put(size)
  PROVE  /\ decoded' \in Nat /\ decoded <= decoded' /\ decoded' <= capacity
         /\ dropped' \in Nat
         /\ Smaller(size, availableForWrite) > 0 => decoded' > 0
<1>1. availableForWrite \in Nat
  BY DEF QueueInv, QueueNumbers, availableForWrite
<1>2. Smaller(size, availableForWrite) \in Nat /\ Smaller(size, availableForWrite) <= availableForWrite
  BY <1>1, SmallerBigger
<1>3. decoded' = decoded + Smaller(size, availableForWrite)
  BY DEF Put
<1>4. dropped' \in Nat
  BY <1>1, SmallerBigger DEF Put
<1> HIDE DEF Smaller
<1> QED  BY <1>2, <1>3, <1>4 DEF QueueInv, QueueNumbers, availableForWrite

LEMMA QueueInvStep == QueueInv /\ [QueueNext]_queue_vars => QueueInv'
<1> SUFFICES ASSUME QueueInv, [QueueNext]_queue_vars PROVE QueueInv'
  OBVIOUS
<1>1. ASSUME NEW n \in Lengths, readBytes(n) PROVE QueueInv'
  <2>1. 4 * max_decoded_size \in Nat /\ 4 * max_decoded_size >= max_decoded_size
    BY DEF QueueInv, QueueNumbers
  <2>2. Bigger(capacity, 4 * max_decoded_size) \in Nat
        /\ Bigger(capacity, 4 * max_decoded_size) >= 4 * max_decoded_size
    BY <2>1, SmallerBigger DEF QueueInv, QueueNumbers
  <2>3. capacity' \in Nat /\ decoded <= capacity'
        /\ (decoded = 0 => capacity' >= max_decoded_size)
    BY <1>1, <2>1, <2>2 DEF readBytes, QueueInv, QueueNumbers
  <2> QED  BY <1>1, <2>3 DEF readBytes, QueueInv, QueueNumbers
<1>2. ASSUME NEW size \in Sizes, decodeSegment(size) PROVE QueueInv'
  <2> DEFINE produced == Smaller(size, availableForWrite)
  <2>1. size \in Nat /\ availableForWrite \in Nat
    BY SizesAssumption DEF QueueInv, QueueNumbers, availableForWrite
  <2>2. produced \in Nat
    BY <2>1, SmallerBigger
  <2>3. /\ decoded' \in Nat /\ decoded <= decoded' /\ decoded' <= capacity
        /\ dropped' \in Nat /\ (produced > 0 => decoded' > 0)
    BY <1>2, <2>1, PutFits DEF decodeSegment
  <2>4. /\ last_decoded_size' = IF produced > 0 THEN produced ELSE last_decoded_size
        /\ max_decoded_size' = Bigger(produced, max_decoded_size)
        /\ seen' = seen \union {size}
        /\ UNCHANGED <<capacity, len, result, underrun>>
    BY <1>2 DEF decodeSegment
  <2>5. /\ max_decoded_size' \in Nat \ {0}
        /\ max_decoded_size' >= max_decoded_size /\ max_decoded_size' >= produced
        /\ (produced = 0 => max_decoded_size' = max_decoded_size)
    BY <2>2, <2>4 DEF Bigger, QueueInv, QueueNumbers
  <2> HIDE DEF produced
  <2> QED  BY <2>2, <2>3, <2>4, <2>5 DEF QueueInv, QueueNumbers
<1>3. CASE writeSilence
  <2>1. /\ decoded' \in Nat /\ decoded <= decoded' /\ decoded' <= capacity
        /\ dropped' \in Nat
    BY <1>3, PutFits DEF writeSilence, QueueInv, QueueNumbers
  <2> QED  BY <1>3, <2>1 DEF writeSilence, QueueInv, QueueNumbers
<1>4. ASSUME Deliver, underrun' \in BOOLEAN PROVE QueueInv'
  <2>1. len \in Nat
    BY SizesAssumption DEF QueueInv, QueueNumbers
  <2>2. Smaller(decoded, len) \in Nat /\ Smaller(decoded, len) <= decoded
    BY <2>1, SmallerBigger DEF QueueInv, QueueNumbers
  <2> QED  BY <1>4, <2>2 DEF Deliver, QueueInv, QueueNumbers
<1>5. CASE return_underrun \/ return
  BY <1>4, <1>5 DEF return_underrun, return, QueueInv, QueueNumbers
<1>6. CASE begin
  <2>1. 4 * Expected \in Nat /\ MinQueue \in Nat
    BY SizesAssumption
  <2>2. capacity' \in Nat
    BY <1>6, <2>1, SmallerBigger DEF begin
  <2> QED  BY <1>6, <2>2, SizesAssumption DEF begin, QueueInv, QueueNumbers
<1>7. CASE UNCHANGED queue_vars
  BY <1>7 DEF queue_vars, QueueInv, QueueNumbers
<1> QED  BY <1>1, <1>2, <1>3, <1>5, <1>6, <1>7 DEF QueueNext

\* The queue holds at most its capacity, and silence is at most as long as the
\* biggest segment.
THEOREM QueueTypeCorrect == QueueSpec => []QueueTypeOK
<1>1. QueueInv => QueueTypeOK
  BY DEF QueueInv, QueueNumbers, QueueTypeOK
<1> QED  BY <1>1, QueueInvInit, QueueInvStep, PTL DEF QueueSpec

\* A read that did not run out of segments returns audio.
THEOREM ReadsGetAudio == QueueSpec => ReadGetsAudio
<1> DEFINE Gets == return => result' > 0
<1>1. QueueInv => Gets
  <2> SUFFICES ASSUME QueueInv, return PROVE result' > 0
    OBVIOUS
  <2>1. len \in Nat /\ len > 0
    BY SizesAssumption DEF QueueInv, QueueNumbers, return
  <2>2. decoded > 0
    BY <2>1 DEF return, WantsMore, availableForWrite, QueueInv, QueueNumbers
  <2> QED  BY <2>1, <2>2 DEF return, Deliver, Smaller, QueueInv, QueueNumbers
<1>2. QueueInv /\ [QueueNext]_queue_vars => [Gets]_queue_vars
  BY <1>1
<1> QED  BY <1>2, QueueInvInit, QueueInvStep, PTL DEF QueueSpec, ReadGetsAudio

-----------------------------------------------------------------------------
(* What is cut *)

\* A write that leaves space for the biggest segment first cuts nothing that is
\* not bigger.
LEMMA NotBiggerFits ==
  ASSUME QueueInv, WantsMore, NEW size \in Nat, size <= max_decoded_size, Put(size)
  PROVE  dropped' = 0
BY DEF WantsMore, Put, Smaller, availableForWrite, QueueInv, QueueNumbers

\* Nothing but a segment that is bigger than announced and bigger than what the
\* queue has got at once before is cut: no other segment, and no silence.
THEOREM OnlyBiggerCut == QueueSpec => OnlyBiggerIsCut
<1> DEFINE Cut == dropped' > 0 => \E size \in Sizes : decodeSegment(size) /\ size > max_decoded_size
<1>1. QueueInv /\ [QueueNext]_queue_vars => [Cut]_queue_vars
  <2> SUFFICES ASSUME QueueInv, QueueNext, dropped' > 0
               PROVE  \E size \in Sizes : decodeSegment(size) /\ size > max_decoded_size
    OBVIOUS
  <2>1. ASSUME NEW size \in Sizes, decodeSegment(size)
        PROVE  \E big \in Sizes : decodeSegment(big) /\ big > max_decoded_size
    <3>1. size \in Nat /\ max_decoded_size \in Nat
      BY SizesAssumption DEF QueueInv, QueueNumbers
    <3>2. ~(size <= max_decoded_size)
      BY <2>1, <3>1, NotBiggerFits DEF decodeSegment
    <3>3. size > max_decoded_size
      BY <3>1, <3>2
    <3> QED  BY <2>1, <3>3
  <2>2. ~writeSilence
    BY NotBiggerFits DEF writeSilence, QueueInv, QueueNumbers
  <2>3. \A n \in Lengths : ~readBytes(n)
    BY DEF readBytes
  <2>4. ~return_underrun /\ ~return
    BY DEF return_underrun, return, Deliver
  <2>5. ~begin
    BY DEF begin
  <2> QED  BY <2>1, <2>2, <2>3, <2>4, <2>5 DEF QueueNext
<1> QED  BY <1>1, QueueInvInit, QueueInvStep, PTL DEF QueueSpec, OnlyBiggerIsCut
=============================================================================
