---------------------------- MODULE DecodeQueue -----------------------------
(***************************************************************************)
(* AOOSourceLine::readBytes: segments of the jitter buffer are decoded     *)
(* into a queue until it holds what the reader asked for, and then read    *)
(* from there.  The queue has a fixed capacity and drops what does not fit.*)
(*                                                                         *)
(* Only sizes matter: the jitter buffer gives a segment, which decodes to  *)
(* some size, or a gap, which becomes silence, or nothing.  One pass of    *)
(* the decoding loop is a step.  The specification has names of its own,   *)
(* with the prefix Queue, to be extended beside that of the Receiver.      *)
(***************************************************************************)
EXTENDS Integers, FiniteSets

CONSTANTS
  Sizes,      \* sizes of a decoded segment, in the output format
  Expected,   \* max_decoded_size that follows from the announced block size
  MinQueue,   \* the queue is never smaller than this (8192 bytes)
  Lengths     \* sizes of a read

ASSUME SizesAssumption ==
  /\ Sizes \subseteq Nat
  /\ Expected \in Nat \ {0}
  /\ MinQueue \in Nat
  /\ Lengths \subseteq Nat \ {0}

VARIABLES
  decoded,            \* bytes in the queue
  capacity,           \* size of decoded_buffer
  max_decoded_size, last_decoded_size,
  len,                \* what the current readBytes() asks for; 0 between reads
  result,             \* what the last one returned
  underrun,           \* did the jitter buffer run out of segments in it?
  dropped,            \* history: what did not fit in the queue in the last step
  seen                \* history: sizes decoded since the line was set up

queue_vars == <<decoded, capacity, max_decoded_size, last_decoded_size, len, result,
          underrun, dropped, seen>>

Smaller(a, b) == IF a < b THEN a ELSE b
Bigger(a, b) == IF a > b THEN a ELSE b

QueueInit ==
  /\ decoded = 0
  /\ capacity = Bigger(4 * Expected, MinQueue)
  /\ max_decoded_size = Expected
  /\ last_decoded_size = 0
  /\ len = 0 /\ result = 0
  /\ underrun = FALSE /\ dropped = 0 /\ seen = {}

availableForWrite == capacity - decoded

\* An empty queue that is too small for the biggest segment so far is enlarged.
readBytes_NoGrowth(n) ==
  /\ len = 0
  /\ len' = n
  /\ underrun' = FALSE
  /\ dropped' = 0
  /\ UNCHANGED <<capacity, decoded, max_decoded_size, last_decoded_size, result, seen>>

readBytes(n) ==
  /\ len = 0
  /\ len' = n
  /\ capacity' = IF decoded = 0 THEN Bigger(capacity, 4 * max_decoded_size) ELSE capacity
  /\ underrun' = FALSE
  /\ dropped' = 0
  /\ UNCHANGED <<decoded, max_decoded_size, last_decoded_size, result, seen>>

\* The condition of the loop.
WantsMore_SpaceForRead == decoded < len /\ availableForWrite >= len
WantsMore_AnySpace == decoded < len /\ availableForWrite > 0
WantsMore == decoded < len /\ availableForWrite >= max_decoded_size

Put(size) ==
  /\ decoded' = decoded + Smaller(size, availableForWrite)
  /\ dropped' = size - Smaller(size, availableForWrite)

decodeSegment(size) ==
  /\ WantsMore
  /\ Put(size)
  /\ LET produced == Smaller(size, availableForWrite) IN
       /\ last_decoded_size' = IF produced > 0 THEN produced ELSE last_decoded_size
       /\ max_decoded_size' = Bigger(produced, max_decoded_size)
  /\ seen' = seen \union {size}
  /\ UNCHANGED <<capacity, len, result, underrun>>

\* A gap, while there has been no segment yet, gives no silence.
writeSilence ==
  /\ WantsMore
  /\ Put(last_decoded_size)
  /\ UNCHANGED <<capacity, len, max_decoded_size, last_decoded_size, result, underrun,
                 seen>>

Deliver ==
  /\ result' = Smaller(decoded, len)
  /\ decoded' = decoded - Smaller(decoded, len)
  /\ len' = 0
  /\ dropped' = 0
  /\ UNCHANGED <<capacity, max_decoded_size, last_decoded_size, seen>>

\* Nothing more can be decoded now.
return_underrun == len > 0 /\ WantsMore /\ Deliver /\ underrun' = TRUE

return == len > 0 /\ ~WantsMore /\ Deliver /\ UNCHANGED underrun

\* The line is set up again: end() empties the queue.
begin ==
  /\ len = 0
  /\ decoded' = 0
  /\ last_decoded_size' = 0
  /\ max_decoded_size' = Expected
  /\ capacity' = Bigger(4 * Expected, MinQueue)
  /\ dropped' = 0 /\ seen' = {}
  /\ UNCHANGED <<len, result, underrun>>

QueueNext ==
  \/ \E n \in Lengths : readBytes(n)
  \/ \E size \in Sizes : decodeSegment(size)
  \/ writeSilence
  \/ return_underrun
  \/ return
  \/ begin

QueueSpec == QueueInit /\ [][QueueNext]_queue_vars

-----------------------------------------------------------------------------
(* Properties *)

QueueTypeOK ==
  /\ decoded \in 0 .. capacity
  /\ last_decoded_size \in 0 .. max_decoded_size
  /\ max_decoded_size \in Nat \ {0}
  /\ len \in Lengths \union {0}
  /\ result \in Nat
  /\ underrun \in BOOLEAN /\ dropped \in Nat /\ seen \subseteq Sizes

\* A read gives audio unless the jitter buffer has run out of segments: a line
\* whose segments are bigger than announced never falls silent for lack of
\* space.
ReadGetsAudio == [][return => result' > 0]_queue_vars

\* "A segment is only decoded when the queue has space for a complete decoded
\* segment" (AOOSourceLine): silence is never cut, and audio only of a segment
\* that decodes to more than announced and than the queue has got at once.
OnlyBiggerIsCut ==
  [][dropped' > 0 =>
       \E size \in Sizes : decodeSegment(size) /\ size > max_decoded_size]_queue_vars

\* "decoded segments became bigger than expected: grow the (empty) queue"
\* (AOOSourceLine::decode): when all segments since the line was set up have one
\* size, even one bigger than the queue, audio is dropped only for a while.
AdaptsToSize ==
  <>[](Cardinality(seen \ {0}) <= 1)
    => <>[][dropped' = 0]_queue_vars \/ []<><<begin>>_queue_vars
=============================================================================
