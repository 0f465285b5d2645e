---------------------------- MODULE JitterBuffer ----------------------------
(***************************************************************************)
(* The jitter buffer of one AOOSourceLine: an IndexedRingBuffer of encoded *)
(* segments (AOOBuffers.h) and the IndexedRingBufferStreamView that reads  *)
(* it in sequence order (AOOBufferView.h).                                 *)
(*                                                                         *)
(* Segments arrive in any order, more than once or never; the reader pulls *)
(* one segment at a time and gets a segment, a gap or nothing.  Store and  *)
(* the reads are atomic here because every caller holds sources_mutex for  *)
(* the whole call; module ReceiverTask shows that at the level of locks.   *)
(*                                                                         *)
(* A segment is its sequence number: the slot stores the number together   *)
(* with the bytes in one write, so the number stands for the content.      *)
(*                                                                         *)
(* An operator whose name ends in a word after an underscore, like         *)
(* Oldest_TooOld, is a wrong variant of the definition it belongs to:       *)
(* substituting it shows that a property can fail.                         *)
(***************************************************************************)
EXTENDS Integers, FiniteSets

CONSTANTS
  Size,      \* buffer_depth, the number of slots
  Segments   \* the sequence numbers that may arrive

ASSUME SizeAssumption == Size \in Nat \ {0}
ASSUME SegmentsAssumption == Segments \subseteq Nat

VARIABLES
  entry_id,           \* id of each slot; NoId after reset()
  active,             \* the slots whose flag `active' is set
  read_seq,           \* last sequence number the reader has passed, or -1
  min_write_seq,      \* oldest and newest number stored since the (re)start,
  max_write_seq,      \*   -1 before the first
  segments_received,  \* number of stores since the (re)start
  is_primed,          \* half of the buffer has been filled once
  result,             \* SegmentType returned by the last readSegment()
  out,                \* segment copied out by the last kSegment, or -1
  stored,             \* history: segments accepted since the (re)start
  played              \* history: segments handed to the decoder since then

vars == <<entry_id, active, read_seq, min_write_seq, max_write_seq,
          segments_received, is_primed, result, out, stored, played>>

Slots == 0 .. Size - 1
NoId == -2                      \* INT32_MIN: no segment has this number
Index(seq) == seq % Size

\* get(seq) is not null and active: the segment itself is in its slot
Buffered(seq) == entry_id[Index(seq)] = seq /\ Index(seq) \in active

\* Where the reader stands: before the first read, just before the oldest
\* segment received so far.
startSeq == IF read_seq < 0 /\ min_write_seq >= 0 THEN min_write_seq - 1
                                                  ELSE read_seq

Oldest_TooOld == max_write_seq - Size
Oldest_TooNew == max_write_seq - Size + 2
\* The oldest number that still has its slot to itself.
Oldest == max_write_seq - Size + 1

Init ==
  /\ entry_id = [i \in Slots |-> NoId]
  /\ active = {}
  /\ read_seq = -1
  /\ min_write_seq = -1
  /\ max_write_seq = -1
  /\ segments_received = 0
  /\ is_primed = FALSE
  /\ result = "none"
  /\ out = -1
  /\ stored = {}
  /\ played = {}

-----------------------------------------------------------------------------
(* Writing *)

acceptsSegment_AnyAge(seq) == seq > read_seq /\ ~Buffered(seq)

acceptsSegment_Twice(seq) ==
  /\ seq > read_seq
  /\ max_write_seq >= 0 => seq > max_write_seq - Size

acceptsSegment(seq) ==
  /\ seq > read_seq
  /\ max_write_seq >= 0 => seq > max_write_seq - Size
  /\ ~Buffered(seq)

\* IndexedRingBuffer::write: whatever was in the slot is overwritten.
Write(seq) ==
  /\ entry_id' = [entry_id EXCEPT ![Index(seq)] = seq]
  /\ active' = active \union {Index(seq)}

notifySegmentReceived(seq) ==
  /\ min_write_seq' = IF min_write_seq < 0 \/ seq < min_write_seq
                        THEN seq ELSE min_write_seq
  /\ max_write_seq' = IF seq > max_write_seq THEN seq ELSE max_write_seq
  /\ segments_received' = segments_received + 1
  /\ is_primed' = (is_primed \/ segments_received + 1 >= Size \div 2)

\* storeEncodedData of an acceptable segment; any other is ignored and
\* changes nothing.
Store(seq) ==
  /\ acceptsSegment(seq)
  /\ Write(seq)
  /\ notifySegmentReceived(seq)
  /\ stored' = stored \union {seq}
  /\ UNCHANGED <<read_seq, result, out, played>>

-----------------------------------------------------------------------------
(* Reading: the three outcomes of readSegment *)

unwritten == <<entry_id, min_write_seq, max_write_seq, segments_received,
               is_primed, stored>>

\* kNoSegment: not primed, or the next segment has not been received yet.
ReadNothing ==
  /\ \/ ~is_primed /\ UNCHANGED read_seq
     \/ /\ is_primed
        /\ ~Buffered(startSeq + 1)
        /\ startSeq + 1 > max_write_seq
        /\ read_seq' = startSeq
  /\ result' = "none"
  /\ UNCHANGED <<unwritten, active, out, played>>

ReadGap_Waits ==
  /\ is_primed
  /\ ~Buffered(startSeq + 1)
  /\ startSeq + 1 < Oldest
  /\ read_seq' = Oldest - 1
  /\ result' = "gap"
  /\ UNCHANGED <<unwritten, active, out, played>>

\* kGap: the next segment is missing although a newer one has arrived; a
\* reader that has fallen behind the buffer jumps forward.
ReadGap ==
  LET next == startSeq + 1 IN
  /\ is_primed
  /\ ~Buffered(next)
  /\ next <= max_write_seq
  /\ read_seq' = IF next < Oldest THEN Oldest - 1 ELSE next
  /\ result' = "gap"
  /\ UNCHANGED <<unwritten, active, out, played>>

\* kSegment: the next segment is copied out and its slot released.
ReadSegment ==
  LET next == startSeq + 1 IN
  /\ is_primed
  /\ Buffered(next)
  /\ active' = active \ {Index(next)}
  /\ read_seq' = next
  /\ result' = "segment"
  /\ out' = next
  /\ played' = played \union {next}
  /\ UNCHANGED unwritten

Read == ReadNothing \/ ReadGap \/ ReadSegment

\* AOOSourceLine::begin after a format change: resize() and setStartSeq(-1).
\* (resize() also runs reset(), which clears every slot.)
Restart ==
  /\ entry_id' = [i \in Slots |-> NoId]
  /\ active' = {}
  /\ read_seq' = -1
  /\ min_write_seq' = -1
  /\ max_write_seq' = -1
  /\ segments_received' = 0
  /\ is_primed' = FALSE
  /\ stored' = {}
  /\ played' = {}
  /\ UNCHANGED <<result, out>>

Next == (\E seq \in Segments : Store(seq)) \/ Read \/ Restart

Spec == Init /\ [][Next]_vars

\* The audio output keeps pulling.
FairSpec == Spec /\ WF_vars(ReadGap \/ ReadSegment)

-----------------------------------------------------------------------------
(* Properties *)

TypeOK ==
  /\ entry_id \in [Slots -> Int]
  /\ active \in SUBSET Slots
  /\ read_seq \in Int
  /\ min_write_seq \in Int
  /\ max_write_seq \in Int
  /\ segments_received \in Nat
  /\ is_primed \in BOOLEAN
  /\ result \in {"none", "segment", "gap"}
  /\ out \in Int
  /\ stored \in SUBSET Segments
  /\ played \in SUBSET Segments

\* Nothing within the buffer window is lost: a segment that was accepted and
\* is less than Size behind the newest one has been played, or is still in its
\* slot and ahead of the reader.  (acceptsSegment and readSegment together:
\* neither a late store nor a catch-up may destroy it.)
NothingInWindowLost ==
  \A s \in stored :
    s > max_write_seq - Size => \/ s \in played
                                \/ Buffered(s) /\ s > read_seq

\* A segment is accepted at most once between two restarts, however often it is
\* sent (redundancy, resends): the number of stores is the number of different
\* segments, which is what priming and the statistics count.
CountedOnce == segments_received = Cardinality(stored)

\* A segment is reported missing only while it is not in the buffer, and a gap
\* leaves the reader inside the buffer window: it never has to skip twice.
GapIsJustified ==
  [][result' = "gap" /\ read_seq' > read_seq =>
       /\ ~Buffered(startSeq + 1)
       /\ read_seq' + Size >= max_write_seq]_vars

\* A primed reader always gets to the newest segment: gaps, overwritten slots
\* and late segments never stall it.
Drains == is_primed ~> (read_seq = max_write_seq)

-----------------------------------------------------------------------------
(* Refinement of the abstract play-out *)

\* What the reader still owes: accepted, in the window and not passed.
Held == {s \in stored : /\ s > read_seq
                        /\ s > max_write_seq - Size
                        /\ Buffered(s)}

Abstract == INSTANCE Playout WITH
  Window <- Size, cursor <- read_seq, newest <- max_write_seq, held <- Held

\* Slots, priming and lazy start together behave as the abstract play-out:
\* the position only moves forward, a segment of the window is played in its
\* turn and nothing else takes it out.
RefinesPlayout == Abstract!Spec
=============================================================================
