------------------------- MODULE JitterBufferProofs -------------------------
(***************************************************************************)
(* Proofs about JitterBuffer, for every Size and every set of segments.    *)
(***************************************************************************)
EXTENDS JitterBuffer, FiniteSetTheorems, TLAPS

USE SizeAssumption, SegmentsAssumption

-----------------------------------------------------------------------------
(* Slots *)

\* Every sequence number has a slot.
LEMMA IndexIsSlot == ASSUME NEW s \in Int PROVE Index(s) \in Slots
BY DEF Index, Slots

\* Two different numbers that share a slot are at least Size apart, so the
\* numbers of one window never compete for a slot.
LEMMA SharedSlotIsFar ==
  ASSUME NEW s \in Int, NEW t \in Int, Index(s) = Index(t), s < t
  PROVE  s + Size <= t
<1> DEFINE q == s \div Size
           r == t \div Size
<1>1. s = Size * q + (s % Size) /\ t = Size * r + (t % Size)
  OBVIOUS
<1>2. q \in Int /\ r \in Int
  OBVIOUS
<1>3. t - s = Size * (r - q)
  BY <1>1, <1>2 DEF Index
<1>4. r - q >= 1
  BY <1>3, <1>2
<1> DEFINE k == r - q - 1
<1>5. k \in Nat /\ r - q = k + 1
  BY <1>2, <1>4
<1>6. Size * (r - q) = Size * k + Size
  BY <1>5
<1>7. Size * k >= 0
  BY <1>5
<1> QED BY <1>3, <1>6, <1>7

-----------------------------------------------------------------------------
(* The inductive invariant *)

\* The reader never passes the newest segment received: it waits on an
\* underrun, so a segment that is merely late is not refused.
ReaderBehindNewest == read_seq <= max_write_seq

\* The three positions are -1 or sequence numbers that have been stored, and
\* the reader is never ahead of the newest one.
Positions ==
  /\ read_seq >= -1
  /\ max_write_seq >= -1
  /\ min_write_seq >= -1
  /\ min_write_seq <= max_write_seq
  /\ max_write_seq >= 0 => min_write_seq \in stored
  /\ is_primed => max_write_seq >= 0
  /\ ReaderBehindNewest
  /\ \A s \in stored : min_write_seq <= s /\ s <= max_write_seq

\* An active slot holds a stored segment that belongs there.
SlotsOK ==
  \A i \in active : entry_id[i] \in stored /\ Index(entry_id[i]) = i

\* What keeps a segment from being accepted twice: it was passed, it fell out
\* of the window, or it is still in its slot.
Kept ==
  \A s \in stored : \/ s <= read_seq
                    \/ s + Size <= max_write_seq
                    \/ Buffered(s)

\* The reader passes a segment of the window only by playing it, and plays
\* nothing it has not passed.
PassedIsPlayed ==
  /\ \A s \in stored :
       s <= read_seq /\ s > max_write_seq - Size => s \in played
  /\ \A p \in played : p <= read_seq

Counted == IsFiniteSet(stored) /\ CountedOnce

IInv ==
  /\ TypeOK
  /\ Positions
  /\ SlotsOK
  /\ Kept
  /\ PassedIsPlayed
  /\ Counted

LEMMA InitInv == Init => IInv
<1> SUFFICES ASSUME Init PROVE IInv
  OBVIOUS
<1>1. TypeOK
  <2>1. [i \in Slots |-> NoId] \in [Slots -> Int]
    BY DEF NoId
  <2>2. entry_id \in [Slots -> Int]
    BY <2>1 DEF Init
  <2>3. active \in SUBSET Slots /\ stored \in SUBSET Segments
        /\ played \in SUBSET Segments
    BY DEF Init
  <2>4. is_primed \in BOOLEAN
    BY DEF Init
  <2>5. /\ read_seq \in Int /\ min_write_seq \in Int /\ max_write_seq \in Int
        /\ segments_received \in Nat /\ out \in Int
        /\ result \in {"none", "segment", "gap"}
    BY DEF Init
  <2> QED BY <2>2, <2>3, <2>4, <2>5 DEF TypeOK
<1>2. Positions /\ SlotsOK /\ Kept /\ PassedIsPlayed
  BY DEF Init, Positions, ReaderBehindNewest, SlotsOK, Kept, PassedIsPlayed
<1>3. Counted
  BY FS_EmptySet DEF Init, Counted, CountedOnce
<1> QED BY <1>1, <1>2, <1>3 DEF IInv

\* The arithmetic facts of the invariant.
LEMMA Numbers ==
  ASSUME IInv
  PROVE  /\ Size \in Nat /\ Size > 0
         /\ read_seq \in Int /\ min_write_seq \in Int /\ max_write_seq \in Int
         /\ \A s \in stored : s \in Nat /\ s <= max_write_seq
         /\ \A s \in Segments : s \in Nat
BY DEF IInv, TypeOK, Positions

\* An accepted segment was not accepted before.
LEMMA AcceptedIsNew ==
  ASSUME IInv, NEW seq \in Segments, acceptsSegment(seq)
  PROVE  seq \notin stored
BY DEF IInv, TypeOK, Positions, Kept, acceptsSegment

LEMMA StoreInv ==
  ASSUME IInv, NEW seq \in Segments, Store(seq)
  PROVE  IInv'
<1> USE DEF Store, IInv
<1>1. seq \in Nat /\ Size \in Nat /\ Size > 0
  BY Numbers
<1>a. read_seq \in Int /\ max_write_seq \in Int /\ max_write_seq' \in Int
  BY <1>1, Numbers DEF notifySegmentReceived
<1>b. \A s \in stored : s \in Nat /\ s <= max_write_seq
  BY Numbers
<1>2. Index(seq) \in Slots
  BY <1>1, IndexIsSlot
<1>3. TypeOK'
  BY <1>1, <1>2 DEF TypeOK, Write, notifySegmentReceived
<1>4. max_write_seq' >= max_write_seq /\ max_write_seq' >= seq
  BY <1>1, <1>a DEF notifySegmentReceived
<1>5. entry_id'[Index(seq)] = seq
  BY <1>2 DEF Write, TypeOK
<1>6. ASSUME NEW i \in Slots, i # Index(seq) PROVE entry_id'[i] = entry_id[i]
  BY <1>6 DEF Write, TypeOK
<1>7. Positions'
  BY <1>1 DEF TypeOK, Positions, ReaderBehindNewest, acceptsSegment,
              notifySegmentReceived
<1>8. SlotsOK'
  BY <1>2, <1>5, <1>6 DEF TypeOK, SlotsOK, Write
<1>9. Kept'
  <2> SUFFICES ASSUME NEW s \in stored'
               PROVE  s <= read_seq' \/ s + Size <= max_write_seq' \/ Buffered(s)'
    BY DEF Kept
  <2>1. CASE s = seq
    BY <2>1, <1>5 DEF Buffered, Write
  <2>2. CASE s # seq
    <3>1. s \in stored /\ s \in Nat /\ s <= max_write_seq
      BY <2>2, <1>b
    <3>2. CASE s <= read_seq
      BY <3>2
    <3>5. CASE s + Size <= max_write_seq
      <4>1. s + Size <= max_write_seq'
        BY <1>a, <3>1, <3>5, <1>4, <1>1
      <4> QED BY <4>1
    <3>3. CASE Buffered(s) /\ Index(s) # Index(seq)
      <4>1. Index(s) \in Slots
        BY <3>1, IndexIsSlot
      <4> QED BY <3>3, <4>1, <1>6 DEF Buffered, Write
    <3>4. CASE Buffered(s) /\ Index(s) = Index(seq) /\ s < seq
      <4>1. s + Size <= seq
        BY <3>1, <3>4, <1>1, SharedSlotIsFar
      <4>2. s + Size <= max_write_seq'
        BY <1>a, <4>1, <3>1, <1>1, <1>4
      <4> QED BY <4>2
    <3>6. CASE Buffered(s) /\ Index(s) = Index(seq) /\ seq < s
      <4>1. seq + Size <= s
        BY <3>1, <3>6, <1>1, SharedSlotIsFar
      <4> QED BY <4>1, <3>1, <1>1, <1>a DEF acceptsSegment
    <3> QED BY <2>2, <3>1, <3>2, <3>3, <3>4, <3>5, <3>6, <1>1 DEF Kept
  <2> QED BY <2>1, <2>2
<1>10. PassedIsPlayed'
  BY <1>1, <1>a, <1>b, <1>4 DEF PassedIsPlayed, acceptsSegment
<1>11. Counted'
  BY AcceptedIsNew, FS_AddElement
  DEF Counted, CountedOnce, notifySegmentReceived
<1> QED BY <1>3, <1>7, <1>8, <1>9, <1>10, <1>11

\* Where the next read looks: behind it lies no segment the reader still owes.
LEMMA NextRead ==
  ASSUME IInv
  PROVE  /\ startSeq \in Int /\ startSeq >= -1 /\ startSeq >= read_seq
         /\ startSeq <= max_write_seq
         /\ \A s \in stored : s <= startSeq => s <= read_seq
         /\ Buffered(startSeq + 1) => startSeq + 1 \in stored
<1>1. /\ startSeq \in Int /\ startSeq >= -1 /\ startSeq >= read_seq
      /\ startSeq <= max_write_seq
  BY Numbers DEF IInv, Positions, ReaderBehindNewest, startSeq
<1>2. \A s \in stored : s <= startSeq => s <= read_seq
  BY Numbers DEF IInv, Positions, startSeq
<1>3. Buffered(startSeq + 1) => startSeq + 1 \in stored
  BY <1>1, IndexIsSlot DEF IInv, SlotsOK, Buffered
<1> QED BY <1>1, <1>2, <1>3

LEMMA ReadNothingInv == ASSUME IInv, ReadNothing PROVE IInv'
<1>1. read_seq' = read_seq
  <2>1. CASE ~is_primed
    BY <2>1 DEF ReadNothing
  <2>2. CASE is_primed /\ read_seq' = startSeq /\ startSeq + 1 > max_write_seq
    BY <2>2, Numbers DEF IInv, Positions, startSeq
  <2> QED BY <2>1, <2>2 DEF ReadNothing
<1>2. TypeOK'
  BY <1>1 DEF IInv, TypeOK, ReadNothing, unwritten
<1>3. Positions' /\ PassedIsPlayed'
  BY <1>1 DEF IInv, Positions, ReaderBehindNewest, PassedIsPlayed, ReadNothing,
              unwritten
<1>4. SlotsOK' /\ Kept' /\ Counted'
  BY <1>1 DEF IInv, SlotsOK, Kept, Buffered, Counted, CountedOnce,
              ReadNothing, unwritten
<1> QED BY <1>2, <1>3, <1>4 DEF IInv

\* A gap moves the reader by one, or to the edge of the window.
LEMMA GapPosition ==
  ASSUME IInv, ReadGap
  PROVE  /\ read_seq' \in Int /\ read_seq' > startSeq
         /\ read_seq' <= max_write_seq
         /\ read_seq' + Size >= max_write_seq
         /\ \/ read_seq' = startSeq + 1
            \/ read_seq' + Size = max_write_seq
BY Numbers, NextRead DEF ReadGap, Oldest

LEMMA ReadGapInv == ASSUME IInv, ReadGap PROVE IInv'
<1> USE DEF ReadGap, unwritten
<1>1. TypeOK'
  BY GapPosition DEF IInv, TypeOK
<1>2. Positions'
  BY GapPosition, NextRead DEF IInv, Positions, ReaderBehindNewest
<1>3. SlotsOK' /\ Counted'
  BY DEF IInv, SlotsOK, Counted, CountedOnce
<1>4. Kept'
  <2> SUFFICES ASSUME NEW s \in stored
               PROVE  s <= read_seq' \/ s + Size <= max_write_seq \/ Buffered(s)
    BY DEF Kept, Buffered
  <2>1. s <= read_seq => s <= read_seq'
    BY GapPosition, NextRead, Numbers
  <2> QED BY <2>1 DEF IInv, Kept
<1>5. PassedIsPlayed'
  <2>1. ASSUME NEW s \in stored, s <= read_seq', s > max_write_seq - Size
        PROVE  s \in played
    <3>1. s \in Nat /\ read_seq' = startSeq + 1
      BY <2>1, GapPosition, Numbers
    <3>2. s <= read_seq \/ s = startSeq + 1
      BY <2>1, <3>1, NextRead
    <3>3. s # startSeq + 1
      BY <2>1, <3>1, NextRead, Numbers DEF IInv, Kept
    <3> QED BY <2>1, <3>2, <3>3 DEF IInv, PassedIsPlayed
  <2>2. \A p \in played : p <= read_seq'
    BY GapPosition, NextRead, Numbers DEF IInv, PassedIsPlayed, TypeOK
  <2> QED BY <2>1, <2>2 DEF PassedIsPlayed
<1> QED BY <1>1, <1>2, <1>3, <1>4, <1>5 DEF IInv

LEMMA ReadSegmentInv == ASSUME IInv, ReadSegment PROVE IInv'
<1> USE DEF ReadSegment, unwritten
<1> DEFINE next == startSeq + 1
<1>1. /\ next \in stored /\ next \in Nat /\ next > read_seq
      /\ next <= max_write_seq /\ read_seq' = next
  BY NextRead, Numbers
<1>2. TypeOK'
  <2>1. active' \in SUBSET Slots /\ played' \in SUBSET Segments
    BY <1>1 DEF IInv, TypeOK
  <2>2. read_seq' \in Int /\ out' \in Int /\ result' = "segment"
    BY <1>1
  <2> QED BY <2>1, <2>2 DEF IInv, TypeOK
<1>3. Positions'
  BY <1>1 DEF IInv, Positions, ReaderBehindNewest
<1>4. SlotsOK' /\ Counted'
  BY DEF IInv, SlotsOK, Counted, CountedOnce
<1>5. Kept'
  <2> SUFFICES ASSUME NEW s \in stored
               PROVE  s <= next \/ s + Size <= max_write_seq \/ Buffered(s)'
    BY <1>1 DEF Kept
  <2>1. s \in Nat /\ read_seq \in Int
    BY Numbers
  <2>2. CASE s <= read_seq \/ s + Size <= max_write_seq
    BY <1>1, <2>1, <2>2
  <2>3. CASE Buffered(s) /\ Index(s) # Index(next)
    BY <2>3 DEF Buffered
  <2>4. CASE Buffered(s) /\ Index(s) = Index(next)
    <3>1. s = next
      BY <2>4 DEF Buffered
    <3> QED BY <3>1, <2>1
  <2> QED BY <2>2, <2>3, <2>4 DEF IInv, Kept
<1>6. PassedIsPlayed'
  <2>1. ASSUME NEW s \in stored, s <= next, s > max_write_seq - Size
        PROVE  s \in played'
    <3>1. s = next \/ s <= read_seq
      BY <2>1, NextRead, Numbers
    <3> QED BY <2>1, <3>1 DEF IInv, PassedIsPlayed
  <2>2. \A p \in played' : p <= next
    BY <1>1, NextRead, Numbers DEF IInv, PassedIsPlayed, TypeOK
  <2> QED BY <1>1, <2>1, <2>2 DEF PassedIsPlayed
<1> QED BY <1>2, <1>3, <1>4, <1>5, <1>6 DEF IInv

LEMMA RestartInv == ASSUME IInv, Restart PROVE IInv'
<1> USE DEF Restart
<1>1. TypeOK'
  <2>1. [i \in Slots |-> NoId] \in [Slots -> Int]
    BY DEF NoId
  <2>2. entry_id' \in [Slots -> Int]
    BY <2>1
  <2>3. active' \in SUBSET Slots /\ stored' \in SUBSET Segments
        /\ played' \in SUBSET Segments
    OBVIOUS
  <2>4. is_primed' \in BOOLEAN
    OBVIOUS
  <2>5. read_seq' \in Int /\ min_write_seq' \in Int /\ max_write_seq' \in Int
        /\ segments_received' \in Nat
    OBVIOUS
  <2> QED BY <2>2, <2>3, <2>4, <2>5 DEF IInv, TypeOK
<1>2. Positions' /\ SlotsOK' /\ Kept' /\ PassedIsPlayed'
  BY DEF Positions, ReaderBehindNewest, SlotsOK, Kept, PassedIsPlayed
<1>3. Counted'
  BY FS_EmptySet DEF Counted, CountedOnce
<1> QED BY <1>1, <1>2, <1>3 DEF IInv

LEMMA StutterInv == ASSUME IInv, UNCHANGED vars PROVE IInv'
BY DEF vars, IInv, TypeOK, Positions, ReaderBehindNewest, SlotsOK, Kept,
       Buffered, PassedIsPlayed, Counted, CountedOnce

\* Every reachable state satisfies the inductive invariant.
THEOREM Inductive == Spec => []IInv
<1>1. Init => IInv
  BY InitInv
<1>2. IInv /\ [Next]_vars => IInv'
  <2> SUFFICES ASSUME IInv, [Next]_vars PROVE IInv'
    OBVIOUS
  <2>1. ASSUME NEW seq \in Segments, Store(seq) PROVE IInv'
    BY <2>1, StoreInv
  <2>2. CASE ReadNothing
    BY <2>2, ReadNothingInv
  <2>3. CASE ReadGap
    BY <2>3, ReadGapInv
  <2>4. CASE ReadSegment
    BY <2>4, ReadSegmentInv
  <2>5. CASE Restart
    BY <2>5, RestartInv
  <2>6. CASE UNCHANGED vars
    BY <2>6, StutterInv
  <2> QED BY <2>1, <2>2, <2>3, <2>4, <2>5, <2>6 DEF Next, Read
<1> QED BY <1>1, <1>2, PTL DEF Spec

-----------------------------------------------------------------------------
(* State properties *)

\* The variables keep their types.
THEOREM TypeCorrect == Spec => []TypeOK
BY Inductive, PTL DEF IInv

\* Nothing within the buffer window is lost.
THEOREM NothingLost == Spec => []NothingInWindowLost
<1>1. IInv => NothingInWindowLost
  <2> SUFFICES ASSUME IInv, NEW s \in stored, s > max_write_seq - Size
               PROVE  s \in played \/ (Buffered(s) /\ s > read_seq)
    BY DEF NothingInWindowLost
  <2>1. s <= read_seq => s \in played
    BY DEF IInv, PassedIsPlayed
  <2>2. s > read_seq => Buffered(s)
    BY Numbers DEF IInv, Kept
  <2>3. s \in Nat /\ read_seq \in Int
    BY Numbers
  <2> QED BY <2>1, <2>2, <2>3
<1> QED BY <1>1, Inductive, PTL

\* A segment is counted once, however often it is sent.
THEOREM StoredOnce == Spec => []CountedOnce
BY Inductive, PTL DEF IInv, Counted

\* The reader waits for the newest segment instead of passing it.
THEOREM NeverAhead == Spec => []ReaderBehindNewest
BY Inductive, PTL DEF IInv, Positions

-----------------------------------------------------------------------------
(* Action properties *)

\* Segments reach the decoder in strictly increasing order, hence at most
\* once, until the line is restarted.
InOrder ==
  [][played' # played /\ played' # {} =>
       \A p \in played : p < out']_vars

\* The decoder gets the segments in increasing order.
THEOREM PlayedInOrder == Spec => InOrder
<1> DEFINE A == played' # played /\ played' # {} => \A p \in played : p < out'
<1>1. IInv /\ [Next]_vars => [A]_vars
  <2> SUFFICES ASSUME IInv, Next PROVE A
    OBVIOUS
  <2>1. ASSUME NEW seq \in Segments, Store(seq) PROVE A
    BY <2>1 DEF Store
  <2>2. CASE ReadNothing \/ ReadGap
    BY <2>2 DEF ReadNothing, ReadGap
  <2>3. CASE ReadSegment
    <3>1. \A p \in played : p <= read_seq /\ p \in Nat
      BY Numbers DEF IInv, PassedIsPlayed, TypeOK
    <3> QED BY <2>3, <3>1, NextRead, Numbers DEF ReadSegment
  <2>4. CASE Restart
    BY <2>4 DEF Restart
  <2> QED BY <2>1, <2>2, <2>3, <2>4 DEF Next, Read
<1> QED BY <1>1, Inductive, PTL DEF Spec, InOrder

\* A gap is reported only for a missing segment, and leaves the reader within
\* the window.
THEOREM GapsJustified == Spec => GapIsJustified
<1> DEFINE A == result' = "gap" /\ read_seq' > read_seq =>
                  ~Buffered(startSeq + 1) /\ read_seq' + Size >= max_write_seq
<1>1. IInv /\ [Next]_vars => [A]_vars
  <2> SUFFICES ASSUME IInv, Next PROVE A
    OBVIOUS
  <2>1. ASSUME NEW seq \in Segments, Store(seq) PROVE A
    BY <2>1, Numbers DEF Store
  <2>2. CASE ReadNothing
    BY <2>2 DEF ReadNothing
  <2>3. CASE ReadGap
    <3>1. ~Buffered(startSeq + 1)
      BY <2>3 DEF ReadGap
    <3> QED BY <2>3, <3>1, GapPosition, Numbers
  <2>4. CASE ReadSegment
    BY <2>4 DEF ReadSegment
  <2>5. CASE Restart
    BY <2>5, Numbers DEF Restart, IInv, Positions
  <2> QED BY <2>1, <2>2, <2>3, <2>4, <2>5 DEF Next, Read
<1> QED BY <1>1, Inductive, PTL DEF Spec, GapIsJustified

-----------------------------------------------------------------------------
(* Refinement of the abstract play-out *)

\* In a reachable state the slot condition of Held is redundant: nothing in
\* the window and ahead of the reader can have lost its slot.
LEMMA HeldIsWindow ==
  ASSUME IInv
  PROVE  Held = {s \in stored : s > read_seq /\ s + Size > max_write_seq}
BY Numbers DEF IInv, Kept, Held

LEMMA HeldIsWindowNext ==
  ASSUME IInv'
  PROVE  Held' = {s \in stored' : s > read_seq' /\ s + Size > max_write_seq'}
<1>1. /\ Size \in Nat /\ read_seq' \in Int /\ max_write_seq' \in Int
      /\ \A s \in stored' : s \in Nat
  BY DEF IInv, TypeOK
<1>2. \A s \in stored' : \/ s <= read_seq'
                          \/ s + Size <= max_write_seq'
                          \/ Buffered(s)'
  BY DEF IInv, Kept
<1> QED BY <1>1, <1>2 DEF Held

LEMMA InitRefines == Init => Abstract!Init
BY DEF Init, Abstract!Init, Held

LEMMA StoreRefines ==
  ASSUME IInv, IInv', NEW seq \in Segments, Store(seq)
  PROVE  Abstract!Accept(seq)
<1> USE DEF Store
<1>1. /\ seq \in Nat /\ Size \in Nat /\ read_seq \in Int
      /\ max_write_seq \in Int /\ max_write_seq' \in Int
  BY Numbers DEF notifySegmentReceived
<1>2. Held = {s \in stored : s > read_seq /\ s + Size > max_write_seq}
  BY HeldIsWindow
<1>3. Held' = {s \in stored' : s > read_seq' /\ s + Size > max_write_seq'}
  BY HeldIsWindowNext
<1>4. max_write_seq' = IF seq > max_write_seq THEN seq ELSE max_write_seq
  BY DEF notifySegmentReceived
<1>5. seq > read_seq /\ seq > max_write_seq - Size /\ seq \notin Held
  BY <1>1, AcceptedIsNew, Numbers DEF acceptsSegment, Held, IInv, Positions
<1>6. \A s \in stored : s \in Nat
  BY Numbers
<1>7. Held' = {t \in Held \union {seq} : t > max_write_seq' - Size}
  BY <1>1, <1>2, <1>3, <1>4, <1>5, <1>6
<1> QED BY <1>4, <1>5, <1>7 DEF Abstract!Accept

LEMMA GapRefines ==
  ASSUME IInv, IInv', ReadGap
  PROVE  read_seq' \in read_seq + 1 .. max_write_seq /\ Abstract!Gap(read_seq')
<1> USE DEF ReadGap, unwritten
<1>1. /\ Size \in Nat /\ read_seq \in Int /\ max_write_seq \in Int
      /\ read_seq' \in Int /\ \A s \in stored : s \in Nat
  BY Numbers, GapPosition
<1>2. read_seq < read_seq' /\ read_seq' <= max_write_seq
  BY <1>1, GapPosition, NextRead
<1>3. \A t \in Held : read_seq' < t
  <2> SUFFICES ASSUME NEW t \in stored, t > read_seq, t + Size > max_write_seq,
                      Buffered(t)
               PROVE  read_seq' < t
    BY Numbers DEF Held
  <2>1. t > startSeq /\ t \in Nat
    BY NextRead, Numbers
  <2>2. CASE read_seq' = startSeq + 1
    BY <2>1, <2>2, NextRead
  <2>3. CASE read_seq' + Size = max_write_seq
    BY <2>1, <2>3, <1>1
  <2> QED BY <2>2, <2>3, GapPosition
<1>4. Held' = Held
  BY <1>1, <1>2, <1>3, HeldIsWindow, HeldIsWindowNext
<1> QED BY <1>1, <1>2, <1>3, <1>4 DEF Abstract!Gap

LEMMA SegmentRefines ==
  ASSUME IInv, IInv', ReadSegment
  PROVE  \E s \in Segments : Abstract!Play(s) \/ Abstract!PlayLate(s)
<1> USE DEF ReadSegment, unwritten
<1> DEFINE next == startSeq + 1
<1>1. /\ Size \in Nat /\ read_seq \in Int /\ max_write_seq \in Int
      /\ \A s \in stored : s \in Nat
  BY Numbers
<1>2. next \in stored /\ next \in Nat /\ next > read_seq /\ next \in Segments
  BY NextRead, Numbers DEF IInv, TypeOK
<1>3. Abstract!IsNext(next)
  BY <1>1 DEF Abstract!IsNext, startSeq, IInv, Positions
<1>4. \A t \in Held : next <= t
  BY <1>1, NextRead DEF Held
<1>5. Held' = Held \ {next}
  BY <1>1, <1>2, <1>4, HeldIsWindow, HeldIsWindowNext
<1>6. CASE next + Size > max_write_seq
  <2>1. next \in Held
    BY <1>1, <1>2, <1>6, HeldIsWindow
  <2> QED BY <1>2, <1>3, <1>4, <1>5, <2>1 DEF Abstract!Play
<1>7. CASE next + Size <= max_write_seq
  <2>1. next <= max_write_seq - Size /\ next \notin Held
    BY <1>1, <1>2, <1>7, HeldIsWindow
  <2> QED BY <1>2, <1>3, <1>5, <2>1 DEF Abstract!PlayLate
<1> QED BY <1>1, <1>2, <1>6, <1>7

\* Every step of the jitter buffer is a step of the abstract play-out.
THEOREM Refinement == Spec => RefinesPlayout
<1>1. Init => Abstract!Init
  BY InitRefines
<1>2. IInv /\ IInv' /\ [Next]_vars => [Abstract!Next]_(Abstract!vars)
  <2> SUFFICES ASSUME IInv, IInv', [Next]_vars
               PROVE  Abstract!Next \/ UNCHANGED Abstract!vars
    OBVIOUS
  <2>1. ASSUME NEW seq \in Segments, Store(seq) PROVE Abstract!Next
    BY <2>1, StoreRefines DEF Abstract!Next
  <2>2. CASE ReadNothing
    <3>1. read_seq' = read_seq /\ Held' = Held
      BY <2>2, Numbers
      DEF ReadNothing, unwritten, startSeq, IInv, Positions, Held, Buffered
    <3> QED BY <2>2, <3>1
            DEF ReadNothing, unwritten, Abstract!Next, Abstract!Nothing
  <2>3. CASE ReadGap
    BY <2>3, GapRefines DEF Abstract!Next
  <2>4. CASE ReadSegment
    BY <2>4, SegmentRefines DEF Abstract!Next
  <2>5. CASE Restart
    BY <2>5 DEF Restart, Held, Abstract!Next, Abstract!Restart
  <2>6. CASE UNCHANGED vars
    BY <2>6 DEF vars, Held, Buffered, Abstract!vars
  <2> QED BY <2>1, <2>2, <2>3, <2>4, <2>5, <2>6 DEF Next, Read
<1> QED BY <1>1, <1>2, Inductive, PTL DEF Spec, RefinesPlayout, Abstract!Spec
=============================================================================
