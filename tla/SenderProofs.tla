---------------------------- MODULE SenderProofs ----------------------------
(***************************************************************************)
(* Proofs about the two ends of resending, Sender and PacketRecovery.      *)
(*                                                                         *)
(* Of Sender, for any sinks, addresses, configured targets, size of the    *)
(* resend buffer and number of blocks, two independent invariants: one     *)
(* about the numbers and the resend buffer, one about the list of targets. *)
(* Of PacketRecovery, for any sequence numbers, limits, width of the clock *)
(* and times of the polls, an invariant about the attempts and another     *)
(* about the deadlines.                                                    *)
(***************************************************************************)
EXTENDS Sender, PacketRecovery, SequenceTheorems, TLAPS

-----------------------------------------------------------------------------
(* The resend buffer *)

\* What is in a slot is a block that was sent, with the number it was sent as.
Faithful ==
  \A i \in Slots : slot_id[i] # NoId =>
    /\ slot_id[i] \in 0 .. seq_no - 1
    /\ slot_block[i] = content[slot_id[i] + 1]

Numbers ==
  /\ seq_no \in Nat /\ block \in Nat /\ first \in Nat
  /\ first <= seq_no
  /\ content \in Seq(Nat) /\ Len(content) = seq_no
  /\ slot_id \in [Slots -> Int]
  /\ slot_block \in [Slots -> Nat]

RingInv == Numbers /\ Faithful /\ OneBlockPerNumber /\ WindowCanBeResent

\* Two different numbers that share a slot are at least buffer_size apart.
LEMMA SharedSlotIsFar ==
  ASSUME NEW s \in Int, NEW t \in Int, Index(s) = Index(t), s < t
  PROVE  s + buffer_size <= t
<1> USE SizeAssumption
<1> DEFINE q == s \div buffer_size
           r == t \div buffer_size
<1>1. /\ s = buffer_size * q + (s % buffer_size)
      /\ t = buffer_size * r + (t % buffer_size)
  OBVIOUS
<1>2. q \in Int /\ r \in Int
  OBVIOUS
<1>3. t - s = buffer_size * (r - q)
  BY <1>1, <1>2 DEF Index
<1>4. r - q >= 1
  BY <1>3, <1>2
<1>5. buffer_size * (r - q) >= buffer_size
  BY <1>2, <1>4
<1> QED
  BY <1>3, <1>5

LEMMA IndexIsSlot == ASSUME NEW s \in Int PROVE Index(s) \in Slots
BY SizeAssumption DEF Index, Slots

LEMMA DataIsData ==
  ASSUME NEW sink, NEW place, NEW seq, NEW what
  PROVE  LET m == Data(sink, place, seq, what)
         IN m.type = "data" /\ m.seq = seq /\ m.block = what
BY DEF Data

\* The invariant at the start.
LEMMA RingInit == Init => RingInv
<1> SUFFICES ASSUME Init PROVE RingInv
  OBVIOUS
<1>1. Numbers
  BY SizeAssumption DEF Init, Numbers, NoId
<1>2. Faithful
  BY DEF Init, Faithful
<1>3. OneBlockPerNumber
  BY DEF Init, OneBlockPerNumber
<1>4. WindowCanBeResent
  BY DEF Init, WindowCanBeResent
<1> QED
  BY <1>1, <1>2, <1>3, <1>4 DEF RingInv

\* A step that sends no block and leaves the buffer alone.
LEMMA Quiet ==
  ASSUME RingInv, UNCHANGED <<seq_no, ring, history>>,
         \A m \in sent' : m.type # "data"
  PROVE  RingInv'
<1>1. Numbers' /\ Faithful'
  BY DEF RingInv, Numbers, Faithful, ring, history
<1>2. OneBlockPerNumber'
  BY DEF OneBlockPerNumber
<1>3. WindowCanBeResent'
  BY DEF RingInv, WindowCanBeResent, Get, ring, history
<1> QED
  BY <1>1, <1>2, <1>3 DEF RingInv

LEMMA ControlIsNotData ==
  /\ \A type, sink, place : Control(type, sink, place).type = type
  /\ \A type : \A m \in ToEachSink(type) : m.type = type
BY DEF Control, ToEachSink

LEMMA BeginRing ==
  ASSUME RingInv, NEW ok \in BOOLEAN, NEW fixed \in BOOLEAN, begin(ok, fixed)
  PROVE  RingInv'
<1>1. /\ slot_id' = [i \in Slots |-> NoId]
      /\ first' = seq_no
      /\ UNCHANGED <<seq_no, slot_block, block, content>>
  BY DEF begin
<1>2. \A m \in sent' : m.type # "data"
  <2>1. sent' = {} \/ sent' = ToEachSink("start")
    BY DEF begin
  <2> QED
    BY <2>1, ControlIsNotData
<1>3. Numbers'
  BY <1>1 DEF RingInv, Numbers, NoId
<1>4. Faithful'
  BY <1>1 DEF Faithful
<1>5. OneBlockPerNumber'
  BY <1>2 DEF OneBlockPerNumber
<1>6. WindowCanBeResent'
  <2>1. first' .. seq_no' - 1 = {}
    BY <1>1 DEF RingInv, Numbers
  <2> QED
    BY <2>1 DEF WindowCanBeResent
<1> QED
  BY <1>3, <1>4, <1>5, <1>6 DEF RingInv

LEMMA WriteRing ==
  ASSUME RingInv, write
  PROVE  RingInv'
<1> DEFINE n == seq_no
<1>1. Numbers /\ Faithful /\ WindowCanBeResent
  BY DEF RingInv
<1>2. /\ seq_no' = n + 1 /\ block' = block + 1 /\ first' = first
      /\ slot_id' = [slot_id EXCEPT ![Index(n)] = n]
      /\ slot_block' = [slot_block EXCEPT ![Index(n)] = block]
  BY DEF write
<1>3. content' = Append(content, block)
  BY <1>1 DEF write, Numbers
<1>4. n \in Nat /\ Index(n) \in Slots
  BY <1>1, IndexIsSlot DEF Numbers
<1>5. /\ content' \in Seq(Nat)
      /\ Len(content') = n + 1
      /\ \A i \in 1 .. n : content'[i] = content[i]
      /\ content'[n + 1] = block
  BY <1>1, <1>3, AppendProperties DEF Numbers
<1>6. /\ slot_id'[Index(n)] = n
      /\ slot_block'[Index(n)] = block
      /\ \A i \in Slots : i # Index(n) => /\ slot_id'[i] = slot_id[i]
                                          /\ slot_block'[i] = slot_block[i]
  BY <1>1, <1>2, <1>4 DEF Numbers
<1>7. Numbers'
  BY <1>1, <1>2, <1>4, <1>5 DEF Numbers
<1>8. Faithful'
  <2> SUFFICES ASSUME NEW i \in Slots, slot_id'[i] # NoId
               PROVE  /\ slot_id'[i] \in 0 .. n
                      /\ slot_block'[i] = content'[slot_id'[i] + 1]
    BY <1>2, <1>4 DEF Faithful
  <2>1. CASE i = Index(n)
    BY <1>4, <1>5, <1>6, <2>1
  <2>2. CASE i # Index(n)
    <3>1. slot_id[i] \in 0 .. n - 1 /\ slot_block[i] = content[slot_id[i] + 1]
      BY <1>1, <1>6, <2>2 DEF Faithful
    <3>2. slot_id[i] + 1 \in 1 .. n
      BY <1>4, <3>1
    <3>3. content'[slot_id[i] + 1] = content[slot_id[i] + 1]
      BY <1>5, <3>2
    <3> QED
      BY <1>4, <1>6, <2>2, <3>1, <3>3
  <2> QED
    BY <2>1, <2>2
<1>9. OneBlockPerNumber'
  <2> SUFFICES ASSUME NEW m \in sent', m.type = "data"
               PROVE  /\ m.seq + 1 \in DOMAIN content'
                      /\ m.block = content'[m.seq + 1]
    BY DEF OneBlockPerNumber
  <2>1. m \notin ToEachSink("start")
    BY ControlIsNotData
  <2>2. \E d \in EachSink : m = Data(d[1], d[2], n, block)
    BY <2>1 DEF write
  <2>3. m.seq = n /\ m.block = block
    BY <2>2, DataIsData
  <2>4. DOMAIN content' = 1 .. n + 1
    BY <1>5
  <2> QED
    BY <1>4, <1>5, <2>3, <2>4
<1>10. WindowCanBeResent'
  <2> SUFFICES ASSUME NEW seq \in first .. n, seq + buffer_size >= n + 1
               PROVE  /\ slot_id'[Index(seq)] = seq
                      /\ slot_block'[Index(seq)] = content'[seq + 1]
    BY <1>2, <1>4 DEF WindowCanBeResent, Get, Index
  <2>0. seq \in Nat /\ first \in Nat
    BY <1>1, <1>4 DEF Numbers
  <2>1. CASE seq = n
    BY <1>5, <1>6, <2>1
  <2>2. CASE seq # n
    <3>1. seq < n /\ seq \in first .. n - 1 /\ seq + buffer_size >= n
      BY <1>4, <2>0, <2>2, SizeAssumption
    <3>2. Index(seq) # Index(n)
      BY <1>4, <2>0, <3>1, SharedSlotIsFar, SizeAssumption
    <3>3. slot_id[Index(seq)] = seq /\ slot_block[Index(seq)] = content[seq + 1]
      BY <1>1, <3>1 DEF WindowCanBeResent, Get
    <3>4. content'[seq + 1] = content[seq + 1]
      <4>1. seq + 1 \in 1 .. n
        BY <1>4, <2>0, <3>1
      <4> QED
        BY <1>5, <4>1
    <3>5. Index(seq) \in Slots
      BY <2>0, IndexIsSlot
    <3> QED
      BY <1>6, <3>2, <3>3, <3>4, <3>5
  <2> QED
    BY <2>1, <2>2
<1> QED
  BY <1>7, <1>8, <1>9, <1>10 DEF RingInv

LEMMA ResendRing ==
  ASSUME RingInv, NEW sink, NEW from, NEW seq \in 0 .. MaxBlocks,
         processResendRequest(sink, from, seq)
  PROVE  RingInv'
<1>1. UNCHANGED <<seq_no, ring, history>>
  BY DEF processResendRequest, unserved
<1>2. Numbers /\ Faithful /\ WindowCanBeResent
  BY DEF RingInv
<1>3. Numbers' /\ Faithful'
  BY <1>1, <1>2 DEF Numbers, Faithful, ring, history
<1>4. WindowCanBeResent'
  BY <1>1, <1>2 DEF WindowCanBeResent, Get, ring, history
<1>5. OneBlockPerNumber'
  <2> SUFFICES ASSUME NEW m \in sent', m.type = "data"
               PROVE  m.seq + 1 \in DOMAIN content /\ m.block = content[m.seq + 1]
    BY <1>1 DEF OneBlockPerNumber, history
  <2>1. Get(seq) /\ m = Data(sink, from, seq, slot_block[Index(seq)])
    BY DEF processResendRequest
  <2>2. m.seq = seq /\ m.block = slot_block[Index(seq)]
    BY <2>1, DataIsData
  <2>3. seq \in Nat /\ Index(seq) \in Slots
    BY IndexIsSlot, SizeAssumption
  <2>4. slot_id[Index(seq)] = seq /\ seq # NoId
    BY <2>1, <2>3 DEF Get, NoId
  <2>5. seq \in 0 .. seq_no - 1 /\ slot_block[Index(seq)] = content[seq + 1]
    BY <1>2, <2>3, <2>4 DEF Faithful
  <2>6. DOMAIN content = 1 .. seq_no
    BY <1>2 DEF Numbers
  <2>7. seq + 1 \in 1 .. seq_no
    BY <1>2, <2>5 DEF Numbers
  <2> QED
    BY <2>2, <2>5, <2>6, <2>7
<1> QED
  BY <1>3, <1>4, <1>5 DEF RingInv

LEMMA RingStep == RingInv /\ [Next]_vars => RingInv'
<1> SUFFICES ASSUME RingInv, [Next]_vars PROVE RingInv'
  OBVIOUS
<1>1. ASSUME NEW ok \in BOOLEAN, NEW fixed \in BOOLEAN, begin(ok, fixed)
      PROVE  RingInv'
  BY <1>1, BeginRing
<1>2. CASE end
  <2>1. sent' = {} \/ sent' = ToEachSink("stop")
    BY <1>2 DEF end
  <2> QED
    BY <1>2, <2>1, ControlIsNotData, Quiet DEF end
<1>3. CASE write
  BY <1>3, WriteRing
<1>4. CASE ping
  <2>1. \A m \in sent' : m.type # "data"
    BY <1>4, ControlIsNotData DEF ping
  <2> QED
    BY <1>4, <2>1, Quiet DEF ping
<1>5. ASSUME NEW sink \in Sinks, NEW from \in Places, Requests(sink, from)
      PROVE  RingInv'
  <2>1. CASE processInvite(sink, from) \/ processRequestStart(sink, from)
               \/ handlePing(sink, from)
    <3>1. \A m \in sent' : m.type # "data"
      BY <2>1, ControlIsNotData DEF processInvite, processRequestStart, Join, handlePing
    <3>2. UNCHANGED <<seq_no, ring, history>>
      BY <2>1 DEF processInvite, processRequestStart, Join, handlePing, unserved
    <3> QED
      BY <3>1, <3>2, Quiet
  <2>2. CASE processUninvite(sink, from) \/ processStopRequest(sink, from)
    <3>1. \A m \in sent' : m.type # "data"
      BY <2>2, ControlIsNotData DEF processUninvite, processStopRequest
    <3>2. UNCHANGED <<seq_no, ring, history>>
      BY <2>2 DEF processUninvite, processStopRequest, unserved
    <3> QED
      BY <3>1, <3>2, Quiet
  <2>3. CASE \E seq \in 0 .. MaxBlocks : processResendRequest(sink, from, seq)
    BY <2>3, ResendRing
  <2> QED
    BY <1>5, <2>1, <2>2, <2>3 DEF Requests
<1>6. CASE UNCHANGED vars
  BY <1>6 DEF vars, history, ring, RingInv, Numbers, Faithful, OneBlockPerNumber,
              WindowCanBeResent, Get
<1> QED
  BY <1>1, <1>2, <1>3, <1>4, <1>5, <1>6 DEF Next

LEMMA RingAlways == Spec => []RingInv
BY RingInit, RingStep, PTL DEF Spec

\* A number names one block for the whole life of the stream, in every block
\* that is sent or resent.
THEOREM NumbersAreStable == Spec => []OneBlockPerNumber
<1>1. RingInv => OneBlockPerNumber
  BY DEF RingInv
<1> QED
  BY <1>1, RingAlways, PTL

\* The last buffer_size blocks since begin() can always be resent.
THEOREM WindowKept == Spec => []WindowCanBeResent
<1>1. RingInv => WindowCanBeResent
  BY DEF RingInv
<1> QED
  BY <1>1, RingAlways, PTL

-----------------------------------------------------------------------------
(* The list of targets *)

Distinct ==
  \A i, j \in DOMAIN sink_targets : sink_targets[i].id = sink_targets[j].id => i = j

TargetInv ==
  /\ sink_targets \in Seq(Target)
  /\ Distinct
  /\ TargetsAreInformed

LEMMA TargetInit == Init => TargetInv
<1> SUFFICES ASSUME Init PROVE TargetInv
  OBVIOUS
<1>1. sink_targets \in Seq(Target) /\ Distinct
  BY ConfiguredAssumption DEF Init, Target, Distinct
<1>2. TargetsAreInformed
  BY DEF Init, TargetsAreInformed
<1> QED
  BY <1>1, <1>2 DEF TargetInv

\* A message to each sink reaches every target.
LEMMA EveryoneIsTarget == TargetIds \subseteq Everyone
<1> SUFFICES ASSUME NEW k \in DOMAIN sink_targets
             PROVE  sink_targets[k].id \in Everyone
  BY DEF TargetIds
<1>1. CASE sink_targets = <<>>
  BY <1>1
<1>2. CASE sink_targets # <<>>
  <2>1. <<sink_targets[k].id, PlaceOf(k)>> \in EachSink
    BY <1>2 DEF EachSink
  <2>2. <<sink_targets[k].id, PlaceOf(k)>>[1] = sink_targets[k].id
    OBVIOUS
  <2> QED
    BY <2>1, <2>2 DEF Everyone
<1> QED
  BY <1>1, <1>2

\* A step that leaves the targets and what they know alone.
LEMMA SameTargets ==
  ASSUME TargetInv, UNCHANGED sink_targets,
         is_streaming' /\ start_sent' =>
           \/ TargetIds \subseteq informed'
           \/ is_streaming /\ start_sent /\ informed \subseteq informed'
  PROVE  TargetInv'
<1>1. TargetIds' = TargetIds
  BY DEF TargetIds
<1> QED
  BY <1>1 DEF TargetInv, Distinct, TargetsAreInformed

LEMMA JoinTargets ==
  ASSUME TargetInv, NEW sink \in Sinks, NEW from \in Places, Join(sink, from)
  PROVE  TargetInv' /\ TargetIds' \subseteq TargetIds \union {sink}
<1>1. /\ UNCHANGED <<is_streaming, start_sent>>
      /\ start_sent => informed' = informed \union {sink}
  BY DEF Join, unserved, status
<1>2. CASE sink \in TargetIds
  <2>1. UNCHANGED sink_targets
    BY <1>2 DEF Join, addSinkTarget
  <2>2. TargetIds' = TargetIds
    BY <2>1 DEF TargetIds
  <2> QED
    BY <1>1, <2>1, <2>2, SameTargets
<1>3. CASE sink \notin TargetIds
  <2> DEFINE t == [id |-> sink, ip |-> from]
             n == Len(sink_targets)
  <2>1. sink_targets' = Append(sink_targets, t)
    BY <1>3 DEF Join, addSinkTarget
  <2>2. t \in Target /\ t.id = sink
    BY DEF Target
  <2> HIDE DEF t
  <2>3. sink_targets \in Seq(Target) /\ n \in Nat
    BY DEF TargetInv
  <2>4. /\ sink_targets' \in Seq(Target)
        /\ Len(sink_targets') = n + 1
        /\ \A i \in 1 .. n : sink_targets'[i] = sink_targets[i]
        /\ sink_targets'[n + 1] = t
    BY <2>1, <2>2, <2>3, AppendProperties
  <2>5. DOMAIN sink_targets = 1 .. n /\ DOMAIN sink_targets' = 1 .. n + 1
    BY <2>3, <2>4
  <2> HIDE DEF n
  <2>6. \A i \in 1 .. n : sink_targets'[i].id \in TargetIds
    BY <2>4, <2>5 DEF TargetIds
  <2>7. Distinct'
    <3> SUFFICES ASSUME NEW i \in 1 .. n + 1, NEW j \in 1 .. n + 1,
                        sink_targets'[i].id = sink_targets'[j].id
                 PROVE  i = j
      BY <2>5 DEF Distinct
    <3>1. CASE i \in 1 .. n /\ j \in 1 .. n
      BY <2>4, <2>5, <3>1 DEF TargetInv, Distinct
    <3>2. CASE i = n + 1 /\ j \in 1 .. n
      BY <1>3, <2>2, <2>4, <2>6, <3>2
    <3>3. CASE i \in 1 .. n /\ j = n + 1
      BY <1>3, <2>2, <2>4, <2>6, <3>3
    <3> QED
      BY <2>3, <3>1, <3>2, <3>3
  <2>8. TargetIds' \subseteq TargetIds \union {sink}
    <3> SUFFICES ASSUME NEW i \in 1 .. n + 1
                 PROVE  sink_targets'[i].id \in TargetIds \union {sink}
      BY <2>5 DEF TargetIds
    <3>1. i \in 1 .. n \/ i = n + 1
      BY <2>3
    <3> QED
      BY <2>2, <2>4, <2>6, <3>1
  <2>9. TargetsAreInformed'
    BY <1>1, <2>8 DEF TargetInv, TargetsAreInformed
  <2> QED
    BY <2>4, <2>7, <2>8, <2>9 DEF TargetInv
<1> QED
  BY <1>2, <1>3

\* Removing a sink removes it altogether.
LEMMA LeaveTargets ==
  ASSUME TargetInv, NEW sink \in Sinks, removeSinkTarget(sink),
         UNCHANGED status, informed' = informed \ {sink}
  PROVE  TargetInv' /\ TargetIds' \subseteq TargetIds \ {sink}
<1>1. CASE sink \notin TargetIds
  <2>1. UNCHANGED sink_targets
    BY <1>1 DEF removeSinkTarget
  <2>2. TargetIds' = TargetIds
    BY <2>1 DEF TargetIds
  <2> QED
    BY <1>1, <2>1, <2>2 DEF TargetInv, Distinct, TargetsAreInformed, status
<1>2. CASE sink \in TargetIds
  <2> DEFINE n == Len(sink_targets)
             IsFirst(i) == /\ sink_targets[i].id = sink
                           /\ \A j \in 1 .. i - 1 : sink_targets[j].id # sink
  <2>1. /\ sink_targets \in Seq(Target) /\ n \in Nat
        /\ DOMAIN sink_targets = 1 .. n
        /\ Distinct
    BY DEF TargetInv
  <2> HIDE DEF n
  <2>2. \E i \in 1 .. n : IsFirst(i)
    <3>1. PICK i \in 1 .. n : sink_targets[i].id = sink
      BY <1>2, <2>1 DEF TargetIds
    <3>2. ASSUME NEW j \in 1 .. i - 1 PROVE sink_targets[j].id # sink
      BY <2>1, <3>1 DEF Distinct
    <3> QED
      BY <3>1, <3>2
  <2>3. PICK i \in 1 .. n :
          /\ sink_targets[i].id = sink
          /\ sink_targets' = SubSeq(sink_targets, 1, i - 1) \o
                             SubSeq(sink_targets, i + 1, n)
    <3>1. DEFINE i0 == CHOOSE i \in DOMAIN sink_targets : IsFirst(i)
    <3>2. i0 \in 1 .. n /\ IsFirst(i0)
      BY <2>1, <2>2
    <3>3. sink_targets' = SubSeq(sink_targets, 1, i0 - 1) \o
                          SubSeq(sink_targets, i0 + 1, n)
      BY <1>2 DEF removeSinkTarget, n
    <3> QED
      BY <3>2, <3>3
  <2> DEFINE a == SubSeq(sink_targets, 1, i - 1)
             b == SubSeq(sink_targets, i + 1, n)
  <2>4. /\ a \in Seq(Target) /\ Len(a) = i - 1
        /\ \A k \in 1 .. i - 1 : a[k] = sink_targets[k]
    <3>1. \A k \in 1 .. i - 1 : sink_targets[k] \in Target
      BY <2>1
    <3>2. /\ a \in Seq(Target)
          /\ Len(a) = IF 1 <= i - 1 THEN i - 1 - 1 + 1 ELSE 0
          /\ \A k \in 1 .. i - 1 - 1 + 1 : a[k] = sink_targets[1 + k - 1]
      BY <3>1, SubSeqProperties
    <3> HIDE DEF a
    <3> QED
      BY <2>1, <3>2
  <2>5. /\ b \in Seq(Target) /\ Len(b) = n - i
        /\ \A k \in 1 .. n - i : b[k] = sink_targets[i + k]
    <3>1. \A k \in i + 1 .. n : sink_targets[k] \in Target
      BY <2>1
    <3>2. n \in Int /\ i + 1 \in Int
      BY <2>1
    <3>3. /\ b \in Seq(Target)
          /\ Len(b) = IF i + 1 <= n THEN n - (i + 1) + 1 ELSE 0
          /\ \A k \in 1 .. n - (i + 1) + 1 : b[k] = sink_targets[i + 1 + k - 1]
      BY <3>1, <3>2, SubSeqProperties
    <3> HIDE DEF b
    <3> QED
      BY <2>1, <3>3
  <2>6. sink_targets' = a \o b
    BY <2>3
  <2> HIDE DEF a, b
  <2>7. /\ sink_targets' \in Seq(Target)
        /\ Len(sink_targets') = i - 1 + (n - i)
        /\ \A k \in 1 .. i - 1 + (n - i) :
             sink_targets'[k] = IF k <= i - 1 THEN a[k] ELSE b[k - (i - 1)]
    <3>1. a \in Seq(Target) /\ b \in Seq(Target)
      BY <2>4, <2>5
    <3>2. /\ a \o b \in Seq(Target)
          /\ Len(a \o b) = Len(a) + Len(b)
          /\ \A k \in 1 .. Len(a) + Len(b) :
               (a \o b)[k] = IF k <= Len(a) THEN a[k] ELSE b[k - Len(a)]
      BY ONLY <3>1, ConcatProperties
    <3>3. Len(a) = i - 1 /\ Len(b) = n - i
      BY <2>4, <2>5
    <3> QED
      BY <2>6, <3>2, <3>3
  <2>8. DOMAIN sink_targets' = 1 .. n - 1
    BY <2>1, <2>7
  <2>9. ASSUME NEW k \in 1 .. n - 1
        PROVE  sink_targets'[k] = sink_targets[IF k < i THEN k ELSE k + 1]
    <3>1. k \in 1 .. i - 1 + (n - i)
      BY <2>1
    <3>2. CASE k < i
      <4>1. sink_targets'[k] = a[k] /\ k \in 1 .. i - 1
        BY <2>7, <3>1, <3>2
      <4> QED
        BY <2>4, <3>2, <4>1
    <3>3. CASE ~(k < i)
      <4>1. sink_targets'[k] = b[k - (i - 1)] /\ k - (i - 1) \in 1 .. n - i
        BY <2>1, <2>7, <3>1, <3>3
      <4>2. i + (k - (i - 1)) = k + 1
        OBVIOUS
      <4> QED
        BY <2>5, <3>3, <4>1, <4>2
    <3> QED
      BY <3>2, <3>3
  <2>10. Distinct'
    <3> SUFFICES ASSUME NEW k \in 1 .. n - 1, NEW l \in 1 .. n - 1,
                        sink_targets'[k].id = sink_targets'[l].id
                 PROVE  k = l
      BY <2>8 DEF Distinct
    <3> DEFINE old(m) == IF m < i THEN m ELSE m + 1
    <3>1. old(k) \in 1 .. n /\ old(l) \in 1 .. n
      BY <2>1
    <3>2. sink_targets[old(k)].id = sink_targets[old(l)].id
      BY <2>9
    <3>3. old(k) = old(l)
      BY <2>1, <3>1, <3>2 DEF Distinct
    <3> QED
      BY <2>1, <3>3
  <2>11. TargetIds' \subseteq TargetIds \ {sink}
    <3> SUFFICES ASSUME NEW k \in 1 .. n - 1
                 PROVE  /\ sink_targets'[k].id \in TargetIds
                        /\ sink_targets'[k].id # sink
      BY <2>8 DEF TargetIds
    <3> DEFINE m == IF k < i THEN k ELSE k + 1
    <3>1. m \in 1 .. n /\ m # i
      BY <2>1
    <3>2. sink_targets'[k] = sink_targets[m]
      BY <2>9
    <3> HIDE DEF m
    <3>3. sink_targets[m].id \in TargetIds
      BY <2>1, <3>1 DEF TargetIds
    <3>4. sink_targets[m].id # sink
      BY <2>1, <2>3, <3>1 DEF Distinct
    <3> QED
      BY <3>2, <3>3, <3>4
  <2>12. TargetsAreInformed'
    BY <2>11 DEF TargetInv, TargetsAreInformed, status
  <2> QED
    BY <2>7, <2>10, <2>11, <2>12 DEF TargetInv
<1> QED
  BY <1>1, <1>2

LEMMA TargetStep == TargetInv /\ [Next]_vars => TargetInv'
<1> SUFFICES ASSUME TargetInv, [Next]_vars PROVE TargetInv'
  OBVIOUS
<1>1. ASSUME NEW ok \in BOOLEAN, NEW fixed \in BOOLEAN, begin(ok, fixed)
      PROVE  TargetInv'
  <2>1. /\ UNCHANGED sink_targets
        /\ start_sent' => informed' = informed \union Everyone
    BY <1>1 DEF begin
  <2> QED
    BY <2>1, EveryoneIsTarget, SameTargets
<1>2. CASE end
  <2>1. UNCHANGED sink_targets /\ is_streaming' = FALSE
    BY <1>2 DEF end
  <2> QED
    BY <2>1, SameTargets
<1>3. CASE write
  <2>1. /\ UNCHANGED <<sink_targets, is_streaming>>
        /\ start_sent => informed' = informed
        /\ ~start_sent => informed' = informed \union Everyone
    BY <1>3 DEF write
  <2>2. CASE start_sent
    BY <2>1, <2>2, SameTargets
  <2>3. CASE ~start_sent
    BY <2>1, <2>3, EveryoneIsTarget, SameTargets
  <2> QED
    BY <2>2, <2>3
<1>4. CASE ping
  BY <1>4, SameTargets DEF ping, status
<1>5. ASSUME NEW sink \in Sinks, NEW from \in Places, Requests(sink, from)
      PROVE  TargetInv'
  <2>1. CASE Join(sink, from)
    BY <2>1, JoinTargets
  <2>2. CASE processUninvite(sink, from) \/ processStopRequest(sink, from)
    BY <2>2, LeaveTargets DEF processUninvite, processStopRequest, unserved
  <2>3. CASE UNCHANGED <<status, sink_targets, informed>>
    BY <2>3, SameTargets DEF status
  <2>4. Join(sink, from) \/ processUninvite(sink, from)
          \/ processStopRequest(sink, from)
          \/ UNCHANGED <<status, sink_targets, informed>>
    BY <1>5 DEF Requests, processInvite, processRequestStart,
                processResendRequest, handlePing, unserved
  <2> QED
    BY <2>1, <2>2, <2>3, <2>4
<1>6. CASE UNCHANGED vars
  BY <1>6, SameTargets DEF vars, status
<1> QED
  BY <1>1, <1>2, <1>3, <1>4, <1>5, <1>6 DEF Next

\* Every sink of the list has been sent /start by the time blocks flow,
\* whenever it joined and however often the sender was restarted.
THEOREM TargetsInformed == Spec => []TargetsAreInformed
<1>1. TargetInv => TargetsAreInformed
  BY DEF TargetInv
<1>2. Spec => []TargetInv
  BY TargetInit, TargetStep, PTL DEF Spec
<1> QED
  BY <1>1, <1>2, PTL

-----------------------------------------------------------------------------
(* Where the blocks go *)

\* A sink that has left is not in the list: the ids in it are distinct, so that
\* removing one entry removes the sink.
LeftIsGone == TargetIds \intersect left = {}

LEMMA LeftStep == TargetInv /\ LeftIsGone /\ [Next]_vars => LeftIsGone'
<1> SUFFICES ASSUME TargetInv, LeftIsGone, [Next]_vars PROVE LeftIsGone'
  OBVIOUS
<1>1. CASE UNCHANGED <<sink_targets, left>>
  <2>1. TargetIds' = TargetIds
    BY <1>1 DEF TargetIds
  <2> QED
    BY <1>1, <2>1 DEF LeftIsGone
<1>2. ASSUME NEW sink \in Sinks, NEW from \in Places, Join(sink, from)
      PROVE  LeftIsGone'
  BY <1>2, JoinTargets DEF Join, LeftIsGone
<1>3. ASSUME NEW sink \in Sinks, NEW from \in Places,
             processUninvite(sink, from) \/ processStopRequest(sink, from)
      PROVE  LeftIsGone'
  BY <1>3, LeaveTargets DEF processUninvite, processStopRequest, unserved, LeftIsGone
<1>4. ASSUME NEW sink \in Sinks, NEW from \in Places, Requests(sink, from)
      PROVE  LeftIsGone'
  BY <1>1, <1>2, <1>3, <1>4
  DEF Requests, processInvite, processRequestStart, processResendRequest, handlePing
<1>5. ASSUME NEW ok \in BOOLEAN, NEW fixed \in BOOLEAN, begin(ok, fixed)
      PROVE  LeftIsGone'
  BY <1>1, <1>5 DEF begin
<1>6. CASE end \/ write \/ ping \/ UNCHANGED vars
  BY <1>1, <1>6 DEF end, write, ping, vars
<1> QED
  BY <1>4, <1>5, <1>6 DEF Next

\* The blocks go to sinks of the list only, if there is one.
LEMMA OnlyTargets == sink_targets # <<>> => Everyone \subseteq TargetIds
<1> SUFFICES ASSUME sink_targets # <<>>, NEW d \in EachSink PROVE d[1] \in TargetIds
  BY DEF Everyone
<1>1. PICK k \in DOMAIN sink_targets : d = <<sink_targets[k].id, PlaceOf(k)>>
  BY DEF EachSink
<1> QED
  BY <1>1 DEF TargetIds

\* Whatever is written is addressed to a sink of EachSink.
LEMMA WrittenData ==
  ASSUME write, NEW m \in sent', m.type = "data"
  PROVE  m.sink \in Everyone
<1>1. CASE m \in ToEachSink("start")
  BY <1>1 DEF ToEachSink, Control
<1>2. CASE \E d \in EachSink : m = Data(d[1], d[2], seq_no, block)
  <2>1. PICK d \in EachSink : m = Data(d[1], d[2], seq_no, block)
    BY <1>2
  <2>2. m.sink = d[1]
    BY <2>1 DEF Data
  <2> QED
    BY <2>2 DEF Everyone
<1>3. m \in ToEachSink("start") \/ \E d \in EachSink : m = Data(d[1], d[2], seq_no, block)
  BY DEF write
<1> QED
  BY <1>1, <1>2, <1>3

\* A sink that has left is sent no more blocks, as long as there are targets.
THEOREM LeaversAreLeftAlone == Spec => LeaversGetNothing
<1> DEFINE A == write /\ sink_targets # <<>> =>
                  \A m \in sent' : m.type = "data" => m.sink \notin left
<1>1. TargetInv /\ LeftIsGone => A
  BY WrittenData, OnlyTargets DEF LeftIsGone
<1>2. Init => LeftIsGone
  BY DEF Init, LeftIsGone
<1>3. TargetInv /\ LeftIsGone /\ [Next]_vars => [A]_vars
  BY <1>1
<1> QED
  BY <1>2, <1>3, TargetInit, TargetStep, LeftStep, PTL DEF Spec, LeaversGetNothing

\* A target with an address of its own is served there: it retargets the stream
\* just before its message.
LEMMA OwnAddress ==
  ASSUME NEW k \in DOMAIN sink_targets, sink_targets \in Seq(Target),
         sink_targets[k].ip # NoPlace
  PROVE  PlaceOf(k) = sink_targets[k].ip
<1>1. k \in Nat /\ k \in Addressed(k)
  BY DEF Addressed
<1> DEFINE IsLast(j) == \A i \in Addressed(k) : i <= j
<1>2. Addressed(k) \subseteq 1 .. k
  BY DEF Addressed
<1>3. IsLast(k)
  BY <1>1, <1>2
<1>4. \A j \in Addressed(k) : IsLast(j) => j = k
  BY <1>1, <1>2
<1> HIDE DEF IsLast
<1>5. (CHOOSE j \in Addressed(k) : IsLast(j)) = k
  BY <1>1, <1>3, <1>4
<1> QED
  BY <1>1, <1>5 DEF PlaceOf, IsLast

\* A sink that joined from a known address is sent every block there.
THEOREM JoinedServed == Spec => JoinedAreServed
<1> DEFINE A == write => \A k \in DOMAIN sink_targets :
                  sink_targets[k].ip # NoPlace =>
                    Data(sink_targets[k].id, sink_targets[k].ip, seq_no, block) \in sent'
<1>1. TargetInv => A
  <2> SUFFICES ASSUME TargetInv, write, NEW k \in DOMAIN sink_targets,
                      sink_targets[k].ip # NoPlace
               PROVE  Data(sink_targets[k].id, sink_targets[k].ip, seq_no, block)
                        \in sent'
    OBVIOUS
  <2> DEFINE d == <<sink_targets[k].id, PlaceOf(k)>>
  <2>1. PlaceOf(k) = sink_targets[k].ip
    BY OwnAddress DEF TargetInv
  <2>2. sink_targets # <<>>
    OBVIOUS
  <2>3. d \in EachSink
    BY <2>2 DEF EachSink
  <2>4. Data(d[1], d[2], seq_no, block) \in sent'
    BY <2>3 DEF write
  <2> QED
    BY <2>1, <2>4
<1>2. TargetInv /\ [Next]_vars => [A]_vars
  BY <1>1
<1> QED
  BY <1>2, TargetInit, TargetStep, PTL DEF Spec, JoinedAreServed

-----------------------------------------------------------------------------
(* PacketRecovery: the inductive invariant *)

USE SegmentsAssumption, RequestsAssumption, ClockAssumption

\* What is known about the numbers and the histories.
Newest ==
  /\ last_seq >= -1 /\ first_seq >= -1
  /\ first_seq = -1 <=> last_seq = -1
  /\ last_seq >= 0 => last_seq \in got
  /\ \A s \in got : s <= last_seq

\* While an entry lives its counter is the history; a number above last_seq
\* has no history; no number is asked for too often.
Attempts ==
  \A s \in Segments :
    /\ s \notin pending => attempts[s] = 0
    /\ s \in pending => requests[s] = attempts[s]
    /\ s > last_seq => requests[s] = 0
    /\ requests[s] <= max_requests

RecoveryInv ==
  /\ RecoveryTypeOK
  /\ Newest
  /\ PendingAreMissing
  /\ Attempts
  /\ NoGapForgotten

LEMMA RecoveryInitInv == RecoveryInit => RecoveryInv
<1> SUFFICES ASSUME RecoveryInit PROVE RecoveryInv
  OBVIOUS
<1>1. RecoveryTypeOK
  BY DEF RecoveryInit, RecoveryTypeOK, Zero
<1>2. Newest /\ PendingAreMissing /\ Attempts /\ NoGapForgotten
  BY DEF RecoveryInit, Newest, PendingAreMissing, Attempts, NoGapForgotten, Zero
<1> QED BY <1>1, <1>2 DEF RecoveryInv

LEMMA DeadlineIsTime == ASSUME RecoveryInv PROVE Deadline \in Nat
BY DEF Deadline, RecoveryInv, RecoveryTypeOK

LEMMA ReceivedInv ==
  ASSUME RecoveryInv, NEW seq \in Segments, received(seq)
  PROVE  RecoveryInv'
<1> USE DEF received, Entries, RecoveryInv
<1>1. /\ seq \in Nat /\ last_seq \in Int /\ last_seq' \in Int
      /\ last_seq <= last_seq' /\ seq <= last_seq'
      /\ first_seq \in Int
  BY DEF RecoveryTypeOK
<1>2. pending' = (pending \ {seq}) \union Skipped(seq)
  OBVIOUS
<1>3. \A s \in Skipped(seq) : s \in Segments /\ last_seq < s /\ s < seq
                              /\ last_seq >= 0
  BY DEF Skipped
<1>4. RecoveryTypeOK'
  <2>1. pending' \in SUBSET Segments /\ got' \in SUBSET Segments
    BY <1>3 DEF RecoveryTypeOK
  <2>2. request_time' \in [Segments -> Nat]
    BY DeadlineIsTime DEF RecoveryTypeOK
  <2>3. attempts' \in [Segments -> Nat] /\ age' \in [Segments -> Nat]
    BY DEF RecoveryTypeOK
  <2>4. first_seq' \in Int
    BY <1>1
  <2> QED BY <1>1, <2>1, <2>2, <2>3, <2>4 DEF RecoveryTypeOK
<1>5. Newest'
  BY <1>1 DEF Newest, RecoveryTypeOK
<1>6. PendingAreMissing'
  <2> SUFFICES ASSUME NEW s \in pending' PROVE s \notin got' /\ s < last_seq'
    BY DEF PendingAreMissing
  <2>1. CASE s \in Skipped(seq)
    BY <1>1, <1>3, <2>1 DEF Newest, RecoveryTypeOK
  <2>2. CASE s \notin Skipped(seq)
    BY <1>1, <2>2 DEF PendingAreMissing, RecoveryTypeOK
  <2> QED BY <2>1, <2>2
<1>7. Attempts'
  <2> SUFFICES ASSUME NEW s \in Segments
               PROVE  /\ s \notin pending' => attempts'[s] = 0
                      /\ s \in pending' => requests[s] = attempts'[s]
                      /\ s > last_seq' => requests[s] = 0
                      /\ requests[s] <= max_requests
    BY DEF Attempts
  <2>1. attempts'[s] = IF s \in pending' THEN attempts[s] ELSE 0
    OBVIOUS
  <2>2. s \in Skipped(seq) => requests[s] = 0 /\ attempts[s] = 0
    BY <1>1, <1>3 DEF Attempts, PendingAreMissing
  <2> QED BY <1>1, <1>2, <2>1, <2>2 DEF Attempts
<1>8. NoGapForgotten'
  <2> SUFFICES ASSUME NEW s \in Segments, first_seq' >= 0, first_seq' < s,
                      s < last_seq', s \notin got'
               PROVE  s \in pending' \/ requests[s] = max_requests \/ s <= discarded
    BY DEF NoGapForgotten
  <2>1. s \in Nat /\ s # seq /\ s \notin got
    OBVIOUS
  <2>2. CASE s < last_seq
    <3>1. first_seq' = first_seq
      BY <2>2, <1>1, <2>1 DEF Newest
    <3> QED BY <1>2, <2>1, <2>2, <3>1 DEF NoGapForgotten
  <2>3. CASE s >= last_seq /\ last_seq >= 0
    <3>1. last_seq < s /\ s < seq
      BY <1>1, <2>1, <2>3 DEF Newest
    <3> QED BY <1>2, <2>3, <3>1 DEF Skipped
  <2>4. CASE last_seq < 0
    BY <1>1, <2>1, <2>4 DEF Newest
  <2> QED BY <1>1, <2>1, <2>2, <2>3, <2>4
<1> QED BY <1>4, <1>5, <1>6, <1>7, <1>8

LEMMA PollInv == ASSUME RecoveryInv, getResendRequests PROVE RecoveryInv'
<1> USE DEF getResendRequests, Entries, RecoveryInv
<1>1. /\ Requested \subseteq pending /\ Abandoned \subseteq pending
      /\ \A s \in Requested : attempts[s] < max_requests
      /\ \A s \in Abandoned : attempts[s] >= max_requests
  BY DEF Requested, Abandoned, Visited, IsDue
<1>2. RecoveryTypeOK'
  <2>1. pending' \in SUBSET Segments
    BY DEF RecoveryTypeOK
  <2>2. request_time' \in [Segments -> Nat]
    BY DeadlineIsTime DEF RecoveryTypeOK
  <2>3. attempts' \in [Segments -> Nat] /\ requests' \in [Segments -> Nat]
        /\ age' \in [Segments -> Nat]
    BY DEF RecoveryTypeOK
  <2> QED BY <2>1, <2>2, <2>3 DEF RecoveryTypeOK
<1>3. Newest' /\ PendingAreMissing'
  BY DEF Newest, PendingAreMissing
<1>4. ASSUME NEW s \in Segments
      PROVE  /\ attempts[s] \in Nat /\ requests[s] \in Nat
             /\ attempts'[s] = IF s \in pending'
                  THEN IF s \in Requested THEN attempts[s] + 1 ELSE attempts[s]
                  ELSE 0
             /\ requests'[s] = IF s \in Requested THEN requests[s] + 1
                                                  ELSE requests[s]
  BY DEF RecoveryTypeOK
<1>5. Attempts'
  <2> SUFFICES ASSUME NEW s \in Segments
               PROVE  /\ s \notin pending' => attempts'[s] = 0
                      /\ s \in pending' => requests'[s] = attempts'[s]
                      /\ s > last_seq => requests'[s] = 0
                      /\ requests'[s] <= max_requests
    BY DEF Attempts
  <2>1. CASE s \in Requested
    BY <1>1, <1>4, <2>1 DEF Attempts, PendingAreMissing, RecoveryTypeOK
  <2>2. CASE s \notin Requested
    BY <1>1, <1>4, <2>2 DEF Attempts
  <2> QED BY <2>1, <2>2
<1>6. NoGapForgotten'
  <2> SUFFICES ASSUME NEW s \in Segments, first_seq >= 0, first_seq < s,
                      s < last_seq, s \notin got
               PROVE  s \in pending' \/ requests'[s] = max_requests \/ s <= discarded
    BY DEF NoGapForgotten
  <2>1. CASE s \in Abandoned
    <3>1. s \notin Requested
      BY <1>1, <1>4, <2>1
    <3>2. requests'[s] = requests[s] /\ requests[s] = attempts[s]
      BY <1>1, <1>4, <2>1, <3>1 DEF Attempts
    <3>3. requests[s] = max_requests
      BY <1>1, <1>4, <2>1, <3>2 DEF Attempts
    <3> QED BY <3>2, <3>3
  <2>2. CASE s \in pending /\ s \notin Abandoned
    BY <2>2
  <2>3. CASE s \notin pending
    BY <1>1, <1>4, <2>3 DEF NoGapForgotten
  <2> QED BY <2>1, <2>2, <2>3
<1> QED BY <1>2, <1>3, <1>5, <1>6

LEMMA DiscardInv ==
  ASSUME RecoveryInv, NEW seq \in Segments, discardUpTo(seq)
  PROVE  RecoveryInv'
<1> USE DEF discardUpTo, Entries, RecoveryInv
<1>1. RecoveryTypeOK'
  <2>1. pending' \in SUBSET Segments
    BY DEF RecoveryTypeOK
  <2>2. discarded' \in Int
    BY DEF RecoveryTypeOK
  <2>3. request_time' \in [Segments -> Nat] /\ attempts' \in [Segments -> Nat]
    BY DEF RecoveryTypeOK
  <2> QED BY <2>1, <2>2, <2>3 DEF RecoveryTypeOK
<1>2. Newest' /\ PendingAreMissing'
  BY DEF Newest, PendingAreMissing
<1>3. Attempts'
  BY DEF Attempts, RecoveryTypeOK
<1>4. NoGapForgotten'
  BY DEF NoGapForgotten, RecoveryTypeOK
<1> QED BY <1>1, <1>2, <1>3, <1>4

LEMMA ResetInv == ASSUME RecoveryInv, reset PROVE RecoveryInv'
<1> USE DEF reset, Entries, RecoveryInv, Zero
<1>1. RecoveryTypeOK'
  BY DEF RecoveryTypeOK
<1>2. Newest' /\ PendingAreMissing' /\ Attempts' /\ NoGapForgotten'
  BY DEF Newest, PendingAreMissing, Attempts, NoGapForgotten
<1> QED BY <1>1, <1>2

LEMMA TickInv == ASSUME RecoveryInv, Tick PROVE RecoveryInv'
<1> USE DEF Tick, entries, RecoveryInv
<1>1. RecoveryTypeOK'
  BY DEF RecoveryTypeOK
<1>2. Newest' /\ PendingAreMissing' /\ Attempts' /\ NoGapForgotten'
  BY DEF Newest, PendingAreMissing, Attempts, NoGapForgotten
<1> QED BY <1>1, <1>2

\* Every reachable state satisfies the inductive invariant.
THEOREM RecoveryInductive == RecoverySpec => []RecoveryInv
<1>1. RecoveryInit => RecoveryInv
  BY RecoveryInitInv
<1>2. RecoveryInv /\ [RecoveryNext]_recovery_vars => RecoveryInv'
  <2> SUFFICES ASSUME RecoveryInv, [RecoveryNext]_recovery_vars PROVE RecoveryInv'
    OBVIOUS
  <2>1. ASSUME NEW seq \in Segments, received(seq) PROVE RecoveryInv'
    BY <2>1, ReceivedInv
  <2>2. ASSUME NEW seq \in Segments, discardUpTo(seq) PROVE RecoveryInv'
    BY <2>2, DiscardInv
  <2>3. CASE getResendRequests
    BY <2>3, PollInv
  <2>4. CASE reset
    BY <2>4, ResetInv
  <2>5. CASE Tick
    BY <2>5, TickInv
  <2>6. CASE UNCHANGED recovery_vars
    BY <2>6 DEF recovery_vars, RecoveryInv, RecoveryTypeOK, Newest, PendingAreMissing, Attempts,
                NoGapForgotten
  <2> QED BY <2>1, <2>2, <2>3, <2>4, <2>5, <2>6 DEF RecoveryNext
<1> QED BY <1>1, <1>2, PTL DEF RecoverySpec

\* The variables keep their types.
THEOREM RecoveryTypeCorrect == RecoverySpec => []RecoveryTypeOK
BY RecoveryInductive, PTL DEF RecoveryInv

\* No number is asked for more often than configured, whatever the clock does.
THEOREM RequestsBounded == RecoverySpec => []AtMostMaxRequests
<1>1. RecoveryInv => AtMostMaxRequests
  BY DEF RecoveryInv, Attempts, AtMostMaxRequests
<1> QED BY <1>1, RecoveryInductive, PTL

\* Only missing numbers are pending.
THEOREM OnlyMissing == RecoverySpec => []PendingAreMissing
BY RecoveryInductive, PTL DEF RecoveryInv

\* No missing number between the first and the newest is forgotten.
THEOREM AllGapsTracked == RecoverySpec => []NoGapForgotten
BY RecoveryInductive, PTL DEF RecoveryInv

-----------------------------------------------------------------------------
(* The wait *)

\* A deadline that is still to come is as far away as the wait is not over, unless
\* the clock wraps around before it: then it is a small number.
Waiting ==
  /\ now \in 0 .. ClockSize - 1
  /\ \A s \in pending :
       /\ request_time[s] \in 0 .. ClockSize - 1
       /\ \/ age[s] >= wait_ms
          \/ request_time[s] < wait_ms
          \/ request_time[s] + age[s] = now + wait_ms

\* A deadline that has just been set.
LEMMA NewDeadline ==
  ASSUME now \in 0 .. ClockSize - 1
  PROVE  /\ Deadline \in 0 .. ClockSize - 1
         /\ Deadline < wait_ms \/ Deadline = now + wait_ms
<1> DEFINE t == now + wait_ms
<1>1. t \in Nat /\ t % ClockSize \in 0 .. ClockSize - 1
  OBVIOUS
<1>2. CASE t < ClockSize
  BY <1>1, <1>2 DEF Deadline
<1>3. CASE t >= ClockSize
  <2>1. CASE wait_ms >= ClockSize
    BY <1>1, <2>1 DEF Deadline
  <2>2. CASE wait_ms < ClockSize
    <3>1. t - ClockSize \in 0 .. ClockSize - 1 /\ t - ClockSize < wait_ms
      BY <1>3, <2>2
    <3>2. t % ClockSize = t - ClockSize
      BY <3>1
    <3> QED  BY <1>1, <3>1, <3>2 DEF Deadline
  <2> QED  BY <2>1, <2>2
<1> QED  BY <1>1, <1>2, <1>3

LEMMA WaitingStep == RecoveryInv /\ Waiting /\ [RecoveryNext]_recovery_vars => Waiting'
<1> SUFFICES ASSUME RecoveryInv, Waiting, [RecoveryNext]_recovery_vars PROVE Waiting'
  OBVIOUS
<1> USE DEF Waiting
<1>1. \A s \in Segments : age[s] \in Nat /\ request_time[s] \in Nat
  BY DEF RecoveryInv, RecoveryTypeOK
<1>2. pending \subseteq Segments
  BY DEF RecoveryInv, RecoveryTypeOK
<1>3. ASSUME NEW seq \in Segments, received(seq) PROVE Waiting'
  <2> SUFFICES ASSUME NEW s \in pending'
               PROVE  /\ request_time'[s] \in 0 .. ClockSize - 1
                      /\ \/ age'[s] >= wait_ms
                         \/ request_time'[s] < wait_ms
                         \/ request_time'[s] + age'[s] = now + wait_ms
    BY <1>3 DEF received
  <2>1. s \in Segments
    BY <1>2, <1>3 DEF received, Entries, Skipped
  <2>2. CASE s \in Skipped(seq)
    <3>1. request_time'[s] = Deadline /\ age'[s] = 0
      BY <1>3, <2>1, <2>2 DEF received, Entries
    <3> QED  BY <3>1, NewDeadline
  <2>3. CASE s \notin Skipped(seq)
    <3>1. request_time'[s] = request_time[s] /\ age'[s] = age[s] /\ s \in pending
      BY <1>3, <2>1, <2>3 DEF received, Entries
    <3> QED  BY <3>1
  <2> QED  BY <2>2, <2>3
<1>4. CASE getResendRequests
  <2> SUFFICES ASSUME NEW s \in pending'
               PROVE  /\ request_time'[s] \in 0 .. ClockSize - 1
                      /\ \/ age'[s] >= wait_ms
                         \/ request_time'[s] < wait_ms
                         \/ request_time'[s] + age'[s] = now + wait_ms
    BY <1>4 DEF getResendRequests
  <2>1. s \in pending /\ s \in Segments
    BY <1>2, <1>4 DEF getResendRequests, Entries
  <2>2. CASE s \in Requested
    <3>1. request_time'[s] = Deadline /\ age'[s] = 0
      BY <1>4, <2>1, <2>2 DEF getResendRequests, Entries
    <3> QED  BY <3>1, NewDeadline
  <2>3. CASE s \notin Requested
    <3>1. request_time'[s] = request_time[s] /\ age'[s] = age[s]
      BY <1>4, <2>1, <2>3 DEF getResendRequests, Entries
    <3> QED  BY <2>1, <3>1
  <2> QED  BY <2>2, <2>3
<1>5. ASSUME NEW seq \in Segments, discardUpTo(seq) PROVE Waiting'
  <2>1. \A s \in pending' : s \in pending /\ request_time'[s] = request_time[s]
    BY <1>2, <1>5 DEF discardUpTo, Entries
  <2> QED  BY <1>5, <2>1 DEF discardUpTo
<1>6. CASE reset
  BY <1>6 DEF reset, Entries
<1>7. CASE Tick
  <2>1. pending' = pending /\ request_time' = request_time
    BY <1>7 DEF Tick, entries
  <2>2. now' = (now + 1) % ClockSize /\ now' \in 0 .. ClockSize - 1
    BY <1>7 DEF Tick
  <2>3. ASSUME NEW s \in pending
        PROVE  \/ age'[s] >= wait_ms
               \/ request_time[s] < wait_ms
               \/ request_time[s] + age'[s] = now' + wait_ms
    <3>1. age'[s] = IF age[s] < wait_ms THEN age[s] + 1 ELSE age[s]
      BY <1>2, <1>7 DEF Tick
    <3>2. CASE age[s] < wait_ms /\ request_time[s] + age[s] = now + wait_ms
      <4>1. now + 1 \in 0 .. ClockSize - 1
        BY <1>1, <1>2, <3>2
      <4>2. now' = now + 1
        BY <2>2, <4>1
      <4> QED  BY <1>1, <1>2, <3>1, <3>2, <4>2
    <3> QED  BY <1>1, <1>2, <3>1, <3>2
  <2> QED  BY <2>1, <2>2, <2>3
<1>8. CASE UNCHANGED recovery_vars
  BY <1>8 DEF recovery_vars
<1> QED  BY <1>3, <1>4, <1>5, <1>6, <1>7, <1>8 DEF RecoveryNext

\* A number is asked for when it has waited, or when the clock wraps around before
\* its deadline, for every width of the clock and every wait.
THEOREM RequestsWait == RecoverySpec => WaitsFirst
<1> DEFINE Waited == \A s \in Segments : requests'[s] > requests[s] =>
                       age[s] >= wait_ms \/ request_time[s] < wait_ms
<1>1. RecoveryInit => Waiting
  BY DEF RecoveryInit, Waiting
<1>2. ASSUME RecoveryInv, Waiting, RecoveryNext PROVE Waited
  <2> SUFFICES ASSUME NEW s \in Segments, requests'[s] > requests[s]
               PROVE  age[s] >= wait_ms \/ request_time[s] < wait_ms
    OBVIOUS
  <2>1. requests[s] \in Nat /\ age[s] \in Nat /\ request_time[s] \in Nat
    BY <1>2 DEF RecoveryInv, RecoveryTypeOK
  <2>2. requests' # requests /\ requests' # Zero
    BY <2>1 DEF Zero
  <2>3. getResendRequests
    BY <1>2, <2>2 DEF RecoveryNext, received, discardUpTo, reset, Tick
  <2>4. s \in Requested
    BY <2>1, <2>3 DEF getResendRequests
  <2>5. s \in pending /\ now >= request_time[s]
    BY <2>4 DEF Requested, Visited, IsDue
  <2> QED  BY <1>2, <2>1, <2>5 DEF Waiting
<1>3. RecoveryInv /\ Waiting /\ [RecoveryNext]_recovery_vars => [Waited]_recovery_vars
  BY <1>2
<1> QED  BY <1>1, <1>3, WaitingStep, RecoveryInductive, PTL DEF RecoverySpec, WaitsFirst
=============================================================================
