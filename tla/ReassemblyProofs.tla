-------------------------- MODULE ReassemblyProofs --------------------------
(***************************************************************************)
(* Proofs about Reassembly for every set of blocks, every block size and   *)
(* every maximal frame length.                                             *)
(*                                                                         *)
(* First the arithmetic of the split: rounding up twice leaves at least    *)
(* one byte to the last frame, so that the frames cover the block and the  *)
(* frame size can be worked out from each of them.  Then the invariant:    *)
(* the frames marked as received are in the buffer, each in its place.     *)
(***************************************************************************)
EXTENDS Reassembly, FiniteSetTheorems, TLAPS

-----------------------------------------------------------------------------
(* The arithmetic of the split *)

LEMMA DivisionFacts ==
  ASSUME NEW a \in Nat, NEW b \in Nat \ {0}
  PROVE  /\ a \div b \in Nat
         /\ (a \div b) * b <= a
         /\ a < (a \div b) * b + b
BY SMT

LEMMA TimesMonotone ==
  ASSUME NEW a \in Nat, NEW b \in Nat, NEW c \in Nat, a <= b
  PROVE  a * c <= b * c
BY SMT

LEMMA ExactDivision ==
  ASSUME NEW a \in Nat, NEW b \in Nat \ {0}
  PROVE  (a * b) \div b = a
BY SMT

\* The number of frames and their size, for every size of a block.
LEMMA SplitFacts ==
  ASSUME NEW len \in Nat \ {0}
  PROVE  /\ numFrames(len) \in Nat \ {0}
         /\ frameSize(len) \in Nat \ {0}
         /\ \A m \in Nat : numFrames(len) = m + 1 => m * frameSize(len) < len
         /\ len <= numFrames(len) * frameSize(len)
<1> DEFINE n == numFrames(len)
           fs == frameSize(len)
           k == max_frame_len
<1>0. k \in Nat \ {0}
  BY FrameAssumption
<1>1. /\ n \in Nat
      /\ n * k <= len + k - 1
      /\ len + k - 1 < n * k + k
  <2>1. len + k - 1 \in Nat
    BY <1>0
  <2> QED
    BY <1>0, <2>1, DivisionFacts DEF numFrames
<1>2. n # 0
  <2>1. n = 0 => n * k = 0
    BY <1>0
  <2> HIDE DEF n
  <2> QED
    BY <1>0, <1>1, <2>1
<1>3. PICK m \in Nat : n = m + 1
  <2> HIDE DEF n
  <2> QED
    BY <1>1, <1>2
<1>4. n * k = m * k + k
  <2> HIDE DEF n
  <2> QED
    BY <1>0, <1>3
<1>5. m * k < len
  <2> HIDE DEF n
  <2> QED
    BY <1>0, <1>1, <1>4
<1>6. /\ fs \in Nat
      /\ fs * n <= len + n - 1
      /\ len + n - 1 < fs * n + n
  <2>1. len + n - 1 \in Nat
    BY <1>1, <1>2
  <2> QED
    BY <1>1, <1>2, <2>1, DivisionFacts DEF frameSize
<1>7. fs * n = n * fs
  <2> HIDE DEF n, fs
  <2> QED
    BY <1>1, <1>6
<1>8. len <= n * fs
  <2> HIDE DEF n, fs
  <2> QED
    BY <1>1, <1>6, <1>7
<1>9. fs # 0
  <2>1. fs = 0 => n * fs = 0
    BY <1>1
  <2> HIDE DEF n, fs
  <2> QED
    BY <1>8, <2>1
<1>10. fs <= k
  <2> SUFFICES ASSUME k + 1 <= fs PROVE FALSE
    <3> HIDE DEF n, fs
    <3> QED
      BY <1>0, <1>6
  <2>1. (k + 1) * n <= fs * n
    <3> HIDE DEF n, fs
    <3> QED
      BY <1>0, <1>1, <1>6, TimesMonotone
  <2>2. (k + 1) * n = n * k + n
    <3> HIDE DEF n, fs
    <3> QED
      BY <1>0, <1>1
  <2>3. len <= n * k
    <3> HIDE DEF n, fs
    <3> QED
      BY <1>0, <1>1
  <2> HIDE DEF n, fs
  <2> QED
    BY <1>0, <1>1, <1>6, <2>1, <2>2, <2>3
<1>11. m * fs < len
  <2>1. fs * m <= k * m
    <3> HIDE DEF n, fs
    <3> QED
      BY <1>0, <1>3, <1>6, <1>10, TimesMonotone
  <2> HIDE DEF n, fs
  <2> QED
    BY <1>0, <1>3, <1>5, <1>6, <2>1
<1> HIDE DEF n, fs
<1>12. \A j \in Nat : n = j + 1 => j * fs < len
  BY <1>3, <1>11
<1> QED
  BY <1>1, <1>2, <1>6, <1>8, <1>9, <1>12 DEF n, fs

\* Each frame starts inside the block, has at least one byte and ends where
\* the next one starts or where the block ends.
LEMMA FrameFacts ==
  ASSUME NEW len \in Nat \ {0}, NEW idx \in 0 .. numFrames(len) - 1
  PROVE  /\ frameLen(len, idx) \in Nat \ {0}
         /\ frameLen(len, idx) <= frameSize(len)
         /\ idx * frameSize(len) \in Nat
         /\ idx * frameSize(len) + frameLen(len, idx) <= len
         /\ idx < numFrames(len) - 1 => frameLen(len, idx) = frameSize(len)
         /\ idx = numFrames(len) - 1 =>
              idx * frameSize(len) + frameLen(len, idx) = len
<1> DEFINE n == numFrames(len)
           fs == frameSize(len)
<1>1. /\ n \in Nat \ {0}
      /\ fs \in Nat \ {0}
      /\ \A m \in Nat : n = m + 1 => m * fs < len
      /\ len <= n * fs
  BY SplitFacts
<1> HIDE DEF n, fs
<1>2. PICK m \in Nat : n = m + 1
  BY <1>1
<1>3. idx \in Nat /\ idx <= m
  BY <1>1, <1>2 DEF n
<1>4. m * fs < len
  BY <1>1, <1>2
<1>5. idx * fs \in Nat
  BY <1>1, <1>3
<1>6. idx * fs <= m * fs
  BY <1>1, <1>3, TimesMonotone
<1>7. m * fs \in Nat
  BY <1>1
<1>8. idx * fs < len
  BY <1>4, <1>5, <1>6, <1>7
<1>9. frameLen(len, idx) = IF len - idx * fs < fs THEN len - idx * fs ELSE fs
  BY DEF frameLen, fs
<1>10. ASSUME idx < m PROVE frameLen(len, idx) = fs
  <2>1. (idx + 1) * fs <= m * fs
    BY <1>1, <1>3, <1>10, TimesMonotone
  <2>2. (idx + 1) * fs = idx * fs + fs
    BY <1>1, <1>3
  <2> QED
    BY <1>1, <1>4, <1>5, <1>7, <1>9, <2>1, <2>2
<1>11. ASSUME idx = m PROVE idx * fs + frameLen(len, idx) = len
  <2>1. n * fs = idx * fs + fs
    BY <1>1, <1>2, <1>3, <1>11
  <2> QED
    BY <1>1, <1>5, <1>9, <2>1
<1>12. /\ frameLen(len, idx) \in Nat \ {0}
       /\ frameLen(len, idx) <= fs
       /\ idx * fs + frameLen(len, idx) <= len
  BY <1>1, <1>5, <1>8, <1>9
<1> QED
  BY <1>2, <1>3, <1>5, <1>10, <1>11, <1>12 DEF n, fs

\* Every position of the block belongs to one of the frames.
LEMMA Covered ==
  ASSUME NEW len \in Nat \ {0}, NEW p \in 0 .. len - 1
  PROVE  \E idx \in 0 .. numFrames(len) - 1 :
            /\ idx * frameSize(len) <= p
            /\ p < idx * frameSize(len) + frameSize(len)
<1> DEFINE n == numFrames(len)
           fs == frameSize(len)
           i == p \div fs
<1>1. /\ n \in Nat \ {0}
      /\ fs \in Nat \ {0}
      /\ len <= n * fs
  BY SplitFacts
<1>2. p \in Nat /\ p < len
  OBVIOUS
<1>3. i \in Nat /\ i * fs <= p /\ p < i * fs + fs
  BY <1>1, <1>2, DivisionFacts
<1> HIDE DEF n, fs, i
<1>4. i < n
  <2> SUFFICES ASSUME n <= i PROVE FALSE
    BY <1>1, <1>3
  <2>1. n * fs <= i * fs
    BY <1>1, <1>3, TimesMonotone
  <2>2. n * fs \in Nat /\ i * fs \in Nat
    BY <1>1, <1>3
  <2> QED
    BY <1>1, <1>2, <1>3, <2>1, <2>2
<1>5. i \in 0 .. n - 1
  BY <1>1, <1>3, <1>4
<1> QED
  BY <1>3, <1>5 DEF n, fs
\* Whichever frame comes first, it gives the right frame size.
LEMMA GuessIsRight ==
  ASSUME NEW len \in Nat \ {0}, NEW idx \in 0 .. numFrames(len) - 1,
         numFrames(len) > 1
  PROVE  (IF idx < numFrames(len) - 1 THEN frameLen(len, idx)
          ELSE (len - frameLen(len, idx)) \div (numFrames(len) - 1))
           = frameSize(len)
<1> DEFINE n == numFrames(len)
           fs == frameSize(len)
           fl == frameLen(len, idx)
<1>1. /\ n \in Nat \ {0}
      /\ fs \in Nat \ {0}
  BY SplitFacts
<1>2. /\ fl \in Nat \ {0}
      /\ idx * fs \in Nat
      /\ idx < n - 1 => fl = fs
      /\ idx = n - 1 => idx * fs + fl = len
  BY FrameFacts
<1>3. idx \in Nat /\ idx <= n - 1
  BY <1>1
<1>4. n > 1
  OBVIOUS
<1> HIDE DEF n, fs, fl
<1>5. CASE idx < n - 1
  BY <1>2, <1>5 DEF n, fs, fl
<1>6. CASE idx = n - 1
  <2>1. len - fl = idx * fs
    BY <1>1, <1>2, <1>6
  <2>2. idx \in Nat \ {0}
    BY <1>3, <1>4, <1>6
  <2>3. idx * fs = fs * idx
    BY <1>1, <1>3
  <2>4. (fs * idx) \div idx = fs
    BY <1>1, <2>2, ExactDivision
  <2>5. (len - fl) \div (n - 1) = fs
    BY <1>6, <2>1, <2>3, <2>4
  <2>6. ~(idx < n - 1)
    BY <1>1, <1>3, <1>6
  <2> QED
    BY <2>5, <2>6 DEF n, fs, fl
<1> QED
  BY <1>1, <1>3, <1>5, <1>6

-----------------------------------------------------------------------------
(* The invariant *)

\* The frames are in the buffer, each where it belongs.
Placed(seq, frames, buffer) ==
  \A i \in frames : \A p \in 0 .. Size[seq] - 1 :
    /\ i * frameSize(Size[seq]) <= p
    /\ p < i * frameSize(Size[seq]) + frameSize(Size[seq])
    => buffer[p] = Byte(seq, p)

Header(seq) ==
  /\ numFrames(Size[seq]) > 1
  /\ assembly_total_frames = numFrames(Size[seq])
  /\ assembly_total_size = Size[seq]

Progress(seq) ==
  /\ assembly_frame_size \in {0, frameSize(Size[seq])}
  /\ assembly_received = Cardinality(assembly_frames)
  /\ Placed(seq, assembly_frames, assembly_buffer)
  /\ assembly_done <=> assembly_frames = AllFrames(seq)
  /\ assembly_done => \E b \in stored : b.seq = seq
  /\ streak \subseteq assembly_frames

Inv ==
  /\ TypeOK
  /\ StoredIsOriginal
  /\ assembly_seq # -1 => Header(assembly_seq) /\ Progress(assembly_seq)

LEMMA SizeIsPositive ==
  ASSUME NEW seq \in Blocks
  PROVE  Size[seq] \in Nat \ {0}
BY SizeAssumption

LEMMA BytesOfBlock ==
  ASSUME NEW seq \in Blocks, NEW p \in 0 .. Size[seq] - 1
  PROVE  Byte(seq, p) \in Bytes
<1>1. p \in Positions
  BY DEF Positions
<1> QED
  BY <1>1 DEF Byte, Bytes

\* A buffer with all frames in place holds the original block.
LEMMA AllPlaced ==
  ASSUME NEW seq \in Blocks, NEW buffer, DOMAIN buffer = 0 .. Size[seq] - 1,
         buffer = [p \in DOMAIN buffer |-> buffer[p]],
         Placed(seq, AllFrames(seq), buffer)
  PROVE  buffer = Original(seq)
<1>1. ASSUME NEW p \in 0 .. Size[seq] - 1 PROVE buffer[p] = Byte(seq, p)
  <2>1. PICK i \in AllFrames(seq) :
          /\ i * frameSize(Size[seq]) <= p
          /\ p < i * frameSize(Size[seq]) + frameSize(Size[seq])
    BY SizeIsPositive, Covered DEF AllFrames
  <2> QED
    BY <2>1 DEF Placed
<1> QED
  BY <1>1 DEF Original

\* What is known of a frame of the network.
LEMMA SentFacts ==
  ASSUME NEW f \in Sent
  PROVE  \E seq \in Blocks : \E idx \in AllFrames(seq) : f = Frame(seq, idx)
BY DEF Sent, FrameIds, AllFrames

\* The invariant holds before the first frame.
LEMMA Initially == Init => Inv
<1> SUFFICES ASSUME Init PROVE Inv
  OBVIOUS
<1>0. assembly_total_size = 0 /\ 0 .. assembly_total_size - 1 = {}
  BY DEF Init
<1>1. TypeOK
  <2>1. assembly_buffer \in [0 .. assembly_total_size - 1 -> Bytes]
    BY <1>0 DEF Init
  <2> QED
    BY <2>1 DEF Init, TypeOK
<1>2. StoredIsOriginal
  BY DEF Init, StoredIsOriginal
<1> QED
  BY <1>1, <1>2 DEF Init, Inv

\* The state with which a frame is checked: that of the block it belongs to,
\* or that of a new assembly.
LEMMA Before ==
  ASSUME Inv, NEW seq \in Blocks, NEW idx \in AllFrames(seq), NEW f,
         f = Frame(seq, idx), numFrames(Size[seq]) > 1
  PROVE  /\ total_frames(f) = numFrames(Size[seq])
         /\ total_size(f) = Size[seq]
         /\ frame_size_before(f) \in {0, frameSize(Size[seq])}
         /\ frame_size(f) = frameSize(Size[seq])
         /\ frames_before(f) \subseteq AllFrames(seq)
         /\ received_before(f) = Cardinality(frames_before(f))
         /\ buffer_before(f) \in [0 .. Size[seq] - 1 -> Bytes]
         /\ Placed(seq, frames_before(f), buffer_before(f))
         /\ done(f) <=> frames_before(f) = AllFrames(seq)
         /\ done(f) => \E b \in stored : b.seq = seq
<1>1. /\ f.seq_no = seq
      /\ f.total_size = Size[seq]
      /\ f.total_number_of_frames = numFrames(Size[seq])
      /\ f.frame_idx = idx
      /\ f.len = frameLen(Size[seq], idx)
  BY DEF Frame
<1>2. /\ Size[seq] \in Nat \ {0}
      /\ numFrames(Size[seq]) \in Nat \ {0}
      /\ frameSize(Size[seq]) \in Nat \ {0}
      /\ idx \in 0 .. numFrames(Size[seq]) - 1
  BY SizeIsPositive, SplitFacts DEF AllFrames
<1>3. TypeOK
  BY DEF Inv
<1>4. frame_size(f) = IF frame_size_before(f) # 0 THEN frame_size_before(f)
                      ELSE frameSize(Size[seq])
  <2>1. (IF idx < numFrames(Size[seq]) - 1 THEN frameLen(Size[seq], idx)
          ELSE (Size[seq] - frameLen(Size[seq], idx))
                 \div (numFrames(Size[seq]) - 1)) = frameSize(Size[seq])
    BY <1>2, GuessIsRight
  <2> QED
    BY <1>1, <2>1 DEF frame_size
<1>5. CASE Continues(f)
  <2>1. assembly_seq = seq /\ assembly_seq # -1
    BY <1>1, <1>5, BlocksAssumption DEF Continues
  <2>2. Header(seq) /\ Progress(seq)
    BY <2>1 DEF Inv
  <2>3. /\ total_frames(f) = assembly_total_frames
        /\ total_size(f) = assembly_total_size
        /\ frame_size_before(f) = assembly_frame_size
        /\ frames_before(f) = assembly_frames
        /\ received_before(f) = assembly_received
        /\ buffer_before(f) = assembly_buffer
        /\ done(f) = assembly_done
    BY <1>3, <1>5 DEF total_frames, total_size, frame_size_before, TypeOK,
                      frames_before, received_before, buffer_before, done
  <2>4. /\ frames_before(f) \subseteq AllFrames(seq)
        /\ buffer_before(f) \in [0 .. Size[seq] - 1 -> Bytes]
    BY <1>3, <2>2, <2>3 DEF Header, TypeOK, AllFrames
  <2>5. frame_size(f) = frameSize(Size[seq])
    BY <1>4, <2>2, <2>3 DEF Progress
  <2> QED
    BY <2>2, <2>3, <2>4, <2>5 DEF Header, Progress
<1>6. CASE ~Continues(f)
  <2>1. /\ total_frames(f) = numFrames(Size[seq])
        /\ total_size(f) = Size[seq]
        /\ frame_size_before(f) = 0
        /\ frames_before(f) = {}
        /\ received_before(f) = 0
        /\ buffer_before(f) = [p \in 0 .. Size[seq] - 1 |-> Zero]
        /\ done(f) = FALSE
    BY <1>1, <1>6 DEF total_frames, total_size, frame_size_before,
                      frames_before, received_before, buffer_before, done
  <2>2. Cardinality({}) = 0
    BY FS_EmptySet
  <2>3. buffer_before(f) \in [0 .. Size[seq] - 1 -> Bytes]
    BY <2>1 DEF Bytes
  <2>4. 0 \in AllFrames(seq)
    BY <1>2 DEF AllFrames
  <2>5. Placed(seq, frames_before(f), buffer_before(f))
    BY <2>1 DEF Placed
  <2>6. frame_size(f) = frameSize(Size[seq])
    BY <1>4, <2>1
  <2> QED
    BY <2>1, <2>2, <2>3, <2>4, <2>5, <2>6
<1> QED
  BY <1>5, <1>6

\* A block of one frame is stored as it was sent.
LEMMA SingleStep ==
  ASSUME Inv, NEW seq \in Blocks, NEW idx \in AllFrames(seq), NEW f,
         f = Frame(seq, idx), Single(f)
  PROVE  Inv'
<1> DEFINE len == Size[seq]
<1>1. /\ f.seq_no = seq
      /\ f.total_number_of_frames = numFrames(len)
      /\ f.data = idx * frameSize(len)
      /\ f.len = frameLen(len, idx)
  BY DEF Frame
<1>2. numFrames(len) = 1 /\ idx = 0
  BY <1>1 DEF Single, AllFrames
<1>3. /\ len \in Nat \ {0}
      /\ frameSize(len) \in Nat \ {0}
      /\ idx \in 0 .. numFrames(len) - 1
      /\ idx = numFrames(len) - 1
  BY <1>2, SizeIsPositive, SplitFacts
<1>4. /\ idx * frameSize(len) \in Nat
      /\ idx * frameSize(len) + frameLen(len, idx) = len
      /\ frameLen(len, idx) \in Nat
  BY <1>3, FrameFacts
<1>5. idx * frameSize(len) = 0
  BY <1>2, <1>3
<1>6. f.data = 0 /\ f.len = len
  BY <1>1, <1>3, <1>4, <1>5
<1>7. [p \in 0 .. f.len - 1 |-> Byte(f.seq_no, f.data + p)] = Original(seq)
  BY <1>1, <1>6 DEF Original, Byte
<1>8. stored' = stored \union {[seq |-> seq, data |-> Original(seq)]}
  BY <1>1, <1>7 DEF Single
<1>9. UNCHANGED <<header, assembly_frame_size, assembly_received, assembly_done,
                  assembly_frames, assembly_buffer, streak>>
      /\ result' = "stored"
  BY DEF Single
<1>10. TypeOK'
  BY <1>8, <1>9 DEF Inv, TypeOK, header
<1>11. StoredIsOriginal'
  <2> DEFINE block == [seq |-> seq, data |-> Original(seq)]
  <2>1. block.data = Original(block.seq)
    OBVIOUS
  <2>2. \A b \in stored : b.data = Original(b.seq)
    BY DEF Inv, StoredIsOriginal
  <2>3. \A b \in stored \union {block} : b.data = Original(b.seq)
    <3> HIDE DEF block
    <3> QED
      BY <2>1, <2>2
  <2> QED
    BY <1>8, <2>3 DEF StoredIsOriginal, Original
<1>12. assembly_seq' # -1 => (Header(assembly_seq) /\ Progress(assembly_seq))'
  BY <1>8, <1>9 DEF Inv, Header, Progress, header
<1> QED
  BY <1>10, <1>11, <1>12 DEF Inv

\* A frame that is ignored belongs to the block being assembled and has been
\* received before.
LEMMA IgnoreStep ==
  ASSUME Inv, NEW seq \in Blocks, NEW idx \in AllFrames(seq), NEW f,
         f = Frame(seq, idx), Ignore(f)
  PROVE  Inv'
<1>1. /\ f.seq_no = seq
      /\ f.total_size = Size[seq]
      /\ f.total_number_of_frames = numFrames(Size[seq])
      /\ f.frame_idx = idx
  BY DEF Frame
<1>2. numFrames(Size[seq]) > 1
  BY <1>1 DEF Ignore
<1>3. /\ total_frames(f) = numFrames(Size[seq])
      /\ total_size(f) = Size[seq]
      /\ frames_before(f) \subseteq AllFrames(seq)
      /\ done(f) <=> frames_before(f) = AllFrames(seq)
  BY <1>2, Before
<1>4. idx \in frames_before(f)
  BY <1>1, <1>3 DEF Ignore, Ignored
<1>5. Continues(f)
  BY <1>4 DEF frames_before
<1>6. assembly_seq = seq /\ assembly_seq # -1
  BY <1>1, <1>5, BlocksAssumption DEF Continues
<1>7. Header(seq) /\ Progress(seq) /\ TypeOK
  BY <1>6 DEF Inv
<1>8. UNCHANGED <<header, assembly_frame_size, assembly_received, assembly_done,
                  assembly_frames, assembly_buffer, stored>>
      /\ result' = "ignored" /\ streak' = streak \union {idx}
  BY <1>1, <1>5, <1>6, <1>7
     DEF Ignore, Keep, StartAssembly, Streak, header, done, TypeOK,
         total_frames, total_size, frame_size_before, frames_before,
         received_before, buffer_before
<1>9. idx \in assembly_frames
  BY <1>4, <1>5 DEF frames_before
<1>10. TypeOK'
  BY <1>7, <1>8, <1>9 DEF TypeOK, header
<1>11. StoredIsOriginal'
  BY <1>8 DEF Inv, StoredIsOriginal
<1>12. (Header(assembly_seq) /\ Progress(assembly_seq))'
  BY <1>6, <1>7, <1>8, <1>9 DEF Header, Progress, header
<1> QED
  BY <1>10, <1>11, <1>12 DEF Inv

\* A frame passes the check that protects the buffer.
LEMMA Fits ==
  ASSUME Inv, NEW seq \in Blocks, NEW idx \in AllFrames(seq), NEW f,
         f = Frame(seq, idx), numFrames(Size[seq]) > 1
  PROVE  ~Rejected(f)
<1> DEFINE len == Size[seq]
           fs == frameSize(Size[seq])
<1>1. f.frame_idx = idx /\ f.len = frameLen(len, idx)
  BY DEF Frame
<1>2. total_size(f) = len /\ frame_size(f) = fs
  BY Before
<1>3. len \in Nat \ {0} /\ idx \in 0 .. numFrames(len) - 1
  BY SizeIsPositive DEF AllFrames
<1>4. /\ f.len \in Nat \ {0}
      /\ idx * fs \in Nat
      /\ idx * fs + f.len <= len
  BY <1>1, <1>3, FrameFacts
<1>5. offset(f) = idx * fs
  BY <1>1, <1>2 DEF offset
<1> QED
  BY <1>2, <1>3, <1>4, <1>5 DEF Rejected

\* A frame that is used goes where it belongs, and the last one completes the
\* block.
LEMMA AssembleStep ==
  ASSUME Inv, NEW seq \in Blocks, NEW idx \in AllFrames(seq), NEW f,
         f = Frame(seq, idx), Assemble(f)
  PROVE  Inv'
<1> DEFINE len == Size[seq]
           fs == frameSize(Size[seq])
           n == numFrames(Size[seq])
<1>1. /\ f.seq_no = seq
      /\ f.total_size = len
      /\ f.total_number_of_frames = n
      /\ f.frame_idx = idx
      /\ f.data = idx * fs
      /\ f.len = frameLen(len, idx)
  BY DEF Frame
<1>2. n > 1
  BY <1>1 DEF Assemble
<1>3. /\ len \in Nat \ {0}
      /\ n \in Nat \ {0}
      /\ fs \in Nat \ {0}
      /\ idx \in 0 .. n - 1
  BY SizeIsPositive, SplitFacts DEF AllFrames
<1>4. /\ total_frames(f) = n
      /\ total_size(f) = len
      /\ frame_size(f) = fs
      /\ frames_before(f) \subseteq AllFrames(seq)
      /\ received_before(f) = Cardinality(frames_before(f))
      /\ buffer_before(f) \in [0 .. len - 1 -> Bytes]
      /\ Placed(seq, frames_before(f), buffer_before(f))
      /\ done(f) <=> frames_before(f) = AllFrames(seq)
  BY <1>2, Before
<1>5. /\ f.len \in Nat \ {0}
      /\ idx * fs \in Nat
      /\ idx * fs + f.len <= len
      /\ idx < n - 1 => f.len = fs
      /\ idx = n - 1 => idx * fs + f.len = len
  BY <1>1, <1>3, FrameFacts
<1>6. offset(f) = idx * fs
  BY <1>1, <1>4 DEF offset
<1>7. ~Rejected(f)
  BY <1>2, Fits
<1>8. Add(f)
  BY <1>7 DEF Assemble
<1>9. idx \notin frames_before(f) /\ ~done(f)
  BY <1>1 DEF Assemble, Ignored
<1>10. /\ assembly_seq' = seq
       /\ assembly_total_frames' = n
       /\ assembly_total_size' = len
       /\ assembly_frame_size' = fs
  BY <1>1, <1>4 DEF Assemble, StartAssembly
<1>11. assembly_frames' = frames_before(f) \union {idx}
  BY <1>1, <1>8 DEF Add
<1>12. assembly_frames' \subseteq AllFrames(seq)
  BY <1>4, <1>11
<1>13. IsFiniteSet(AllFrames(seq)) /\ Cardinality(AllFrames(seq)) = n
  <2> HIDE DEF n
  <2>1. 0 \in Int /\ n - 1 \in Int
    BY <1>3
  <2>2. /\ IsFiniteSet(0 .. n - 1)
        /\ Cardinality(0 .. n - 1) = IF 0 > n - 1 THEN 0 ELSE n - 1 - 0 + 1
    BY <2>1, FS_Interval
  <2> QED
    BY <1>3, <2>2 DEF AllFrames, n
<1>14. /\ assembly_received' = Cardinality(assembly_frames')
       /\ assembly_received' \in Nat
  <2>1. IsFiniteSet(frames_before(f))
    BY <1>4, <1>13, FS_Subset
  <2>2. /\ Cardinality(frames_before(f)) \in Nat
        /\ Cardinality(frames_before(f) \union {idx})
             = Cardinality(frames_before(f)) + 1
    BY <1>9, <2>1, FS_CardinalityType, FS_AddElement
  <2>3. assembly_received' = received_before(f) + 1
    BY <1>8 DEF Add
  <2> QED
    BY <1>4, <1>11, <2>2, <2>3
<1>15. assembly_received' <= n
  BY <1>12, <1>13, <1>14, FS_Subset
<1>16. Completes(f) <=> assembly_received' = n
  <2>1. Completes(f) <=> assembly_received' >= n
    BY <1>4, <1>8 DEF Completes, Add
  <2> HIDE DEF n
  <2> QED
    BY <1>3, <1>14, <1>15, <2>1
<1>17. Completes(f) <=> assembly_frames' = AllFrames(seq)
  BY <1>12, <1>13, <1>14, <1>16, FS_Subset
<1>18. assembly_buffer' = Copied(f)
  BY <1>8 DEF Add
<1>19. DOMAIN Copied(f) = 0 .. len - 1
  BY <1>4 DEF Copied
<1>20. ASSUME NEW p \in 0 .. len - 1
       PROVE  Copied(f)[p] = IF idx * fs <= p /\ p < idx * fs + f.len
                               THEN Byte(seq, p) ELSE buffer_before(f)[p]
  <2>1. idx * fs + (p - idx * fs) = p
    BY <1>5
  <2>2. Copied(f)[p] = IF idx * fs <= p /\ p < idx * fs + f.len
                         THEN Byte(seq, idx * fs + (p - idx * fs))
                         ELSE buffer_before(f)[p]
    BY <1>1, <1>4, <1>6 DEF Copied
  <2> QED
    BY <2>1, <2>2
<1>21. Placed(seq, assembly_frames', Copied(f))
  <2> SUFFICES ASSUME NEW i \in assembly_frames', NEW p \in 0 .. len - 1,
                      i * fs <= p, p < i * fs + fs
               PROVE  Copied(f)[p] = Byte(seq, p)
    BY DEF Placed
  <2>1. CASE i = idx
    <3>1. p < idx * fs + f.len
      BY <1>3, <1>5, <2>1
    <3> QED
      BY <1>20, <2>1, <3>1
  <2>2. CASE i # idx
    <3>1. i \in frames_before(f)
      BY <1>11, <2>2
    <3>2. buffer_before(f)[p] = Byte(seq, p)
      BY <1>4, <3>1 DEF Placed
    <3> QED
      BY <1>20, <3>2
  <2> QED
    BY <2>1, <2>2
<1>22. Copied(f) \in [0 .. len - 1 -> Bytes]
  <2>1. ASSUME NEW p \in 0 .. len - 1 PROVE Copied(f)[p] \in Bytes
    BY <1>4, <1>20, BytesOfBlock
  <2>2. Copied(f) = [p \in 0 .. len - 1 |-> Copied(f)[p]]
    BY <1>4 DEF Copied
  <2> QED
    BY <2>1, <2>2
<1>23. Completes(f) => Copied(f) = Original(seq)
  <2> SUFFICES ASSUME Completes(f) PROVE Copied(f) = Original(seq)
    OBVIOUS
  <2>1. Placed(seq, AllFrames(seq), Copied(f))
    BY <1>17, <1>21
  <2>2. Copied(f) = [p \in DOMAIN Copied(f) |-> Copied(f)[p]]
    BY <1>22
  <2> QED
    BY <1>19, <2>1, <2>2, AllPlaced
<1>24. /\ Completes(f) => stored' = stored \union
                              {[seq |-> seq, data |-> Original(seq)]}
       /\ ~Completes(f) => stored' = stored
       /\ assembly_done' = Completes(f)
       /\ result' \in {"stored", "partial"}
  BY <1>1, <1>8, <1>23 DEF Add
<1>25. streak' \subseteq assembly_frames'
  <2>1. Continues(f) => streak \subseteq assembly_frames
    BY <1>1, BlocksAssumption DEF Inv, Progress, Continues
  <2>2. streak' = (IF Continues(f) THEN streak ELSE {}) \union {idx}
    BY <1>1 DEF Assemble, Streak
  <2> QED
    BY <1>11, <2>1, <2>2 DEF frames_before
<1>26. \A b \in stored : b.seq \in Blocks /\ b.data = Original(b.seq)
  BY DEF Inv, TypeOK, StoredIsOriginal
<1>27. \A b \in stored' : b.seq \in Blocks /\ b.data = Original(b.seq)
  <2> DEFINE block == [seq |-> seq, data |-> Original(seq)]
  <2>1. block.seq = seq /\ block.data = Original(seq)
    OBVIOUS
  <2> HIDE DEF block
  <2>2. stored' \subseteq stored \union {block}
    BY <1>24 DEF block
  <2> QED
    BY <1>26, <2>1, <2>2
<1>28. TypeOK'
  <2>1. /\ assembly_seq' \in Blocks \union {-1}
        /\ assembly_total_frames' \in Nat /\ assembly_total_size' \in Nat
        /\ assembly_frame_size' \in Nat /\ assembly_received' \in Nat
    BY <1>3, <1>10, <1>14
  <2>2. assembly_frames' \subseteq 0 .. assembly_total_frames' - 1
    BY <1>10, <1>12 DEF AllFrames
  <2>3. assembly_buffer' \in [0 .. assembly_total_size' - 1 -> Bytes]
    BY <1>10, <1>18, <1>22
  <2>4. assembly_done' \in BOOLEAN
    BY <1>24 DEF Completes
  <2>5. streak' \subseteq 0 .. assembly_total_frames' - 1
    BY <1>25, <2>2
  <2> QED
    BY <1>24, <1>27, <2>1, <2>2, <2>3, <2>4, <2>5 DEF TypeOK
<1>29. StoredIsOriginal'
  BY <1>24, <1>27 DEF StoredIsOriginal, Original
<1>30. Header(seq)'
  BY <1>2, <1>10 DEF Header
<1>31. Progress(seq)'
  <2>1. assembly_done' <=> assembly_frames' = AllFrames(seq)
    BY <1>17, <1>24
  <2>2. assembly_done' => \E b \in stored' : b.seq = seq
    <3> DEFINE block == [seq |-> seq, data |-> Original(seq)]
    <3>1. block.seq = seq
      OBVIOUS
    <3>2. Completes(f) => block \in stored'
      BY <1>24
    <3> HIDE DEF block
    <3> QED
      BY <1>24, <3>1, <3>2
  <2>3. Placed(seq, assembly_frames', assembly_buffer')
    BY <1>18, <1>21
  <2> QED
    BY <1>10, <1>14, <1>25, <2>1, <2>2, <2>3 DEF Progress, Placed
<1> QED
  BY <1>10, <1>28, <1>29, <1>30, <1>31 DEF Inv, Header, Progress

-----------------------------------------------------------------------------
(* The theorems *)

\* Every frame preserves the invariant.
LEMMA Preserved == Inv /\ [Next]_vars => Inv'
<1> SUFFICES ASSUME Inv, [Next]_vars PROVE Inv'
  OBVIOUS
<1>1. CASE Next
  <2>1. PICK f \in Sent : onData(f)
    BY <1>1 DEF Next
  <2>2. PICK seq \in Blocks : \E idx \in AllFrames(seq) : f = Frame(seq, idx)
    BY SentFacts
  <2>3. PICK idx \in AllFrames(seq) : f = Frame(seq, idx)
    BY <2>2
  <2>4. CASE Single(f)
    BY <2>3, <2>4, SingleStep
  <2>5. CASE Ignore(f)
    BY <2>3, <2>5, IgnoreStep
  <2>7. CASE Refuse(f)
    BY <2>7 DEF Refuse, header, Inv, TypeOK, StoredIsOriginal, Original, Header,
                Progress, Placed
  <2>6. CASE Assemble(f)
    BY <2>3, <2>6, AssembleStep
  <2> QED
    BY <2>1, <2>4, <2>5, <2>6, <2>7 DEF onData
<1>2. CASE UNCHANGED vars
  BY <1>2 DEF vars, header, Inv, TypeOK, StoredIsOriginal, Original,
              Header, Progress, Placed
<1> QED
  BY <1>1, <1>2

\* The invariant holds in every state of every behaviour.
LEMMA Invariant == Spec => []Inv
BY Initially, Preserved, PTL DEF Spec

\* Type correctness of the assembly.
THEOREM TypeCorrect == Spec => []TypeOK
<1>1. Inv => TypeOK
  BY DEF Inv
<1> QED
  BY <1>1, Invariant, PTL

\* Only the original bytes of a block are handed to the jitter buffer, for
\* every size of a block and of a packet and every order of the frames.
THEOREM OriginalBytes == Spec => []StoredIsOriginal
<1>1. Inv => StoredIsOriginal
  BY DEF Inv
<1> QED
  BY <1>1, Invariant, PTL

\* The check that protects the buffer never turns down a frame of a block that
\* is small enough to be assembled.
THEOREM NoFrameRejected == Spec => NothingRejected
<1>1. ASSUME Inv, NEW f \in Sent, onData(f), f.total_size <= kMaxAssemblySize
      PROVE  result' # "rejected"
  <2>1. PICK seq \in Blocks : \E idx \in AllFrames(seq) : f = Frame(seq, idx)
    BY SentFacts
  <2>2. PICK idx \in AllFrames(seq) : f = Frame(seq, idx)
    BY <2>1
  <2>3. /\ f.total_size = Size[seq] /\ Size[seq] \in Nat
        /\ f.total_number_of_frames = numFrames(Size[seq])
    BY <2>2, SizeIsPositive DEF Frame
  <2>4. CASE Single(f)
    BY <2>4 DEF Single
  <2>5. CASE Refuse(f)
    BY <1>1, <2>3, <2>5, AssemblyAssumption DEF Refuse
  <2>6. CASE Ignore(f)
    BY <2>6 DEF Ignore
  <2>7. CASE Assemble(f)
    <3>1. ~Rejected(f)
      BY <1>1, <2>2, <2>3, <2>7, Fits DEF Assemble
    <3>2. result' \in {"stored", "partial"}
      BY <2>7, <3>1 DEF Assemble, Add
    <3> QED
      BY <3>2
  <2> QED
    BY <1>1, <2>4, <2>5, <2>6, <2>7 DEF onData
<1>2. Inv => \A f \in Sent : onData(f) /\ f.total_size <= kMaxAssemblySize
                              => result' # "rejected"
  BY <1>1
<1> QED
  BY <1>2, Invariant, PTL DEF NothingRejected

\* A block of up to kMaxAssemblySize whose frames arrive without a frame of another
\* such block between them is stored.
THEOREM UninterruptedStored == Spec => []UninterruptedIsStored
<1>1. Inv => UninterruptedIsStored
  <2> SUFFICES ASSUME Inv, assembly_seq # -1, streak = AllFrames(assembly_seq)
               PROVE  \E b \in stored : b.seq = assembly_seq
    BY DEF UninterruptedIsStored
  <2>1. Header(assembly_seq) /\ Progress(assembly_seq) /\ TypeOK
    BY DEF Inv
  <2>2. assembly_frames = AllFrames(assembly_seq)
    BY <2>1 DEF Header, Progress, TypeOK, AllFrames
  <2> QED
    BY <2>1, <2>2 DEF Progress
<1> QED
  BY <1>1, Invariant, PTL
=============================================================================
