----------------------------- MODULE Reassembly -----------------------------
(***************************************************************************)
(* A block that is too big for one packet: AOOSender::aoo_send_block splits *)
(* it into frames, AOOReceiver::onData puts it together again.  A source   *)
(* line assembles one block at a time; the frame size is not sent but      *)
(* worked out from the first frame that arrives.                           *)
(*                                                                         *)
(* The network may lose, repeat and reorder frames, so that the frames of  *)
(* different blocks (and of resent blocks) interleave: any frame may       *)
(* arrive at any time.  A byte is named by its block and its position.     *)
(***************************************************************************)
EXTENDS Integers, FiniteSets

CONSTANTS
  Blocks,         \* the sequence numbers of the blocks
  Size,           \* the size in bytes of each of them
  max_frame_len,  \* max_packet_size less the header, at least 16 in the code
  kMaxAssemblySize \* the biggest block the receiver assembles (1 MiB in the code)

ASSUME BlocksAssumption == Blocks \subseteq Nat
ASSUME SizeAssumption == Size \in [Blocks -> Nat \ {0}]
ASSUME FrameAssumption == max_frame_len \in Nat \ {0}
ASSUME AssemblyAssumption == kMaxAssemblySize \in Nat

VARIABLES
  assembly_seq,           \* the block being assembled, -1 before the first
  assembly_total_frames,
  assembly_total_size,
  assembly_frame_size,    \* 0 until the first frame was used
  assembly_received,
  assembly_done,
  assembly_frames,        \* the frames that were received
  assembly_buffer,        \* position -> byte
  result,                 \* how the last frame ended
  stored,                 \* history: the blocks handed to storeEncodedData
  streak                  \* history: the frames of one block that arrived
                          \*   since a usable frame of another one did

header == <<assembly_seq, assembly_total_frames, assembly_total_size>>
vars == <<header, assembly_frame_size, assembly_received, assembly_done,
          assembly_frames, assembly_buffer, result, stored, streak>>

-----------------------------------------------------------------------------
(* The sender *)

numFrames(len) == (len + max_frame_len - 1) \div max_frame_len

frameSize(len) == (len + numFrames(len) - 1) \div numFrames(len)
frameLen(len, idx) ==
  IF len - idx * frameSize(len) < frameSize(len)
    THEN len - idx * frameSize(len) ELSE frameSize(len)

Byte(seq, position) == <<seq, position>>
Zero == <<-1, 0>>

\* One /data message; data is the part of the block that starts at frame_idx
\* times frameSize, named by its first position.
Frame(seq, idx) ==
  [seq_no |-> seq,
   total_size |-> Size[seq],
   total_number_of_frames |-> numFrames(Size[seq]),
   frame_idx |-> idx,
   data |-> idx * frameSize(Size[seq]),
   len |-> frameLen(Size[seq], idx)]

FrameIds == UNION {{<<seq, idx>> : idx \in 0 .. numFrames(Size[seq]) - 1}
                     : seq \in Blocks}
Sent == {Frame(id[1], id[2]) : id \in FrameIds}

-----------------------------------------------------------------------------
(* The receiver *)

Init ==
  /\ assembly_seq = -1
  /\ assembly_total_frames = 0 /\ assembly_total_size = 0
  /\ assembly_frame_size = 0 /\ assembly_received = 0
  /\ assembly_done = FALSE
  /\ assembly_frames = {}
  /\ assembly_buffer = [p \in {} |-> Zero]
  /\ result = "none"
  /\ stored = {}
  /\ streak = {}

\* The state of the assembly with which the frame is checked: a frame of
\* another block starts anew, whatever has been collected is dropped.
Continues(f) == assembly_seq = f.seq_no
done(f) == Continues(f) /\ assembly_done
frames_before(f) == IF Continues(f) THEN assembly_frames ELSE {}
received_before(f) == IF Continues(f) THEN assembly_received ELSE 0
frame_size_before_Kept(f) == assembly_frame_size
frame_size_before(f) == IF Continues(f) THEN assembly_frame_size ELSE 0
buffer_before(f) == IF Continues(f) THEN assembly_buffer
                    ELSE [p \in 0 .. f.total_size - 1 |-> Zero]
total_frames(f) == IF Continues(f) THEN assembly_total_frames
                                   ELSE f.total_number_of_frames
total_size(f) == IF Continues(f) THEN assembly_total_size ELSE f.total_size

\* The size of all frames but the last one.
frame_size_OfFirst(f) ==
  IF frame_size_before(f) # 0 THEN frame_size_before(f) ELSE f.len
frame_size(f) ==
  IF frame_size_before(f) # 0 THEN frame_size_before(f)
  ELSE IF f.frame_idx < f.total_number_of_frames - 1 THEN f.len
  ELSE (f.total_size - f.len) \div (f.total_number_of_frames - 1)
offset(f) == f.frame_idx * frame_size(f)

\* A duplicate, or a frame that does not fit to the others.
Ignored(f) ==
  \/ done(f)
  \/ f.total_number_of_frames # total_frames(f)
  \/ f.total_size # total_size(f)
  \/ f.frame_idx \in frames_before(f)

Rejected(f) == offset(f) < 0 \/ offset(f) + f.len > total_size(f)

StartAssembly(f) ==
  /\ assembly_seq' = f.seq_no
  /\ assembly_total_frames' = total_frames(f)
  /\ assembly_total_size' = total_size(f)

Streak(f) ==
  streak' = (IF Continues(f) THEN streak ELSE {}) \union {f.frame_idx}

Single(f) ==
  /\ f.total_number_of_frames = 1
  /\ stored' = stored \union
       {[seq |-> f.seq_no,
         data |-> [p \in 0 .. f.len - 1 |-> Byte(f.seq_no, f.data + p)]]}
  /\ result' = "stored"
  /\ UNCHANGED <<header, assembly_frame_size, assembly_received, assembly_done,
                 assembly_frames, assembly_buffer, streak>>

\* A block that is too big to be assembled: the frame is turned down before it
\* touches the assembly.  The sender has no such limit.
Refuse(f) ==
  /\ f.total_number_of_frames > 1
  /\ f.total_size > kMaxAssemblySize
  /\ result' = "rejected"
  /\ UNCHANGED <<header, assembly_frame_size, assembly_received, assembly_done,
                 assembly_frames, assembly_buffer, stored, streak>>

\* What has been collected before is left as it is.
Keep(f) ==
  /\ assembly_received' = received_before(f)
  /\ assembly_done' = done(f)
  /\ assembly_frames' = frames_before(f)
  /\ assembly_buffer' = buffer_before(f)
  /\ UNCHANGED stored

Ignore(f) ==
  /\ f.total_number_of_frames > 1 /\ f.total_size <= kMaxAssemblySize
  /\ Ignored(f)
  /\ StartAssembly(f)
  /\ Streak(f)
  /\ assembly_frame_size' = frame_size_before(f)
  /\ Keep(f)
  /\ result' = "ignored"

\* The buffer with the bytes of the frame copied into it.
Copied(f) ==
  [p \in 0 .. total_size(f) - 1 |->
     IF offset(f) <= p /\ p < offset(f) + f.len
       THEN Byte(f.seq_no, f.data + (p - offset(f)))
       ELSE buffer_before(f)[p]]

Completes(f) == received_before(f) + 1 >= total_frames(f)

Add(f) ==
  /\ assembly_received' = received_before(f) + 1
  /\ assembly_frames' = frames_before(f) \union {f.frame_idx}
  /\ assembly_buffer' = Copied(f)
  /\ assembly_done' = Completes(f)
  /\ IF Completes(f)
       THEN /\ stored' = stored \union {[seq |-> f.seq_no, data |-> Copied(f)]}
            /\ result' = "stored"
       ELSE result' = "partial" /\ UNCHANGED stored

Assemble(f) ==
  /\ f.total_number_of_frames > 1 /\ f.total_size <= kMaxAssemblySize
  /\ ~Ignored(f)
  /\ StartAssembly(f)
  /\ Streak(f)
  /\ assembly_frame_size' = frame_size(f)
  /\ IF Rejected(f) THEN Keep(f) /\ result' = "rejected"
                    ELSE Add(f)

onData(f) == Single(f) \/ Refuse(f) \/ Ignore(f) \/ Assemble(f)

Next == \E f \in Sent : onData(f)

Spec == Init /\ [][Next]_vars

-----------------------------------------------------------------------------
(* Properties *)

Original(seq) == [p \in 0 .. Size[seq] - 1 |-> Byte(seq, p)]
AllFrames(seq) == 0 .. numFrames(Size[seq]) - 1

Positions == UNION {0 .. Size[seq] - 1 : seq \in Blocks}
Bytes == (Blocks \X Positions) \union {Zero}

TypeOK ==
  /\ assembly_seq \in Blocks \union {-1}
  /\ assembly_total_frames \in Nat /\ assembly_total_size \in Nat
  /\ assembly_frame_size \in Nat /\ assembly_received \in Nat
  /\ assembly_done \in BOOLEAN
  /\ assembly_frames \subseteq 0 .. assembly_total_frames - 1
  /\ assembly_buffer \in [0 .. assembly_total_size - 1 -> Bytes]
  /\ result \in {"none", "stored", "ignored", "rejected", "partial"}
  /\ \A b \in stored : b.seq \in Blocks
  /\ streak \subseteq 0 .. assembly_total_frames - 1

\* A block is handed to the jitter buffer only with exactly the bytes the
\* sender encoded, each in its place: whichever frame came first, no frame is
\* missing, none is in a wrong place and none is of another block.
StoredIsOriginal == \A b \in stored : b.data = Original(b.seq)

\* No frame of a block of up to kMaxAssemblySize is turned down by the check that
\* protects the buffer: the frame size is guessed right from every frame.
NothingRejected ==
  [][\A f \in Sent : onData(f) /\ f.total_size <= kMaxAssemblySize
                      => result' # "rejected"]_vars

\* A block of up to kMaxAssemblySize whose frames all arrive, in any order and
\* with repetitions, with no frame of another such block between them, is
\* stored: what an earlier, interrupted assembly has left does not get into the
\* way.  (The frames of a bigger block are refused and interrupt nothing.)
UninterruptedIsStored ==
  assembly_seq # -1 /\ streak = AllFrames(assembly_seq) =>
    \E b \in stored : b.seq = assembly_seq
=============================================================================
