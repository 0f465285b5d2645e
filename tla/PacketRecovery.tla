--------------------------- MODULE PacketRecovery ---------------------------
(***************************************************************************)
(* AOOPacketRecovery (aoo/AOOPacketRecovery.h): which missing sequence     *)
(* numbers are asked for again, when, and how often.                       *)
(*                                                                         *)
(* The vector pending_ is represented by a set of numbers with their       *)
(* deadline and attempts.  It is always sorted, because received() appends *)
(* only numbers above last_seq_; so scanning it from the back is scanning  *)
(* the numbers downwards (and the test for an entry that is `already'      *)
(* there never succeeds).  Deadlines are values of the 32 bit millisecond  *)
(* clock, which wraps around.                                              *)
(*                                                                         *)
(* The specification has names of its own, with the prefix Recovery, to be *)
(* extended beside that of the Sender.                                     *)
(*                                                                         *)
(* Operators with a word after an underscore (Deadline_Now) are wrong      *)
(* variants of the definition that follows them, as in JitterBuffer.       *)
(***************************************************************************)
EXTENDS Integers, FiniteSets

CONSTANTS
  Segments,     \* the sequence numbers that may be received
  max_requests, \* resend requests per number before giving up
  wait_ms,      \* delay before a request, and between two requests
  max_count,    \* requests handed out by one call (8 in postProcessing)
  ClockSize,    \* the clock counts modulo this: 2^32 in the code
  MaxNow        \* the clock stops here in bounded runs; at least ClockSize
                \*   where it is to run for ever

ASSUME SegmentsAssumption == Segments \subseteq Nat
ASSUME RequestsAssumption == max_requests \in Nat
ASSUME ClockAssumption ==
  ClockSize \in Nat \ {0} /\ wait_ms \in Nat /\ max_count \in Nat /\ MaxNow \in Nat

VARIABLES
  pending,       \* numbers in pending_
  request_time,  \* their deadlines (0 when not pending)
  attempts,      \* requests sent for each of them (0 when not pending)
  last_seq,      \* highest number received, -1 before the first
  now,           \* millis()
  first_seq,     \* history: the first number received, or -1
  got,           \* history: numbers received since begin()
  requests,      \* history: requests handed out for each number
  discarded,     \* history: highest argument of discardUpTo()
  age            \* history: ticks since the deadline was set, up to wait_ms

entries == <<pending, request_time, attempts>>
recovery_vars == <<pending, request_time, attempts, last_seq, now, first_seq, got,
                   requests, discarded, age>>

Zero == [s \in Segments |-> 0]

\* Everything that is not pending has no entry.
Entries(set, times, counts) ==
  /\ pending' = set
  /\ request_time' = [s \in Segments |-> IF s \in set THEN times[s] ELSE 0]
  /\ attempts' = [s \in Segments |-> IF s \in set THEN counts[s] ELSE 0]

RecoveryInit ==
  /\ pending = {}
  /\ request_time = Zero
  /\ attempts = Zero
  /\ last_seq = -1
  /\ now \in {t \in 0 .. ClockSize - 1 : t <= MaxNow}
  /\ first_seq = -1
  /\ got = {}
  /\ requests = Zero
  /\ discarded = -1
  /\ age = Zero

Deadline_Now == now
Deadline == (now + wait_ms) % ClockSize

-----------------------------------------------------------------------------

Skipped_Inclusive(seq) == {s \in Segments : last_seq >= 0 /\ last_seq < s /\ s <= seq}
Skipped_OneShort(seq) == {s \in Segments : last_seq >= 0 /\ last_seq + 1 < s /\ s < seq}

\* The numbers that were skipped when seq arrived.
Skipped(seq) == {s \in Segments : last_seq >= 0 /\ last_seq < s /\ s < seq}

received(seq) ==
  /\ Entries((pending \ {seq}) \union Skipped(seq),
             [s \in Segments |-> IF s \in Skipped(seq) THEN Deadline
                                                       ELSE request_time[s]],
             attempts)
  /\ last_seq' = IF seq > last_seq THEN seq ELSE last_seq
  /\ first_seq' = IF first_seq < 0 THEN seq ELSE first_seq
  /\ got' = got \union {seq}
  /\ age' = [s \in Segments |-> IF s \in Skipped(seq) THEN 0 ELSE age[s]]
  /\ UNCHANGED <<now, requests, discarded>>

\* The comparison is not aware of the wrap-around.
IsDue(s) == s \in pending /\ now >= request_time[s]

\* The scan goes from the highest number down until max_count requests have
\* been handed out; numbers given up on the way do not count.
Visited ==
  {s \in Segments :
     /\ IsDue(s)
     /\ Cardinality({t \in pending : /\ IsDue(t)
                                     /\ s < t
                                     /\ attempts[t] < max_requests}) < max_count}
Requested_OneMore == {s \in Visited : attempts[s] <= max_requests}
Requested == {s \in Visited : attempts[s] < max_requests}
Abandoned_Never == {}
Abandoned == {s \in Visited : attempts[s] >= max_requests}

getResendRequests ==
  /\ Entries(pending \ Abandoned,
             [s \in Segments |-> IF s \in Requested THEN Deadline
                                                    ELSE request_time[s]],
             [s \in Segments |-> IF s \in Requested THEN attempts[s] + 1
                                                    ELSE attempts[s]])
  /\ requests' = [s \in Segments |-> IF s \in Requested THEN requests[s] + 1
                                                        ELSE requests[s]]
  /\ age' = [s \in Segments |-> IF s \in Requested THEN 0 ELSE age[s]]
  /\ UNCHANGED <<last_seq, now, first_seq, got, discarded>>

\* The reader has passed everything up to seq.
discardUpTo(seq) ==
  /\ Entries({s \in pending : s > seq}, request_time, attempts)
  /\ discarded' = IF seq > discarded THEN seq ELSE discarded
  /\ UNCHANGED <<last_seq, now, first_seq, got, requests, age>>

reset ==
  /\ Entries({}, request_time, attempts)
  /\ last_seq' = -1
  /\ first_seq' = -1
  /\ got' = {}
  /\ requests' = Zero
  /\ discarded' = -1
  /\ age' = Zero
  /\ UNCHANGED now

Tick ==
  /\ now < MaxNow
  /\ now' = (now + 1) % ClockSize
  /\ age' = [s \in Segments |->
               IF s \in pending /\ age[s] < wait_ms THEN age[s] + 1 ELSE age[s]]
  /\ UNCHANGED <<entries, last_seq, first_seq, got, requests, discarded>>

RecoveryNext ==
  \/ \E seq \in Segments : received(seq) \/ discardUpTo(seq)
  \/ getResendRequests
  \/ reset
  \/ Tick

RecoverySpec == RecoveryInit /\ [][RecoveryNext]_recovery_vars

\* The clock runs, and the receiver polls often enough not to miss for ever
\* the time in which a number is due.
RecoveryFairSpec ==
  /\ RecoverySpec
  /\ WF_recovery_vars(Tick)
  /\ \A s \in Segments : SF_recovery_vars(getResendRequests /\ s \in Visited)

-----------------------------------------------------------------------------
(* Properties *)

RecoveryTypeOK ==
  /\ pending \in SUBSET Segments
  /\ request_time \in [Segments -> Nat]
  /\ attempts \in [Segments -> Nat]
  /\ last_seq \in Int
  /\ now \in Nat
  /\ first_seq \in Int
  /\ got \in SUBSET Segments
  /\ requests \in [Segments -> Nat]
  /\ discarded \in Int
  /\ age \in [Segments -> Nat]

\* "Maximum resend attempts per missing packet" (AOOConfig.h): the attempts
\* are forgotten with the entry, yet a number never gets a second entry.
AtMostMaxRequests == \A s \in Segments : requests[s] <= max_requests

\* Only blocks that are really missing are asked for: one that arrived late
\* is not, nor one beyond the newest.
PendingAreMissing == \A s \in pending : s \notin got /\ s < last_seq

\* No missing block is forgotten: a number between the first and the newest
\* received one is pending unless it was asked for max_requests times or the
\* reader passed it.  (A number below the first received one is never asked
\* for, even when a smaller one arrives later.)
NoGapForgotten ==
  \A s \in Segments :
    first_seq >= 0 /\ first_seq < s /\ s < last_seq /\ s \notin got
      => \/ s \in pending
         \/ requests[s] = max_requests
         \/ s <= discarded

\* A block gets wait_ms to arrive by itself before it is asked for (and asked
\* for again), except across the wrap-around of the clock: then its deadline is
\* a small number, below wait_ms, and it is asked for at once.
WaitsFirst ==
  [][\A s \in Segments : requests'[s] > requests[s] =>
       age[s] >= wait_ms \/ request_time[s] < wait_ms]_recovery_vars

\* A pending number does not stay for ever: it arrives, is passed by the
\* reader, or is given up.
Settles == \A s \in Segments : s \in pending ~> s \notin pending

=============================================================================
