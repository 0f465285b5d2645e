----------------------------- MODULE ClockSync ------------------------------
(***************************************************************************)
(* AOOClockSync of a sender: from the four timetags of a ping and its pong *)
(* it estimates how far the clock of the sink is ahead.  Timetags are      *)
(* unsigned and wrap around; the average is computed with floats.          *)
(*                                                                         *)
(* The clock of a board with gettimeofday() takes all timetags; that of    *)
(* any other one is micros(), which starts again after 2^32 microseconds   *)
(* (71.6 minutes), at a timetag far below the biggest one.                 *)
(*                                                                         *)
(* Messages take any time, change order, get lost and may arrive twice.    *)
(* The specification has names of its own, with the prefix Clock, to be    *)
(* extended beside that of a Session.                                      *)
(***************************************************************************)
EXTENDS Integers, FiniteSets

CONSTANTS
  Sinks,
  MaxOffset,   \* no clock is further away from the sender's
  Offset,      \* how far the clock of each sink is ahead of the sender's
  Width,       \* bits of a timetag (64)
  Mantissa,    \* significant bits of a float (24)
  Epoch,       \* timetag of the sender when it starts
  SenderPeriod, SinkPeriod,  \* timetag at which a clock starts again from 0
  Unit,        \* what a clock advances by in one step
  MaxTime,     \* bound: steps of the clock
  MaxNet       \* bound: messages on their way

ASSUME ClockAssumption ==
  /\ Width \in Nat \ {0} /\ Mantissa \in Nat \ {0} /\ MaxOffset \in Nat
  /\ Offset \in [Sinks -> -MaxOffset .. MaxOffset]
  /\ Epoch \in Nat /\ Unit \in Nat \ {0} /\ MaxTime \in Nat /\ MaxNet \in Nat

Modulus == 2 ^ Width

\* The timetag of a sink when the sender starts.
SinkStart(s) == (Epoch + Offset[s]) % Modulus

ASSUME PeriodAssumption ==
  /\ SenderPeriod \in 1 .. Modulus
  /\ SenderPeriod < Modulus => Epoch < SenderPeriod
  /\ SinkPeriod \in [Sinks -> 1 .. Modulus]
  /\ \A s \in Sinks : SinkPeriod[s] < Modulus => SinkStart(s) < SinkPeriod[s]

\* Half of the timetags (68 years) are more than the clocks differ and a stream
\* lasts.
ASSUME SpanAssumption == MaxOffset + Unit * MaxTime < 2 ^ Width \div 2

\* No sample is larger.
Largest == MaxOffset + Unit * MaxTime + 8

\* A float has bits enough to be of use, and its exponent reaches further than
\* any timetag.
ASSUME FloatAssumption ==
  /\ 2 ^ Mantissa >= 64
  /\ 64 * Largest < 2 ^ (Mantissa + Width)

\* The laws of exponentiation, as far as they are needed here.
ASSUME PowersAssumption ==
  /\ 2 ^ Mantissa \in Nat
  /\ 2 ^ 0 = 1
  /\ \A k \in 0 .. Width :
       /\ 2 ^ k \in Nat \ {0}
       /\ 2 ^ (k + 1) = 2 * 2 ^ k
       /\ 2 ^ (Mantissa + k) = 2 ^ Mantissa * 2 ^ k

VARIABLES
  now,                                \* steps since the start
  on_way,                             \* pings and pongs
  offset_ntp, rtt, has_estimate,      \* AOOClockSync; rtt as a timetag
  real, worst,   \* history: true duration of the last and longest round trip
  crossed        \* history: in the last one a clock started again

clock_history == <<real, worst, crossed>>
clock_vars == <<now, on_way, offset_ntp, rtt, has_estimate, clock_history>>

-----------------------------------------------------------------------------
(* Numbers *)

\* (int64_t) of an unsigned difference
Signed(x) ==
  LET u == x % Modulus IN IF u >= Modulus \div 2 THEN u - Modulus ELSE u

Magnitude(x) == IF x < 0 THEN -x ELSE x

\* Division of integers in C++, and the conversion from float, cut off.
CutOff(x, n) == IF x < 0 THEN -(Magnitude(x) \div n) ELSE x \div n

\* The multiple of q next to n; the even one of two.
Nearest(n, q) ==
  LET low == n \div q
      rest == 2 * (n - low * q)
  IN  q * IF rest > q \/ (rest = q /\ low % 2 = 1) THEN low + 1 ELSE low

\* A whole number as float: the exponent is the smallest one that leaves enough
\* bits, and reaches further than any timetag.
Float(n) ==
  LET k == CHOOSE k \in 0 .. Width :
             /\ Magnitude(n) < 2 ^ (Mantissa + k)
             /\ k > 0 => Magnitude(n) >= 2 ^ (Mantissa + k - 1)
  IN  Nearest(n, 2 ^ k)

\* alpha * offset + (1.0f - alpha) * offset_ntp with alpha 1/8, in eighths.
Average(offset, old) == Float(Float(offset) + Float(7 * Float(old)))

SampleOffset_Unhalved(t1, t2, t3, t4) == Signed(t2 - t1)
SampleOffset(t1, t2, t3, t4) ==
  CutOff(Signed(t2 - t1), 2) + CutOff(Signed(t3 - t4), 2)

RoundTrip_All(t1, t2, t3, t4) == Signed(t4 - t1)
RoundTrip(t1, t2, t3, t4) ==
  LET difference == Signed(t4 - t1) - Signed(t3 - t2)
  IN  IF difference < 0 THEN 0 ELSE difference

-----------------------------------------------------------------------------

(* Clocks *)

\* aoo_ntp_now() of a board, n steps after the start, and how often its micros()
\* has started again.
Clock(start, period, n) == (start + Unit * n) % period
Laps(start, period, n) ==
  IF period = Modulus THEN 0 ELSE (start + Unit * n) \div period

TimeOf(n) == Clock(Epoch, SenderPeriod, n)
TimeAt(s, n) == Clock(SinkStart(s), SinkPeriod[s], n)
LapsOf(n) == Laps(Epoch, SenderPeriod, n)
LapsAt(s, n) == Laps(SinkStart(s), SinkPeriod[s], n)

Now == TimeOf(now)
NowOf(s) == TimeAt(s, now)

-----------------------------------------------------------------------------
(* Messages *)

ClockInit ==
  /\ now = 0
  /\ on_way = {}
  /\ offset_ntp = 0 /\ rtt = 0 /\ has_estimate = FALSE
  /\ real = 0 /\ worst = 0 /\ crossed = FALSE

Tick ==
  /\ now < MaxTime
  /\ now' = now + 1
  /\ UNCHANGED <<on_way, offset_ntp, rtt, has_estimate, clock_history>>

\* AOOSender::receive pings every sink; at and got are when, in true time, the
\* ping was sent and received.
Pings == {[type |-> "ping", sink |-> s, t1 |-> Now, at |-> now] : s \in Sinks}

receive ==
  /\ Cardinality(on_way) + Cardinality(Sinks) <= MaxNet
  /\ on_way' = on_way \union Pings
  /\ UNCHANGED <<now, offset_ntp, rtt, has_estimate, clock_history>>

\* The sink reads its clock twice, and may be interrupted between.
handlePing(m) ==
  /\ m.type = "ping"
  /\ on_way' = (on_way \ {m}) \union
       {[type |-> "answer", sink |-> m.sink, t1 |-> m.t1, at |-> m.at,
         t2 |-> NowOf(m.sink), got |-> now]}
  /\ UNCHANGED <<now, offset_ntp, rtt, has_estimate, clock_history>>

sendPong(m) ==
  /\ m.type = "answer"
  /\ on_way' = (on_way \ {m}) \union
       {[type |-> "pong", sink |-> m.sink, t1 |-> m.t1, t2 |-> m.t2,
         t3 |-> NowOf(m.sink), at |-> m.at, got |-> m.got, sent |-> now]}
  /\ UNCHANGED <<now, offset_ntp, rtt, has_estimate, clock_history>>

update(t1, t2, t3, t4) ==
  /\ rtt' = RoundTrip(t1, t2, t3, t4)
  /\ LET offset == SampleOffset(t1, t2, t3, t4) IN
       offset_ntp' = IF has_estimate THEN CutOff(Average(offset, offset_ntp), 8) ELSE offset
  /\ has_estimate' = TRUE

\* The pong may come a second time.
handlePong(m) ==
  /\ m.type = "pong"
  /\ update(m.t1, m.t2, m.t3, Now)
  /\ real' = Unit * (now - m.at - (m.sent - m.got))
  /\ worst' = IF real' > worst THEN real' ELSE worst
  /\ crossed' = (LapsOf(m.at) # LapsOf(now)
                   \/ LapsAt(m.sink, m.got) # LapsAt(m.sink, m.sent))
  /\ on_way' \in {on_way, on_way \ {m}}
  /\ UNCHANGED now

Drop(m) ==
  /\ on_way' = on_way \ {m}
  /\ UNCHANGED <<now, offset_ntp, rtt, has_estimate, clock_history>>

ClockNext ==
  \/ Tick
  \/ receive
  \/ \E m \in on_way : handlePing(m)
  \/ \E m \in on_way : sendPong(m)
  \/ \E m \in on_way : handlePong(m)
  \/ \E m \in on_way : Drop(m)

ClockSpec == ClockInit /\ [][ClockNext]_clock_vars

-----------------------------------------------------------------------------
(* Properties *)

\* The round trip that is measured is the time the two messages took, across
\* the wrap-around of the timetags of either clock and without the time in the
\* sink, unless a micros() started again in just this time.  (The comment of
\* aoo_ntp_now(), "differences are always correct", makes no such exception, but
\* without it this does not hold.)
RoundTripIsReal == has_estimate /\ ~crossed => rtt = real

\* What cutting off adds to the estimate: one unit for the halves, 7/8 for each
\* average; and what a float, with its relative precision, adds.
Rounding == 8 + (64 * Largest) \div 2 ^ Mantissa

\* Some micros() has started again: its clock is not Offset ahead any more.
Turned == LapsOf(now) > 0 \/ \E s \in Sinks : LapsAt(s, now) > 0

\* "Estimates the clock offset between source and sink" (AOOClockSync): the
\* estimate is no further from the offset than half of the longest round trip,
\* however late, often and in whatever order the answers come.  The one estimate
\* of a sender with several sinks is between the offsets of their clocks.  (When
\* a micros() starts again, the offset itself jumps by 71.6 minutes, and the
\* average follows it only slowly.)
OffsetIsAccurate ==
  has_estimate /\ ~Turned =>
    /\ \E s \in Sinks : 2 * (offset_ntp - Offset[s]) <= worst + 2 * Rounding
    /\ \E s \in Sinks : 2 * (Offset[s] - offset_ntp) <= worst + 2 * Rounding
=============================================================================
