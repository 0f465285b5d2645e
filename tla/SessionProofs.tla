---------------------------- MODULE SessionProofs ----------------------------
(***************************************************************************)
(* What holds between a sender and a receiver, whatever the network does   *)
(* to the messages: of a Session, whose codecs, lengths and faults are     *)
(* arbitrary, and of the synchronisation of their clocks.                  *)
(***************************************************************************)
EXTENDS Session, ClockSync, FiniteSetTheorems, WellFoundedInduction, TLAPS

-----------------------------------------------------------------------------
(* The block size of a stream *)

\* The formats that have been announced.
Announced ==
  [codec : FixedSize, block_size : {OwnSize}] \union
  [codec : Formats \ FixedSize, block_size : written]

\* A codec without a block size of its own has been announced only after a
\* write, so that the last write gives its block size.
SizeIsKnown == start_sent /\ codec \notin FixedSize => block_size \in written

StartsAnnounced == \A m \in net : m.type = "start" => m.format \in Announced

SessionInv ==
  /\ codec \in Formats
  /\ SizeIsKnown
  /\ StartsAnnounced
  /\ decoder \in Announced \union {NoFormat}

\* What the sender announces.
LEMMA FilledIsAnnounced ==
  ASSUME NEW f \in Formats, NEW size, f \in FixedSize \/ size \in written
  PROVE  /\ fillStartMessage(f, size).type = "start"
         /\ fillStartMessage(f, size).format \in Announced
<1>1. CASE f \in FixedSize
  BY <1>1 DEF fillStartMessage, Start, Announced
<1>2. CASE f \notin FixedSize
  BY <1>2 DEF fillStartMessage, Start, Announced
<1> QED BY <1>1, <1>2

\* Other messages announce nothing.
LEMMA OtherTypes ==
  /\ Msg("stop").type # "start" /\ Msg("data").type # "start"
  /\ Msg("resent").type # "start" /\ Msg("request").type # "start"
  /\ Msg("resend").type # "start" /\ Msg("invite").type # "start"
  /\ Msg("uninvite").type # "start"
BY DEF Msg

LEMMA SessionInit == Init => SessionInv
BY DEF Init, SessionInv, SizeIsKnown, StartsAnnounced

\* The steps that announce nothing and set up no decoder.
LEMMA SessionFrame ==
  ASSUME SessionInv,
         UNCHANGED <<codec, block_size, start_sent, written>>,
         decoder' \in {decoder, NoFormat},
         \A m \in net' : m.type = "start" => m \in net
  PROVE  SessionInv'
BY DEF SessionInv, SizeIsKnown, StartsAnnounced, Announced

LEMMA SenderSteps ==
  ASSUME SessionInv
  PROVE  /\ \A f \in Formats : begin(f) => SessionInv'
         /\ end => SessionInv'
         /\ \A n \in Lengths : write(n) => SessionInv'
<1>1. ASSUME NEW f \in Formats, begin(f) PROVE SessionInv'
  <2>1. /\ codec' = f /\ decoder' = decoder /\ written' = written
        /\ start_sent' = (f \in FixedSize)
    BY <1>1 DEF begin, receiver
  <2>2. Announced' = Announced
    BY <2>1 DEF Announced
  <2>3. \A m \in net' : m \in net \/ (f \in FixedSize /\ m = fillStartMessage(f, block_size))
    BY <1>1 DEF begin, Sent
  <2>4. StartsAnnounced'
    BY <2>2, <2>3, FilledIsAnnounced DEF SessionInv, StartsAnnounced
  <2> QED BY <2>1, <2>2, <2>4 DEF SessionInv, SizeIsKnown
<1>2. ASSUME end PROVE SessionInv'
  BY <1>2, OtherTypes, SessionFrame DEF end, Sent, receiver
<1>3. ASSUME NEW n \in Lengths, write(n) PROVE SessionInv'
  <2>1. /\ codec' = codec /\ decoder' = decoder /\ block_size' = n
        /\ written' = written \union {n}
    BY <1>3 DEF write, aoo_send_data, receiver
  <2>2. Announced \subseteq Announced'
    BY <2>1 DEF Announced
  <2>3. \A m \in net' : m \in net \/ m = Data \/ m = fillStartMessage(codec, n)
    BY <1>3 DEF write, aoo_send_data, Sent
  <2>4. fillStartMessage(codec, n).format \in Announced'
    <3>1. CASE codec \in FixedSize
      BY <2>2, <3>1, FilledIsAnnounced DEF SessionInv
    <3>2. CASE codec \notin FixedSize
      BY <2>1, <3>2 DEF fillStartMessage, Start, Announced, SessionInv
    <3> QED BY <3>1, <3>2
  <2>5. StartsAnnounced'
    BY <2>2, <2>3, <2>4, OtherTypes DEF SessionInv, StartsAnnounced, Data
  <2> QED BY <2>1, <2>2, <2>5 DEF SessionInv, SizeIsKnown
<1> QED BY <1>1, <1>2, <1>3

LEMMA ReceiverSteps ==
  ASSUME SessionInv
  PROVE  /\ Timeout => SessionInv'
         /\ IntervalPasses => SessionInv'
         /\ aooSendRequestData => SessionInv'
         /\ restart => SessionInv'
         /\ invite => SessionInv'
         /\ uninvite => SessionInv'
<1> USE OtherTypes, SessionFrame DEF sender, receiver
<1>1. Timeout => SessionInv'
  BY DEF Timeout, RemoveLine
<1>2. IntervalPasses => SessionInv'
  BY DEF IntervalPasses
<1>3. aooSendRequestData => SessionInv'
  BY DEF aooSendRequestData
<1>4. restart => SessionInv'
  BY DEF restart, RemoveLine
<1>5. invite => SessionInv'
  BY DEF invite
<1>6. uninvite => SessionInv'
  BY DEF uninvite
<1> QED BY <1>1, <1>2, <1>3, <1>4, <1>5, <1>6

\* A message that arrives, once or again; rest is what stays on its way.
LEMMA DeliverStep ==
  ASSUME SessionInv, NEW m \in net, NEW rest \in SUBSET net, Deliver(m, rest)
  PROVE  SessionInv'
<1> USE DEF sender, receiver
<1>1. CASE m.type = "start" /\ \E ok \in BOOLEAN : onStart(m.format, ok, rest)
  <2>1. /\ UNCHANGED <<codec, block_size, start_sent, written>> /\ net' = rest
        /\ decoder' \in {decoder, m.format}
    BY <1>1 DEF onStart
  <2>2. m.format \in Announced
    BY <1>1 DEF SessionInv, StartsAnnounced
  <2> QED BY <2>1, <2>2 DEF SessionInv, SizeIsKnown, StartsAnnounced, Announced
<1>2. CASE onDataUnknown(rest)
  BY <1>2, OtherTypes, SessionFrame DEF onDataUnknown
<1>3. CASE onDataKnown(m.type = "data", rest)
  BY <1>3, SessionFrame DEF onDataKnown
<1>4. CASE onStop(rest)
  BY <1>4, SessionFrame DEF onStop, RemoveLine
<1>5. CASE Join(rest)
  <2>1. UNCHANGED <<codec, block_size, start_sent, decoder, written>>
    BY <1>5 DEF Join
  <2>2. \A n \in net' : n \in net \/ (start_sent /\ n = fillStartMessage(codec, block_size))
    BY <1>5 DEF Join
  <2>3. start_sent => fillStartMessage(codec, block_size).format \in Announced
    BY FilledIsAnnounced DEF SessionInv, SizeIsKnown
  <2> QED BY <2>1, <2>2, <2>3 DEF SessionInv, SizeIsKnown, StartsAnnounced, Announced
<1>6. CASE processUninvite(rest)
  BY <1>6, OtherTypes, SessionFrame DEF processUninvite
<1>7. CASE processResendRequest(rest)
  BY <1>7, OtherTypes, SessionFrame DEF processResendRequest
<1> QED BY <1>1, <1>2, <1>3, <1>4, <1>5, <1>6, <1>7 DEF Deliver

\* Every step keeps the invariant.
LEMMA SessionStep ==
  ASSUME SessionInv, [Next]_vars
  PROVE  SessionInv'
<1>1. ASSUME NEW m, Arrive(m) PROVE SessionInv'
  BY <1>1, DeliverStep DEF Arrive
<1>2. ASSUME NEW m, Duplicate(m) PROVE SessionInv'
  BY <1>2, DeliverStep DEF Duplicate
<1>3. ASSUME NEW m, Lose(m) PROVE SessionInv'
  BY <1>3, SessionFrame DEF Lose, sender, receiver
<1>4. CASE UNCHANGED vars
  BY <1>4, SessionFrame DEF vars, sender, receiver
<1> QED BY <1>1, <1>2, <1>3, <1>4, SenderSteps, ReceiverSteps DEF Next

\* A stream whose writes all have one length is announced with one format per
\* codec, so that a line is set up again only for another codec: for all codecs
\* and lengths, whatever is lost, repeated or late.
THEOREM StartKeepsAudio == Spec => SteadyStreamKeepsAudio
<1> DEFINE A == decoder # NoFormat /\ decoder' \notin {decoder, NoFormat}
                  => decoder'.codec # decoder.codec \/ \E m, n \in written' : m # n
<1>1. SessionInv /\ [Next]_vars => SessionInv'
  BY SessionStep
<1>2. ASSUME SessionInv, SessionInv', [Next]_vars PROVE [A]_vars
  <2>1. written \subseteq written'
    BY <1>2 DEF Next, begin, end, write, Timeout, IntervalPasses, aooSendRequestData,
       restart, invite, uninvite, Arrive, Duplicate, Lose, Deliver, onStart,
       onDataUnknown, onDataKnown, onStop, Join, processUninvite,
       processResendRequest, vars
  <2>2. Announced \subseteq Announced'
    BY <2>1 DEF Announced
  <2>3. SUFFICES ASSUME decoder \in Announced', decoder' \in Announced',
                        decoder' # decoder, decoder'.codec = decoder.codec
                 PROVE  \E m, n \in written' : m # n
    BY <1>2, <2>2 DEF SessionInv
  <2>4. decoder.codec \notin FixedSize
    BY <2>3 DEF Announced
  <2>5. /\ decoder \in [codec : Formats \ FixedSize, block_size : written']
        /\ decoder' \in [codec : Formats \ FixedSize, block_size : written']
    BY <2>3, <2>4 DEF Announced
  <2> QED BY <2>3, <2>5
<1> HIDE DEF A
<1> QED BY <1>1, <1>2, SessionInit, PTL DEF Spec, SteadyStreamKeepsAudio, A

-----------------------------------------------------------------------------
(* ClockSync: timetags *)

LEMMA ModulusOK == Modulus \in Nat /\ Modulus > 0
BY PowersAssumption, ClockAssumption DEF Modulus

LEMMA Product ==
  ASSUME NEW p \in Nat, NEW a \in Nat, NEW b \in Nat, a <= b
  PROVE  p * a <= p * b /\ p * a \in Nat /\ p * b \in Nat
<1>1. PICK c \in Nat : b = a + c
  <2>1. b - a \in Nat /\ b = a + (b - a)
    OBVIOUS
  <2> QED BY <2>1
<1>2. p * b = p * a + p * c /\ p * c \in Nat /\ p * a \in Nat
  BY <1>1
<1> QED BY <1>2

\* A remainder is the only number of its range.
LEMMA Remainder ==
  ASSUME NEW M \in Nat, M > 0, NEW k \in Int, NEW d \in Int, 0 <= d, d < M,
         NEW x \in Int, x = d + M * k
  PROVE  x % M = d
<1> DEFINE q == x \div M
           r == x % M
<1>1. x = M * q + r /\ q \in Int /\ r \in Int /\ 0 <= r /\ r < M
  OBVIOUS
<1> HIDE DEF q, r
<1>2. M * (k - q) = r - d
  BY <1>1
<1>3. k - q = 0
  <2>1. CASE k - q >= 1
    <3> DEFINE j == k - q - 1
    <3>1. j \in Nat /\ k - q = j + 1
      BY <2>1, <1>1
    <3> HIDE DEF j
    <3>2. M * (k - q) = M * j + M
      BY <3>1
    <3>3. M * j >= 0
      BY <3>1
    <3> QED BY <1>1, <1>2, <3>2, <3>3
  <2>2. CASE k - q <= -1
    <3> DEFINE j == q - k - 1
    <3>1. j \in Nat /\ k - q = -(j + 1)
      BY <2>2, <1>1
    <3> HIDE DEF j
    <3>2. M * (k - q) = -(M * j) - M
      BY <3>1
    <3>3. M * j >= 0
      BY <3>1
    <3> QED BY <1>1, <1>2, <3>2, <3>3
  <2> QED BY <1>1, <2>1, <2>2
<1>4. r = d
  BY <1>1, <1>2, <1>3
<1> QED BY <1>4 DEF r

\* A remainder read as a signed number.
LEMMA SignedRemainder ==
  ASSUME NEW M \in Nat, M > 0, NEW k \in Int, NEW d \in Int, NEW x \in Int, x = d + M * k,
         -(M \div 2) <= d, d < M \div 2
  PROVE  d = IF x % M >= M \div 2 THEN (x % M) - M ELSE x % M
<1> DEFINE h == M \div 2
<1>1. h \in Nat /\ 2 * h <= M /\ M < 2 * h + 2 /\ h < M
  OBVIOUS
<1>2. -h <= d /\ d < h
  OBVIOUS
<1> HIDE DEF h
<1>3. CASE d >= 0
  <2>1. 0 <= d /\ d < M
    BY <1>1, <1>2, <1>3
  <2>2. x % M = d
    BY <2>1, Remainder
  <2> QED BY <1>1, <1>2, <2>2 DEF h
<1>4. CASE d < 0
  <2>1. PICK e \in Int : e = d + M
    OBVIOUS
  <2>2. PICK j \in Int : j = k - 1
    OBVIOUS
  <2>3. M * j = M * k - M
    BY <2>2
  <2>4. 0 <= e /\ e < M /\ x = e + M * j
    BY <1>1, <1>2, <1>4, <2>1, <2>2, <2>3
  <2>5. x % M = e
    BY ONLY <2>4, M \in Nat, M > 0, e \in Int, j \in Int, x \in Int, Remainder
  <2> QED BY <1>1, <1>2, <2>1, <2>5 DEF h
<1> QED BY <1>3, <1>4

\* Read as a signed number, the difference of two timetags is the true one, as
\* long as that is less than half of the range.
LEMMA SignedDifference ==
  ASSUME NEW d \in Int, NEW x \in Int, \E k \in Int : x = d + Modulus * k,
         -(Modulus \div 2) <= d, d < Modulus \div 2
  PROVE  Signed(x) = d
<1>1. Modulus \in Nat /\ Modulus > 0
  BY ModulusOK
<1>2. PICK k \in Int : x = d + Modulus * k
  OBVIOUS
<1>3. d = IF x % Modulus >= Modulus \div 2 THEN (x % Modulus) - Modulus ELSE x % Modulus
  BY <1>1, <1>2, SignedRemainder, Zenon
<1> QED BY <1>3 DEF Signed

LEMMA DivisionLaw ==
  ASSUME NEW x \in Int, NEW p \in Nat, p > 0
  PROVE  /\ x \div p \in Int /\ x % p \in Int
         /\ x = p * (x \div p) + (x % p)
OBVIOUS

\* Within one lap a clock advances with the time, up to multiples of the range.
LEMMA SameLap ==
  ASSUME NEW start \in Nat, NEW period \in 1 .. Modulus, NEW i \in Nat, NEW n \in Nat,
         Laps(start, period, i) = Laps(start, period, n)
  PROVE  /\ Clock(start, period, i) \in Int /\ Clock(start, period, n) \in Int
         /\ \E k \in Int : Clock(start, period, n) - Clock(start, period, i)
                            = Unit * n - Unit * i + Modulus * k
<1> DEFINE M == Modulus
           ui == Unit * i
           un == Unit * n
           x == start + ui
           y == start + un
<1>1. M \in Nat /\ M > 0 /\ period \in Nat /\ period > 0 /\ ui \in Nat /\ un \in Nat
  BY ModulusOK, ClockAssumption
<1>2. /\ Clock(start, period, i) = x % period /\ Clock(start, period, n) = y % period
  BY DEF Clock
<1> HIDE DEF M, ui, un
<1>3. /\ x \in Int /\ y \in Int /\ y - x = un - ui
      /\ x = period * (x \div period) + (x % period)
      /\ y = period * (y \div period) + (y % period)
      /\ x % period \in Int /\ y % period \in Int
      /\ x \div period \in Int /\ y \div period \in Int
  <2>1. x \in Int /\ y \in Int /\ y - x = un - ui
    BY <1>1
  <2> HIDE DEF x, y
  <2> QED BY <1>1, <2>1, DivisionLaw
<1>4. CASE period = M
  <2> DEFINE k == (x \div M) - (y \div M)
  <2>1. k \in Int /\ (y % M) - (x % M) = un - ui + M * k
    BY <1>1, <1>3, <1>4
  <2> QED BY <1>2, <1>3, <1>4, <2>1 DEF M, ui, un
<1>5. CASE period # M
  <2>1. x \div period = y \div period
    BY <1>5 DEF Laps, M, ui, un
  <2>2. (y % period) - (x % period) = un - ui
    <3> DEFINE c == x \div period
    <3> HIDE DEF c, x, y
    <3> QED BY <1>1, <1>3, <2>1
  <2>3. (y % period) - (x % period) = un - ui + M * 0
    BY <1>1, <2>2
  <2> QED BY <1>2, <1>3, <2>3 DEF M, ui, un
<1> QED BY <1>4, <1>5

\* In its first lap it has advanced from its start.
LEMMA FirstLap ==
  ASSUME NEW start \in Nat, NEW period \in 1 .. Modulus, NEW n \in Nat,
         Laps(start, period, n) = 0
  PROVE  /\ Clock(start, period, n) \in Int
         /\ \E k \in Int : Clock(start, period, n) = start + Unit * n + Modulus * k
<1> DEFINE M == Modulus
           un == Unit * n
           y == start + un
<1>1. M \in Nat /\ M > 0 /\ period \in Nat /\ period > 0 /\ un \in Nat
  BY ModulusOK, ClockAssumption
<1>2. Clock(start, period, n) = y % period
  BY DEF Clock
<1> HIDE DEF M, un
<1>3. /\ y \in Int /\ y = period * (y \div period) + (y % period)
      /\ y % period \in Int /\ y \div period \in Int
  <2>1. y \in Int
    BY <1>1
  <2> HIDE DEF y
  <2> QED BY <1>1, <2>1, DivisionLaw
<1>4. CASE period = M
  <2> DEFINE k == -(y \div M)
  <2>1. k \in Int /\ y % M = y + M * k
    BY <1>1, <1>3, <1>4
  <2> QED BY <1>2, <1>3, <1>4, <2>1 DEF M, un
<1>5. CASE period # M
  <2>1. y \div period = 0
    BY <1>5 DEF Laps, M, un
  <2>2. y % period = y
    <3> HIDE DEF y
    <3> QED BY <1>1, <1>3, <2>1
  <2>3. y % period = y + M * 0
    BY <1>1, <1>3, <2>2
  <2> QED BY <1>2, <1>3, <2>3 DEF M, un
<1> QED BY <1>4, <1>5

\* A clock that has not started again had not done so before.
LEMMA NoLapBefore ==
  ASSUME NEW start \in Nat, NEW period \in 1 .. Modulus, NEW n \in Nat, NEW i \in 0 .. n,
         ~(Laps(start, period, n) > 0)
  PROVE  Laps(start, period, i) = 0
<1> DEFINE ui == Unit * i
           un == Unit * n
           x == start + ui
           y == start + un
<1>1. /\ Modulus \in Nat /\ period \in Nat /\ period > 0
      /\ ui \in Nat /\ un \in Nat /\ ui <= un
  BY ModulusOK, ClockAssumption, Product
<1>2. CASE period = Modulus
  BY <1>2 DEF Laps
<1>3. CASE period # Modulus
  <2>1. ~(y \div period > 0)
    BY <1>3 DEF Laps
  <2>2. x \in Nat /\ y \in Nat /\ x <= y
    BY <1>1
  <2> HIDE DEF x, y, ui, un
  <2>3. y < period
    BY <1>1, <2>1, <2>2
  <2>4. x \div period = 0
    BY <1>1, <2>2, <2>3
  <2> QED BY <1>3, <2>4 DEF Laps, x, ui
<1> QED BY <1>2, <1>3

LEMMA ClocksOK ==
  /\ Epoch \in Nat /\ SenderPeriod \in 1 .. Modulus
  /\ \A s \in Sinks :
       /\ SinkStart(s) \in Nat /\ SinkPeriod[s] \in 1 .. Modulus
       /\ \E k \in Int : SinkStart(s) = Epoch + Offset[s] + Modulus * k
<1>1. Modulus \in Nat /\ Modulus > 0
  BY ModulusOK
<1>2. ASSUME NEW s \in Sinks
      PROVE  /\ SinkStart(s) \in Nat /\ SinkPeriod[s] \in 1 .. Modulus
             /\ \E k \in Int : SinkStart(s) = Epoch + Offset[s] + Modulus * k
  <2> DEFINE M == Modulus
             x == Epoch + Offset[s]
             k == -(x \div M)
  <2>1. x \in Int
    BY ClockAssumption
  <2>2. SinkStart(s) = x % M
    BY DEF SinkStart
  <2> HIDE DEF M, x
  <2>3. M \in Nat /\ M > 0
    BY <1>1 DEF M
  <2>4. x % M \in Nat /\ k \in Int /\ x % M = x + M * k
    BY <2>1, <2>3
  <2>5. SinkPeriod[s] \in 1 .. Modulus
    BY PeriodAssumption
  <2> QED BY <2>2, <2>4, <2>5 DEF M, x
<1> QED BY <1>2, ClockAssumption, PeriodAssumption

\* Halving cuts off at most one half.
LEMMA Halved ==
  ASSUME NEW x \in Int
  PROVE  /\ CutOff(x, 2) \in Int
         /\ 2 * CutOff(x, 2) <= x + 1 /\ x <= 2 * CutOff(x, 2) + 1
BY DEF CutOff, Magnitude

LEMMA Eighth ==
  ASSUME NEW x \in Int
  PROVE  /\ CutOff(x, 8) \in Int
         /\ 8 * CutOff(x, 8) <= x + 7 /\ x <= 8 * CutOff(x, 8) + 7
BY DEF CutOff, Magnitude

-----------------------------------------------------------------------------
(* ClockSync: floats *)

\* Every nonempty set of numbers has a least one: the intervals that end below
\* them are ordered like they are, and finite.
LEMMA LeastNumber ==
  ASSUME NEW T \in SUBSET Nat, T # {}
  PROVE  \E k \in T : \A j \in T : k <= j
<1> DEFINE Below(k) == 0 .. k - 1
           S == FiniteSubsetsOf(Nat)
           R == StrictSubsetOrdering(Nat)
           B == {Below(k) : k \in T}
<1>1. IsWellFoundedOn(R, S)
  BY FS_StrictSubsetOrderingWellFounded
<1>2. ASSUME NEW k \in T PROVE Below(k) \in S
  <2>1. 0 \in Int /\ k - 1 \in Int
    OBVIOUS
  <2>2. IsFiniteSet(Below(k))
    BY <2>1, FS_Interval
  <2>3. Below(k) \in SUBSET Nat
    OBVIOUS
  <2> QED BY <2>2, <2>3 DEF FiniteSubsetsOf
<1>3. B \subseteq S /\ B # {}
  BY <1>2
<1>4. PICK x \in B : \A y \in B : ~ (<<y, x>> \in R)
  <2> HIDE DEF B, R, S
  <2> QED BY <1>1, <1>3, WFMin
<1>5. PICK k \in T : x = Below(k)
  BY <1>4
<1>6. ASSUME NEW j \in T, ~(k <= j) PROVE FALSE
  <2>1. Below(j) \subseteq Below(k)
    BY <1>6
  <2>2. j \in Below(k) /\ j \notin Below(j)
    BY <1>6
  <2>3. Below(j) \in SUBSET Nat /\ Below(k) \in SUBSET Nat /\ Below(j) # Below(k)
    BY <2>2
  <2>4. <<Below(j), Below(k)>> \in R
    BY <2>1, <2>3 DEF StrictSubsetOrdering
  <2> QED BY <1>4, <1>5, <2>4
<1> QED BY <1>6

Precision == 2 ^ Mantissa

LEMMA PrecisionOK == Precision \in Nat /\ Precision >= 64 /\ Largest \in Nat /\ Largest >= 8
<1>1. Unit * MaxTime \in Nat
  BY ClockAssumption
<1> QED BY <1>1, PowersAssumption, FloatAssumption, ClockAssumption DEF Precision, Largest

\* The exponent of a number that a float can hold.
IsExponent(n, k) ==
  /\ Magnitude(n) < 2 ^ (Mantissa + k)
  /\ k > 0 => Magnitude(n) >= 2 ^ (Mantissa + k - 1)

LEMMA ExponentExists ==
  ASSUME NEW n \in Int, Magnitude(n) <= 64 * Largest
  PROVE  \E k \in 0 .. Width : IsExponent(n, k)
<1> DEFINE T == {k \in 0 .. Width : Magnitude(n) < 2 ^ (Mantissa + k)}
<1>1. Width \in Nat /\ Mantissa \in Nat
  BY ClockAssumption
<1>2. \A k \in 0 .. Width : 2 ^ (Mantissa + k) \in Int
  BY <1>1, PowersAssumption, PrecisionOK DEF Precision
<1>3. Magnitude(n) \in Int
  BY DEF Magnitude
<1>4. Width \in T
  BY <1>1, <1>2, <1>3, FloatAssumption, PrecisionOK
<1>5. PICK k \in T : \A j \in T : k <= j
  <2>1. \A j \in 0 .. Width : j \in Nat
    BY <1>1
  <2>2. T \subseteq 0 .. Width
    OBVIOUS
  <2>3. T # {}
    BY <1>4
  <2> HIDE DEF T
  <2>4. T \in SUBSET Nat
    BY <2>1, <2>2
  <2> QED BY <2>3, <2>4, LeastNumber
<1>6. ASSUME k > 0 PROVE Magnitude(n) >= 2 ^ (Mantissa + k - 1)
  <2> DEFINE j == k - 1
  <2>1. j \in 0 .. Width /\ ~(k <= j)
    BY <1>1, <1>6
  <2>2. j \notin T
    BY <1>5, <2>1
  <2>3. Mantissa + j = Mantissa + k - 1
    BY <1>1
  <2>4. ~(Magnitude(n) < 2 ^ (Mantissa + j))
    BY <2>1, <2>2
  <2> HIDE DEF j
  <2> QED BY <1>2, <1>3, <2>1, <2>3, <2>4
<1> QED BY <1>5, <1>6 DEF IsExponent

LEMMA NearestError ==
  ASSUME NEW n \in Int, NEW q \in Nat, q > 0
  PROVE  /\ Nearest(n, q) \in Int
         /\ 2 * Magnitude(Nearest(n, q) - n) <= q
<1> DEFINE low == n \div q
           r == n % q
           up == 2 * (n - low * q) > q \/ (2 * (n - low * q) = q /\ low % 2 = 1)
<1>1. low \in Int /\ r \in Int /\ 0 <= r /\ r < q /\ n = q * low + r
  OBVIOUS
<1>2. Nearest(n, q) = q * (IF up THEN low + 1 ELSE low)
  BY DEF Nearest
<1>3. n - low * q = r
  <2> HIDE DEF low, r
  <2> QED BY <1>1
<1>4. (up => 2 * r >= q) /\ (~up => 2 * r <= q)
  BY <1>1, <1>3
<1>5. q * (low + 1) = q * low + q /\ q * low \in Int
  <2> HIDE DEF low, r
  <2> QED BY <1>1
<1> DEFINE x == q * low
<1> HIDE DEF up, low, r
<1>6. CASE up
  <2>1. Nearest(n, q) = x + q /\ n = x + r /\ x \in Int
    BY <1>1, <1>2, <1>5, <1>6
  <2> HIDE DEF x
  <2> QED BY <1>1, <1>4, <1>6, <2>1 DEF Magnitude
<1>7. CASE ~up
  <2>1. Nearest(n, q) = x /\ n = x + r /\ x \in Int
    BY <1>1, <1>2, <1>5, <1>7
  <2> HIDE DEF x
  <2> QED BY <1>1, <1>4, <1>7, <2>1 DEF Magnitude
<1> QED BY <1>6, <1>7

\* The relative error of a float.
LEMMA FloatError ==
  ASSUME NEW n \in Int, Magnitude(n) <= 64 * Largest
  PROVE  /\ Float(n) \in Int
         /\ Precision * Magnitude(Float(n) - n) <= Magnitude(n)
<1> DEFINE k == CHOOSE k \in 0 .. Width : IsExponent(n, k)
           q == 2 ^ k
<1>1. k \in 0 .. Width /\ IsExponent(n, k)
  <2> DEFINE P(i) == i \in 0 .. Width /\ IsExponent(n, i)
  <2>1. \E i : P(i)
    BY ExponentExists
  <2>2. k = CHOOSE i : P(i)
    OBVIOUS
  <2> HIDE DEF P, k
  <2>3. P(k)
    BY <2>1, <2>2
  <2> QED BY <2>3 DEF P
<1>2. Float(n) = Nearest(n, q)
  BY DEF Float, IsExponent
<1>3. q \in Nat /\ q > 0 /\ Width \in Nat /\ Mantissa \in Nat
  <2> HIDE DEF k
  <2> QED BY <1>1, PowersAssumption, ClockAssumption
<1> DEFINE e == Magnitude(Float(n) - n)
<1>4. Float(n) \in Int /\ e \in Nat /\ 2 * e <= q
  <2>1. Nearest(n, q) \in Int /\ 2 * Magnitude(Nearest(n, q) - n) <= q
    <3> HIDE DEF q
    <3> QED BY <1>3, NearestError
  <2>2. \A x \in Int : Magnitude(x) \in Nat
    BY DEF Magnitude
  <2> HIDE DEF q
  <2> QED BY <1>2, <2>1, <2>2
<1> HIDE DEF k, e
<1>5. CASE k = 0
  <2>1. q = 1
    BY <1>5, PowersAssumption
  <2>2. e = 0
    <3> HIDE DEF q
    <3> QED BY <1>4, <2>1
  <2> QED BY <1>4, <2>2, PrecisionOK DEF e, Magnitude
<1>6. CASE k > 0
  <2> DEFINE j == k - 1
             h == 2 ^ j
  <2>1. j \in 0 .. Width /\ k = j + 1 /\ Mantissa + k - 1 = Mantissa + j
    BY <1>1, <1>3, <1>6
  <2>2. h \in Nat /\ q = 2 * h /\ 2 ^ (Mantissa + j) = Precision * h
    <3> HIDE DEF j
    <3> QED BY <2>1, PowersAssumption DEF Precision
  <2>3. Magnitude(n) >= Precision * h
    <3> HIDE DEF j
    <3> QED BY <1>1, <1>6, <2>1, <2>2 DEF IsExponent
  <2> HIDE DEF h, q
  <2>4. e <= h
    BY <1>4, <2>2
  <2>5. Precision * e <= Precision * h /\ Precision * e \in Nat /\ Precision * h \in Nat
    BY <1>4, <2>2, <2>4, PrecisionOK, Product
  <2>6. Magnitude(n) \in Nat
    BY DEF Magnitude
  <2> HIDE DEF Precision, e
  <2>7. Precision * e <= Magnitude(n)
    BY <2>3, <2>5, <2>6
  <2> QED BY <1>4, <2>7 DEF e
<1> QED BY <1>1, <1>3, <1>5, <1>6

\* The error of a float, in whole numbers.
LEMMA FloatNear ==
  ASSUME NEW n \in Int, NEW b \in Nat, Magnitude(n) <= b, b <= 64 * Largest
  PROVE  /\ Float(n) \in Int
         /\ Magnitude(Float(n) - n) \in Nat
         /\ 64 * Magnitude(Float(n) - n) <= b
         /\ Precision * Magnitude(Float(n) - n) \in Nat
         /\ Precision * Magnitude(Float(n) - n) <= b
<1>1. Magnitude(n) \in Nat /\ Largest \in Nat /\ Precision \in Nat /\ Precision >= 64
  BY PrecisionOK DEF Magnitude
<1>2. Float(n) \in Int /\ Precision * Magnitude(Float(n) - n) <= Magnitude(n)
  BY <1>1, FloatError
<1> DEFINE e == Magnitude(Float(n) - n)
<1>3. e \in Nat
  BY <1>2 DEF Magnitude
<1> HIDE DEF e, Precision
<1>4. e * 64 <= e * Precision /\ e * 64 \in Nat /\ e * Precision \in Nat
  BY <1>1, <1>3, Product
<1>5. e * Precision = Precision * e
  BY <1>1, <1>3
<1>6. Precision * e <= Magnitude(n)
  BY <1>2 DEF e
<1> QED BY <1>1, <1>2, <1>3, <1>4, <1>5, <1>6 DEF e

LEMMA Quotient ==
  ASSUME NEW p \in Nat, p > 0, NEW e \in Nat, NEW y \in Nat, p * e <= y
  PROVE  e <= y \div p
<1> DEFINE d == y \div p
           r == y % p
<1>1. d \in Nat /\ r \in Nat /\ r < p /\ y = p * d + r
  OBVIOUS
<1> HIDE DEF d, r
<1>2. CASE ~(e <= d)
  <2>1. d + 1 <= e /\ d + 1 \in Nat
    BY <1>1, <1>2
  <2>2. p * (d + 1) <= p * e
    BY <2>1, Product
  <2>3. p * (d + 1) = p * d + p /\ p * d \in Nat /\ p * e \in Nat
    BY <1>1
  <2> QED BY <1>1, <2>2, <2>3
<1> QED BY <1>1, <1>2 DEF d

\* What the floats add to an average.
Quantum == (64 * Largest) \div Precision

LEMMA QuantumOK == Quantum \in Nat /\ Quantum <= Largest /\ Rounding = 8 + Quantum
<1>1. Precision \in Nat /\ Precision >= 64 /\ Largest \in Nat
  BY PrecisionOK
<1> DEFINE P == Precision
           L == Largest
           d == (64 * L) \div P
           r == (64 * L) % P
<1>2. P \in Nat /\ P >= 64 /\ L \in Nat /\ d = Quantum
  BY <1>1 DEF Quantum
<1> HIDE DEF P, L
<1>3. d \in Nat /\ r \in Nat /\ 64 * L = P * d + r
  BY <1>2
<1> HIDE DEF d, r
<1>4. d * 64 <= d * P /\ d * P = P * d /\ d * P \in Nat
  BY <1>2, <1>3, Product
<1>5. d <= L
  BY <1>2, <1>3, <1>4
<1> QED BY <1>2, <1>3, <1>5 DEF Rounding, Quantum, Precision, L

LEMMA AverageError ==
  ASSUME NEW o \in Int, NEW p \in Int, Magnitude(o) <= Largest, Magnitude(p) <= 2 * Largest
  PROVE  /\ Average(o, p) \in Int
         /\ Average(o, p) <= o + 7 * p + Quantum
         /\ o + 7 * p <= Average(o, p) + Quantum
<1> DEFINE P == Precision
           L == Largest
           f1 == Float(o)
           f2 == Float(p)
           f3 == Float(7 * f2)
           f4 == Float(f1 + f3)
           e1 == Magnitude(f1 - o)
           e2 == Magnitude(f2 - p)
           e3 == Magnitude(f3 - 7 * f2)
           e4 == Magnitude(f4 - (f1 + f3))
<1>1. P \in Nat /\ P >= 64 /\ L \in Nat
  BY PrecisionOK
<1>a. 2 * L \in Nat /\ 21 * L \in Nat /\ 24 * L \in Nat /\ L <= 64 * L /\ 2 * L <= 64 * L
      /\ 21 * L <= 64 * L /\ 24 * L <= 64 * L
  <2> HIDE DEF L
  <2> QED BY <1>1
<1>2. f1 \in Int /\ e1 \in Nat /\ 64 * e1 <= L /\ P * e1 \in Nat /\ P * e1 <= L
  BY <1>1, <1>a, FloatNear
<1>3. f2 \in Int /\ e2 \in Nat /\ 64 * e2 <= 2 * L /\ P * e2 \in Nat /\ P * e2 <= 2 * L
  BY <1>1, <1>a, FloatNear
<1>b. Magnitude(o) <= L /\ Magnitude(p) <= 2 * L
  OBVIOUS
<1> HIDE DEF f1, f2, L
<1>4. Magnitude(7 * f2) <= 21 * L /\ 7 * f2 \in Int
  BY <1>1, <1>3, <1>b DEF Magnitude
<1>5. f3 \in Int /\ e3 \in Nat /\ 64 * e3 <= 21 * L /\ P * e3 \in Nat /\ P * e3 <= 21 * L
  BY <1>1, <1>a, <1>4, FloatNear DEF L
<1> HIDE DEF f3
<1>6. Magnitude(f1 + f3) <= 24 * L /\ f1 + f3 \in Int
  BY <1>1, <1>2, <1>3, <1>4, <1>5, <1>b DEF Magnitude
<1>7. f4 \in Int /\ e4 \in Nat /\ P * e4 \in Nat /\ P * e4 <= 24 * L
  BY <1>1, <1>a, <1>6, FloatNear DEF L
<1> HIDE DEF f4
<1> DEFINE e == e4 + e1 + e3 + 7 * e2
<1>8. /\ f4 <= o + 7 * p + e
      /\ o + 7 * p <= f4 + e
  BY <1>2, <1>3, <1>5, <1>7 DEF Magnitude
<1> HIDE DEF e1, e2, e3, e4, P
<1>9. e \in Nat /\ P * e = P * e4 + P * e1 + P * e3 + 7 * (P * e2)
  BY <1>1, <1>2, <1>3, <1>5, <1>7
<1>10. P * e <= 64 * L /\ 64 * L \in Nat
  <2> HIDE DEF e
  <2> QED BY <1>1, <1>2, <1>3, <1>5, <1>7, <1>9
<1> HIDE DEF e
<1>11. e <= (64 * L) \div P
  BY <1>1, <1>9, <1>10, Quotient
<1> DEFINE q == Quantum
<1>12. e <= q /\ q \in Int
  BY <1>11, QuantumOK DEF Quantum, P, L
<1>13. Average(o, p) = f4
  BY DEF Average, f1, f2, f3, f4
<1> HIDE DEF q
<1>14. f4 <= o + 7 * p + q /\ o + 7 * p <= f4 + q
  BY <1>7, <1>8, <1>9, <1>12
<1> QED BY <1>7, <1>13, <1>14 DEF q

-----------------------------------------------------------------------------
(* ClockSync: messages *)

\* The steps that a message took in true time.
IsPing(m, n) ==
  \E s \in Sinks, a \in 0 .. n :
    m = [type |-> "ping", sink |-> s, t1 |-> TimeOf(a), at |-> a]

IsAnswer(m, n) ==
  \E s \in Sinks, a \in 0 .. n, g \in 0 .. n :
    /\ a <= g
    /\ m = [type |-> "answer", sink |-> s, t1 |-> TimeOf(a), at |-> a,
            t2 |-> TimeAt(s, g), got |-> g]

IsPong(m, n) ==
  \E s \in Sinks, a \in 0 .. n, g \in 0 .. n, k \in 0 .. n :
    /\ a <= g /\ g <= k
    /\ m = [type |-> "pong", sink |-> s, t1 |-> TimeOf(a), t2 |-> TimeAt(s, g),
            t3 |-> TimeAt(s, k), at |-> a, got |-> g, sent |-> k]

IsMessage(m, n) == IsPing(m, n) \/ IsAnswer(m, n) \/ IsPong(m, n)

ClockInv ==
  /\ now \in 0 .. MaxTime
  /\ \A m \in on_way : IsMessage(m, now)
  /\ has_estimate \in BOOLEAN
  /\ ~Turned => offset_ntp \in Int
  /\ worst \in 0 .. Unit * MaxTime
  /\ RoundTripIsReal
  /\ OffsetIsAccurate

LEMMA MessageLater ==
  ASSUME NEW m, NEW n \in Nat, IsMessage(m, n)
  PROVE  IsMessage(m, n + 1)
<1>1. 0 .. n \subseteq 0 .. n + 1
  OBVIOUS
<1>2. CASE IsPing(m, n)
  BY <1>1, <1>2 DEF IsMessage, IsPing
<1>3. CASE IsAnswer(m, n)
  BY <1>1, <1>3 DEF IsMessage, IsAnswer
<1>4. CASE IsPong(m, n)
  BY <1>1, <1>4 DEF IsMessage, IsPong
<1> QED BY <1>2, <1>3, <1>4 DEF IsMessage

\* How long the messages took.
LEMMA RoundTripRange ==
  ASSUME NEW n \in 0 .. MaxTime,
         NEW a \in 0 .. n, NEW g \in 0 .. n, NEW k \in 0 .. n, a <= g, g <= k
  PROVE  /\ Unit * (n - a - (k - g)) = (Unit * n - Unit * a) - (Unit * k - Unit * g)
         /\ Unit * (n - a - (k - g)) \in 0 .. Unit * MaxTime
         /\ Unit * a \in Nat /\ Unit * g \in Nat /\ Unit * k \in Nat
         /\ Unit * n \in Nat /\ Unit * MaxTime \in Nat
         /\ Unit * a <= Unit * g /\ Unit * g <= Unit * k /\ Unit * k <= Unit * n
         /\ Unit * n <= Unit * MaxTime
<1>1. Unit \in Nat /\ MaxTime \in Nat
  BY ClockAssumption
<1>2. /\ n \in Nat /\ a \in Nat /\ g \in Nat /\ k \in Nat
      /\ a <= g /\ g <= k /\ k <= n /\ n <= MaxTime
  BY <1>1
<1>3. /\ Unit * a \in Nat /\ Unit * g \in Nat /\ Unit * k \in Nat
      /\ Unit * n \in Nat /\ Unit * MaxTime \in Nat
      /\ Unit * a <= Unit * g /\ Unit * g <= Unit * k /\ Unit * k <= Unit * n
      /\ Unit * n <= Unit * MaxTime
  BY <1>1, <1>2, Product
<1>4. Unit * (n - a - (k - g)) = (Unit * n - Unit * a) - (Unit * k - Unit * g)
  BY <1>1, <1>2
<1> DEFINE ua == Unit * a
           ug == Unit * g
           uk == Unit * k
           un == Unit * n
           top == Unit * MaxTime
           r == Unit * (n - a - (k - g))
<1>5. /\ ua \in Nat /\ ug \in Nat /\ uk \in Nat /\ un \in Nat /\ top \in Nat
      /\ ua <= ug /\ ug <= uk /\ uk <= un /\ un <= top
      /\ r = un - ua - (uk - ug)
  BY <1>3, <1>4
<1> HIDE DEF ua, ug, uk, un, top, r
<1>6. r \in 0 .. top
  BY <1>5
<1> QED BY <1>3, <1>4, <1>6 DEF r, top

\* What a pong says of the round trip.
LEMMA RoundTripTells ==
  ASSUME NEW s \in Sinks, NEW n \in 0 .. MaxTime,
         NEW a \in 0 .. n, NEW g \in 0 .. n, NEW k \in 0 .. n, a <= g, g <= k,
         LapsOf(a) = LapsOf(n), LapsAt(s, g) = LapsAt(s, k)
  PROVE  RoundTrip(TimeOf(a), TimeAt(s, g), TimeAt(s, k), TimeOf(n))
           = Unit * (n - a - (k - g))
<1> DEFINE ua == Unit * a
           ug == Unit * g
           uk == Unit * k
           un == Unit * n
           top == Unit * MaxTime
           half == Modulus \div 2
           r == Unit * (n - a - (k - g))
<1>1. /\ ua \in Nat /\ ug \in Nat /\ uk \in Nat /\ un \in Nat /\ top \in Nat
      /\ ua <= ug /\ ug <= uk /\ uk <= un /\ un <= top
      /\ r = (un - ua) - (uk - ug) /\ r \in 0 .. top
  BY RoundTripRange
<1>2. half \in Nat /\ MaxOffset \in Nat /\ MaxOffset + top < half
  BY ModulusOK, SpanAssumption, ClockAssumption DEF Modulus
<1>3. n \in Nat /\ a \in Nat /\ g \in Nat /\ k \in Nat
  BY ClockAssumption
<1> DEFINE x == TimeOf(n) - TimeOf(a)
           y == TimeAt(s, k) - TimeAt(s, g)
<1>4. x \in Int /\ \E i \in Int : x = (un - ua) + Modulus * i
  BY <1>3, ClocksOK, SameLap DEF TimeOf, LapsOf
<1>5. y \in Int /\ \E i \in Int : y = (uk - ug) + Modulus * i
  <2>1. SinkStart(s) \in Nat /\ SinkPeriod[s] \in 1 .. Modulus
    BY ClocksOK
  <2>2. Laps(SinkStart(s), SinkPeriod[s], g) = Laps(SinkStart(s), SinkPeriod[s], k)
    BY DEF LapsAt
  <2> QED BY <1>3, <2>1, <2>2, SameLap DEF TimeAt
<1> HIDE DEF ua, ug, uk, un, top, r, x, y
<1>6. /\ un - ua \in Int /\ -half <= un - ua /\ un - ua < half
      /\ uk - ug \in Int /\ -half <= uk - ug /\ uk - ug < half
  <2> HIDE DEF half
  <2> QED BY <1>1, <1>2
<1>7. Signed(x) = un - ua
  BY <1>4, <1>6, SignedDifference
<1>8. Signed(y) = uk - ug
  BY <1>5, <1>6, SignedDifference
<1>9. r \in Int /\ r >= 0
  BY <1>1
<1> QED BY <1>1, <1>7, <1>8, <1>9 DEF RoundTrip, x, y, r

\* What it says of the clock of its sink.
LEMMA PongTells ==
  ASSUME NEW s \in Sinks, NEW n \in 0 .. MaxTime,
         NEW a \in 0 .. n, NEW g \in 0 .. n, NEW k \in 0 .. n, a <= g, g <= k,
         LapsOf(a) = 0, LapsOf(n) = 0, LapsAt(s, g) = 0, LapsAt(s, k) = 0
  PROVE  LET r == Unit * (n - a - (k - g))
             o == SampleOffset(TimeOf(a), TimeAt(s, g), TimeAt(s, k), TimeOf(n))
         IN  /\ o \in Int /\ Magnitude(o) <= Largest
             /\ 2 * (o - Offset[s]) <= r + 2
             /\ 2 * (Offset[s] - o) <= r + 2
<1> DEFINE ua == Unit * a
           ug == Unit * g
           uk == Unit * k
           un == Unit * n
           top == Unit * MaxTime
           b == Offset[s]
           half == Modulus \div 2
           r == Unit * (n - a - (k - g))
           o == SampleOffset(TimeOf(a), TimeAt(s, g), TimeAt(s, k), TimeOf(n))
<1>1. /\ ua \in Nat /\ ug \in Nat /\ uk \in Nat /\ un \in Nat /\ top \in Nat
      /\ ua <= ug /\ ug <= uk /\ uk <= un /\ un <= top
      /\ r = (un - ua) - (uk - ug) /\ r \in 0 .. top
  BY RoundTripRange
<1>2. half \in Nat /\ MaxOffset \in Nat /\ MaxOffset + top < half
  BY ModulusOK, SpanAssumption, ClockAssumption DEF Modulus
<1>3. n \in Nat /\ a \in Nat /\ g \in Nat /\ k \in Nat
  BY ClockAssumption
<1>4. b \in Int /\ -MaxOffset <= b /\ b <= MaxOffset /\ Epoch \in Int
  BY ClockAssumption
<1>5. /\ TimeOf(a) \in Int /\ \E i \in Int : TimeOf(a) = Epoch + ua + Modulus * i
      /\ TimeOf(n) \in Int /\ \E i \in Int : TimeOf(n) = Epoch + un + Modulus * i
  BY <1>3, ClocksOK, FirstLap DEF TimeOf, LapsOf
<1>6. /\ TimeAt(s, g) \in Int
      /\ \E i \in Int : TimeAt(s, g) = SinkStart(s) + ug + Modulus * i
      /\ TimeAt(s, k) \in Int
      /\ \E i \in Int : TimeAt(s, k) = SinkStart(s) + uk + Modulus * i
  BY <1>3, ClocksOK, FirstLap DEF TimeAt, LapsAt
<1>7. SinkStart(s) \in Int /\ \E i \in Int : SinkStart(s) = Epoch + b + Modulus * i
  BY ClocksOK
<1> DEFINE M == Modulus
           ta == TimeOf(a)
           tn == TimeOf(n)
           tg == TimeAt(s, g)
           tk == TimeAt(s, k)
           st == SinkStart(s)
<1>8. /\ ta \in Int /\ \E i \in Int : ta = Epoch + ua + M * i
      /\ tn \in Int /\ \E i \in Int : tn = Epoch + un + M * i
      /\ tg \in Int /\ \E i \in Int : tg = st + ug + M * i
      /\ tk \in Int /\ \E i \in Int : tk = st + uk + M * i
      /\ st \in Int /\ \E i \in Int : st = Epoch + b + M * i
      /\ M \in Int
  <2>1. M \in Int
    BY ModulusOK
  <2>2. ta \in Int /\ \E i \in Int : ta = Epoch + ua + M * i
    BY <1>5
  <2>3. tn \in Int /\ \E i \in Int : tn = Epoch + un + M * i
    BY <1>5
  <2>4. tg \in Int /\ \E i \in Int : tg = st + ug + M * i
    BY <1>6
  <2>5. tk \in Int /\ \E i \in Int : tk = st + uk + M * i
    BY <1>6
  <2>6. st \in Int /\ \E i \in Int : st = Epoch + b + M * i
    BY <1>7
  <2> HIDE DEF ta, tn, tg, tk, st, M, ua, un, ug, uk, b
  <2> QED BY <2>1, <2>2, <2>3, <2>4, <2>5, <2>6
<1> HIDE DEF ua, ug, uk, un, top, b, half, r, M, ta, tn, tg, tk, st
<1>9. \E i \in Int : tg - ta = (ug - ua + b) + M * i
  <2>1. PICK i \in Int : ta = Epoch + ua + M * i
    BY <1>8
  <2>2. PICK j \in Int : tg = st + ug + M * j
    BY <1>8
  <2>3. PICK l \in Int : st = Epoch + b + M * l
    BY <1>8
  <2>4. M * (j + l - i) = M * j + M * l - M * i /\ j + l - i \in Int
    BY <1>8
  <2>5. M * i \in Int /\ M * j \in Int /\ M * l \in Int
    BY <1>8
  <2>6. tg - ta = (ug - ua + b) + M * (j + l - i)
    BY <1>1, <1>4, <1>8, <2>1, <2>2, <2>3, <2>4, <2>5
  <2> QED BY <2>4, <2>6
<1>10. \E i \in Int : tk - tn = (uk - un + b) + M * i
  <2>1. PICK i \in Int : tn = Epoch + un + M * i
    BY <1>8
  <2>2. PICK j \in Int : tk = st + uk + M * j
    BY <1>8
  <2>3. PICK l \in Int : st = Epoch + b + M * l
    BY <1>8
  <2>4. M * (j + l - i) = M * j + M * l - M * i /\ j + l - i \in Int
    BY <1>8
  <2>5. M * i \in Int /\ M * j \in Int /\ M * l \in Int
    BY <1>8
  <2>6. tk - tn = (uk - un + b) + M * (j + l - i)
    BY <1>1, <1>4, <1>8, <2>1, <2>2, <2>3, <2>4, <2>5
  <2> QED BY <2>4, <2>6
<1>11. /\ ug - ua + b \in Int /\ -half <= ug - ua + b /\ ug - ua + b < half
       /\ uk - un + b \in Int /\ -half <= uk - un + b /\ uk - un + b < half
       /\ tg - ta \in Int /\ tk - tn \in Int
  BY <1>1, <1>2, <1>4, <1>8
<1>12. Signed(tg - ta) = ug - ua + b
  BY <1>9, <1>11, SignedDifference DEF M, half
<1>13. Signed(tk - tn) = uk - un + b
  BY <1>10, <1>11, SignedDifference DEF M, half
<1>14. o \in Int /\ 2 * (o - b) <= r + 2 /\ 2 * (b - o) <= r + 2
  <2> DEFINE x == ug - ua + b
             y == uk - un + b
  <2>1. x \in Int /\ y \in Int
    BY <1>1, <1>4
  <2>2. o = CutOff(x, 2) + CutOff(y, 2)
    BY <1>12, <1>13 DEF SampleOffset, ta, tn, tg, tk
  <2>3. /\ CutOff(x, 2) \in Int /\ 2 * CutOff(x, 2) <= x + 1 /\ x <= 2 * CutOff(x, 2) + 1
        /\ CutOff(y, 2) \in Int /\ 2 * CutOff(y, 2) <= y + 1 /\ y <= 2 * CutOff(y, 2) + 1
    <3> HIDE DEF x, y
    <3> QED BY <2>1, Halved
  <2>4. x + y <= 2 * b + r /\ 2 * b <= x + y + r /\ r \in Nat
    BY <1>1, <1>4
  <2> HIDE DEF x, y, o
  <2> QED BY <1>4, <2>1, <2>2, <2>3, <2>4
<1>15. Largest = MaxOffset + top + 8
  BY DEF Largest, top
<1> HIDE DEF o
<1>16. Magnitude(o) <= Largest
  BY <1>1, <1>2, <1>4, <1>14, <1>15 DEF Magnitude
<1> QED BY <1>14, <1>16 DEF o, b, r

-----------------------------------------------------------------------------
(* ClockSync: the estimate *)

\* An estimate that is accurate fits into the average.
LEMMA EstimateFits ==
  ASSUME NEW s \in Sinks, NEW t \in Sinks, NEW p \in Int, NEW w \in 0 .. Unit * MaxTime,
         2 * (p - Offset[s]) <= w + 2 * Rounding,
         2 * (Offset[t] - p) <= w + 2 * Rounding
  PROVE  Magnitude(p) <= 2 * Largest
<1> DEFINE b == Offset[s]
           c == Offset[t]
           q == Quantum
           top == Unit * MaxTime
           L == Largest
<1>1. /\ MaxOffset \in Nat /\ top \in Nat
      /\ b \in Int /\ c \in Int /\ b <= MaxOffset /\ -MaxOffset <= c
  BY ClockAssumption
<1>2. w \in Nat /\ w <= top
  BY <1>1
<1>3. L = MaxOffset + top + 8
  BY DEF Largest
<1>4. q \in Nat /\ q <= L /\ Rounding = 8 + q
  BY QuantumOK
<1>5. 2 * (p - b) <= w + 2 * (8 + q) /\ 2 * (c - p) <= w + 2 * (8 + q)
  BY <1>4
<1> HIDE DEF b, c, q, top, L
<1>6. Magnitude(p) <= 2 * L
  BY <1>1, <1>2, <1>3, <1>4, <1>5 DEF Magnitude
<1> QED BY <1>6 DEF L

\* A sample of one sink and an average that is between the offsets of two give
\* an average that is not above the larger one of the three.
LEMMA StaysBelow ==
  ASSUME NEW b \in Int, NEW c \in Int, NEW o \in Int, NEW p \in Int, NEW e \in Int,
         NEW A \in Int, NEW r \in Nat, NEW w \in Nat, NEW w2 \in Nat, NEW q \in Nat,
         w <= w2, r <= w2,
         2 * (o - b) <= r + 2,
         2 * (p - c) <= w + 2 * (8 + q),
         A <= o + 7 * p + q, 8 * e <= A + 7
  PROVE  \/ 2 * (e - b) <= w2 + 2 * (8 + q)
         \/ 2 * (e - c) <= w2 + 2 * (8 + q)
<1>1. CASE b >= c
  BY <1>1
<1>2. CASE b < c
  BY <1>2
<1> QED BY <1>1, <1>2

LEMMA StaysAbove ==
  ASSUME NEW b \in Int, NEW c \in Int, NEW o \in Int, NEW p \in Int, NEW e \in Int,
         NEW A \in Int, NEW r \in Nat, NEW w \in Nat, NEW w2 \in Nat, NEW q \in Nat,
         w <= w2, r <= w2,
         2 * (b - o) <= r + 2,
         2 * (c - p) <= w + 2 * (8 + q),
         o + 7 * p <= A + q, A <= 8 * e + 7
  PROVE  \/ 2 * (b - e) <= w2 + 2 * (8 + q)
         \/ 2 * (c - e) <= w2 + 2 * (8 + q)
<1>1. CASE b >= c
  BY <1>1
<1>2. CASE b < c
  BY <1>2
<1> QED BY <1>1, <1>2

-----------------------------------------------------------------------------
(* ClockSync: the inductive invariant *)

LEMMA ClockInitial == ClockInit => ClockInv
<1>1. Unit * MaxTime \in Nat /\ MaxTime \in Nat
  BY ClockAssumption
<1>2. 0 \in 0 .. MaxTime /\ \A n \in Nat : 0 \in 0 .. n
  BY <1>1
<1>3. 0 \in 0 .. Unit * MaxTime
  BY <1>1, <1>2
<1> SUFFICES ASSUME ClockInit PROVE ClockInv
  OBVIOUS
<1>4. ~has_estimate /\ has_estimate \in BOOLEAN
  BY DEF ClockInit
<1>5. now \in 0 .. MaxTime /\ worst \in 0 .. Unit * MaxTime /\ offset_ntp \in Int
  BY <1>2, <1>3 DEF ClockInit
<1>6. \A m \in on_way : IsMessage(m, now)
  BY DEF ClockInit
<1> QED BY <1>4, <1>5, <1>6 DEF ClockInv, RoundTripIsReal, OffsetIsAccurate

\* Once a clock has started again, it has done so for ever.
LEMMA NotTurned ==
  ASSUME NEW n \in Nat, NEW i \in 0 .. n,
         ~(LapsOf(n) > 0), NEW s \in Sinks, ~(LapsAt(s, n) > 0)
  PROVE  LapsOf(i) = 0 /\ LapsAt(s, i) = 0
BY ClocksOK, NoLapBefore DEF LapsOf, LapsAt

LEMMA TurnedForEver ==
  ASSUME now \in 0 .. MaxTime, now' \in 0 .. MaxTime, now <= now', ~Turned'
  PROVE  ~Turned
<1>1. now' \in Nat /\ now \in 0 .. now'
  BY ClockAssumption
<1>2. ~(LapsOf(now') > 0) /\ \A s \in Sinks : ~(LapsAt(s, now') > 0)
  BY DEF Turned, LapsOf, LapsAt, Laps, Modulus, SinkStart
<1>3. LapsOf(now) = 0
  BY <1>1, <1>2, ClocksOK, NoLapBefore DEF LapsOf
<1>4. \A s \in Sinks : LapsAt(s, now) = 0
  BY <1>1, <1>2, ClocksOK, NoLapBefore DEF LapsAt
<1> QED BY <1>3, <1>4 DEF Turned

\* Steps that leave the estimate alone.
LEMMA EstimateKept ==
  ASSUME ClockInv, UNCHANGED <<offset_ntp, rtt, has_estimate, clock_history>>,
         now' \in 0 .. MaxTime, now <= now',
         \A m \in on_way' : IsMessage(m, now')
  PROVE  ClockInv'
<1>1. ~Turned' => ~Turned
  BY TurnedForEver DEF ClockInv
<1>2. OffsetIsAccurate'
  BY <1>1 DEF ClockInv, OffsetIsAccurate, clock_history, Rounding, Largest
<1> QED BY <1>1, <1>2 DEF ClockInv, RoundTripIsReal, clock_history

LEMMA PongKeeps ==
  ASSUME ClockInv, NEW m \in on_way, handlePong(m)
  PROVE  ClockInv'
<1>1. m.type = "pong"
  BY DEF handlePong
<1>2. IsPong(m, now)
  BY <1>1 DEF ClockInv, IsMessage, IsPing, IsAnswer
<1>3. PICK s \in Sinks, a \in 0 .. now, g \in 0 .. now, k \in 0 .. now :
        /\ a <= g /\ g <= k
        /\ m = [type |-> "pong", sink |-> s, t1 |-> TimeOf(a), t2 |-> TimeAt(s, g),
                t3 |-> TimeAt(s, k), at |-> a, got |-> g, sent |-> k]
  BY <1>2 DEF IsPong
<1>4. /\ m.t1 = TimeOf(a) /\ m.t2 = TimeAt(s, g) /\ m.t3 = TimeAt(s, k)
      /\ m.at = a /\ m.got = g /\ m.sent = k /\ m.sink = s
  BY <1>3
<1>5. Now = TimeOf(now)
  BY DEF Now
<1> DEFINE r == Unit * (now - a - (k - g))
           o == SampleOffset(TimeOf(a), TimeAt(s, g), TimeAt(s, k), TimeOf(now))
           A == Average(o, offset_ntp)
           q == Quantum
<1>6. now \in 0 .. MaxTime /\ worst \in 0 .. Unit * MaxTime
  BY DEF ClockInv
<1>7. r \in 0 .. Unit * MaxTime
  BY <1>3, <1>6, RoundTripRange
<1>8. /\ rtt' = RoundTrip(TimeOf(a), TimeAt(s, g), TimeAt(s, k), TimeOf(now))
      /\ real' = r /\ has_estimate' = TRUE /\ now' = now
      /\ worst' = IF r > worst THEN r ELSE worst
      /\ offset_ntp' = IF has_estimate THEN CutOff(A, 8) ELSE o
      /\ on_way' \subseteq on_way
      /\ crossed' = (LapsOf(a) # LapsOf(now) \/ LapsAt(s, g) # LapsAt(s, k))
  BY <1>4, <1>5 DEF handlePong, update
<1>9. Unit * MaxTime \in Nat /\ Offset \in [Sinks -> Int]
  BY ClockAssumption
<1> DEFINE top == Unit * MaxTime
           b == Offset[s]
<1>10. q \in Nat /\ Rounding = 8 + q
  BY QuantumOK
<1>11. b \in Int
  BY <1>9
<1> HIDE DEF r, o, q, top, b
<1>12. /\ r \in Nat /\ worst \in Nat /\ worst' \in Nat /\ worst' \in 0 .. top
       /\ worst <= worst' /\ r <= worst'
  BY <1>6, <1>7, <1>8, <1>9 DEF top
<1>13. RoundTripIsReal'
  <2>1. ~crossed' => rtt' = r
    BY <1>3, <1>6, <1>8, RoundTripTells DEF r
  <2> QED BY <1>8, <2>1 DEF RoundTripIsReal
<1>14. CASE Turned
  <2>1. Turned'
    BY <1>8, <1>14 DEF Turned, LapsOf, LapsAt, Laps, Modulus, SinkStart
  <2>2. \A x \in on_way' : IsMessage(x, now')
    BY <1>8 DEF ClockInv
  <2>3. now' \in 0 .. MaxTime /\ has_estimate' \in BOOLEAN /\ worst' \in 0 .. Unit * MaxTime
    BY <1>6, <1>8, <1>12 DEF top
  <2> QED BY <1>13, <2>1, <2>2, <2>3 DEF ClockInv, OffsetIsAccurate
<1>15. CASE ~Turned
  <2>1. now \in Nat /\ ~(LapsOf(now) > 0) /\ ~(LapsAt(s, now) > 0) /\ now \in 0 .. now
    BY <1>6, <1>15, ClockAssumption DEF Turned
  <2>2. LapsOf(a) = 0 /\ LapsOf(now) = 0 /\ LapsAt(s, g) = 0 /\ LapsAt(s, k) = 0
    BY <2>1, NotTurned
  <2>3. /\ o \in Int /\ Magnitude(o) <= Largest
        /\ 2 * (o - b) <= r + 2 /\ 2 * (b - o) <= r + 2
    BY <1>3, <1>6, <2>2, PongTells DEF o, r, b
  <2>4. offset_ntp \in Int
    BY <1>15 DEF ClockInv
  <2>5. \A x \in on_way' : IsMessage(x, now')
    BY <1>8 DEF ClockInv
  <2>6. now' \in 0 .. MaxTime /\ has_estimate' \in BOOLEAN /\ worst' \in 0 .. Unit * MaxTime
    BY <1>6, <1>8, <1>12 DEF top
  <2>7. ASSUME ~has_estimate PROVE offset_ntp' \in Int /\ OffsetIsAccurate'
    <3>1. offset_ntp' = o
      BY <1>8, <2>7
    <3> DEFINE w2 == worst'
    <3>2. w2 \in Nat /\ r <= w2
      BY <1>12
    <3> HIDE DEF w2
    <3>3. /\ 2 * (o - b) <= w2 + 2 * (8 + q)
          /\ 2 * (b - o) <= w2 + 2 * (8 + q)
      BY <1>10, <1>11, <1>12, <2>3, <3>2
    <3>4. /\ 2 * (offset_ntp' - Offset[s]) <= worst' + 2 * Rounding
          /\ 2 * (Offset[s] - offset_ntp') <= worst' + 2 * Rounding
      BY <1>10, <3>1, <3>3 DEF w2, b
    <3>5. OffsetIsAccurate'
      BY <3>4 DEF OffsetIsAccurate, Rounding, Largest
    <3> QED BY <2>3, <3>1, <3>5
  <2>8. ASSUME has_estimate PROVE offset_ntp' \in Int /\ OffsetIsAccurate'
    <3>1. PICK x \in Sinks : 2 * (offset_ntp - Offset[x]) <= worst + 2 * Rounding
      BY <1>15, <2>8 DEF ClockInv, OffsetIsAccurate
    <3>2. PICK y \in Sinks : 2 * (Offset[y] - offset_ntp) <= worst + 2 * Rounding
      BY <1>15, <2>8 DEF ClockInv, OffsetIsAccurate
    <3>3. Magnitude(offset_ntp) <= 2 * Largest
      BY <1>6, <2>4, <3>1, <3>2, EstimateFits
    <3>4. A \in Int /\ A <= o + 7 * offset_ntp + q /\ o + 7 * offset_ntp <= A + q
      BY <2>3, <2>4, <3>3, AverageError DEF q
    <3> DEFINE e == CutOff(A, 8)
               w2 == worst'
               c == Offset[x]
               d == Offset[y]
               p == offset_ntp
    <3>5. e \in Int /\ 8 * e <= A + 7 /\ A <= 8 * e + 7
      <4> HIDE DEF A
      <4> QED BY <3>4, Eighth
    <3>6. offset_ntp' = e
      BY <1>8, <2>8
    <3>7. c \in Int /\ d \in Int /\ p \in Int /\ w2 \in Nat /\ worst <= w2 /\ r <= w2
      BY <1>9, <1>12, <2>4
    <3>8. 2 * (p - c) <= worst + 2 * (8 + q) /\ 2 * (d - p) <= worst + 2 * (8 + q)
      BY <1>10, <3>1, <3>2
    <3>9. A <= o + 7 * p + q /\ o + 7 * p <= A + q
      BY <3>4
    <3> HIDE DEF A, e, w2, c, d, p
    <3>10. \/ 2 * (e - b) <= w2 + 2 * (8 + q)
           \/ 2 * (e - c) <= w2 + 2 * (8 + q)
      BY <1>10, <1>11, <1>12, <2>3, <3>4, <3>5, <3>7, <3>8, <3>9, StaysBelow
    <3>11. \/ 2 * (b - e) <= w2 + 2 * (8 + q)
           \/ 2 * (d - e) <= w2 + 2 * (8 + q)
      BY <1>10, <1>11, <1>12, <2>3, <3>4, <3>5, <3>7, <3>8, <3>9, StaysAbove
    <3>12. \E z \in Sinks : 2 * (offset_ntp' - Offset[z]) <= worst' + 2 * Rounding
      BY <1>10, <3>6, <3>10 DEF w2, b, c
    <3>13. \E z \in Sinks : 2 * (Offset[z] - offset_ntp') <= worst' + 2 * Rounding
      BY <1>10, <3>6, <3>11 DEF w2, b, d
    <3>14. OffsetIsAccurate'
      BY <3>12, <3>13 DEF OffsetIsAccurate, Rounding, Largest
    <3> QED BY <3>5, <3>6, <3>14
  <2> QED BY <1>13, <2>5, <2>6, <2>7, <2>8 DEF ClockInv
<1> QED BY <1>14, <1>15

LEMMA ClockStep == ClockInv /\ [ClockNext]_clock_vars => ClockInv'
<1> SUFFICES ASSUME ClockInv, [ClockNext]_clock_vars PROVE ClockInv'
  OBVIOUS
<1>1. now \in 0 .. MaxTime /\ MaxTime \in Nat /\ now \in Nat
  BY ClockAssumption DEF ClockInv
<1>2. \A m \in on_way : IsMessage(m, now)
  BY DEF ClockInv
<1>3. CASE Tick
  <2>1. now' = now + 1 /\ now' \in 0 .. MaxTime /\ now <= now' /\ on_way' = on_way
    BY <1>1, <1>3 DEF Tick
  <2>2. \A m \in on_way' : IsMessage(m, now')
    BY <1>1, <1>2, <2>1, MessageLater
  <2> QED BY <1>3, <2>1, <2>2, EstimateKept DEF Tick
<1>4. CASE receive
  <2>1. ASSUME NEW m \in Pings PROVE IsMessage(m, now)
    BY <1>1 DEF Pings, IsMessage, IsPing, Now
  <2>2. \A m \in on_way' : IsMessage(m, now')
    BY <1>2, <1>4, <2>1 DEF receive
  <2> QED BY <1>1, <1>4, <2>2, EstimateKept DEF receive
<1>5. ASSUME NEW m \in on_way, handlePing(m) PROVE ClockInv'
  <2>1. IsPing(m, now)
    BY <1>2, <1>5 DEF handlePing, IsMessage, IsAnswer, IsPong
  <2>2. PICK s \in Sinks, a \in 0 .. now :
          m = [type |-> "ping", sink |-> s, t1 |-> TimeOf(a), at |-> a]
    BY <2>1 DEF IsPing
  <2> DEFINE n == [type |-> "answer", sink |-> m.sink, t1 |-> m.t1, at |-> m.at,
                   t2 |-> NowOf(m.sink), got |-> now]
  <2>3. n = [type |-> "answer", sink |-> s, t1 |-> TimeOf(a), at |-> a,
             t2 |-> TimeAt(s, now), got |-> now]
    BY <2>2 DEF NowOf
  <2>4. now \in 0 .. now /\ a <= now
    BY <1>1
  <2>5. IsMessage(n, now)
    <3> HIDE DEF n
    <3> QED BY <2>3, <2>4 DEF IsMessage, IsAnswer
  <2>6. \A x \in on_way' : IsMessage(x, now')
    BY <1>2, <1>5, <2>5 DEF handlePing
  <2> QED BY <1>1, <1>5, <2>6, EstimateKept DEF handlePing
<1>6. ASSUME NEW m \in on_way, sendPong(m) PROVE ClockInv'
  <2>1. IsAnswer(m, now)
    BY <1>2, <1>6 DEF sendPong, IsMessage, IsPing, IsPong
  <2>2. PICK s \in Sinks, a \in 0 .. now, g \in 0 .. now :
          /\ a <= g
          /\ m = [type |-> "answer", sink |-> s, t1 |-> TimeOf(a), at |-> a,
                  t2 |-> TimeAt(s, g), got |-> g]
    BY <2>1 DEF IsAnswer
  <2> DEFINE n == [type |-> "pong", sink |-> m.sink, t1 |-> m.t1, t2 |-> m.t2,
                   t3 |-> NowOf(m.sink), at |-> m.at, got |-> m.got, sent |-> now]
  <2>3. n = [type |-> "pong", sink |-> s, t1 |-> TimeOf(a), t2 |-> TimeAt(s, g),
             t3 |-> TimeAt(s, now), at |-> a, got |-> g, sent |-> now]
    BY <2>2 DEF NowOf
  <2>4. now \in 0 .. now /\ g <= now
    BY <1>1
  <2>5. IsMessage(n, now)
    <3> HIDE DEF n
    <3> QED BY <2>2, <2>3, <2>4 DEF IsMessage, IsPong
  <2>6. \A x \in on_way' : IsMessage(x, now')
    BY <1>2, <1>6, <2>5 DEF sendPong
  <2> QED BY <1>1, <1>6, <2>6, EstimateKept DEF sendPong
<1>7. ASSUME NEW m \in on_way, handlePong(m) PROVE ClockInv'
  BY <1>7, PongKeeps
<1>8. ASSUME NEW m \in on_way, Drop(m) PROVE ClockInv'
  BY <1>1, <1>2, <1>8, EstimateKept DEF Drop
<1>9. CASE UNCHANGED clock_vars
  BY <1>1, <1>2, <1>9, EstimateKept DEF clock_vars
<1> QED BY <1>3, <1>4, <1>5, <1>6, <1>7, <1>8, <1>9 DEF ClockNext

\* Every message on its way carries the times at which it was really sent and
\* received, and the estimate is never too far off to be averaged again.
THEOREM ClockInductive == ClockSpec => []ClockInv
BY ClockInitial, ClockStep, PTL DEF ClockSpec

\* The measured round trip is the time the two messages took, whatever the clocks
\* show and in whatever order the pongs come (AOOClockSync::update).
THEOREM RoundTripReal == ClockSpec => []RoundTripIsReal
<1>1. ClockInv => RoundTripIsReal
  BY DEF ClockInv
<1> QED BY <1>1, ClockInductive, PTL

\* The estimate stays within half of the longest round trip and the rounding of
\* its arithmetic, for timetags and floats of any width (AOOClockSync::update).
THEOREM EstimateAccurate == ClockSpec => []OffsetIsAccurate
<1>1. ClockInv => OffsetIsAccurate
  BY DEF ClockInv
<1> QED BY <1>1, ClockInductive, PTL
=============================================================================
