------------------------------ MODULE Session -------------------------------
(***************************************************************************)
(* An AOOSender and an AOOReceiver on a network that reorders, and may     *)
(* lose and duplicate, the messages between them: what the two agree on.   *)
(*                                                                         *)
(* Sender and Receiver model the two sides with an open environment.  Here *)
(* each keeps only what the other can tell: whether the stream runs and in *)
(* which format, whether the sink is a target, whether the line exists and *)
(* which decoder it has, whether there are blocks to send again and how    *)
(* many may still be asked for.  Blocks have no numbers and no content.    *)
(***************************************************************************)

EXTENDS Integers

CONSTANTS
  Formats,      \* what /start announces apart from the block size: codec ...
  FixedSize,    \* those whose encoder has a fixed block size
  Lengths,      \* of the writes of the application
  MaxPending,   \* bound: requests for missing blocks a line may still make
  IsDefault,    \* is this the sink which is served without any targets?
  MayLose, MayDuplicate

ASSUME FixedAssumption == FixedSize \subseteq Formats
ASSUME LengthsAssumption == Lengths \subseteq Nat
ASSUME PendingAssumption == MaxPending \in Nat
ASSUME BooleanAssumption ==
  /\ IsDefault \in BOOLEAN
  /\ MayLose \in BOOLEAN
  /\ MayDuplicate \in BOOLEAN

VARIABLES
  is_active, start_sent, codec, target,  \* sender; target: the sink is listed
  block_size,       \* sender: the length of the last write
  ring,             \* sender: are there blocks that can be sent again?
  line, decoder,    \* receiver: does the line exist, the format of its decoder
  pending,          \* receiver: resend requests the line may still make
  timed,            \* can the line time out: had it data or a successful /start?
  heard,            \* data (or /start) since the last timeout period began
  asked,            \* /start was asked for less than an interval ago
  net,              \* messages on their way
  written           \* history: the lengths of all writes

sender == <<is_active, start_sent, codec, target, block_size, ring>>
receiver == <<line, decoder, pending, timed, heard, asked>>
vars == <<sender, receiver, net, written>>

DefaultSize == 1024
OwnSize == -1           \* of an encoder
Format ==
  [codec : FixedSize, block_size : {OwnSize}] \union
  [codec : Formats \ FixedSize, block_size : Lengths \union {DefaultSize}]
NoFormat == [codec |-> "none", block_size |-> 0]

Msg(type) == [type |-> type, format |-> NoFormat]
Start(f) == [type |-> "start", format |-> f]
Data == Msg("data")
ToSink == {Start(f) : f \in Format} \union {Data, Msg("resent"), Msg("stop")}
ToSource == {Msg("invite"), Msg("uninvite"), Msg("request"), Msg("resend")}

Init ==
  /\ is_active = FALSE /\ start_sent = FALSE /\ codec \in Formats
  /\ target \in BOOLEAN
  /\ block_size = DefaultSize /\ ring = FALSE
  /\ line = FALSE /\ decoder = NoFormat /\ pending = 0 /\ timed = FALSE
  /\ heard = FALSE /\ asked = FALSE
  /\ net = {} /\ written = {}

-----------------------------------------------------------------------------
(* The sender *)

\* forEachSink reaches this sink.
Reached == target \/ IsDefault
Sent(messages) == IF Reached THEN messages ELSE {}

\* What /start announces of a stream: an encoder without a block size of its
\* own has the one of the write it was called with.
fillStartMessage(f, len) ==
  Start([codec |-> f, block_size |-> IF f \in FixedSize THEN OwnSize ELSE len])

\* begin(), maybe with another encoder; the stream id stays.
begin(f) ==
  /\ ~is_active
  /\ is_active' = TRUE /\ codec' = f
  /\ start_sent' = (f \in FixedSize)
  /\ ring' = FALSE
  /\ net' = net \union
       (IF f \in FixedSize THEN Sent({fillStartMessage(f, block_size)}) ELSE {})
  /\ UNCHANGED <<target, block_size, receiver, written>>

end ==
  /\ is_active
  /\ is_active' = FALSE
  /\ net' = net \union Sent({Msg("stop")})
  /\ UNCHANGED <<start_sent, codec, target, block_size, ring, receiver, written>>

aoo_send_data(len) ==
  /\ start_sent' = TRUE
  /\ ring' = TRUE
  /\ net' = net \union
       Sent({Data} \union IF start_sent THEN {} ELSE {fillStartMessage(codec, len)})

\* An empty write sends nothing, but is the last write.
write(len) ==
  /\ is_active
  /\ block_size' = len
  /\ written' = written \union {len}
  /\ IF len > 0 THEN aoo_send_data(len) ELSE UNCHANGED <<start_sent, ring, net>>
  /\ UNCHANGED <<is_active, codec, target, receiver>>

Join_Silent(rest) ==
  /\ target' = (target \/ is_active)
  /\ net' = rest
  /\ UNCHANGED <<is_active, start_sent, codec, block_size, ring, receiver, written>>

Join_Early(rest) ==
  /\ target' = (target \/ is_active)
  /\ net' = rest \union
       (IF is_active THEN {fillStartMessage(codec, block_size)} ELSE {})
  /\ UNCHANGED <<is_active, start_sent, codec, block_size, ring, receiver, written>>

\* An invitation or a request for /start; without a running stream it is
\* declined or ignored.
Join(rest) ==
  /\ target' = (target \/ is_active)
  /\ net' = rest \union
       (IF is_active /\ start_sent THEN {fillStartMessage(codec, block_size)} ELSE {})
  /\ UNCHANGED <<is_active, start_sent, codec, block_size, ring, receiver, written>>

processUninvite(rest) ==
  /\ target' = FALSE
  /\ net' = rest \union {Msg("stop")}
  /\ UNCHANGED <<is_active, start_sent, codec, block_size, ring, receiver, written>>

processResendRequest_Retry(rest) ==
  /\ net' = rest \union {IF ring THEN Msg("resent") ELSE Msg("resend")}
  /\ UNCHANGED <<sender, receiver, written>>

\* The blocks stay until the next begin(): they are sent again to any sink that
\* asks for them, also when the stream has ended.
processResendRequest(rest) ==
  /\ net' = rest \union (IF ring THEN {Msg("resent")} ELSE {})
  /\ UNCHANGED <<sender, receiver, written>>

-----------------------------------------------------------------------------
(* The receiver *)

\* A line that is set up again after it had data keeps the time of that data, and
\* one whose set-up fails keeps the decoder.  What it is sent from now on may show
\* gaps: they are asked for, each a limited number of times.
onStart(f, ok, rest) ==
  /\ IF decoder = f
       THEN UNCHANGED receiver
       ELSE /\ line' = TRUE /\ decoder' = f
            /\ pending' = MaxPending
            /\ timed' = (timed \/ ok)
            /\ heard' \in (IF timed \/ ~ok THEN {heard} ELSE {})
                           \union (IF ok THEN {TRUE} ELSE {})
            /\ UNCHANGED asked
  /\ net' = rest
  /\ UNCHANGED <<sender, written>>

onDataUnknown(rest) ==
  /\ decoder = NoFormat
  /\ line' = TRUE /\ timed' = TRUE /\ heard' = TRUE
  /\ asked' = TRUE
  /\ net' = rest \union (IF asked THEN {} ELSE {Msg("request")})
  /\ UNCHANGED <<decoder, pending, sender, written>>

\* Not every block is stored, and a new one may show a gap.  A block that was
\* sent again is no news.
onDataKnown(new, rest) ==
  /\ decoder # NoFormat
  /\ heard' \in {heard, TRUE}
  /\ timed' = (timed \/ heard')
  /\ pending' = IF new THEN MaxPending ELSE pending
  /\ net' = rest
  /\ UNCHANGED <<line, decoder, asked, sender, written>>

RemoveLine ==
  /\ line' = FALSE /\ decoder' = NoFormat /\ pending' = 0
  /\ timed' = FALSE /\ heard' = FALSE /\ asked' = FALSE

onStop(rest) ==
  /\ RemoveLine
  /\ net' = rest
  /\ UNCHANGED <<sender, written>>

Timeout_DecodersOnly ==
  /\ decoder # NoFormat
  /\ IF heard \/ ~timed
       THEN heard' = FALSE /\ UNCHANGED <<line, decoder, pending, timed, asked>>
       ELSE RemoveLine
  /\ UNCHANGED <<sender, net, written>>

\* The post processing once per timeout period: a line that heard nothing in
\* all of it is removed, if it ever was of use.
Timeout ==
  /\ IF line /\ (heard \/ ~timed)
       THEN heard' = FALSE /\ UNCHANGED <<line, decoder, pending, timed, asked>>
       ELSE RemoveLine
  /\ UNCHANGED <<sender, net, written>>

IntervalPasses ==
  /\ asked' = FALSE
  /\ UNCHANGED <<sender, line, decoder, pending, timed, heard, net, written>>

aooSendRequestData ==
  /\ pending > 0
  /\ pending' = pending - 1
  /\ net' = net \union {Msg("resend")}
  /\ UNCHANGED <<sender, line, decoder, timed, heard, asked, written>>

\* end() and begin(), or a reset of the device.
restart ==
  /\ RemoveLine
  /\ UNCHANGED <<sender, net, written>>

invite ==
  /\ net' = net \union {Msg("invite")}
  /\ UNCHANGED <<sender, receiver, written>>

uninvite ==
  /\ net' = net \union {Msg("uninvite")}
  /\ UNCHANGED <<sender, receiver, written>>

-----------------------------------------------------------------------------
(* The network *)

\* rest: what stays on its way
Deliver(m, rest) ==
  \/ m.type = "start" /\ \E ok \in BOOLEAN : onStart(m.format, ok, rest)
  \/ m.type \in {"data", "resent"} /\ onDataUnknown(rest)
  \/ m.type \in {"data", "resent"} /\ onDataKnown(m.type = "data", rest)
  \/ m.type = "stop" /\ onStop(rest)
  \/ m.type \in {"invite", "request"} /\ Join(rest)
  \/ m.type = "uninvite" /\ processUninvite(rest)
  \/ m.type = "resend" /\ processResendRequest(rest)

Arrive(m) == m \in net /\ Deliver(m, net \ {m})

Duplicate(m) == MayDuplicate /\ m \in net /\ Deliver(m, net)

Lose(m) ==
  /\ MayLose
  /\ m \in net
  /\ net' = net \ {m}
  /\ UNCHANGED <<sender, receiver, written>>

Next ==
  \/ \E f \in Formats : begin(f)
  \/ end
  \/ \E len \in Lengths : write(len)
  \/ Timeout
  \/ IntervalPasses
  \/ aooSendRequestData
  \/ restart
  \/ invite
  \/ uninvite
  \/ \E m \in ToSink \union ToSource : Arrive(m) \/ Duplicate(m) \/ Lose(m)

\* The application of the sender writes, the one of the receiver reads, and the
\* clock runs.  A message that is sent again and again arrives again and again,
\* and none is duplicated for ever; /invite, /uninvite and /stop need not arrive.
Fairness ==
  /\ WF_vars(\E len \in Lengths \ {0} : write(len))
  /\ WF_vars(Timeout)
  /\ WF_vars(IntervalPasses)
  /\ \A m \in (ToSink \union ToSource) \ {Msg("invite"), Msg("uninvite"), Msg("stop")} :
       SF_vars(Arrive(m))

Spec == Init /\ [][Next]_vars /\ Fairness

-----------------------------------------------------------------------------
(* Properties *)

\* "Late joining - a receiver which missed the start of a stream requests the
\* format from the sender" (README): while the stream runs and is sent to the
\* sink, the sink always gets a decoder again, whatever was lost, came late or
\* twice, and however often the receiver is restarted or times out.  (One that
\* could not be set up counts: the line keeps it and does not try again.)
LateJoinerDecodes ==
  <>[](is_active /\ Reached) => []<>(decoder # NoFormat)

\* When the sender has stopped for good its line disappears, also when /stop is
\* lost, or blocks that come after it have made a new line: the requests for
\* missing blocks, which it goes on to answer, do not keep the line alive.  Only
\* a line whose decoder could not be set up and which never got data may stay
\* (see Receiver, NeverUsed).
StoppedIsForgotten == <>[]~is_active => <>[](line => ~timed)

\* The format it gets is the one of the stream that runs now: also a sink that
\* missed the start of a sender that was started again with another encoder
\* requests it.
LateJoinerGetsFormat ==
  <>[](is_active /\ Reached) => []<>(decoder.codec = codec)

\* "A repeated /start (e.g. the answer to a /start request) for an unchanged
\* stream keeps the buffered audio" (AOOReceiver::onStart), if all writes of the
\* application have one length: then the sender announces the same block size in
\* every /start, whoever asks for it and in whatever order it comes, and a line is
\* only set up again for another codec.  After writes of two lengths, or an empty
\* one, it is set up again although the stream is the same.
SteadyStreamKeepsAudio ==
  [][decoder # NoFormat /\ decoder' \notin {decoder, NoFormat}
       => decoder'.codec # decoder.codec \/ \E m, n \in written' : m # n]_vars
=============================================================================
