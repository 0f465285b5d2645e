------------------------------- MODULE Sender -------------------------------
(***************************************************************************)
(* AOOSender: blocks are numbered and sent to every sink of the list;      *)
(* sinks join and leave with requests of their own; the last blocks are    *)
(* kept to answer resend requests.                                         *)
(*                                                                         *)
(* The sender runs in one thread: write() handles the messages that are    *)
(* waiting, may send pings and sends a block.  Each of these is an action, *)
(* so that a write() is one run of them.  A message that is lost on the    *)
(* way, or that the transport fails to send, needs no action here.         *)
(***************************************************************************)
EXTENDS Integers, Sequences, FiniteSets

CONSTANTS
  Sinks,         \* the ids of the sinks
  Places,        \* network addresses (ip and port)
  NoPlace,       \* ip 0: no address of its own
  Default,       \* the remote address the stream was created with
  Configured,    \* cfg.sink_targets given by the application
  buffer_size,   \* number of slots for sent blocks
  MaxBlocks      \* bound on the number of blocks

ASSUME PlacesAssumption == Default \in Places /\ NoPlace \notin Places
ASSUME SinksAssumption == 1 \in Sinks /\ Sinks \subseteq Nat
ASSUME SizeAssumption == buffer_size \in Nat \ {0} /\ MaxBlocks \in Nat
ASSUME ConfiguredAssumption ==
  /\ Configured \in Seq([id : Sinks, ip : Places \union {NoPlace}])
  /\ \A i, j \in DOMAIN Configured : Configured[i].id = Configured[j].id => i = j

VARIABLES
  is_active, is_streaming, start_sent,
  seq_no,         \* number of the next block
  sink_targets,   \* the sinks: id and address
  remote,         \* the address the stream sends to
  slot_id, slot_block,  \* the resend buffer: number and content of each slot
  sent,           \* the messages of the last step
  block,          \* history: number of blocks encoded
  content,        \* history: content[n + 1] is the block first sent as number n
  first,          \* history: seq_no at the last begin()
  informed,       \* history: sinks that know the stream: /start sent, no /stop
  left            \* history: sinks that wanted to leave and have not come back

status == <<is_active, is_streaming, start_sent>>
ring == <<slot_id, slot_block>>
history == <<block, content, first>>
vars == <<status, seq_no, sink_targets, remote, ring, sent, history, informed,
          left>>

Slots == 0 .. buffer_size - 1
NoId == -2
Index_OneShort(seq) == seq % (buffer_size - 1)
Index(seq) == seq % buffer_size
Get_Unchecked(seq) == slot_id[Index(seq)] # NoId
\* get(seq) is not null
Get(seq) == slot_id[Index(seq)] = seq

TargetIds == {sink_targets[i].id : i \in DOMAIN sink_targets}

Init ==
  /\ is_active = FALSE /\ is_streaming = FALSE /\ start_sent = FALSE
  /\ seq_no = 0
  /\ sink_targets = Configured
  /\ remote = Default
  /\ slot_id = [i \in Slots |-> NoId]
  /\ slot_block = [i \in Slots |-> 0]
  /\ sent = {}
  /\ block = 0 /\ content = <<>> /\ first = 0
  /\ informed = {} /\ left = {}

-----------------------------------------------------------------------------
(* Messages *)

Control(type, sink, place) == [type |-> type, sink |-> sink, to |-> place]
Data(sink, place, seq, what) ==
  [type |-> "data", sink |-> sink, to |-> place, seq |-> seq, block |-> what]

Addressed(k) == {j \in 1 .. k : sink_targets[j].ip # NoPlace}

\* forEachSink: a target with an address retargets the stream, for the targets
\* after it as well.  Without targets, once with id 1.
PlaceOf(k) ==
  IF Addressed(k) = {} THEN remote
  ELSE LET last == CHOOSE j \in Addressed(k) : \A i \in Addressed(k) : i <= j
       IN sink_targets[last].ip

EachSink_OwnAddress ==
  IF sink_targets = <<>> THEN {<<1, remote>>}
  ELSE {<<sink_targets[k].id, remote>> : k \in DOMAIN sink_targets}
EachSink ==
  IF sink_targets = <<>> THEN {<<1, remote>>}
  ELSE {<<sink_targets[k].id, PlaceOf(k)>> : k \in DOMAIN sink_targets}

Retargeted == remote' = PlaceOf(Len(sink_targets))

ToEachSink(type) == {Control(type, d[1], d[2]) : d \in EachSink}
Everyone == {d[1] : d \in EachSink}

-----------------------------------------------------------------------------
(* Operations *)

begin_Renumbers(ok, fixed) ==
  /\ slot_id' = [i \in Slots |-> NoId]
  /\ first' = 0 /\ seq_no' = 0
  /\ start_sent' = (fixed /\ ok)
  /\ sent' = {} /\ UNCHANGED <<informed, remote>>
  /\ is_active' = TRUE /\ is_streaming' = TRUE
  /\ UNCHANGED <<sink_targets, slot_block, block, content, left>>

\* begin(): the resend buffer is emptied; /start is sent at once if the
\* encoder has a fixed block size.  When sending it fails the stream is not
\* started.
begin(ok, fixed) ==
  /\ slot_id' = [i \in Slots |-> NoId]
  /\ first' = seq_no
  /\ start_sent' = (fixed /\ ok)
  /\ IF fixed
       THEN /\ sent' = ToEachSink("start")
            /\ informed' = informed \union Everyone
            /\ Retargeted
       ELSE sent' = {} /\ UNCHANGED <<informed, remote>>
  /\ IF ok THEN is_active' = TRUE /\ is_streaming' = TRUE
           ELSE UNCHANGED <<is_active, is_streaming>>
  /\ UNCHANGED <<seq_no, sink_targets, slot_block, block, content, left>>

end ==
  /\ is_active \/ is_streaming
  /\ IF is_streaming
       THEN sent' = ToEachSink("stop") /\ Retargeted
       ELSE sent' = {} /\ UNCHANGED remote
  /\ is_active' = FALSE /\ is_streaming' = FALSE
  /\ informed' = {}
  /\ UNCHANGED <<start_sent, seq_no, sink_targets, ring, history, left>>

\* write() with audio: /start goes before the first block if it was not sent by
\* begin().  The application writes between begin() and end().
write ==
  /\ is_streaming
  /\ seq_no < MaxBlocks /\ block < MaxBlocks
  /\ start_sent' = TRUE
  /\ LET starts == IF start_sent THEN {} ELSE ToEachSink("start")
         blocks == {Data(d[1], d[2], seq_no, block) : d \in EachSink}
     IN sent' = starts \union blocks
  /\ informed' = IF start_sent THEN informed ELSE informed \union Everyone
  /\ Retargeted
  /\ seq_no' = seq_no + 1
  /\ slot_id' = [slot_id EXCEPT ![Index(seq_no)] = seq_no]
  /\ slot_block' = [slot_block EXCEPT ![Index(seq_no)] = block]
  /\ block' = block + 1
  /\ content' = IF seq_no < Len(content) THEN content ELSE Append(content, block)
  /\ UNCHANGED <<is_active, is_streaming, sink_targets, first, left>>

\* receive(): pings are due from time to time, once the sinks know the stream.
ping ==
  /\ sink_targets # <<>> /\ start_sent
  /\ sent' = ToEachSink("ping")
  /\ Retargeted
  /\ UNCHANGED <<status, seq_no, sink_targets, ring, history, informed, left>>

-----------------------------------------------------------------------------
(* Requests of the sinks; a reply goes to where the request came from *)

unserved == <<status, seq_no, remote, ring, history>>

addSinkTarget_Repeats(sink, from) ==
  sink_targets' = IF \E i \in DOMAIN sink_targets :
                       sink_targets[i] = [id |-> sink, ip |-> from]
                    THEN sink_targets
                    ELSE Append(sink_targets, [id |-> sink, ip |-> from])
addSinkTarget(sink, from) ==
  sink_targets' = IF sink \in TargetIds THEN sink_targets
                  ELSE Append(sink_targets, [id |-> sink, ip |-> from])

removeSinkTarget(sink) ==
  IF sink \notin TargetIds THEN UNCHANGED sink_targets
  ELSE LET i == CHOOSE i \in DOMAIN sink_targets :
                  /\ sink_targets[i].id = sink
                  /\ \A j \in 1 .. i - 1 : sink_targets[j].id # sink
       IN sink_targets' = SubSeq(sink_targets, 1, i - 1) \o
                          SubSeq(sink_targets, i + 1, Len(sink_targets))

Join_Silent(sink, from) ==
  /\ is_active
  /\ addSinkTarget(sink, from)
  /\ left' = left \ {sink}
  /\ sent' = {}
  /\ UNCHANGED <<unserved, informed>>

\* A sink joins by an invitation or a request for /start.
Join(sink, from) ==
  /\ is_active
  /\ addSinkTarget(sink, from)
  /\ left' = left \ {sink}
  /\ IF start_sent
       THEN /\ sent' = {Control("start", sink, from)}
            /\ informed' = informed \union {sink}
       ELSE sent' = {} /\ UNCHANGED informed
  /\ UNCHANGED unserved

processInvite(sink, from) ==
  \/ Join(sink, from)
  \/ /\ ~is_active
     /\ sent' = {Control("decline", sink, from)}
     /\ UNCHANGED <<unserved, sink_targets, informed, left>>

processRequestStart(sink, from) ==
  \/ Join(sink, from)
  \/ /\ ~is_active
     /\ sent' = {}
     /\ UNCHANGED <<unserved, sink_targets, informed, left>>

processUninvite(sink, from) ==
  /\ sent' = {Control("stop", sink, from)}
  /\ removeSinkTarget(sink)
  /\ informed' = informed \ {sink}
  /\ left' = left \union {sink}
  /\ UNCHANGED unserved

processStopRequest(sink, from) ==
  /\ sent' = {}
  /\ removeSinkTarget(sink)
  /\ informed' = informed \ {sink}
  /\ left' = left \union {sink}
  /\ UNCHANGED unserved

processResendRequest(sink, from, seq) ==
  /\ sent' = IF Get(seq) THEN {Data(sink, from, seq, slot_block[Index(seq)])}
                         ELSE {}
  /\ UNCHANGED <<unserved, sink_targets, informed, left>>

\* A ping is answered where it came from; the remote address stays.
handlePing(sink, from) ==
  /\ sent' = {Control("pong", sink, from)}
  /\ UNCHANGED <<unserved, sink_targets, informed, left>>

Requests(sink, from) ==
  \/ processInvite(sink, from)
  \/ processRequestStart(sink, from)
  \/ processUninvite(sink, from)
  \/ processStopRequest(sink, from)
  \/ handlePing(sink, from)
  \/ \E seq \in 0 .. MaxBlocks : processResendRequest(sink, from, seq)

Next ==
  \/ \E ok, fixed \in BOOLEAN : (fixed \/ ok) /\ begin(ok, fixed)
  \/ end
  \/ write
  \/ ping
  \/ \E sink \in Sinks, from \in Places : Requests(sink, from)

Spec == Init /\ [][Next]_vars

-----------------------------------------------------------------------------
(* Properties *)

Target == [id : Sinks, ip : Places \union {NoPlace}]

\* A number names one block for the whole life of the stream: whatever is sent
\* or resent as number n, before and after a restart of the sender, is the
\* block first sent as n.
OneBlockPerNumber ==
  \A m \in sent : m.type = "data" =>
    m.seq + 1 \in DOMAIN content /\ m.block = content[m.seq + 1]

\* The last buffer_size blocks since begin() can be resent, whatever else is
\* sent in between.
WindowCanBeResent ==
  \A seq \in first .. seq_no - 1 :
    seq + buffer_size >= seq_no =>
      Get(seq) /\ slot_block[Index(seq)] = content[seq + 1]

\* Every sink of the list knows the stream by the time blocks flow: it has been
\* sent a /start, whether it was configured or joined before or after the
\* first block, and whether the sender was restarted.
TargetsAreInformed == is_streaming /\ start_sent => TargetIds \subseteq informed

\* A sink that joined from a known address is sent every block there, and a
\* sink without an address does not divert it.
JoinedAreServed ==
  [][write => \A k \in DOMAIN sink_targets :
       sink_targets[k].ip # NoPlace =>
         Data(sink_targets[k].id, sink_targets[k].ip, seq_no, block) \in sent']_vars

\* "stop streaming to it" (comment of processUninvite): a sink that has left is
\* sent no more blocks, however often it had joined and from wherever it left,
\* as long as there are targets (an empty list means sink 1 instead).
LeaversGetNothing ==
  [][write /\ sink_targets # <<>> =>
       \A m \in sent' : m.type = "data" => m.sink \notin left]_vars
=============================================================================
