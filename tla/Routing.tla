------------------------------ MODULE Routing -------------------------------
(***************************************************************************)
(* How an AOOReceiver with its AOOMessageHandler finds out for whom it     *)
(* receives, what it is told and to whom it answers.  The transport has    *)
(* one remote address for everything it sends; the id of the sink may be   *)
(* taken from a message.                                                   *)
(*                                                                         *)
(* The network may deliver any message from any address at any time: it    *)
(* reorders, sends to everybody, and a source may have moved.  WireFormat  *)
(* says how a message becomes a datagram and what is read from it.  What a *)
(* message does apart from lines and addresses is modelled in Receiver.    *)
(***************************************************************************)
EXTENDS WireFormat

CONSTANTS
  Messages,    \* what sources and other receivers send
  Addresses,
  OwnId,       \* configured sink id; 0 is to be taken from a message
  Codecs,      \* names of the codecs there are decoders for
  AOO_VERSION,
  Now          \* what aoo_ntp_now() returns

ASSUME MessagesAssumption == Messages \subseteq Message
ASSUME OwnAssumption ==
  OwnId \in Nat /\ 0 \in Values /\ Now \in Values /\ AOO_VERSION \in Chunk

VARIABLES
  is_active,
  aoo_id,       \* id of this sink
  remote,       \* where the transport sends to
  sources,      \* the lines: their sender address, and have they a decoder
  sent,         \* history: the last message sent
  taken,        \* history: sink ids of the messages handled since begin()
  heard,        \* history: where the last /start or data of a stream came from
  misunderstood \* history: types of messages that were read as something else

vars == <<is_active, aoo_id, remote, sources, sent, taken, heard, misunderstood>>

Unknown == "unknown"
Ids == {m.sink_id : m \in Messages}
SourceIds == {m.source_id : m \in Messages}
Blocks == {m \in Messages : m.type \in {"data", "binary"}}
SeqNumbers == {m.seq_no : m \in Blocks}
\* A stream is a source id and a stream id.
Streams == {<<m.source_id, m.stream_id>> :
              m \in Blocks \union {n \in Messages : n.type \in {"start", "stop"}}}
Keys == Streams \X (Ids \union {OwnId})     \* a line also has a sink id
Lines == [addr : Addresses, decoder : BOOLEAN]
NoMessage == [type |-> "none"]
NoStream == <<>>

Init ==
  /\ is_active = FALSE
  /\ aoo_id = 0
  /\ remote \in Addresses \union {Unknown}
  /\ sources = [k \in {} |-> Unknown]
  /\ sent = [message |-> NoMessage, of |-> NoStream, to |-> Unknown]
  /\ taken = {}
  /\ heard = [st \in Streams |-> Unknown]
  /\ misunderstood = {}

-----------------------------------------------------------------------------
(* Messages that arrive *)

\* The parse() that a sink, or a source, uses for a datagram
ReadBySink(d) ==
  CASE d.end = "binary" -> aoo_parse_bin_data(d)
    [] d.end = "sink" /\ d.verb = "start" -> parseStart(d)
    [] d.end = "sink" /\ d.verb = "stop" -> parseStopSink(d)
    [] d.end = "sink" /\ d.verb = "data" -> parseData(d)
    [] d.end = "sink" /\ d.verb = "ping" -> parsePingSink(d)
    [] d.end = "sink" /\ d.verb = "pong" -> parsePongSink(d)
    [] d.end = "sink" /\ d.verb = "decline" -> parseDecline(d)
    [] OTHER -> Failed
ReadBySource(d) ==
  CASE d.verb = "start" -> parseRequestStart(d)
    [] d.verb = "stop" -> parseStopSource(d)
    [] d.verb = "data" -> parseResend(d)
    [] d.verb = "ping" -> parsePingSource(d)
    [] d.verb = "pong" -> parsePongSource(d)
    [] d.verb = "invite" -> parseInvite(d)
    [] d.verb = "uninvite" -> parseUninvite(d)

\* getIdFromAddress, or the id in a binary message; -1 is for nobody here.
SinkOf(d) ==
  CASE d.end = "sink" -> d.id
    [] d.end = "binary" /\ ReadBySink(d) # Failed -> ReadBySink(d).sink_id
    [] OTHER -> -1

\* What arrives of every message: its verb, for which sink it is and what is read
Arrival == [m \in Messages |->
  LET d == send(m) IN [verb |-> d.verb, id |-> SinkOf(d), read |-> ReadBySink(d)]]

\* An unassigned sink takes the first id other than 0.
AssignedId_Always(id) == IF OwnId = 0 /\ id > 0 THEN id ELSE aoo_id
AssignedId(id) == IF aoo_id = 0 /\ id > 0 THEN id ELSE aoo_id

Note(m, right) ==
  misunderstood' = IF right THEN misunderstood ELSE misunderstood \union {m.type}

\* A message for another sink, for a source or cut off is ignored.
Ignore(m) ==
  /\ is_active
  /\ AssignedId(Arrival[m].id) # Arrival[m].id
  /\ Note(m, m \in SourceMessage \/ ~Complete(m) \/ AssignedId(m.sink_id) # m.sink_id)
  /\ UNCHANGED <<is_active, aoo_id, remote, sources, sent, taken, heard>>

Take(m) ==
  LET id == Arrival[m].id
  IN  /\ is_active
      /\ AssignedId(id) = id
      /\ aoo_id' = id
      /\ taken' = taken \union {id}
      /\ Note(m, Understood(m, Arrival[m].read))
      /\ UNCHANGED is_active

Without(keys) == [k \in DOMAIN sources \ keys |-> sources[k]]
With(k, line) == [j \in DOMAIN sources \union {k} |-> IF j = k THEN line ELSE sources[j]]
Send(m, st, to) == sent' = [message |-> m, of |-> st, to |-> to]
StreamOf(p) == <<p.source_id, p.stream_id>>

onStart(m, from) ==
  LET p == Arrival[m].read
  IN  /\ Arrival[m].verb = "start"
      /\ p # Failed /\ p.codec.content \in Codecs
      /\ Take(m)
      /\ sources' = With(<<StreamOf(p), aoo_id'>>, [addr |-> from, decoder |-> TRUE])
      /\ heard' = [heard EXCEPT ![StreamOf(p)] = from]
      /\ UNCHANGED <<remote, sent>>

\* retargetTo: the transport goes on sending to the source of the line.
RequestOf_Untargeted(r, st, addr) == Send(r, st, remote) /\ UNCHANGED remote
RequestOf(r, st, addr) == Send(r, st, addr) /\ remote' = addr

startRequest(source, sink) ==
  [type |-> "request_start", source_id |-> source, sink_id |-> sink,
   version |-> AOO_VERSION]

\* A line that was not there is made; one with a decoder keeps it.
LineAfterData(k, from) ==
  [addr |-> from, decoder |-> k \in DOMAIN sources /\ sources[k].decoder]

\* Without a decoder /start is asked for, unless it was a moment ago.
onData(m, from) ==
  LET p == Arrival[m].read
      st == StreamOf(p)
      k == <<st, aoo_id'>>
      line == LineAfterData(k, from)
  IN  /\ Arrival[m].verb = "data"
      /\ p # Failed
      /\ Take(m)
      /\ sources' = With(k, line)
      /\ heard' = [heard EXCEPT ![st] = from]
      /\ \/ ~line.decoder /\ RequestOf(startRequest(p.source_id, aoo_id'), st, line.addr)
         \/ UNCHANGED <<remote, sent>>

\* Lines of every sink id.
onStop(m) ==
  LET p == Arrival[m].read
  IN  /\ Arrival[m].verb = "stop"
      /\ p # Failed
      /\ Take(m)
      /\ sources' = Without({StreamOf(p)} \X (Ids \union {OwnId}))
      /\ UNCHANGED <<remote, sent, heard>>

\* The pong goes to where the ping came from, and so does all that follows.
handlePing(m, from) ==
  LET p == Arrival[m].read
  IN  /\ Arrival[m].verb = "ping"
      /\ p # Failed
      /\ Take(m)
      /\ Send([type |-> "pong_source", source_id |-> p.source_id, sink_id |-> aoo_id',
               t1 |-> p.send_time, t2 |-> Now, t3 |-> Now], NoStream, from)
      /\ remote' = from
      /\ UNCHANGED <<sources, heard>>

\* /pong, /decline, a codec without a decoder and what the sink cannot read
Other(m) ==
  LET p == Arrival[m].read
  IN  /\ \/ p = Failed
         \/ Arrival[m].verb \in {"pong", "decline"}
         \/ Arrival[m].verb = "start" /\ p # Failed /\ p.codec.content \notin Codecs
      /\ Take(m)
      /\ UNCHANGED <<remote, sources, sent, heard>>

\* A message to a source, from this sink or another
SourceReceives(m) ==
  /\ send(m).end = "src"
  /\ Note(m, Understood(m, ReadBySource(send(m))))
  /\ UNCHANGED <<is_active, aoo_id, remote, sources, sent, taken, heard>>

-----------------------------------------------------------------------------
(* What the receiver does by itself *)

\* postProcessing: a block is missing.
resend(k, seq) ==
  /\ is_active
  /\ k \in DOMAIN sources /\ sources[k].decoder
  /\ RequestOf([type |-> "resend", source_id |-> k[1][1], sink_id |-> aoo_id,
                stream_id |-> k[1][2],
                resend_items |-> <<[seq |-> seq, frame |-> 0]>>],
               k[1], sources[k].addr)
  /\ UNCHANGED <<is_active, aoo_id, sources, taken, heard, misunderstood>>

\* postProcessing: the timeout, or too many blocks are missing.
removeSource(k) ==
  /\ is_active
  /\ k \in DOMAIN sources
  /\ sources' = Without({k})
  /\ UNCHANGED <<is_active, aoo_id, remote, sent, taken, heard, misunderstood>>

\* invite, uninvite and requestStart of the application
ask(source) ==
  /\ is_active
  /\ \/ Send(startRequest(source, aoo_id), NoStream, remote)
     \/ \E type \in {"invite", "uninvite"} :
          Send([type |-> type, source_id |-> source, sink_id |-> aoo_id,
                stream_id |-> 0], NoStream, remote)
  /\ UNCHANGED <<is_active, aoo_id, remote, sources, taken, heard, misunderstood>>

begin ==
  /\ ~is_active
  /\ is_active' = TRUE
  /\ aoo_id' = OwnId
  /\ taken' = {}
  /\ UNCHANGED <<remote, sources, sent, heard, misunderstood>>

end ==
  /\ is_active
  /\ is_active' = FALSE
  /\ sources' = Without(DOMAIN sources)
  /\ UNCHANGED <<aoo_id, remote, sent, taken, heard, misunderstood>>

Next ==
  \/ \E m \in Messages, from \in Addresses :
       onStart(m, from) \/ onData(m, from) \/ handlePing(m, from)
  \/ \E m \in Messages : onStop(m) \/ Other(m) \/ Ignore(m)
  \/ \E m \in (Messages \union {sent.message}) \ {NoMessage} : SourceReceives(m)
  \/ \E k \in DOMAIN sources, seq \in SeqNumbers : resend(k, seq)
  \/ \E k \in DOMAIN sources : removeSource(k)
  \/ \E source \in SourceIds : ask(source)
  \/ begin
  \/ end

Spec == Init /\ [][Next]_vars

-----------------------------------------------------------------------------
(* Properties *)

TypeOK ==
  /\ is_active \in BOOLEAN
  /\ aoo_id \in Ids \union {OwnId, 0}
  /\ remote \in Addresses \union {Unknown}
  /\ DOMAIN sources \subseteq Keys
  /\ \A k \in DOMAIN sources : sources[k] \in Lines
  /\ taken \subseteq Ids

\* A request for a stream goes to where its last /start or block came from,
\* whatever was sent to other sources, and received from them, in between.  A
\* stream that is sent to sink 0 as well has a second line, with an address of
\* its own.
RequestsReachSource ==
  [][sent' # sent /\ sent'.of \in Streams /\ 0 \notin taken
       => sent'.to = heard'[sent'.of]]_vars

\* "With id 0 it is assigned from the first message" (AOOReceiver::id): from
\* then on the sink takes messages for one id only.  Messages for id 0 are taken
\* before, and leave it without an id.
OneIdentity == \A id, other \in taken \ {0} : id = other

\* Every handler reads from a datagram what the sender put in it, and all of it:
\* send() and parse() of a message agree, no end takes a message of the other
\* end for its own (a ping looks the same both ways), a binary message that was
\* cut off is refused and not completed with what an earlier one left in
\* in_buffer, and a whole message is not refused.
UnderstoodAsSent == misunderstood = {}

\* assert(data.size() == msg_size) of every send(): the size that is computed
\* for a message before it is written is the size it has.
HasItsSize(m) == m.type \in {"none", "binary"} \/ SizeIsRight(send(m))
AllHaveTheirSize == \A m \in Messages : HasItsSize(m)
SizesAgree == AllHaveTheirSize /\ HasItsSize(sent.message)
=============================================================================
