----------------------------- MODULE WireFormat ------------------------------
(***************************************************************************)
(* AOOProtocol.h: how the messages are written to a datagram and read from *)
(* one.  Every message has a send() and a parse() of its own, and nothing  *)
(* but these two keeps the order, the types and the format of its values   *)
(* together.                                                               *)
(*                                                                         *)
(* An OSC datagram has an address, a format and values, one after another. *)
(* Reading takes the next value; one that is not there, or of another      *)
(* type, is Garbled.  What a value is does not matter, how long a text or  *)
(* a block of bytes is does.  Nil tags of a format have no value.          *)
(***************************************************************************)
EXTENDS Integers, SequencesExt

CONSTANTS
  Values,     \* numbers, times and the content of texts and blocks of bytes
  Garbled,    \* what is read in a wrong place
  Failed      \* parse() returned false

\* A text or a block of bytes.
Chunk == [content : Values, len : Nat]

-----------------------------------------------------------------------------
(* OSCData of the audio tools library: data.write, data.read and sizes *)

I(v) == [tag |-> "i", value |-> v]
S(v) == [tag |-> "s", value |-> v]
B(v) == [tag |-> "b", value |-> v]
T(v) == [tag |-> "t", value |-> v]
D(v) == [tag |-> "d", value |-> v]

\* A text ends with at least one zero, a block of bytes starts with its length;
\* both are filled up to a multiple of 4.
TextSize(len) == 4 * (len \div 4 + 1)
BytesSize(len) == 4 + 4 * ((len + 3) \div 4)
Width(item) ==
  CASE item.tag = "i" -> 4
    [] item.tag \in {"t", "d"} -> 8
    [] item.tag = "s" -> TextSize(item.value.len)
    [] item.tag = "b" -> BytesSize(item.value.len)
\* data.size(): where the last value ends
EndOf(items) ==
  LET end[k \in 0 .. Len(items)] ==
        IF k = 0 THEN 0 ELSE end[k - 1] + Width(items[k])
  IN  end
WrittenSize(items) == EndOf(items)[Len(items)]

\* The datagram of a message: size is what the message was announced to need.
Osc(end, id, verb, format, items, size) ==
  [end |-> end, id |-> id, verb |-> verb, format |-> format, items |-> items,
   size |-> size]

\* assert(data.size() == msg_size), without the address and the format, which
\* both sides count alike
SizeIsRight(d) == d.size = WrittenSize(d.items)

Read(d, k, tag) ==
  IF k \in DOMAIN d.items /\ d.items[k].tag = tag THEN d.items[k].value ELSE Garbled
IntAt(d, k) == Read(d, k, "i")
TextAt(d, k) == Read(d, k, "s")
BytesAt(d, k) == Read(d, k, "b")
TimeAt(d, k) == Read(d, k, "t")
DoubleAt(d, k) == Read(d, k, "d")

\* aoo_parse_id: the number that follows the prefix
IdOf(d, end) == IF d.end = end THEN d.id ELSE Garbled

-----------------------------------------------------------------------------
(* Messages to a sink: /aoo/sink/<id>/... *)

StartMessage ==
  [type : {"start"}, source_id : Nat, sink_id : Nat, version : Chunk,
   stream_id : Values, sequence_number_start : Values, format_id : Values,
   channels : Values, sample_rate : Values, block_size : Values, codec : Chunk,
   codec_extension : Chunk, start_time : Values,
   reblock_resample_latency_samples : Values, codec_delay_samples : Values,
   sample_offset : Values]

startFormat == <<"i", "s", "i", "i", "i", "i", "i", "i", "s", "b", "t", "i", "i",
                 "N", "N", "i">>
sizeStart(m) == 10 * 4 + TextSize(m.version.len) + TextSize(m.codec.len)
                + BytesSize(m.codec_extension.len) + 8

sendStart(m) ==
  Osc("sink", m.sink_id, "start", startFormat,
      <<I(m.source_id), S(m.version), I(m.stream_id), I(m.sequence_number_start),
        I(m.format_id), I(m.channels), I(m.sample_rate), I(m.block_size),
        S(m.codec), B(m.codec_extension), T(m.start_time),
        I(m.reblock_resample_latency_samples), I(m.codec_delay_samples),
        I(m.sample_offset)>>,
      sizeStart(m))

parseStart(d) ==
  IF d.format # startFormat THEN Failed
  ELSE [type |-> "start", sink_id |-> IdOf(d, "sink"), source_id |-> IntAt(d, 1),
        version |-> TextAt(d, 2), stream_id |-> IntAt(d, 3),
        sequence_number_start |-> IntAt(d, 4), format_id |-> IntAt(d, 5),
        channels |-> IntAt(d, 6), sample_rate |-> IntAt(d, 7), block_size |-> IntAt(d, 8),
        codec |-> TextAt(d, 9), codec_extension |-> BytesAt(d, 10),
        start_time |-> TimeAt(d, 11), reblock_resample_latency_samples |-> IntAt(d, 12),
        codec_delay_samples |-> IntAt(d, 13), sample_offset |-> IntAt(d, 14)]

StopSinkMessage ==
  [type : {"stop"}, source_id : Nat, sink_id : Nat, stream_id : Values,
   last_seq : Values, sample_offset : Values]

stopSinkFormat == <<"i", "i", "i", "i">>
sizeStopSink(m) == 4 * 4
sendStopSink(m) ==
  Osc("sink", m.sink_id, "stop", stopSinkFormat,
      <<I(m.source_id), I(m.stream_id), I(m.last_seq), I(m.sample_offset)>>,
      sizeStopSink(m))
parseStopSink(d) ==
  IF d.format # stopSinkFormat THEN Failed
  ELSE [type |-> "stop", sink_id |-> IdOf(d, "sink"), source_id |-> IntAt(d, 1),
        stream_id |-> IntAt(d, 2), last_seq |-> IntAt(d, 3), sample_offset |-> IntAt(d, 4)]

\* message_data_size is not sent.
DataMessage ==
  [type : {"data"}, source_id : Nat, sink_id : Nat, stream_id : Values,
   seq_no : Values, timestamp : Values, real_sample_rate : Values,
   channel_onset : Values, total_size : Nat, total_number_of_frames : Nat,
   frame_idx : Nat, audio_data : Chunk]

dataFormat == <<"i", "i", "i", "t", "d", "i", "i", "N", "i", "i", "b">>
sizeData_OneShort(m) == 6 * 4 + 2 * 8 + BytesSize(m.audio_data.len)
sizeData(m) == 7 * 4 + 2 * 8 + BytesSize(m.audio_data.len)
sendData(m) ==
  Osc("sink", m.sink_id, "data", dataFormat,
      <<I(m.source_id), I(m.stream_id), I(m.seq_no), T(m.timestamp),
        D(m.real_sample_rate), I(m.channel_onset), I(m.total_size),
        I(m.total_number_of_frames), I(m.frame_idx), B(m.audio_data)>>,
      sizeData(m))
parseData(d) ==
  IF d.format # dataFormat THEN Failed
  ELSE [type |-> "data", sink_id |-> IdOf(d, "sink"), source_id |-> IntAt(d, 1),
        stream_id |-> IntAt(d, 2), seq_no |-> IntAt(d, 3), timestamp |-> TimeAt(d, 4),
        real_sample_rate |-> DoubleAt(d, 5), channel_onset |-> IntAt(d, 6),
        total_size |-> IntAt(d, 7), total_number_of_frames |-> IntAt(d, 8),
        frame_idx |-> IntAt(d, 9), audio_data |-> BytesAt(d, 10)]

\* The bytes of a /data message without its address and format that are not
\* audio, with as much filling as there may be; the sender sizes its frames by it.
headerSize == 7 * 4 + 2 * 8 + 4 + 3

PingSinkMessage ==
  [type : {"ping"}, source_id : Nat, sink_id : Nat, send_time : Values]

pingFormat == <<"i", "t">>
sizePingSink(m) == 4 + 8
sendPingSink(m) ==
  Osc("sink", m.sink_id, "ping", pingFormat, <<I(m.source_id), T(m.send_time)>>,
      sizePingSink(m))
parsePingSink(d) ==
  IF d.format # pingFormat THEN Failed
  ELSE [type |-> "ping", sink_id |-> IdOf(d, "sink"), source_id |-> IntAt(d, 1),
        send_time |-> TimeAt(d, 2)]

PongSinkMessage ==
  [type : {"pong"}, source_id : Nat, sink_id : Nat, t1 : Values, t2 : Values,
   t3 : Values]

\* Pongs may have more values at the end.
pongFormat == <<"i", "t", "t", "t">>
sizePongSink(m) == 4 + 3 * 8
sendPongSink(m) ==
  Osc("sink", m.sink_id, "pong", pongFormat,
      <<I(m.source_id), T(m.t1), T(m.t2), T(m.t3)>>, sizePongSink(m))
parsePongSink(d) ==
  IF ~IsPrefix(pongFormat, d.format) THEN Failed
  ELSE [type |-> "pong", sink_id |-> IdOf(d, "sink"), source_id |-> IntAt(d, 1),
        t1 |-> TimeAt(d, 2), t2 |-> TimeAt(d, 3), t3 |-> TimeAt(d, 4)]

DeclineMessage ==
  [type : {"decline"}, source_id : Nat, sink_id : Nat, stream_id : Values]

declineFormat == <<"i", "i">>
sizeDecline(m) == 2 * 4
sendDecline(m) ==
  Osc("sink", m.sink_id, "decline", declineFormat,
      <<I(m.source_id), I(m.stream_id)>>, sizeDecline(m))
parseDecline(d) ==
  IF d.format # declineFormat THEN Failed
  ELSE [type |-> "decline", sink_id |-> IdOf(d, "sink"), source_id |-> IntAt(d, 1),
        stream_id |-> IntAt(d, 2)]

-----------------------------------------------------------------------------
(* Messages to a source: /aoo/src/<id>/... *)

RequestStartMessage ==
  [type : {"request_start"}, source_id : Nat, sink_id : Nat, version : Chunk]

requestStartFormat == <<"i", "s">>
sizeRequestStart(m) == 4 + TextSize(m.version.len)
sendRequestStart(m) ==
  Osc("src", m.source_id, "start", requestStartFormat,
      <<I(m.sink_id), S(m.version)>>, sizeRequestStart(m))
parseRequestStart(d) ==
  IF d.format # requestStartFormat THEN Failed
  ELSE [type |-> "request_start", source_id |-> IdOf(d, "src"),
        sink_id |-> IntAt(d, 1), version |-> TextAt(d, 2)]

StopSourceMessage ==
  [type : {"stop_source"}, source_id : Nat, sink_id : Nat, stream_id : Values]

stopSourceFormat == <<"i", "i">>
sizeStopSource(m) == 2 * 4
sendStopSource(m) ==
  Osc("src", m.source_id, "stop", stopSourceFormat,
      <<I(m.sink_id), I(m.stream_id)>>, sizeStopSource(m))
parseStopSource(d) ==
  IF d.format # stopSourceFormat THEN Failed
  ELSE [type |-> "stop_source", source_id |-> IdOf(d, "src"),
        sink_id |-> IntAt(d, 1), stream_id |-> IntAt(d, 2)]

ResendMessage ==
  [type : {"resend"}, source_id : Nat, sink_id : Nat, stream_id : Values,
   resend_items : Seq([seq : Values, frame : Values])]

\* The format is made of as many "i" as there are values; parse() takes the
\* number of items from its length.
resendItems(m) ==
  [k \in 1 .. 2 + 2 * Len(m.resend_items) |->
     IF k = 1 THEN I(m.sink_id)
     ELSE IF k = 2 THEN I(m.stream_id)
     ELSE IF k % 2 = 1 THEN I(m.resend_items[(k - 1) \div 2].seq)
     ELSE I(m.resend_items[(k - 2) \div 2].frame)]
sizeResend(m) == (2 + 2 * Len(m.resend_items)) * 4
sendResend(m) ==
  Osc("src", m.source_id, "data",
      [k \in 1 .. 2 + 2 * Len(m.resend_items) |-> "i"], resendItems(m),
      sizeResend(m))
parseResend(d) ==
  [type |-> "resend", source_id |-> IdOf(d, "src"), sink_id |-> IntAt(d, 1),
   stream_id |-> IntAt(d, 2),
   resend_items |-> [j \in 1 .. (Len(d.format) - 2) \div 2 |->
     [seq |-> IntAt(d, 2 * j + 1), frame |-> IntAt(d, 2 * j + 2)]]]

PingSourceMessage ==
  [type : {"ping_source"}, source_id : Nat, sink_id : Nat, send_time : Values]

sizePingSource(m) == 4 + 8
sendPingSource(m) ==
  Osc("src", m.source_id, "ping", pingFormat, <<I(m.sink_id), T(m.send_time)>>,
      sizePingSource(m))
parsePingSource(d) ==
  IF d.format # pingFormat THEN Failed
  ELSE [type |-> "ping_source", source_id |-> IdOf(d, "src"),
        sink_id |-> IntAt(d, 1), send_time |-> TimeAt(d, 2)]

PongSourceMessage ==
  [type : {"pong_source"}, source_id : Nat, sink_id : Nat, t1 : Values,
   t2 : Values, t3 : Values]

sizePongSource(m) == 4 + 3 * 8
sendPongSource(m) ==
  Osc("src", m.source_id, "pong", pongFormat,
      <<I(m.sink_id), T(m.t1), T(m.t2), T(m.t3)>>, sizePongSource(m))
parsePongSource(d) ==
  IF ~IsPrefix(pongFormat, d.format) THEN Failed
  ELSE [type |-> "pong_source", source_id |-> IdOf(d, "src"),
        sink_id |-> IntAt(d, 1), t1 |-> TimeAt(d, 2), t2 |-> TimeAt(d, 3),
        t3 |-> TimeAt(d, 4)]

InviteMessage ==
  [type : {"invite"}, source_id : Nat, sink_id : Nat, stream_id : Values]

inviteFormat == <<"i", "i", "N", "N">>
sizeInvite(m) == 2 * 4
sendInvite(m) ==
  Osc("src", m.source_id, "invite", inviteFormat,
      <<I(m.sink_id), I(m.stream_id)>>, sizeInvite(m))
parseInvite(d) ==
  IF d.format # inviteFormat THEN Failed
  ELSE [type |-> "invite", source_id |-> IdOf(d, "src"), sink_id |-> IntAt(d, 1),
        stream_id |-> IntAt(d, 2)]

UninviteMessage ==
  [type : {"uninvite"}, source_id : Nat, sink_id : Nat, stream_id : Values]

uninviteFormat == <<"i", "i">>
sizeUninvite(m) == 2 * 4
sendUninvite(m) ==
  Osc("src", m.source_id, "uninvite", uninviteFormat,
      <<I(m.sink_id), I(m.stream_id)>>, sizeUninvite(m))
parseUninvite(d) ==
  IF d.format # uninviteFormat THEN Failed
  ELSE [type |-> "uninvite", source_id |-> IdOf(d, "src"), sink_id |-> IntAt(d, 1),
        stream_id |-> IntAt(d, 2)]


-----------------------------------------------------------------------------
(* A message of another version, with a format that is not known here *)

OtherVersion == [type : {"other"}, source_id : Nat, sink_id : Nat,
                 verb : {"start", "stop", "data", "ping", "pong", "decline"}]

sendOther(m) == Osc("sink", m.sink_id, m.verb, <<"other">>, <<>>, 0)

-----------------------------------------------------------------------------
(* Audio data in the binary format of the official library, only read here *)

\* Every flag but the last adds a part to the message, and the audio follows.
BinDataFlags == {"Frames", "StreamMessage", "SampleRate", "TimeStamp", "XRun"}

NoAudio == [content |-> 0, len |-> 0]

\* Without a flag its values are the usual ones.  The transport may deliver only
\* the first bytes: arrived of them.
BinaryMessage ==
  {m \in [type : {"binary"}, source_id : Nat, sink_id : Nat, stream_id : Values,
          seq_no : Values, timestamp : Values, real_sample_rate : Values,
          channel_onset : Values, total_size : Nat, total_number_of_frames : Nat,
          frame_idx : Nat, audio_data : Chunk, flags : SUBSET BinDataFlags,
          arrived : Nat] :
     /\ "Frames" \notin m.flags
          => /\ m.total_size = m.audio_data.len
             /\ m.total_number_of_frames = 1 /\ m.frame_idx = 0
     /\ "SampleRate" \notin m.flags => m.real_sample_rate = 0
     /\ "TimeStamp" \notin m.flags => m.timestamp = 0
     /\ "XRun" \in m.flags => m.audio_data = NoAudio}

Room(flags, flag, width) == IF flag \in flags THEN width ELSE 0

\* Where the official library writes the parts of a message
Layout(m) ==
  LET header == IF m.source_id > 255 \/ m.sink_id > 255 THEN 12 ELSE 4
      frames == header + 12
      message == frames + Room(m.flags, "Frames", 8)
      rate == message + Room(m.flags, "StreamMessage", 4)
      stamp == rate + Room(m.flags, "SampleRate", 8)
      audio == stamp + Room(m.flags, "TimeStamp", 8)
  IN  [header |-> header, frames |-> frames, rate |-> rate, stamp |-> stamp,
       audio |-> audio, end |-> audio + m.audio_data.len]

Complete(m) == m.type = "binary" => m.arrived >= Layout(m).end

sendBinary(m) ==
  [end |-> "binary", verb |-> "data", large |-> Layout(m).header = 12,
   len |-> m.arrived, at |-> Layout(m), message |-> m]

\* if (remaining < width) return false; what is left cannot be negative.
Missing_Unchecked(d, asked, p, width) == FALSE
Missing(d, asked, p, width) == asked /\ p <= d.len /\ d.len < p + width

\* The value that the encoder wrote to a part, for a decoder that looks for it at p
Part(d, part, p, width, value) ==
  IF p = d.at[part] /\ p + width <= d.len THEN value ELSE Garbled

aoo_parse_bin_data(d) ==
  LET m == d.message
      flags == m.flags
      p1 == (IF d.large THEN 12 ELSE 4) + 12
      p2 == p1 + Room(flags, "Frames", 8)
      p3 == p2 + Room(flags, "StreamMessage", 4)
      p4 == p3 + Room(flags, "SampleRate", 8)
      p5 == p4 + Room(flags, "TimeStamp", 8)
      data_size == m.audio_data.len
      Frames(value) == Part(d, "frames", p1, 8, value)
  IN  IF \/ d.len < p1
         \/ Missing(d, "Frames" \in flags, p1, 8)
         \/ Missing(d, "StreamMessage" \in flags, p2, 4)
         \/ Missing(d, "SampleRate" \in flags, p3, 8)
         \/ Missing(d, "TimeStamp" \in flags, p4, 8)
         \/ Missing(d, "XRun" \notin flags, p5, data_size)
      THEN Failed
      ELSE [type |-> "data", sink_id |-> m.sink_id, source_id |-> m.source_id,
            stream_id |-> m.stream_id, seq_no |-> m.seq_no,
            channel_onset |-> m.channel_onset,
            total_size |-> IF "Frames" \in flags THEN Frames(m.total_size)
                           ELSE data_size,
            total_number_of_frames |->
              IF "Frames" \in flags THEN Frames(m.total_number_of_frames) ELSE 1,
            frame_idx |-> IF "Frames" \in flags THEN Frames(m.frame_idx) ELSE 0,
            real_sample_rate |->
              IF "SampleRate" \in flags
              THEN Part(d, "rate", p3, 8, m.real_sample_rate) ELSE 0,
            timestamp |-> IF "TimeStamp" \in flags
                          THEN Part(d, "stamp", p4, 8, m.timestamp) ELSE 0,
            audio_data |-> IF "XRun" \in flags THEN NoAudio
                           ELSE Part(d, "audio", p5, data_size, m.audio_data)]

-----------------------------------------------------------------------------
(* All messages *)

SinkMessage ==
  StartMessage \union StopSinkMessage \union DataMessage \union PingSinkMessage
    \union PongSinkMessage \union DeclineMessage
SourceMessage ==
  RequestStartMessage \union StopSourceMessage \union ResendMessage
    \union PingSourceMessage \union PongSourceMessage \union InviteMessage
    \union UninviteMessage
Message == SinkMessage \union SourceMessage \union OtherVersion \union BinaryMessage

ASSUME FailedAssumption == Failed \notin Message

send(m) ==
  CASE m.type = "start" -> sendStart(m)
    [] m.type = "stop" -> sendStopSink(m)
    [] m.type = "data" -> sendData(m)
    [] m.type = "ping" -> sendPingSink(m)
    [] m.type = "pong" -> sendPongSink(m)
    [] m.type = "decline" -> sendDecline(m)
    [] m.type = "request_start" -> sendRequestStart(m)
    [] m.type = "stop_source" -> sendStopSource(m)
    [] m.type = "resend" -> sendResend(m)
    [] m.type = "ping_source" -> sendPingSource(m)
    [] m.type = "pong_source" -> sendPongSource(m)
    [] m.type = "invite" -> sendInvite(m)
    [] m.type = "uninvite" -> sendUninvite(m)
    [] m.type = "other" -> sendOther(m)
    [] m.type = "binary" -> sendBinary(m)

\* What a handler should make of a message
Meaning(m) ==
  IF m.type = "binary"
  THEN [type |-> "data", source_id |-> m.source_id, sink_id |-> m.sink_id,
        stream_id |-> m.stream_id, seq_no |-> m.seq_no, timestamp |-> m.timestamp,
        real_sample_rate |-> m.real_sample_rate, channel_onset |-> m.channel_onset,
        total_size |-> m.total_size,
        total_number_of_frames |-> m.total_number_of_frames,
        frame_idx |-> m.frame_idx, audio_data |-> m.audio_data]
  ELSE m

Understood(m, parsed) ==
  \/ parsed = Meaning(m)
  \/ parsed = Failed /\ (m.type = "other" \/ ~Complete(m))
=============================================================================
