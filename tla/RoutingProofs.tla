--------------------------- MODULE RoutingProofs ----------------------------
(* What is read is what was sent, and ids and addresses of the receiver for  *)
(* any messages, streams, ids and addresses.                                 *)
EXTENDS Routing, SequenceTheorems, FiniteSetTheorems, WellFoundedInduction, TLAPS

-----------------------------------------------------------------------------
(* parse() of a message reads what send() has written. *)

LEMMA StartRead ==
  ASSUME NEW m \in StartMessage
  PROVE  /\ send(m).end = "sink" /\ send(m).id = m.sink_id /\ send(m).verb = "start"
         /\ ReadBySink(send(m)) = m
<1>1. send(m) = sendStart(m)
  BY DEF StartMessage, send
<1>2. m = [type |-> "start", sink_id |-> m.sink_id, source_id |-> m.source_id,
      version |-> m.version, stream_id |-> m.stream_id, sequence_number_start
      |-> m.sequence_number_start, format_id |-> m.format_id, channels |->
      m.channels, sample_rate |-> m.sample_rate, block_size |-> m.block_size,
      codec |-> m.codec, codec_extension |-> m.codec_extension, start_time |->
      m.start_time, reblock_resample_latency_samples |->
      m.reblock_resample_latency_samples, codec_delay_samples |->
      m.codec_delay_samples, sample_offset |-> m.sample_offset]
  BY DEF StartMessage
<1>3. send(m).end = "sink" /\ send(m).id = m.sink_id /\ send(m).verb = "start"
  BY <1>1 DEF sendStart, Osc
<1>4. ReadBySink(send(m)) = parseStart(send(m))
  BY <1>3 DEF ReadBySink
<1>5. parseStart(send(m)) = m
  BY <1>1, <1>2 DEF sendStart, parseStart, Osc, startFormat, IdOf, IntAt,
        TextAt, BytesAt, TimeAt, Read, I, S, B, T
<1> QED  BY <1>3, <1>4, <1>5

LEMMA StopSinkRead ==
  ASSUME NEW m \in StopSinkMessage
  PROVE  /\ send(m).end = "sink" /\ send(m).id = m.sink_id /\ send(m).verb = "stop"
         /\ ReadBySink(send(m)) = m
<1>1. send(m) = sendStopSink(m)
  BY DEF StopSinkMessage, send
<1>2. m = [type |-> "stop", sink_id |-> m.sink_id, source_id |-> m.source_id,
      stream_id |-> m.stream_id, last_seq |-> m.last_seq, sample_offset |->
      m.sample_offset]
  BY DEF StopSinkMessage
<1>3. send(m).end = "sink" /\ send(m).id = m.sink_id /\ send(m).verb = "stop"
  BY <1>1 DEF sendStopSink, Osc
<1>4. ReadBySink(send(m)) = parseStopSink(send(m))
  BY <1>3 DEF ReadBySink
<1>5. parseStopSink(send(m)) = m
  BY <1>1, <1>2 DEF sendStopSink, parseStopSink, Osc, stopSinkFormat, IdOf,
        IntAt, Read, I
<1> QED  BY <1>3, <1>4, <1>5

LEMMA DataRead ==
  ASSUME NEW m \in DataMessage
  PROVE  /\ send(m).end = "sink" /\ send(m).id = m.sink_id /\ send(m).verb = "data"
         /\ ReadBySink(send(m)) = m
<1>1. send(m) = sendData(m)
  BY DEF DataMessage, send
<1>2. m = [type |-> "data", sink_id |-> m.sink_id, source_id |-> m.source_id,
      stream_id |-> m.stream_id, seq_no |-> m.seq_no, timestamp |-> m.timestamp,
      real_sample_rate |-> m.real_sample_rate, channel_onset |->
      m.channel_onset, total_size |-> m.total_size, total_number_of_frames |->
      m.total_number_of_frames, frame_idx |-> m.frame_idx, audio_data |->
      m.audio_data]
  BY DEF DataMessage
<1>3. send(m).end = "sink" /\ send(m).id = m.sink_id /\ send(m).verb = "data"
  BY <1>1 DEF sendData, Osc
<1>4. ReadBySink(send(m)) = parseData(send(m))
  BY <1>3 DEF ReadBySink
<1>5. parseData(send(m)) = m
  BY <1>1, <1>2 DEF sendData, parseData, Osc, dataFormat, IdOf, IntAt, TimeAt,
        DoubleAt, BytesAt, Read, I, T, D, B
<1> QED  BY <1>3, <1>4, <1>5

LEMMA PingSinkRead ==
  ASSUME NEW m \in PingSinkMessage
  PROVE  /\ send(m).end = "sink" /\ send(m).id = m.sink_id /\ send(m).verb = "ping"
         /\ ReadBySink(send(m)) = m
<1>1. send(m) = sendPingSink(m)
  BY DEF PingSinkMessage, send
<1>2. m = [type |-> "ping", sink_id |-> m.sink_id, source_id |-> m.source_id,
      send_time |-> m.send_time]
  BY DEF PingSinkMessage
<1>3. send(m).end = "sink" /\ send(m).id = m.sink_id /\ send(m).verb = "ping"
  BY <1>1 DEF sendPingSink, Osc
<1>4. ReadBySink(send(m)) = parsePingSink(send(m))
  BY <1>3 DEF ReadBySink
<1>5. parsePingSink(send(m)) = m
  BY <1>1, <1>2 DEF sendPingSink, parsePingSink, Osc, pingFormat, IdOf, IntAt,
        TimeAt, Read, I, T
<1> QED  BY <1>3, <1>4, <1>5

LEMMA PongSinkRead ==
  ASSUME NEW m \in PongSinkMessage
  PROVE  /\ send(m).end = "sink" /\ send(m).id = m.sink_id /\ send(m).verb = "pong"
         /\ ReadBySink(send(m)) = m
<1>1. send(m) = sendPongSink(m)
  BY DEF PongSinkMessage, send
<1>2. m = [type |-> "pong", sink_id |-> m.sink_id, source_id |-> m.source_id, t1
      |-> m.t1, t2 |-> m.t2, t3 |-> m.t3]
  BY DEF PongSinkMessage
<1>3. send(m).end = "sink" /\ send(m).id = m.sink_id /\ send(m).verb = "pong"
  BY <1>1 DEF sendPongSink, Osc
<1>4. ReadBySink(send(m)) = parsePongSink(send(m))
  BY <1>3 DEF ReadBySink
<1>5. parsePongSink(send(m)) = m
  BY <1>1, <1>2 DEF sendPongSink, parsePongSink, Osc, pongFormat, IdOf, IntAt,
        TimeAt, Read, I, T, IsPrefix
<1> QED  BY <1>3, <1>4, <1>5

LEMMA DeclineRead ==
  ASSUME NEW m \in DeclineMessage
  PROVE  /\ send(m).end = "sink" /\ send(m).id = m.sink_id /\ send(m).verb = "decline"
         /\ ReadBySink(send(m)) = m
<1>1. send(m) = sendDecline(m)
  BY DEF DeclineMessage, send
<1>2. m = [type |-> "decline", sink_id |-> m.sink_id, source_id |-> m.source_id,
      stream_id |-> m.stream_id]
  BY DEF DeclineMessage
<1>3. send(m).end = "sink" /\ send(m).id = m.sink_id /\ send(m).verb = "decline"
  BY <1>1 DEF sendDecline, Osc
<1>4. ReadBySink(send(m)) = parseDecline(send(m))
  BY <1>3 DEF ReadBySink
<1>5. parseDecline(send(m)) = m
  BY <1>1, <1>2 DEF sendDecline, parseDecline, Osc, declineFormat, IdOf, IntAt,
        Read, I
<1> QED  BY <1>3, <1>4, <1>5

LEMMA RequestStartRead ==
  ASSUME NEW m \in RequestStartMessage
  PROVE  /\ send(m).end = "src" /\ send(m).id = m.source_id /\ send(m).verb = "start"
         /\ ReadBySource(send(m)) = m
<1>1. send(m) = sendRequestStart(m)
  BY DEF RequestStartMessage, send
<1>2. m = [type |-> "request_start", source_id |-> m.source_id, sink_id |->
      m.sink_id, version |-> m.version]
  BY DEF RequestStartMessage
<1>3. send(m).end = "src" /\ send(m).id = m.source_id /\ send(m).verb = "start"
  BY <1>1 DEF sendRequestStart, Osc
<1>4. ReadBySource(send(m)) = parseRequestStart(send(m))
  BY <1>3 DEF ReadBySource
<1>5. parseRequestStart(send(m)) = m
  BY <1>1, <1>2 DEF sendRequestStart, parseRequestStart, Osc,
        requestStartFormat, IdOf, IntAt, TextAt, Read, I, S
<1> QED  BY <1>3, <1>4, <1>5

LEMMA StopSourceRead ==
  ASSUME NEW m \in StopSourceMessage
  PROVE  /\ send(m).end = "src" /\ send(m).id = m.source_id /\ send(m).verb = "stop"
         /\ ReadBySource(send(m)) = m
<1>1. send(m) = sendStopSource(m)
  BY DEF StopSourceMessage, send
<1>2. m = [type |-> "stop_source", source_id |-> m.source_id, sink_id |->
      m.sink_id, stream_id |-> m.stream_id]
  BY DEF StopSourceMessage
<1>3. send(m).end = "src" /\ send(m).id = m.source_id /\ send(m).verb = "stop"
  BY <1>1 DEF sendStopSource, Osc
<1>4. ReadBySource(send(m)) = parseStopSource(send(m))
  BY <1>3 DEF ReadBySource
<1>5. parseStopSource(send(m)) = m
  BY <1>1, <1>2 DEF sendStopSource, parseStopSource, Osc, stopSourceFormat,
        IdOf, IntAt, Read, I
<1> QED  BY <1>3, <1>4, <1>5

LEMMA PingSourceRead ==
  ASSUME NEW m \in PingSourceMessage
  PROVE  /\ send(m).end = "src" /\ send(m).id = m.source_id /\ send(m).verb = "ping"
         /\ ReadBySource(send(m)) = m
<1>1. send(m) = sendPingSource(m)
  BY DEF PingSourceMessage, send
<1>2. m = [type |-> "ping_source", source_id |-> m.source_id, sink_id |->
      m.sink_id, send_time |-> m.send_time]
  BY DEF PingSourceMessage
<1>3. send(m).end = "src" /\ send(m).id = m.source_id /\ send(m).verb = "ping"
  BY <1>1 DEF sendPingSource, Osc
<1>4. ReadBySource(send(m)) = parsePingSource(send(m))
  BY <1>3 DEF ReadBySource
<1>5. parsePingSource(send(m)) = m
  BY <1>1, <1>2 DEF sendPingSource, parsePingSource, Osc, pingFormat, IdOf,
        IntAt, TimeAt, Read, I, T
<1> QED  BY <1>3, <1>4, <1>5

LEMMA PongSourceRead ==
  ASSUME NEW m \in PongSourceMessage
  PROVE  /\ send(m).end = "src" /\ send(m).id = m.source_id /\ send(m).verb = "pong"
         /\ ReadBySource(send(m)) = m
<1>1. send(m) = sendPongSource(m)
  BY DEF PongSourceMessage, send
<1>2. m = [type |-> "pong_source", source_id |-> m.source_id, sink_id |->
      m.sink_id, t1 |-> m.t1, t2 |-> m.t2, t3 |-> m.t3]
  BY DEF PongSourceMessage
<1>3. send(m).end = "src" /\ send(m).id = m.source_id /\ send(m).verb = "pong"
  BY <1>1 DEF sendPongSource, Osc
<1>4. ReadBySource(send(m)) = parsePongSource(send(m))
  BY <1>3 DEF ReadBySource
<1>5. parsePongSource(send(m)) = m
  BY <1>1, <1>2 DEF sendPongSource, parsePongSource, Osc, pongFormat, IdOf,
        IntAt, TimeAt, Read, I, T, IsPrefix
<1> QED  BY <1>3, <1>4, <1>5

LEMMA InviteRead ==
  ASSUME NEW m \in InviteMessage
  PROVE  /\ send(m).end = "src" /\ send(m).id = m.source_id /\ send(m).verb = "invite"
         /\ ReadBySource(send(m)) = m
<1>1. send(m) = sendInvite(m)
  BY DEF InviteMessage, send
<1>2. m = [type |-> "invite", source_id |-> m.source_id, sink_id |-> m.sink_id,
      stream_id |-> m.stream_id]
  BY DEF InviteMessage
<1>3. send(m).end = "src" /\ send(m).id = m.source_id /\ send(m).verb = "invite"
  BY <1>1 DEF sendInvite, Osc
<1>4. ReadBySource(send(m)) = parseInvite(send(m))
  BY <1>3 DEF ReadBySource
<1>5. parseInvite(send(m)) = m
  BY <1>1, <1>2 DEF sendInvite, parseInvite, Osc, inviteFormat, IdOf, IntAt,
        Read, I
<1> QED  BY <1>3, <1>4, <1>5

LEMMA UninviteRead ==
  ASSUME NEW m \in UninviteMessage
  PROVE  /\ send(m).end = "src" /\ send(m).id = m.source_id /\ send(m).verb = "uninvite"
         /\ ReadBySource(send(m)) = m
<1>1. send(m) = sendUninvite(m)
  BY DEF UninviteMessage, send
<1>2. m = [type |-> "uninvite", source_id |-> m.source_id, sink_id |->
      m.sink_id, stream_id |-> m.stream_id]
  BY DEF UninviteMessage
<1>3. send(m).end = "src" /\ send(m).id = m.source_id /\ send(m).verb = "uninvite"
  BY <1>1 DEF sendUninvite, Osc
<1>4. ReadBySource(send(m)) = parseUninvite(send(m))
  BY <1>3 DEF ReadBySource
<1>5. parseUninvite(send(m)) = m
  BY <1>1, <1>2 DEF sendUninvite, parseUninvite, Osc, uninviteFormat, IdOf,
        IntAt, Read, I
<1> QED  BY <1>3, <1>4, <1>5

LEMMA ResendRead ==
  ASSUME NEW m \in ResendMessage
  PROVE  /\ send(m).end = "src" /\ send(m).id = m.source_id /\ send(m).verb = "data"
         /\ ReadBySource(send(m)) = m
<1> DEFINE items == m.resend_items
           n == Len(items)
           values == resendItems(m)
<1>1. send(m) = sendResend(m)
  BY DEF ResendMessage, send
<1>2. /\ n \in Nat /\ items \in Seq([seq : Values, frame : Values])
      /\ items = [j \in 1 .. n |-> items[j]]
      /\ \A j \in 1 .. n : items[j] = [seq |-> items[j].seq, frame |-> items[j].frame]
  <2>1. items \in Seq([seq : Values, frame : Values])
    BY DEF ResendMessage
  <2>2. n \in Nat /\ items \in [1 .. n -> [seq : Values, frame : Values]]
    BY <2>1, LenProperties
  <2>3. \A item \in [seq : Values, frame : Values] :
          item = [seq |-> item.seq, frame |-> item.frame]
    OBVIOUS
  <2> QED  BY <2>1, <2>2, <2>3
<1>3. m = [type |-> "resend", source_id |-> m.source_id, sink_id |-> m.sink_id,
           stream_id |-> m.stream_id, resend_items |-> items]
  BY DEF ResendMessage
<1>4. /\ send(m).end = "src" /\ send(m).id = m.source_id /\ send(m).verb = "data"
      /\ send(m).items = values
      /\ send(m).format = [k \in 1 .. 2 + 2 * n |-> "i"]
  BY <1>1 DEF sendResend, Osc
<1>5. (Len(send(m).format) - 2) \div 2 = n
  <2>1. Len(send(m).format) = 2 + 2 * n
    BY <1>2, <1>4
  <2> HIDE DEF n
  <2> QED  BY <1>2, <2>1
<1>6. DOMAIN values = 1 .. 2 + 2 * n /\ values[1] = I(m.sink_id) /\ values[2] = I(m.stream_id)
  BY <1>2 DEF resendItems
<1>7. ASSUME NEW j \in 1 .. n
      PROVE  /\ values[2 * j + 1] = I(items[j].seq)
             /\ values[2 * j + 2] = I(items[j].frame)
             /\ 2 * j + 1 \in 1 .. 2 + 2 * n /\ 2 * j + 2 \in 1 .. 2 + 2 * n
  <2> HIDE DEF n
  <2>1. n \in Nat /\ j \in Nat /\ 1 <= j /\ j <= n
    BY <1>2
  <2>2. /\ 2 * j + 1 \in 1 .. 2 + 2 * n /\ 2 * j + 2 \in 1 .. 2 + 2 * n
        /\ 2 * j + 1 # 1 /\ 2 * j + 1 # 2 /\ 2 * j + 2 # 1 /\ 2 * j + 2 # 2
    BY <2>1
  <2>3. (2 * j + 1) % 2 = 1 /\ (2 * j + 2) % 2 = 0
    BY <2>1
  <2>4. (2 * j + 1 - 1) \div 2 = j /\ (2 * j + 2 - 2) \div 2 = j
    BY <2>1
  <2> QED  BY <2>2, <2>3, <2>4 DEF resendItems, n
<1>8. IntAt(send(m), 1) = m.sink_id /\ IntAt(send(m), 2) = m.stream_id
  BY <1>2, <1>4, <1>6 DEF IntAt, Read, I
<1>9. \A j \in 1 .. n : /\ IntAt(send(m), 2 * j + 1) = items[j].seq
                        /\ IntAt(send(m), 2 * j + 2) = items[j].frame
  <2> SUFFICES ASSUME NEW j \in 1 .. n
               PROVE  /\ IntAt(send(m), 2 * j + 1) = items[j].seq
                      /\ IntAt(send(m), 2 * j + 2) = items[j].frame
    OBVIOUS
  <2> DEFINE a == 2 * j + 1
             b == 2 * j + 2
  <2>1. /\ values[a] = I(items[j].seq) /\ values[b] = I(items[j].frame)
        /\ a \in DOMAIN values /\ b \in DOMAIN values
    BY <1>6, <1>7
  <2> HIDE DEF a, b, values, items
  <2>2. IntAt(send(m), a) = items[j].seq /\ IntAt(send(m), b) = items[j].frame
    BY <1>4, <2>1 DEF IntAt, Read, I
  <2> QED  BY <2>2 DEF a, b
<1>10. parseResend(send(m)) = m
  <2>1. [j \in 1 .. (Len(send(m).format) - 2) \div 2 |->
           [seq |-> IntAt(send(m), 2 * j + 1), frame |-> IntAt(send(m), 2 * j + 2)]]
        = items
    BY <1>2, <1>5, <1>9
  <2> QED  BY <1>3, <1>4, <1>8, <2>1 DEF parseResend, IdOf
<1>11. ReadBySource(send(m)) = parseResend(send(m))
  BY <1>4 DEF ReadBySource
<1> QED  BY <1>4, <1>10, <1>11

LEMMA BinaryRead ==
  ASSUME NEW m \in BinaryMessage
  PROVE  /\ send(m).end = "binary" /\ send(m).verb = "data"
         /\ ReadBySink(send(m)) = IF Complete(m) THEN Meaning(m) ELSE Failed
<1> DEFINE d == send(m)
           flags == m.flags
           header == IF m.source_id > 255 \/ m.sink_id > 255 THEN 12 ELSE 4
           p1 == header + 12
           p2 == p1 + Room(flags, "Frames", 8)
           p3 == p2 + Room(flags, "StreamMessage", 4)
           p4 == p3 + Room(flags, "SampleRate", 8)
           p5 == p4 + Room(flags, "TimeStamp", 8)
           len == m.audio_data.len
<1>1. d = sendBinary(m)
  BY DEF BinaryMessage, send
<1>2. d.end = "binary" /\ d.verb = "data" /\ d.len = m.arrived /\ d.message = m
  BY <1>1 DEF sendBinary
<1>3. /\ d.at.header = header /\ d.at.frames = p1 /\ d.at.rate = p3 /\ d.at.stamp = p4
      /\ d.at.audio = p5 /\ Layout(m).end = p5 + len /\ d.large = (header = 12)
  BY <1>1 DEF sendBinary, Layout
<1>4. /\ m.arrived \in Nat /\ len \in Nat /\ m.type = "binary"
      /\ header \in {4, 12}
      /\ "XRun" \in flags => m.audio_data = NoAudio
  BY DEF BinaryMessage, Chunk
<1>5. /\ "Frames" \notin flags
           => m.total_size = len /\ m.total_number_of_frames = 1 /\ m.frame_idx = 0
      /\ "SampleRate" \notin flags => m.real_sample_rate = 0
      /\ "TimeStamp" \notin flags => m.timestamp = 0
  BY DEF BinaryMessage
<1>6. (IF d.large THEN 12 ELSE 4) + 12 = p1
  BY <1>3, <1>4
<1>7. /\ p1 \in Nat /\ p2 \in Nat /\ p3 \in Nat /\ p4 \in Nat /\ p5 \in Nat
      /\ p1 <= p2 /\ p2 <= p3 /\ p3 <= p4 /\ p4 <= p5
      /\ "Frames" \in flags => p2 = p1 + 8
      /\ "StreamMessage" \in flags => p3 = p2 + 4
      /\ "SampleRate" \in flags => p4 = p3 + 8
      /\ "TimeStamp" \in flags => p5 = p4 + 8
      /\ "Frames" \notin flags => p2 = p1
      /\ "StreamMessage" \notin flags => p3 = p2
      /\ "SampleRate" \notin flags => p4 = p3
      /\ "TimeStamp" \notin flags => p5 = p4
      /\ "XRun" \in flags => len = 0
  BY <1>4 DEF Room, NoAudio
<1>8. Complete(m) <=> m.arrived >= p5 + len
  BY <1>3, <1>4 DEF Complete
<1>9. ReadBySink(d) = aoo_parse_bin_data(d)
  BY <1>2 DEF ReadBySink
<1> DEFINE short == \/ d.len < p1
                    \/ Missing(d, "Frames" \in flags, p1, 8)
                    \/ Missing(d, "StreamMessage" \in flags, p2, 4)
                    \/ Missing(d, "SampleRate" \in flags, p3, 8)
                    \/ Missing(d, "TimeStamp" \in flags, p4, 8)
                    \/ Missing(d, "XRun" \notin flags, p5, len)
<1> HIDE DEF p1, p2, p3, p4, p5, header, len, flags
<1>10. short <=> ~Complete(m)
  BY <1>2, <1>4, <1>7, <1>8 DEF Missing
<1>11. ASSUME Complete(m)
       PROVE  \A value :
                /\ "Frames" \in flags => Part(d, "frames", p1, 8, value) = value
                /\ "SampleRate" \in flags => Part(d, "rate", p3, 8, value) = value
                /\ "TimeStamp" \in flags => Part(d, "stamp", p4, 8, value) = value
                /\ Part(d, "audio", p5, len, value) = value
  BY <1>2, <1>3, <1>4, <1>7, <1>8, <1>11 DEF Part
<1>12. ASSUME ~Complete(m) PROVE aoo_parse_bin_data(d) = Failed
  BY <1>2, <1>6, <1>10, <1>12 DEF aoo_parse_bin_data, p1, p2, p3, p4, p5, len, flags
<1>13. ASSUME Complete(m) PROVE aoo_parse_bin_data(d) = Meaning(m)
  <2>1. ~short
    BY <1>10, <1>13
  <2> QED  BY <1>2, <1>4, <1>5, <1>6, <1>11, <1>13, <2>1
           DEF aoo_parse_bin_data, Meaning, p2, p3, p4, p5, len, flags
<1> QED  BY <1>2, <1>9, <1>12, <1>13

LEMMA OtherRead ==
  ASSUME NEW m \in OtherVersion
  PROVE  /\ send(m).end = "sink" /\ send(m).id = m.sink_id
         /\ ReadBySink(send(m)) = Failed
<1>1. send(m) = sendOther(m)
  BY DEF OtherVersion, send
<1>2. /\ send(m).end = "sink" /\ send(m).id = m.sink_id /\ send(m).format = <<"other">>
      /\ send(m).verb \in {"start", "stop", "data", "ping", "pong", "decline"}
  BY <1>1 DEF sendOther, Osc, OtherVersion
<1>3. Len(<<"other">>) = 1 /\ Len(pongFormat) = 4
  BY DEF pongFormat
<1>4. ~IsPrefix(pongFormat, <<"other">>)
  BY <1>3 DEF IsPrefix
<1>5. /\ <<"other">> # startFormat /\ <<"other">> # stopSinkFormat
      /\ <<"other">> # dataFormat /\ <<"other">> # pingFormat
      /\ <<"other">> # declineFormat
  BY DEF startFormat, stopSinkFormat, dataFormat, pingFormat, declineFormat
<1> QED
  BY <1>2, <1>4, <1>5 DEF ReadBySink, parseStart, parseStopSink, parseData,
     parsePingSink, parsePongSink, parseDecline

LEMMA TypesOfMessages ==
  ASSUME NEW m \in Message
  PROVE  /\ m.sink_id \in Nat /\ m.source_id \in Nat
         /\ m.type = "start" => m \in StartMessage
         /\ m.type = "stop" => m \in StopSinkMessage
         /\ m.type = "data" => m \in DataMessage
         /\ m.type = "ping" => m \in PingSinkMessage
         /\ m.type = "binary" => m \in BinaryMessage
         /\ m.type # "binary" => Complete(m) /\ Meaning(m) = m
<1>1. CASE m \in BinaryMessage
  BY <1>1 DEF BinaryMessage
<1>2. CASE m \in SinkMessage
  BY <1>2 DEF SinkMessage, StartMessage, StopSinkMessage, DataMessage, PingSinkMessage,
     PongSinkMessage, DeclineMessage, Complete, Meaning
<1>3. CASE m \in SourceMessage
  BY <1>3 DEF SourceMessage, RequestStartMessage, StopSourceMessage, ResendMessage,
     PingSourceMessage, PongSourceMessage, InviteMessage, UninviteMessage, Complete,
     Meaning
<1>4. CASE m \in OtherVersion
  BY <1>4 DEF OtherVersion, Complete, Meaning
<1> QED  BY <1>1, <1>2, <1>3, <1>4 DEF Message

LEMMA SinkRead ==
  ASSUME NEW m \in SinkMessage
  PROVE  /\ send(m).end = "sink" /\ send(m).id = m.sink_id /\ send(m).verb = m.type
         /\ ReadBySink(send(m)) = m
         /\ m.type \notin {"binary", "other"}
<1>1. CASE m \in StartMessage
  BY <1>1, StartRead DEF StartMessage
<1>2. CASE m \in StopSinkMessage
  BY <1>2, StopSinkRead DEF StopSinkMessage
<1>3. CASE m \in DataMessage
  BY <1>3, DataRead DEF DataMessage
<1>4. CASE m \in PingSinkMessage
  BY <1>4, PingSinkRead DEF PingSinkMessage
<1>5. CASE m \in PongSinkMessage
  BY <1>5, PongSinkRead DEF PongSinkMessage
<1>6. CASE m \in DeclineMessage
  BY <1>6, DeclineRead DEF DeclineMessage
<1> QED  BY <1>1, <1>2, <1>3, <1>4, <1>5, <1>6 DEF SinkMessage

LEMMA SourceRead ==
  ASSUME NEW m \in SourceMessage
  PROVE  /\ send(m).end = "src" /\ ReadBySource(send(m)) = m
         /\ m.type \notin {"binary", "other"}
<1>1. CASE m \in RequestStartMessage
  BY <1>1, RequestStartRead DEF RequestStartMessage
<1>2. CASE m \in StopSourceMessage
  BY <1>2, StopSourceRead DEF StopSourceMessage
<1>3. CASE m \in ResendMessage
  BY <1>3, ResendRead DEF ResendMessage
<1>4. CASE m \in PingSourceMessage
  BY <1>4, PingSourceRead DEF PingSourceMessage
<1>5. CASE m \in PongSourceMessage
  BY <1>5, PongSourceRead DEF PongSourceMessage
<1>6. CASE m \in InviteMessage
  BY <1>6, InviteRead DEF InviteMessage
<1>7. CASE m \in UninviteMessage
  BY <1>7, UninviteRead DEF UninviteMessage
<1> QED  BY <1>1, <1>2, <1>3, <1>4, <1>5, <1>6, <1>7 DEF SourceMessage

LEMMA BinaryMeaning ==
  ASSUME NEW m \in BinaryMessage
  PROVE  /\ Meaning(m) \in DataMessage /\ Meaning(m) # Failed
         /\ Meaning(m).sink_id = m.sink_id /\ Meaning(m).source_id = m.source_id
         /\ Meaning(m).stream_id = m.stream_id /\ m.type = "binary"
<1>1. Meaning(m) \in DataMessage
  BY DEF BinaryMessage, Meaning, DataMessage
<1>2. Meaning(m) # Failed
  BY <1>1, FailedAssumption DEF Message, SinkMessage
<1> QED  BY <1>1, <1>2 DEF BinaryMessage, Meaning

\* What a sink is told by a message.
LEMMA Arrives ==
  ASSUME NEW m \in Messages
  PROVE  /\ m \in SourceMessage
              => Arrival[m].read = Failed /\ Arrival[m].id = -1
         /\ m \notin SourceMessage /\ Complete(m) => Arrival[m].id = m.sink_id
         /\ m \notin SourceMessage => Understood(m, Arrival[m].read)
         /\ Arrival[m].id \in {-1, m.sink_id}
         /\ Arrival[m].read # Failed
              => /\ Arrival[m].read = Meaning(m)
                 /\ Arrival[m].verb = IF m.type = "binary" THEN "data" ELSE m.type
<1>1. m \in Message
  BY MessagesAssumption
<1>2. /\ Arrival[m].read = ReadBySink(send(m))
      /\ Arrival[m].id = SinkOf(send(m))
      /\ Arrival[m].verb = send(m).verb
  BY DEF Arrival
<1>3. CASE m \in SinkMessage
  <2>1. m.type \notin {"binary", "other"} /\ Meaning(m) = m
    BY <1>1, <1>3, SinkRead, TypesOfMessages
  <2>2. SinkOf(send(m)) = m.sink_id
    BY <1>3, SinkRead DEF SinkOf
  <2>3. m \notin SourceMessage
    BY <1>3, SinkRead, SourceRead
  <2> QED  BY <1>2, <1>3, <2>1, <2>2, <2>3, SinkRead DEF Understood
<1>4. CASE m \in SourceMessage
  <2>1. ReadBySink(send(m)) = Failed /\ SinkOf(send(m)) = -1
    BY <1>4, SourceRead DEF ReadBySink, SinkOf
  <2> QED  BY <1>2, <1>4, <2>1
<1>5. CASE m \in OtherVersion
  <2>1. SinkOf(send(m)) = m.sink_id /\ m.type = "other"
    BY <1>5, OtherRead DEF SinkOf, OtherVersion
  <2>2. m \notin SourceMessage
    BY <2>1, SourceRead
  <2> QED  BY <1>2, <1>5, <2>1, <2>2, OtherRead DEF Understood
<1>6. CASE m \in BinaryMessage
  <2>1. m.type = "binary" /\ m \notin SourceMessage
    BY <1>6, BinaryMeaning, SourceRead
  <2>2. CASE Complete(m)
    <3>1. ReadBySink(send(m)) = Meaning(m)
      BY <1>6, <2>2, BinaryRead
    <3>2. SinkOf(send(m)) = m.sink_id
      BY <1>6, <3>1, BinaryRead, BinaryMeaning DEF SinkOf
    <3> QED  BY <1>2, <1>6, <2>1, <2>2, <3>1, <3>2, BinaryRead DEF Understood
  <2>3. CASE ~Complete(m)
    <3>1. ReadBySink(send(m)) = Failed /\ SinkOf(send(m)) = -1
      BY <1>6, <2>3, BinaryRead DEF SinkOf
    <3> QED  BY <1>2, <2>1, <2>3, <3>1 DEF Understood
  <2> QED  BY <2>2, <2>3
<1> QED  BY <1>1, <1>3, <1>4, <1>5, <1>6 DEF Message

\* The stream that a message which a sink can read is about, and its ids.
LEMMA ReadStream ==
  ASSUME NEW m \in Messages, Arrival[m].read # Failed,
         Arrival[m].verb \in {"start", "stop", "data"}
  PROVE  /\ StreamOf(Arrival[m].read) \in Streams
         /\ Arrival[m].read.source_id = m.source_id
<1>1. /\ m \in Message /\ Arrival[m].read = Meaning(m)
      /\ Arrival[m].verb = IF m.type = "binary" THEN "data" ELSE m.type
  BY MessagesAssumption, Arrives
<1>2. m.type \in {"start", "stop", "data", "binary"}
  BY <1>1
<1>3. /\ Meaning(m).source_id = m.source_id
      /\ Meaning(m).stream_id = m.stream_id
  BY <1>1, TypesOfMessages, BinaryMeaning
<1> QED  BY <1>1, <1>2, <1>3 DEF StreamOf, Streams, Blocks

LEMMA StreamType ==
  ASSUME NEW st \in Streams
  PROVE  st[1] \in Nat /\ st[2] \in Values /\ st = <<st[1], st[2]>>
<1>1. PICK m \in Messages : /\ m.type \in {"data", "binary", "start", "stop"}
                            /\ st = <<m.source_id, m.stream_id>>
  BY DEF Streams, Blocks
<1>2. m \in Message
  BY MessagesAssumption
<1>3. m.stream_id \in Values
  BY <1>1, <1>2, TypesOfMessages
  DEF StartMessage, StopSinkMessage, DataMessage, BinaryMessage
<1> QED  BY <1>1, <1>2, <1>3, TypesOfMessages

-----------------------------------------------------------------------------
(* Types *)

\* A line belongs to a stream and knows an address.
LineOK(k) ==
  /\ k \in Keys
  /\ sources[k] \in Lines

LinesOK == \A k \in DOMAIN sources : LineOK(k)

Scalars ==
  /\ is_active \in BOOLEAN
  /\ aoo_id \in Ids \union {OwnId, 0}
  /\ remote \in Addresses \union {Unknown}
  /\ taken \subseteq Ids
  /\ heard \in [Streams -> Addresses \union {Unknown}]

TypeInv == Scalars /\ LinesOK

LEMMA IdsAreNumbers == Ids \subseteq Nat /\ SourceIds \subseteq Nat /\ OwnId \in Nat
  BY MessagesAssumption, TypesOfMessages, OwnAssumption DEF Ids, SourceIds

LEMMA TypeInit == Init => TypeInv
  BY DEF Init, TypeInv, Scalars, LinesOK

\* What every message that is taken does.
LEMMA TakeType ==
  ASSUME TypeInv, NEW m \in Messages, Take(m)
  PROVE  /\ aoo_id' = m.sink_id /\ aoo_id' \in Ids
         /\ taken' = taken \union {m.sink_id} /\ taken' \subseteq Ids
         /\ is_active' \in BOOLEAN
         /\ AssignedId(m.sink_id) = m.sink_id
<1>1. aoo_id \in Nat /\ m.sink_id \in Ids
  BY IdsAreNumbers DEF TypeInv, Scalars, Ids
<1>2. Arrival[m].id # -1
  BY <1>1 DEF Take, AssignedId
<1>3. Arrival[m].id = m.sink_id
  BY <1>2, Arrives
<1> QED  BY <1>1, <1>3 DEF Take, TypeInv, Scalars

LEMMA WithoutType ==
  ASSUME LinesOK, NEW keys, sources' = Without(keys)
  PROVE  LinesOK'
  BY DEF LinesOK, LineOK, Without

LEMMA WithType ==
  ASSUME LinesOK, NEW k \in Keys, NEW line \in Lines, sources' = With(k, line)
  PROVE  LinesOK'
  BY DEF LinesOK, LineOK, With

\* What a /start and a block of audio do to the lines.
LEMMA StartFacts ==
  ASSUME TypeInv, NEW m \in Messages, NEW from \in Addresses, onStart(m, from)
  PROVE  \E st \in Streams :
           /\ Take(m) /\ m.sink_id \in Ids
           /\ sources' = With(<<st, m.sink_id>>, [addr |-> from, decoder |-> TRUE])
           /\ [addr |-> from, decoder |-> TRUE] \in Lines
           /\ heard' = [heard EXCEPT ![st] = from]
           /\ UNCHANGED <<remote, sent>>
<1> DEFINE st == StreamOf(Arrival[m].read)
<1>1. st \in Streams
  BY ReadStream DEF onStart
<1>2. Take(m) /\ aoo_id' = m.sink_id /\ m.sink_id \in Ids
  BY TakeType DEF onStart, Ids
<1> HIDE DEF st
<1>3. /\ sources' = With(<<st, m.sink_id>>, [addr |-> from, decoder |-> TRUE])
      /\ heard' = [heard EXCEPT ![st] = from]
      /\ UNCHANGED <<remote, sent>>
  BY <1>2 DEF onStart, st
<1> QED  BY <1>1, <1>2, <1>3 DEF Lines

LEMMA DataFacts ==
  ASSUME TypeInv, NEW m \in Messages, NEW from \in Addresses, onData(m, from)
  PROVE  \E st \in Streams, line \in Lines :
           /\ Take(m) /\ m.sink_id \in Ids
           /\ sources' = With(<<st, m.sink_id>>, line) /\ line.addr = from
           /\ heard' = [heard EXCEPT ![st] = from]
           /\ \/ RequestOf(startRequest(m.source_id, m.sink_id), st, from)
              \/ UNCHANGED <<remote, sent>>
<1> DEFINE st == StreamOf(Arrival[m].read)
           line == LineAfterData(<<st, m.sink_id>>, from)
<1>1. st \in Streams /\ Arrival[m].read.source_id = m.source_id
  BY ReadStream DEF onData
<1>2. Take(m) /\ aoo_id' = m.sink_id /\ m.sink_id \in Ids
  BY TakeType DEF onData, Ids
<1>3. line \in Lines /\ line.addr = from
  BY DEF LineAfterData, Lines, TypeInv, LinesOK, LineOK
<1> HIDE DEF st, line
<1>4. /\ sources' = With(<<st, m.sink_id>>, line)
      /\ heard' = [heard EXCEPT ![st] = from]
      /\ \/ RequestOf(startRequest(m.source_id, m.sink_id), st, from)
         \/ UNCHANGED <<remote, sent>>
  BY <1>1, <1>2, <1>3 DEF onData, st, line
<1> QED  BY <1>1, <1>2, <1>3, <1>4

LEMMA TypeStep == TypeInv /\ [Next]_vars => TypeInv'
<1> SUFFICES ASSUME TypeInv, [Next]_vars PROVE TypeInv'
  OBVIOUS
<1>1. ASSUME NEW m \in Messages, NEW from \in Addresses, onStart(m, from)
      PROVE  TypeInv'
  <2>1. PICK st \in Streams :
           /\ Take(m) /\ m.sink_id \in Ids
           /\ sources' = With(<<st, m.sink_id>>, [addr |-> from, decoder |-> TRUE])
           /\ [addr |-> from, decoder |-> TRUE] \in Lines
           /\ heard' = [heard EXCEPT ![st] = from]
           /\ UNCHANGED <<remote, sent>>
    BY <1>1, StartFacts
  <2>2. <<st, m.sink_id>> \in Keys
    BY <2>1 DEF Keys
  <2>3. LinesOK'
    BY <2>1, <2>2, WithType DEF TypeInv
  <2> QED  BY <2>1, <2>3, TakeType DEF TypeInv, Scalars
<1>2. ASSUME NEW m \in Messages, NEW from \in Addresses, onData(m, from)
      PROVE  TypeInv'
  <2>1. PICK st \in Streams, line \in Lines :
           /\ Take(m) /\ m.sink_id \in Ids
           /\ sources' = With(<<st, m.sink_id>>, line) /\ line.addr = from
           /\ heard' = [heard EXCEPT ![st] = from]
           /\ \/ RequestOf(startRequest(m.source_id, m.sink_id), st, from)
              \/ UNCHANGED <<remote, sent>>
    BY <1>2, DataFacts
  <2>2. <<st, m.sink_id>> \in Keys
    BY <2>1 DEF Keys
  <2>3. LinesOK'
    BY <2>1, <2>2, WithType DEF TypeInv
  <2>4. remote' \in Addresses \union {Unknown}
    BY <2>1 DEF RequestOf, TypeInv, Scalars
  <2> QED  BY <2>1, <2>3, <2>4, TakeType DEF TypeInv, Scalars
<1>3. ASSUME NEW m \in Messages, onStop(m)
      PROVE  TypeInv'
  <2>1. LinesOK'
    BY <1>3, WithoutType DEF onStop, TypeInv
  <2> QED  BY <1>3, <2>1, TakeType DEF onStop, TypeInv, Scalars
<1>4. ASSUME NEW m \in Messages, NEW from \in Addresses, handlePing(m, from)
      PROVE  TypeInv'
  BY <1>4, TakeType DEF handlePing, TypeInv, Scalars, LinesOK, LineOK
<1>5. ASSUME NEW m \in Messages, Other(m)
      PROVE  TypeInv'
  BY <1>5, TakeType DEF Other, TypeInv, Scalars, LinesOK, LineOK
<1>6. ASSUME NEW k \in DOMAIN sources, NEW seq \in SeqNumbers, resend(k, seq)
      PROVE  TypeInv'
  BY <1>6 DEF resend, RequestOf, Lines, TypeInv, Scalars, LinesOK, LineOK
<1>7. ASSUME NEW k \in DOMAIN sources, removeSource(k) PROVE TypeInv'
  <2>1. LinesOK'
    BY <1>7, WithoutType DEF removeSource, TypeInv
  <2> QED  BY <1>7, <2>1 DEF removeSource, TypeInv, Scalars
<1>8. ASSUME NEW source \in SourceIds, ask(source) PROVE TypeInv'
  BY <1>8 DEF ask, TypeInv, Scalars, LinesOK, LineOK
<1>9. CASE begin
  BY <1>9 DEF begin, TypeInv, Scalars, LinesOK, LineOK
<1>10. CASE end
  <2>1. LinesOK'
    BY <1>10, WithoutType DEF end, TypeInv
  <2> QED  BY <1>10, <2>1 DEF end, TypeInv, Scalars
<1>11. ASSUME UNCHANGED <<is_active, aoo_id, remote, sources, sent, taken, heard>>
       PROVE  TypeInv'
  BY <1>11 DEF TypeInv, Scalars, LinesOK, LineOK
<1> QED
  BY <1>1, <1>2, <1>3, <1>4, <1>5, <1>6, <1>7, <1>8, <1>9, <1>10, <1>11
  DEF Next, Ignore, SourceReceives, vars

\* Every line has an address of a source, and lines and ids stay in range.
THEOREM TypeCorrect == Spec => []TypeOK
<1>1. TypeInv => TypeOK
  BY DEF TypeInv, Scalars, LinesOK, LineOK, TypeOK
<1> QED  BY <1>1, TypeInit, TypeStep, PTL DEF Spec

-----------------------------------------------------------------------------
(* One id, and requests that reach the source *)

\* An id other than 0 that was taken is the id of the sink, and every line is
\* for an id that was taken.  Without messages for sink 0 there is only one id,
\* so a stream has one line, which hears of every address the stream comes from.
Addressed ==
  /\ \A id \in taken : id # 0 => id = aoo_id
  /\ \A k \in DOMAIN sources :
       /\ k[2] \in taken
       /\ 0 \notin taken => sources[k].addr = heard[k[1]]
  /\ ~is_active => DOMAIN sources = {}

Inv == TypeInv /\ Addressed

LEMMA AddressedInit == Init => Addressed
  BY DEF Init, Addressed

\* A message that is taken is for sink 0 or for the only other id there is.
LEMMA TakeIdentity ==
  ASSUME Inv, NEW m \in Messages, Take(m)
  PROVE  /\ taken' = taken \union {m.sink_id}
         /\ \A other \in taken' : other # 0 => other = aoo_id'
         /\ is_active /\ is_active'
<1>1. aoo_id \in Nat /\ m.sink_id \in Nat
  BY IdsAreNumbers DEF Inv, TypeInv, Scalars, Ids
<1>2. /\ AssignedId(m.sink_id) = m.sink_id /\ aoo_id' = m.sink_id
      /\ is_active /\ is_active' /\ taken' = taken \union {m.sink_id}
  BY TakeType DEF Inv, Take
<1>3. aoo_id # 0 => aoo_id' = aoo_id
  BY <1>2 DEF AssignedId
<1>4. \A other \in taken : other # 0 => other = aoo_id'
  BY <1>3 DEF Inv, Addressed
<1> QED  BY <1>2, <1>4

\* A line that is written has the address the message came from, and the
\* others are lines of other streams.
LEMMA WithAddressed ==
  ASSUME Inv, NEW m \in Messages, NEW st \in Streams, NEW from \in Addresses,
         NEW line \in Lines, line.addr = from, m.sink_id \in Ids,
         Take(m), sources' = With(<<st, m.sink_id>>, line),
         heard' = [heard EXCEPT ![st] = from]
  PROVE  Addressed'
<1> DEFINE id == m.sink_id
<1>1. /\ taken' = taken \union {id}
      /\ \A other \in taken' : other # 0 => other = aoo_id'
      /\ is_active'
  BY TakeIdentity
<1>2. ASSUME NEW k \in DOMAIN sources'
      PROVE  k[2] \in taken' /\ (0 \notin taken' => sources'[k].addr = heard'[k[1]])
  <2>1. CASE k = <<st, id>>
    BY <1>1, <2>1 DEF With, Inv, TypeInv, Scalars
  <2>2. CASE k # <<st, id>>
    <3>1. k \in DOMAIN sources /\ sources'[k] = sources[k]
      BY <2>2 DEF With
    <3>2. k[2] \in taken /\ (0 \notin taken => sources[k].addr = heard[k[1]])
      BY <3>1 DEF Inv, Addressed
    <3>3. k[1] \in Streams /\ k = <<k[1], k[2]>>
      BY <3>1 DEF Inv, TypeInv, LinesOK, LineOK, Keys
    <3>4. 0 \notin taken' => k[1] # st
      BY <1>1, <2>2, <3>2, <3>3
    <3> QED  BY <1>1, <3>1, <3>2, <3>3, <3>4 DEF Inv, TypeInv, Scalars
  <2> QED  BY <2>1, <2>2
<1> QED  BY <1>1, <1>2 DEF Addressed

LEMMA AddressedStep == Inv /\ [Next]_vars => Addressed'
<1> SUFFICES ASSUME Inv, [Next]_vars PROVE Addressed'
  OBVIOUS
<1>1. ASSUME NEW m \in Messages, NEW from \in Addresses, onStart(m, from)
      PROVE  Addressed'
  <2>1. PICK st \in Streams :
           /\ Take(m) /\ m.sink_id \in Ids
           /\ sources' = With(<<st, m.sink_id>>, [addr |-> from, decoder |-> TRUE])
           /\ [addr |-> from, decoder |-> TRUE] \in Lines
           /\ heard' = [heard EXCEPT ![st] = from]
           /\ UNCHANGED <<remote, sent>>
    BY <1>1, StartFacts DEF Inv
  <2> QED  BY <2>1, WithAddressed
<1>2. ASSUME NEW m \in Messages, NEW from \in Addresses, onData(m, from)
      PROVE  Addressed'
  <2>1. PICK st \in Streams, line \in Lines :
           /\ Take(m) /\ m.sink_id \in Ids
           /\ sources' = With(<<st, m.sink_id>>, line) /\ line.addr = from
           /\ heard' = [heard EXCEPT ![st] = from]
           /\ \/ RequestOf(startRequest(m.source_id, m.sink_id), st, from)
              \/ UNCHANGED <<remote, sent>>
    BY <1>2, DataFacts DEF Inv
  <2> QED  BY <2>1, WithAddressed
<1>3. ASSUME NEW m \in Messages, onStop(m)
      PROVE  Addressed'
  BY <1>3, TakeIdentity DEF onStop, Without, Inv, Addressed
<1>4. ASSUME NEW m \in Messages, NEW from \in Addresses, handlePing(m, from)
      PROVE  Addressed'
  BY <1>4, TakeIdentity DEF handlePing, Inv, Addressed
<1>5. ASSUME NEW m \in Messages, Other(m)
      PROVE  Addressed'
  BY <1>5, TakeIdentity DEF Other, Inv, Addressed
<1>6. ASSUME NEW k \in DOMAIN sources, NEW seq \in SeqNumbers, resend(k, seq)
      PROVE  Addressed'
  BY <1>6 DEF resend, Inv, Addressed
<1>7. ASSUME NEW k \in DOMAIN sources, removeSource(k) PROVE Addressed'
  BY <1>7 DEF removeSource, Without, Inv, Addressed
<1>8. ASSUME NEW source \in SourceIds, ask(source) PROVE Addressed'
  BY <1>8 DEF ask, Inv, Addressed
<1>9. CASE begin
  BY <1>9 DEF begin, Inv, Addressed
<1>10. CASE end
  BY <1>10 DEF end, Without, Inv, Addressed
<1>11. ASSUME UNCHANGED <<is_active, aoo_id, remote, sources, sent, taken, heard>>
       PROVE  Addressed'
  BY <1>11 DEF Inv, Addressed
<1> QED
  BY <1>1, <1>2, <1>3, <1>4, <1>5, <1>6, <1>7, <1>8, <1>9, <1>10, <1>11
  DEF Next, Ignore, SourceReceives, vars

LEMMA InvInit == Init => Inv
  BY TypeInit, AddressedInit DEF Inv

LEMMA InvStep == Inv /\ [Next]_vars => Inv'
  BY TypeStep, AddressedStep DEF Inv

\* A sink that has taken its id from a message keeps it, whatever else arrives.
THEOREM IdentityKept == Spec => []OneIdentity
<1>1. Inv => OneIdentity
  BY DEF Inv, Addressed, OneIdentity
<1> QED  BY <1>1, InvInit, InvStep, PTL DEF Spec

\* However many sources there are and however they move, a request for a stream
\* goes to where that stream was last heard.
THEOREM RequestsArrive == Spec => RequestsReachSource
<1> DEFINE Reaches ==
      sent' # sent /\ sent'.of \in Streams /\ 0 \notin taken
        => sent'.to = heard'[sent'.of]
<1>1. Inv /\ [Next]_vars => [Reaches]_vars
  <2> SUFFICES ASSUME Inv, Next, sent' # sent, sent'.of \in Streams, 0 \notin taken
               PROVE  sent'.to = heard'[sent'.of]
    BY DEF vars
  <2>1. ASSUME NEW m \in Messages, NEW from \in Addresses, onData(m, from)
        PROVE  sent'.to = heard'[sent'.of]
    <3>1. PICK st \in Streams, line \in Lines :
           /\ heard' = [heard EXCEPT ![st] = from]
           /\ \/ RequestOf(startRequest(m.source_id, m.sink_id), st, from)
              \/ UNCHANGED <<remote, sent>>
      BY <2>1, DataFacts DEF Inv
    <3>2. sent'.to = from /\ sent'.of = st
      BY <3>1 DEF RequestOf, Send
    <3> QED  BY <3>1, <3>2 DEF Inv, TypeInv, Scalars
  <2>2. ASSUME NEW k \in DOMAIN sources, NEW seq \in SeqNumbers, resend(k, seq)
        PROVE  sent'.to = heard'[sent'.of]
    BY <2>2 DEF resend, RequestOf, Send, Inv, Addressed
  <2>3. NoStream \notin Streams
    BY DEF NoStream, Streams
  <2>4. ASSUME NEW m \in Messages, NEW from \in Addresses, handlePing(m, from)
        PROVE  FALSE
    BY <2>3, <2>4 DEF handlePing, Send
  <2>5. ASSUME NEW source \in SourceIds, ask(source) PROVE FALSE
    BY <2>3, <2>5 DEF ask, Send
  <2>6. ASSUME NEW m \in Messages, NEW from \in Addresses, onStart(m, from)
        PROVE  FALSE
    BY <2>6 DEF onStart
  <2> QED
    BY <2>1, <2>2, <2>4, <2>5, <2>6
    DEF Next, onStop, Other, Ignore, SourceReceives, removeSource, begin, end
<1> QED  BY <1>1, InvInit, InvStep, PTL DEF Spec, RequestsReachSource

-----------------------------------------------------------------------------
(* Every message is understood *)

\* What the receiver sends is a message to a source.
Faithful ==
  /\ misunderstood = {}
  /\ sent.message \in SourceMessage \union {NoMessage}

LEMMA TakeUnderstands ==
  ASSUME Inv, misunderstood = {}, NEW m \in Messages, Take(m)
  PROVE  misunderstood' = {}
<1>1. m \notin SourceMessage
  <2>1. m.sink_id \in Nat /\ aoo_id \in Nat
    BY IdsAreNumbers DEF Inv, TypeInv, Scalars, Ids
  <2> QED  BY <2>1, Arrives DEF Take, AssignedId
<1> QED  BY <1>1, Arrives DEF Take, Note

LEMMA RequestsAreMessages ==
  ASSUME NEW source \in Nat, NEW sink \in Nat
  PROVE  startRequest(source, sink) \in SourceMessage
  BY OwnAssumption DEF startRequest, SourceMessage, RequestStartMessage

LEMMA FaithfulStep == Inv /\ Faithful /\ [Next]_vars => Faithful'
<1> SUFFICES ASSUME Inv, Faithful, [Next]_vars PROVE Faithful'
  OBVIOUS
<1>1. aoo_id \in Nat
  BY IdsAreNumbers DEF Inv, TypeInv, Scalars
<1>2. ASSUME NEW m \in Messages, NEW from \in Addresses, onStart(m, from)
      PROVE  Faithful'
  BY <1>2, TakeUnderstands DEF onStart, Faithful
<1>3. ASSUME NEW m \in Messages, NEW from \in Addresses, onData(m, from)
      PROVE  Faithful'
  <2>1. m.source_id \in Nat /\ m.sink_id \in Nat
    BY MessagesAssumption, TypesOfMessages
  <2>2. PICK st \in Streams, line \in Lines :
           /\ Take(m)
           /\ \/ RequestOf(startRequest(m.source_id, m.sink_id), st, from)
              \/ UNCHANGED <<remote, sent>>
    BY <1>3, DataFacts DEF Inv
  <2>3. misunderstood' = {}
    BY <2>2, TakeUnderstands DEF Faithful
  <2>4. sent'.message \in SourceMessage \union {NoMessage}
    BY <2>1, <2>2, RequestsAreMessages DEF RequestOf, Send, Faithful
  <2> QED  BY <2>3, <2>4 DEF Faithful
<1>4. ASSUME NEW m \in Messages, onStop(m) PROVE Faithful'
  BY <1>4, TakeUnderstands DEF onStop, Faithful
<1>5. ASSUME NEW m \in Messages, NEW from \in Addresses, handlePing(m, from)
      PROVE  Faithful'
  <2>1. /\ m \in Message /\ Arrival[m].read = Meaning(m) /\ m.type = "ping"
    BY <1>5, Arrives, MessagesAssumption DEF handlePing
  <2>2. m \in PingSinkMessage /\ Meaning(m) = m
    BY <2>1, TypesOfMessages
  <2>3. aoo_id' \in Nat
    BY <1>5, TakeType, IdsAreNumbers DEF handlePing, Inv
  <2>4. sent'.message \in SourceMessage
    BY <1>5, <2>1, <2>2, <2>3, OwnAssumption
    DEF handlePing, Send, PingSinkMessage, SourceMessage, PongSourceMessage
  <2>5. misunderstood' = {}
    BY <1>5, TakeUnderstands DEF handlePing, Faithful
  <2> QED  BY <2>4, <2>5 DEF Faithful
<1>6. ASSUME NEW m \in Messages, Other(m) PROVE Faithful'
  BY <1>6, TakeUnderstands DEF Other, Faithful
<1>7. ASSUME NEW m \in Messages, Ignore(m) PROVE Faithful'
  <2>1. m \in SourceMessage \/ ~Complete(m) \/ AssignedId(m.sink_id) # m.sink_id
    BY <1>7, Arrives DEF Ignore
  <2> QED  BY <1>7, <2>1 DEF Ignore, Note, Faithful
<1>8. ASSUME NEW m \in (Messages \union {sent.message}) \ {NoMessage}, SourceReceives(m)
      PROVE  Faithful'
  <2>1. m \in Message
    BY MessagesAssumption DEF Faithful, Message
  <2>2. m \in SourceMessage
    BY <1>8, <2>1, SinkRead, OtherRead, BinaryRead DEF SourceReceives, Message
  <2>3. Understood(m, ReadBySource(send(m)))
    BY <2>1, <2>2, SourceRead, TypesOfMessages DEF Understood
  <2> QED  BY <1>8, <2>3 DEF SourceReceives, Note, Faithful
<1>9. ASSUME NEW k \in DOMAIN sources, NEW seq \in SeqNumbers, resend(k, seq)
      PROVE  Faithful'
  <2>1. k[1] \in Streams
    BY DEF Inv, TypeInv, LinesOK, LineOK, Keys
  <2>2. k[1][1] \in Nat /\ k[1][2] \in Values
    BY <2>1, StreamType
  <2>3. seq \in Values
    <3>1. PICK m \in Messages : m.type \in {"data", "binary"} /\ seq = m.seq_no
      BY DEF SeqNumbers, Blocks
    <3> QED  BY <3>1, MessagesAssumption, TypesOfMessages DEF DataMessage, BinaryMessage
  <2>4. <<[seq |-> seq, frame |-> 0]>> \in Seq([seq : Values, frame : Values])
    BY <2>3, OwnAssumption
  <2>5. sent'.message \in SourceMessage
    BY <1>1, <1>9, <2>2, <2>4 DEF resend, RequestOf, Send, SourceMessage, ResendMessage
  <2> QED  BY <1>9, <2>5 DEF resend, Faithful
<1>10. ASSUME NEW source \in SourceIds, ask(source) PROVE Faithful'
  <2>1. source \in Nat
    BY IdsAreNumbers
  <2>2. sent'.message \in SourceMessage
    BY <1>1, <1>10, <2>1, RequestsAreMessages, OwnAssumption
    DEF ask, Send, SourceMessage, InviteMessage, UninviteMessage
  <2> QED  BY <1>10, <2>2 DEF ask, Faithful
<1>11. ASSUME UNCHANGED <<misunderstood, sent>> PROVE Faithful'
  BY <1>11 DEF Faithful
<1> QED
  BY <1>2, <1>3, <1>4, <1>5, <1>6, <1>7, <1>8, <1>9, <1>10, <1>11
  DEF Next, removeSource, begin, end, vars

\* For every message there can be, with any values, any number of resend items
\* and any length of texts and audio, and wherever a binary one was cut off.
THEOREM MessagesUnderstood == Spec => []UnderstoodAsSent
<1>1. Init => Inv /\ Faithful
  BY InvInit DEF Init, Faithful
<1>2. Inv /\ Faithful /\ [Next]_vars => (Inv /\ Faithful)'
  BY InvStep, FaithfulStep
<1>3. Inv /\ Faithful => UnderstoodAsSent
  BY DEF Faithful, UnderstoodAsSent
<1> QED  BY <1>1, <1>2, <1>3, PTL DEF Spec

-----------------------------------------------------------------------------
(* Sizes *)

\* aoo_send_block cuts a block into frames by headerSize(): a /data message with
\* such a frame is not longer than max_packet_size.  Its address and format, which
\* headerSize() and the message have alike, are left out on both sides.
THEOREM FrameFits ==
  ASSUME NEW m \in DataMessage, NEW max_packet_size \in Nat,
         m.audio_data.len + headerSize <= max_packet_size
  PROVE  sizeData(m) <= max_packet_size
<1> DEFINE len == m.audio_data.len
<1>1. len \in Nat
  BY DEF DataMessage, Chunk
<1> HIDE DEF len
<1>2. 4 * ((len + 3) \div 4) <= len + 3
  BY <1>1
<1> QED  BY <1>1, <1>2 DEF sizeData, headerSize, BytesSize, len

\* Every nonempty set of numbers has a least one: the intervals that end below
\* them are ordered like they are, and finite.
LEMMA LeastNumber ==
  ASSUME NEW C \in SUBSET Nat, C # {}
  PROVE  \E k \in C : \A j \in C : k <= j
<1> DEFINE Below(k) == 0 .. k - 1
           Sets == FiniteSubsetsOf(Nat)
           Order == StrictSubsetOrdering(Nat)
           Starts == {Below(k) : k \in C}
<1>1. IsWellFoundedOn(Order, Sets)
  BY FS_StrictSubsetOrderingWellFounded
<1>2. ASSUME NEW k \in C PROVE Below(k) \in Sets
  <2>1. 0 \in Int /\ k - 1 \in Int
    OBVIOUS
  <2>2. IsFiniteSet(Below(k))
    BY <2>1, FS_Interval
  <2>3. Below(k) \in SUBSET Nat
    OBVIOUS
  <2> QED BY <2>2, <2>3 DEF FiniteSubsetsOf
<1>3. Starts \subseteq Sets /\ Starts # {}
  BY <1>2
<1>4. PICK x \in Starts : \A y \in Starts : ~ (<<y, x>> \in Order)
  <2> HIDE DEF Starts, Order, Sets
  <2> QED BY <1>1, <1>3, WFMin
<1>5. PICK k \in C : x = Below(k)
  BY <1>4
<1>6. ASSUME NEW j \in C, ~(k <= j) PROVE FALSE
  <2>1. Below(j) \subseteq Below(k)
    BY <1>6
  <2>2. j \in Below(k) /\ j \notin Below(j)
    BY <1>6
  <2>3. Below(j) \in SUBSET Nat /\ Below(k) \in SUBSET Nat /\ Below(j) # Below(k)
    BY <2>2
  <2>4. <<Below(j), Below(k)>> \in Order
    BY <2>1, <2>3 DEF StrictSubsetOrdering
  <2> QED BY <1>4, <1>5, <2>4
<1> QED BY <1>6

\* A function f gives the ends of the first n values.
IsEnd(f, items, n) ==
  f = [k \in 0 .. n |-> IF k = 0 THEN 0 ELSE f[k - 1] + Width(items[k])]

\* By the least number of values for which there are none.
LEMMA EndExists ==
  ASSUME NEW items, NEW n \in Nat
  PROVE  \E f : IsEnd(f, items, n)
<1> DEFINE C == {k \in Nat : ~ \E f : IsEnd(f, items, k)}
<1> SUFFICES ASSUME C # {} PROVE FALSE
  OBVIOUS
<1>1. C \in SUBSET Nat
  OBVIOUS
<1>2. PICK k \in C : \A j \in C : k <= j
  <2> HIDE DEF C
  <2> QED BY <1>1, LeastNumber
<1>3. k # 0
  <2>1. IsEnd([j \in {0} |-> 0], items, 0)
    BY 0 .. 0 = {0} DEF IsEnd
  <2> QED BY <1>2, <2>1
<1>4. PICK m \in Nat : k = m + 1
  <2>1. k - 1 \in Nat /\ k = (k - 1) + 1
    BY <1>2, <1>3
  <2> QED BY <2>1
<1>5. m \notin C
  BY <1>2, <1>4
<1>6. PICK f : IsEnd(f, items, m)
  BY <1>5
<1> DEFINE g == [j \in 0 .. k |-> IF j = k THEN f[m] + Width(items[k]) ELSE f[j]]
<1>7. IsEnd(g, items, k)
  <2>1. ASSUME NEW j \in 0 .. k
        PROVE  g[j] = IF j = 0 THEN 0 ELSE g[j - 1] + Width(items[j])
    <3>1. CASE j = k
      <4>1. m \in 0 .. k /\ m # k /\ j - 1 = m /\ j # 0
        BY <1>4, <3>1
      <4> QED BY <3>1, <4>1
    <3>2. CASE j # k
      <4>1. j \in 0 .. m
        BY <1>4, <3>2
      <4>2. f[j] = IF j = 0 THEN 0 ELSE f[j - 1] + Width(items[j])
        BY <1>6, <4>1 DEF IsEnd
      <4>3. j # 0 => j - 1 \in 0 .. k /\ j - 1 # k
        BY <1>4, <4>1
      <4> QED BY <3>2, <4>2, <4>3
    <3> QED BY <3>1, <3>2
  <2> QED BY <2>1 DEF IsEnd
<1> QED BY <1>2, <1>7

\* EndOf is what it is defined to be.
LEMMA Ends ==
  ASSUME NEW items, NEW n \in Nat, Len(items) = n
  PROVE  /\ EndOf(items)[0] = 0
         /\ \A k \in 1 .. n, j \in Int :
              k = j + 1 => EndOf(items)[k] = EndOf(items)[j] + Width(items[k])
<1> DEFINE P(f) == IsEnd(f, items, n)
           e == EndOf(items)
<1>1. \E f : P(f)
  BY EndExists
<1>2. e = CHOOSE f : P(f)
  BY DEF EndOf, IsEnd
<1> HIDE DEF P, e
<1>3. P(e)
  BY <1>1, <1>2
<1>4. \A k \in 0 .. n : e[k] = IF k = 0 THEN 0 ELSE e[k - 1] + Width(items[k])
  BY <1>3 DEF P, IsEnd
<1>5. e[0] = 0
  BY <1>4
<1>6. ASSUME NEW k \in 1 .. n, NEW j \in Int, k = j + 1
      PROVE  e[k] = e[j] + Width(items[k])
  <2>1. k \in 0 .. n /\ k # 0 /\ k - 1 = j
    BY <1>6
  <2> QED BY <1>4, <2>1
<1> QED BY <1>5, <1>6 DEF e

LEMMA Widths ==
  ASSUME NEW v
  PROVE  /\ Width(I(v)) = 4 /\ Width(T(v)) = 8 /\ Width(D(v)) = 8
         /\ Width(S(v)) = TextSize(v.len) /\ Width(B(v)) = BytesSize(v.len)
BY DEF Width, I, T, D, S, B

LEMMA ChunkSizes ==
  ASSUME NEW v \in Chunk
  PROVE  TextSize(v.len) \in Int /\ BytesSize(v.len) \in Int
<1> DEFINE len == v.len
<1>1. len \in Nat
  BY DEF Chunk
<1> HIDE DEF len
<1>2. TextSize(len) \in Int /\ BytesSize(len) \in Int
  BY <1>1 DEF TextSize, BytesSize
<1> QED BY <1>2 DEF len

LEMMA TwoInts ==
  ASSUME NEW a, NEW b
  PROVE  WrittenSize(<<I(a), I(b)>>) = 8
<1> DEFINE items == <<I(a), I(b)>>
           e == EndOf(items)
<1>1. /\ 2 \in Nat /\ Len(items) = 2
      /\ Width(items[1]) = 4 /\ Width(items[2]) = 4
  BY Widths
<1> HIDE DEF items
<1>2. e[0] = 0 /\ \A k \in 1 .. 2, j \in Int : k = j + 1 => e[k] = e[j] + Width(items[k])
  BY <1>1, Ends
<1> HIDE DEF e
<1>3. e[1] = e[0] + 4 /\ e[2] = e[1] + 4
  BY <1>1, <1>2
<1> QED BY <1>1, <1>2, <1>3 DEF WrittenSize, e, items

LEMMA FourInts ==
  ASSUME NEW a, NEW b, NEW c, NEW d
  PROVE  WrittenSize(<<I(a), I(b), I(c), I(d)>>) = 16
<1> DEFINE items == <<I(a), I(b), I(c), I(d)>>
           e == EndOf(items)
<1>1. /\ 4 \in Nat /\ Len(items) = 4
      /\ Width(items[1]) = 4 /\ Width(items[2]) = 4
      /\ Width(items[3]) = 4 /\ Width(items[4]) = 4
  BY Widths
<1> HIDE DEF items
<1>2. e[0] = 0 /\ \A k \in 1 .. 4, j \in Int : k = j + 1 => e[k] = e[j] + Width(items[k])
  BY <1>1, Ends
<1> HIDE DEF e
<1>3. e[1] = e[0] + 4 /\ e[2] = e[1] + 4 /\ e[3] = e[2] + 4 /\ e[4] = e[3] + 4
  BY <1>1, <1>2
<1> QED BY <1>1, <1>2, <1>3 DEF WrittenSize, e, items

LEMMA IntAndTime ==
  ASSUME NEW a, NEW b
  PROVE  WrittenSize(<<I(a), T(b)>>) = 12
<1> DEFINE items == <<I(a), T(b)>>
           e == EndOf(items)
<1>1. /\ 2 \in Nat /\ Len(items) = 2
      /\ Width(items[1]) = 4 /\ Width(items[2]) = 8
  BY Widths
<1> HIDE DEF items
<1>2. e[0] = 0 /\ \A k \in 1 .. 2, j \in Int : k = j + 1 => e[k] = e[j] + Width(items[k])
  BY <1>1, Ends
<1> HIDE DEF e
<1>3. e[1] = e[0] + 4 /\ e[2] = e[1] + 8
  BY <1>1, <1>2
<1> QED BY <1>1, <1>2, <1>3 DEF WrittenSize, e, items

LEMMA IntAndTimes ==
  ASSUME NEW a, NEW b, NEW c, NEW d
  PROVE  WrittenSize(<<I(a), T(b), T(c), T(d)>>) = 28
<1> DEFINE items == <<I(a), T(b), T(c), T(d)>>
           e == EndOf(items)
<1>1. /\ 4 \in Nat /\ Len(items) = 4
      /\ Width(items[1]) = 4 /\ Width(items[2]) = 8
      /\ Width(items[3]) = 8 /\ Width(items[4]) = 8
  BY Widths
<1> HIDE DEF items
<1>2. e[0] = 0 /\ \A k \in 1 .. 4, j \in Int : k = j + 1 => e[k] = e[j] + Width(items[k])
  BY <1>1, Ends
<1> HIDE DEF e
<1>3. e[1] = e[0] + 4 /\ e[2] = e[1] + 8 /\ e[3] = e[2] + 8 /\ e[4] = e[3] + 8
  BY <1>1, <1>2
<1> QED BY <1>1, <1>2, <1>3 DEF WrittenSize, e, items

LEMMA SmallSizes ==
  ASSUME NEW m
  PROVE  /\ SizeIsRight(sendStopSink(m)) /\ SizeIsRight(sendDecline(m))
         /\ SizeIsRight(sendPingSink(m)) /\ SizeIsRight(sendPongSink(m))
         /\ SizeIsRight(sendPingSource(m)) /\ SizeIsRight(sendPongSource(m))
         /\ SizeIsRight(sendStopSource(m)) /\ SizeIsRight(sendInvite(m))
         /\ SizeIsRight(sendUninvite(m))
<1>1. SizeIsRight(sendStopSink(m))
  BY FourInts DEF SizeIsRight, sendStopSink, sizeStopSink, Osc
<1>2. SizeIsRight(sendDecline(m))
  BY TwoInts DEF SizeIsRight, sendDecline, sizeDecline, Osc
<1>3. SizeIsRight(sendStopSource(m))
  BY TwoInts DEF SizeIsRight, sendStopSource, sizeStopSource, Osc
<1>4. SizeIsRight(sendInvite(m))
  BY TwoInts DEF SizeIsRight, sendInvite, sizeInvite, Osc
<1>5. SizeIsRight(sendUninvite(m))
  BY TwoInts DEF SizeIsRight, sendUninvite, sizeUninvite, Osc
<1>6. SizeIsRight(sendPingSink(m))
  BY IntAndTime DEF SizeIsRight, sendPingSink, sizePingSink, Osc
<1>7. SizeIsRight(sendPingSource(m))
  BY IntAndTime DEF SizeIsRight, sendPingSource, sizePingSource, Osc
<1>8. SizeIsRight(sendPongSink(m))
  BY IntAndTimes DEF SizeIsRight, sendPongSink, sizePongSink, Osc
<1>9. SizeIsRight(sendPongSource(m))
  BY IntAndTimes DEF SizeIsRight, sendPongSource, sizePongSource, Osc
<1> QED BY <1>1, <1>2, <1>3, <1>4, <1>5, <1>6, <1>7, <1>8, <1>9

LEMMA RequestStartSize ==
  ASSUME NEW m \in RequestStartMessage
  PROVE  SizeIsRight(sendRequestStart(m))
<1> DEFINE items == sendRequestStart(m).items
           e == EndOf(items)
<1>1. /\ 2 \in Nat /\ Len(items) = 2
      /\ Width(items[1]) = 4
      /\ Width(items[2]) = TextSize(m.version.len)
  BY Widths DEF sendRequestStart, Osc
<1> HIDE DEF items
<1>2. e[0] = 0 /\ \A k \in 1 .. 2, j \in Int : k = j + 1 => e[k] = e[j] + Width(items[k])
  BY <1>1, Ends
<1> HIDE DEF e
<1>3. /\ e[1] = e[0] + 4
      /\ e[2] = e[1] + TextSize(m.version.len)
  BY <1>1, <1>2
<1>5. TextSize(m.version.len) \in Int
  BY ChunkSizes DEF RequestStartMessage
<1> HIDE DEF e
<1>4. e[2] = sizeRequestStart(m)
  BY <1>2, <1>3, <1>5 DEF sizeRequestStart
<1> QED BY <1>1, <1>4 DEF SizeIsRight, WrittenSize, e, items, sendRequestStart, Osc

LEMMA DataSize ==
  ASSUME NEW m \in DataMessage
  PROVE  SizeIsRight(sendData(m))
<1> DEFINE items == sendData(m).items
           e == EndOf(items)
<1>1. /\ 10 \in Nat /\ Len(items) = 10
      /\ Width(items[1]) = 4
      /\ Width(items[2]) = 4
     
      /\ Width(items[3]) = 4
      /\ Width(items[4]) = 8
      /\ Width(items[5]) = 8
      /\ Width(items[6]) = 4
      /\ Width(items[7]) = 4
      /\ Width(items[8]) = 4
      /\ Width(items[9]) = 4
      /\ Width(items[10]) = BytesSize(m.audio_data.len)
  BY Widths DEF sendData, Osc
<1> HIDE DEF items
<1>2. e[0] = 0 /\ \A k \in 1 .. 10, j \in Int : k = j + 1 => e[k] = e[j] + Width(items[k])
  BY <1>1, Ends
<1> HIDE DEF e
<1>3. /\ e[1] = e[0] + 4
      /\ e[2] = e[1] + 4
      /\ e[3] = e[2] + 4
      /\ e[4] = e[3] + 8
      /\ e[5] = e[4] + 8
      /\ e[6] = e[5] + 4
      /\ e[7] = e[6] + 4
      /\ e[8] = e[7] + 4
      /\ e[9] = e[8] + 4
      /\ e[10] = e[9] + BytesSize(m.audio_data.len)
  BY <1>1, <1>2
<1>5. BytesSize(m.audio_data.len) \in Int
  BY ChunkSizes DEF DataMessage
<1> HIDE DEF e
<1>4. e[10] = sizeData(m)
  BY <1>2, <1>3, <1>5 DEF sizeData
<1> QED BY <1>1, <1>4 DEF SizeIsRight, WrittenSize, e, items, sendData, Osc

LEMMA StartSize ==
  ASSUME NEW m \in StartMessage
  PROVE  SizeIsRight(sendStart(m))
<1> DEFINE items == sendStart(m).items
           e == EndOf(items)
<1>1. /\ 14 \in Nat /\ Len(items) = 14
      /\ Width(items[1]) = 4
      /\ Width(items[2]) = TextSize(m.version.len)
     
      /\ Width(items[3]) = 4
      /\ Width(items[4]) = 4
      /\ Width(items[5]) = 4
      /\ Width(items[6]) = 4
      /\ Width(items[7]) = 4
      /\ Width(items[8]) = 4
      /\ Width(items[9]) = TextSize(m.codec.len)
      /\ Width(items[10]) = BytesSize(m.codec_extension.len)
      /\ Width(items[11]) = 8
      /\ Width(items[12]) = 4
      /\ Width(items[13]) = 4
      /\ Width(items[14]) = 4
  BY Widths DEF sendStart, Osc
<1> HIDE DEF items
<1>2. e[0] = 0 /\ \A k \in 1 .. 14, j \in Int : k = j + 1 => e[k] = e[j] + Width(items[k])
  BY <1>1, Ends
<1> HIDE DEF e
<1>3. /\ e[1] = e[0] + 4
      /\ e[2] = e[1] + TextSize(m.version.len)
      /\ e[3] = e[2] + 4
      /\ e[4] = e[3] + 4
      /\ e[5] = e[4] + 4
      /\ e[6] = e[5] + 4
      /\ e[7] = e[6] + 4
      /\ e[8] = e[7] + 4
      /\ e[9] = e[8] + TextSize(m.codec.len)
      /\ e[10] = e[9] + BytesSize(m.codec_extension.len)
      /\ e[11] = e[10] + 8
      /\ e[12] = e[11] + 4
      /\ e[13] = e[12] + 4
      /\ e[14] = e[13] + 4
  BY <1>1, <1>2
<1>5. /\ TextSize(m.version.len) \in Int /\ TextSize(m.codec.len) \in Int
      /\ BytesSize(m.codec_extension.len) \in Int
  BY ChunkSizes DEF StartMessage
<1> HIDE DEF e
<1>4. e[14] = sizeStart(m)
  BY <1>2, <1>3, <1>5 DEF sizeStart
<1> QED BY <1>1, <1>4 DEF SizeIsRight, WrittenSize, e, items, sendStart, Osc

\* Values of 4 bytes each.
LEMMA EndOfWords ==
  ASSUME NEW items, NEW n \in Nat, Len(items) = n, \A k \in 1 .. n : Width(items[k]) = 4
  PROVE  EndOf(items)[n] = 4 * n
<1> DEFINE e == EndOf(items)
           C == {k \in 0 .. n : e[k] # 4 * k}
<1>1. e[0] = 0 /\ \A k \in 1 .. n, j \in Int : k = j + 1 => e[k] = e[j] + 4
  BY Ends
<1> HIDE DEF e
<1>2. ASSUME C # {} PROVE FALSE
  <2>1. C \in SUBSET Nat
    <3>1. C \subseteq 0 .. n /\ 0 .. n \subseteq Nat
      OBVIOUS
    <3> QED BY <3>1
  <2>2. PICK k \in C : \A j \in C : k <= j
    <3> HIDE DEF C
    <3> QED BY <1>2, <2>1, LeastNumber
  <2>3. k # 0
    BY <1>1, <2>2
  <2>4. k \in 1 .. n
    BY <2>2, <2>3
  <2> DEFINE j == k - 1
  <2>5. j \in Int /\ j \in 0 .. n /\ k = j + 1 /\ ~(k <= j)
    BY <2>4
  <2> HIDE DEF j
  <2>6. e[j] = 4 * j
    BY <2>2, <2>5
  <2>7. e[k] = e[j] + 4
    BY <1>1, <2>4, <2>5
  <2>8. e[k] = 4 * k
    BY <2>5, <2>6, <2>7
  <2> QED BY <2>2, <2>8
<1>3. n \in 0 .. n
  OBVIOUS
<1> QED BY <1>2, <1>3 DEF e

LEMMA ResendSize ==
  ASSUME NEW m \in ResendMessage
  PROVE  SizeIsRight(sendResend(m))
<1> DEFINE c == Len(m.resend_items)
           n == 2 + 2 * c
           items == resendItems(m)
<1>1. c \in Nat
  BY DEF ResendMessage
<1>2. items = [k \in 1 .. n |->
                IF k = 1 THEN I(m.sink_id)
                ELSE IF k = 2 THEN I(m.stream_id)
                ELSE IF k % 2 = 1 THEN I(m.resend_items[(k - 1) \div 2].seq)
                ELSE I(m.resend_items[(k - 2) \div 2].frame)]
  BY DEF resendItems
<1> HIDE DEF c, items
<1>3. n \in Nat
  BY <1>1
<1> HIDE DEF n
<1>4. Len(items) = n
  BY <1>2, <1>3
<1>5. \A k \in 1 .. n : \E v : items[k] = I(v)
  BY <1>2, Zenon
<1>6. \A k \in 1 .. n : Width(items[k]) = 4
  BY <1>5, Widths
<1>7. EndOf(items)[n] = 4 * n
  BY <1>3, <1>4, <1>6, EndOfWords
<1>8. sizeResend(m) = 4 * n
  BY <1>1 DEF sizeResend, n, c
<1> QED BY <1>4, <1>7, <1>8 DEF SizeIsRight, WrittenSize, sendResend, Osc, items

LEMMA OtherSize ==
  ASSUME NEW m \in OtherVersion
  PROVE  SizeIsRight(sendOther(m))
<1> DEFINE items == sendOther(m).items
<1>1. 0 \in Nat /\ Len(items) = 0
  BY DEF sendOther, Osc
<1>2. sendOther(m).size = 0
  BY DEF sendOther, Osc
<1> HIDE DEF items
<1>3. EndOf(items)[0] = 0
  BY <1>1, Ends
<1> QED BY <1>1, <1>2, <1>3 DEF SizeIsRight, WrittenSize, items

LEMMA MessageSize ==
  ASSUME NEW m \in Message
  PROVE  HasItsSize(m)
<1>1. CASE m \in StartMessage
  BY <1>1, StartSize DEF StartMessage, send, HasItsSize
<1>2. CASE m \in DataMessage
  BY <1>2, DataSize DEF DataMessage, send, HasItsSize
<1>3. CASE m \in StopSinkMessage \union PingSinkMessage \union PongSinkMessage
                 \union DeclineMessage
  BY <1>3, SmallSizes DEF StopSinkMessage, PingSinkMessage, PongSinkMessage,
     DeclineMessage, send, HasItsSize
<1>4. CASE m \in RequestStartMessage
  BY <1>4, RequestStartSize DEF RequestStartMessage, send, HasItsSize
<1>5. CASE m \in ResendMessage
  BY <1>5, ResendSize DEF ResendMessage, send, HasItsSize
<1>6. CASE m \in StopSourceMessage \union PingSourceMessage \union PongSourceMessage
  BY <1>6, SmallSizes DEF StopSourceMessage, PingSourceMessage, PongSourceMessage,
     send, HasItsSize
<1>7. CASE m \in InviteMessage \union UninviteMessage
  BY <1>7, SmallSizes DEF InviteMessage, UninviteMessage, send, HasItsSize
<1>8. CASE m \in OtherVersion
  BY <1>8, OtherSize DEF OtherVersion, send, HasItsSize
<1>9. CASE m \in BinaryMessage
  BY <1>9 DEF BinaryMessage, HasItsSize
<1> QED BY <1>1, <1>2, <1>3, <1>4, <1>5, <1>6, <1>7, <1>8, <1>9
        DEF Message, SinkMessage, SourceMessage

\* size() of every message is the number of bytes that its send() writes, for
\* texts and blocks of bytes of any length and any number of resend items.
THEOREM SizesRight == Spec => []SizesAgree
<1>1. Init => Inv /\ Faithful
  BY InvInit DEF Init, Faithful
<1>2. Inv /\ Faithful /\ [Next]_vars => (Inv /\ Faithful)'
  BY InvStep, FaithfulStep
<1>3. Faithful => SizesAgree
  <2> SUFFICES ASSUME Faithful PROVE SizesAgree
    OBVIOUS
  <2>1. AllHaveTheirSize
    BY MessagesAssumption, MessageSize DEF AllHaveTheirSize
  <2>2. CASE sent.message = NoMessage
    BY <2>1, <2>2 DEF SizesAgree, HasItsSize, NoMessage
  <2>3. CASE sent.message \in SourceMessage
    BY <2>1, <2>3, MessageSize DEF SizesAgree, Message
  <2> QED BY <2>2, <2>3 DEF Faithful
<1> QED BY <1>1, <1>2, <1>3, PTL DEF Spec
=============================================================================
