----------------------------- MODULE MCRouting ------------------------------
(***************************************************************************)
(* Routing for TLC: two sources with a stream each and three sinks, one    *)
(* with an id that makes the binary header long.  No two fields of a       *)
(* message have the same value, texts and blocks are longer by up to three *)
(* bytes than a multiple of four.                                          *)
(***************************************************************************)
EXTENDS Routing

Numbers == 0 .. 20

Text(content, len) == [content |-> content, len |-> len]
PCM == 1
Unheard == 2
Version == Text(3, 3)

Start(s, id, codec) ==
  [type |-> "start", source_id |-> s, sink_id |-> id, version |-> Version,
   stream_id |-> 7, sequence_number_start |-> 8, format_id |-> 9, channels |-> 2,
   sample_rate |-> 10, block_size |-> 11, codec |-> codec,
   codec_extension |-> Text(12, 4), start_time |-> 13,
   reblock_resample_latency_samples |-> 14, codec_delay_samples |-> 15,
   sample_offset |-> 16]
Stop(s, id) ==
  [type |-> "stop", source_id |-> s, sink_id |-> id, stream_id |-> 7, last_seq |-> 8,
   sample_offset |-> 9]
Data(s, id, len) ==
  [type |-> "data", source_id |-> s, sink_id |-> id, stream_id |-> 7, seq_no |-> 8,
   timestamp |-> 9, real_sample_rate |-> 10, channel_onset |-> 11, total_size |-> 12,
   total_number_of_frames |-> 2, frame_idx |-> 1, audio_data |-> Text(13, len)]
Ping(s, id) == [type |-> "ping", source_id |-> s, sink_id |-> id, send_time |-> 9]
Pong(s, id) ==
  [type |-> "pong", source_id |-> s, sink_id |-> id, t1 |-> 9, t2 |-> 10, t3 |-> 11]
Decline(s, id) == [type |-> "decline", source_id |-> s, sink_id |-> id, stream_id |-> 7]
Unreadable(s, id, verb) == [type |-> "other", source_id |-> s, sink_id |-> id, verb |-> verb]

\* A binary message with the given flags, of which some bytes are cut off
Whole(s, id, flags) ==
  [type |-> "binary", source_id |-> s, sink_id |-> id, stream_id |-> 7, seq_no |-> 8,
   timestamp |-> IF "TimeStamp" \in flags THEN 9 ELSE 0,
   real_sample_rate |-> IF "SampleRate" \in flags THEN 10 ELSE 0,
   channel_onset |-> 11, total_size |-> IF "Frames" \in flags THEN 12 ELSE
                                         IF "XRun" \in flags THEN 0 ELSE 5,
   total_number_of_frames |-> IF "Frames" \in flags THEN 2 ELSE 1,
   frame_idx |-> IF "Frames" \in flags THEN 1 ELSE 0,
   audio_data |-> IF "XRun" \in flags THEN NoAudio ELSE Text(13, 5),
   flags |-> flags, arrived |-> 100]
Binary(s, id, flags, cut) ==
  LET m == Whole(s, id, flags) IN [m EXCEPT !.arrived = Layout(m).end - cut]

Flags == {{}, {"Frames", "TimeStamp"}, BinDataFlags \ {"XRun"}, BinDataFlags,
          {"StreamMessage", "SampleRate"}}

ToSinks ==
  UNION {{Start(to[1], to[2], Text(PCM, 3)), Data(to[1], to[2], 5)} :
           to \in {<<4, 0>>, <<4, 1>>, <<5, 1>>, <<5, 300>>}}
  \union {Ping(4, 0), Ping(4, 1), Ping(5, 300), Stop(4, 1), Stop(5, 300)}
  \union {Start(4, 1, Text(Unheard, 4)), Pong(4, 1), Decline(4, 1), Data(4, 1, 6)}
  \union {Unreadable(4, 1, verb) : verb \in {"start", "data", "ping", "stop"}}
  \union {Binary(5, id, flags, 0) : id \in {1, 300}, flags \in Flags}
  \union {Binary(5, 300, {"Frames", "TimeStamp"}, cut) : cut \in {1, 6, 14, 22}}

ToSources ==
  {[type |-> "request_start", source_id |-> 4, sink_id |-> 1, version |-> Version],
   [type |-> "stop_source", source_id |-> 4, sink_id |-> 1, stream_id |-> 7],
   [type |-> "resend", source_id |-> 4, sink_id |-> 1, stream_id |-> 7,
    resend_items |-> <<[seq |-> 8, frame |-> 0], [seq |-> 9, frame |-> 1]>>],
   [type |-> "ping_source", source_id |-> 4, sink_id |-> 1, send_time |-> 9],
   [type |-> "pong_source", source_id |-> 4, sink_id |-> 1, t1 |-> 9, t2 |-> 10,
    t3 |-> 11],
   [type |-> "invite", source_id |-> 4, sink_id |-> 1, stream_id |-> 7],
   [type |-> "uninvite", source_id |-> 4, sink_id |-> 1, stream_id |-> 7]}

AllMessages == ToSinks \union ToSources
=============================================================================
