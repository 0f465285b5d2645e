------------------------------ MODULE Receiver ------------------------------
(***************************************************************************)
(* AOOReceiver: the list of source lines, one per stream, and the mixer.   *)
(* A /start sets a line up, /data without a known format makes a line that *)
(* asks for /start, /stop removes it, and the post processing adds primed  *)
(* lines to the mixer and removes the stale and the poor ones.             *)
(*                                                                         *)
(* The environment is open: any message may arrive at any time, as it may  *)
(* over UDP.  The audio inside a line is module JitterBuffer; here it      *)
(* matters only whether a block was stored and whether the line is primed. *)
(* All timers compare differences of millis(), so a line keeps the time    *)
(* that has passed, in ticks, up to a bound where nothing changes any more.*)
(* The counters and the warning about missing data only report.            *)
(***************************************************************************)
EXTENDS Integers, FiniteSets

CONSTANTS
  Streams,    \* pairs of a source and a stream id
  Formats,
  Timeout,    \* stream_timeout_ms
  Interval    \* start_request_interval_ms

ASSUME TimesAssumption ==
  /\ Timeout \in Nat \ {0}
  /\ Interval \in Nat \ {0}

VARIABLES
  sources,    \* the streams that have a line
  line,       \* the line of each of them
  mixer,      \* the lines in the mixer
  requested   \* the streams asked for /start in the last step

vars == <<sources, line, mixer, requested>>

\* The time after which nothing changes any more; Never means not yet.
Bound == 1 + (IF Timeout > Interval THEN Timeout ELSE Interval)
Never == Bound + 1
Ages == 0 .. Never

NoFormat == "none"
\* counted: the statistics of the line have counted segments; they belong to
\* the line and stay when it is set up again.
NewLine ==
  [format |-> NoFormat, started |-> FALSE, counted |-> FALSE, primed |-> FALSE,
   last_data_time |-> Never, start_time |-> Never, last_start_request |-> Never]

hasDecoder(s) == line[s].format # NoFormat
Primed(ss) == {s \in ss : line[s].primed}

Init ==
  /\ sources = {}
  /\ line = [s \in Streams |-> NewLine]
  /\ mixer = {}
  /\ requested = {}

-----------------------------------------------------------------------------
(* Messages *)

\* The decoder is kept even when it could not be set up.
Configured(old, f, ok) ==
  [old EXCEPT !.format = f,
              !.primed = FALSE,
              !.started = ok \/ old.started,
              !.start_time = IF ok THEN 0 ELSE old.start_time]

\* A repeated /start for an unchanged stream keeps the buffered audio.
onStart(s, f, ok) ==
  /\ sources' = sources \union {s}
  /\ line' = IF line[s].format = f
               THEN line
               ELSE [line EXCEPT ![s] = Configured(@, f, ok)]
  /\ requested' = {}
  /\ UNCHANGED mixer

RequestDue(s) == line[s].last_start_request \in Interval .. Never

\* The last request is taken to be the last block that needed one.
onDataUnknown_Postpones(s) ==
  /\ ~hasDecoder(s)
  /\ sources' = sources \union {s}
  /\ line' = [line EXCEPT ![s].last_data_time = 0, ![s].last_start_request = 0]
  /\ requested' = IF RequestDue(s) THEN {s} ELSE {}
  /\ UNCHANGED mixer

\* Blocks of a stream whose /start was missed: the line asks for it, but not
\* too often.
onDataUnknown(s) ==
  /\ ~hasDecoder(s)
  /\ sources' = sources \union {s}
  /\ line' = [line EXCEPT
       ![s].last_data_time = 0,
       ![s].last_start_request = IF RequestDue(s) THEN 0 ELSE @]
  /\ requested' = IF RequestDue(s) THEN {s} ELSE {}
  /\ UNCHANGED mixer

\* A block that is stored may prime the line; frames of an incomplete block
\* and segments that are not accepted change nothing here.
onDataStored(s) ==
  /\ hasDecoder(s)
  /\ \E primed \in {TRUE, line[s].primed} :
       line' = [line EXCEPT ![s].last_data_time = 0,
                            ![s].counted = TRUE,
                            ![s].primed = primed]
  /\ requested' = {}
  /\ UNCHANGED <<sources, mixer>>

onDataDropped(s) ==
  /\ hasDecoder(s)
  /\ requested' = {}
  /\ UNCHANGED <<sources, line, mixer>>

onData(s) == onDataUnknown(s) \/ onDataStored(s) \/ onDataDropped(s)

Without(gone) == [s \in Streams |-> IF s \in gone THEN NewLine ELSE line[s]]

removeSources_KeepsMixer(gone) ==
  /\ sources' = sources \ gone
  /\ line' = Without(gone)
  /\ UNCHANGED mixer

\* removeSource() builds the mixer anew.
removeSources(gone) ==
  /\ sources' = sources \ gone
  /\ line' = Without(gone)
  /\ mixer' = IF gone = {} THEN mixer ELSE Primed(sources \ gone)

onStop(s) ==
  /\ removeSources(sources \intersect {s})
  /\ requested' = {}

-----------------------------------------------------------------------------
(* Post processing *)

Stale_NeedsData(s) == line[s].last_data_time \in Timeout + 1 .. Bound
\* Time since the last data, or since the start as long as there was none.
Stale(s) ==
  IF line[s].last_data_time # Never
    THEN line[s].last_data_time > Timeout
    ELSE line[s].started /\ line[s].start_time > Timeout

postProcessing_RemovalOnly(poor) ==
  /\ removeSources(poor \union {s \in sources : Stale(s)})
  /\ requested' = {}

\* poor: lines whose recent quality is too low, after more than 20 expected
\* segments.
postProcessing(poor) ==
  LET gone == poor \union {s \in sources : Stale(s)} IN
  /\ sources' = sources \ gone
  /\ mixer' = IF gone = {} THEN mixer \union Primed(sources) ELSE Primed(sources \ gone)
  /\ line' = Without(gone)
  /\ requested' = {}

Poor == {s \in sources : line[s].counted}

PostProcessing == \E poor \in SUBSET Poor : postProcessing(poor)

\* end(); begin() starts with an empty list.
end ==
  /\ sources' = {}
  /\ mixer' = {}
  /\ line' = Without(Streams)
  /\ requested' = {}

Older(age) == IF age < Bound THEN age + 1 ELSE age

Tick ==
  /\ line' = [s \in Streams |->
       [line[s] EXCEPT !.last_data_time = Older(@), !.start_time = Older(@),
                       !.last_start_request = Older(@)]]
  /\ requested' = {}
  /\ UNCHANGED <<sources, mixer>>

Messages ==
  \E s \in Streams :
    \/ \E f \in Formats, ok \in BOOLEAN : onStart(s, f, ok)
    \/ onData(s)
    \/ onStop(s)

Next ==
  \/ Messages
  \/ PostProcessing
  \/ end
  \/ Tick

Spec == Init /\ [][Next]_vars

\* The clock runs, and the application keeps pulling audio, which runs the post
\* processing.
FairSpec == Spec /\ WF_vars(Tick) /\ WF_vars(PostProcessing)

-----------------------------------------------------------------------------
(* Properties *)

Line ==
  [format : Formats \union {NoFormat}, started : BOOLEAN, counted : BOOLEAN,
   primed : BOOLEAN,
   last_data_time : Ages, start_time : Ages, last_start_request : Ages]

TypeOK ==
  /\ sources \subseteq Streams
  /\ line \in [Streams -> Line]
  /\ \A s \in Streams \ sources : line[s] = NewLine
  /\ mixer \subseteq Streams
  /\ requested \subseteq Streams

\* The mixer keeps pointers to lines: none outlives its line, whichever of
\* /stop, timeout and poor quality removes it.
MixerHasOnlyLines == mixer \subseteq sources

\* After the post processing every primed line is heard, also one that was
\* set up again and primed again, and whatever was removed in the same pass.
PrimedAreMixed ==
  [][\A poor \in SUBSET Poor : postProcessing(poor) =>
       \A s \in sources' : line'[s].primed => s \in mixer']_vars

\* Blocks of a stream whose format is not known make the line ask for /start
\* again and again, however close together they come: limiting the requests to
\* one per interval never silences them (AOOReceiver::requestStartFor).
KeepsAsking ==
  \A s \in Streams : []<><<onDataUnknown(s)>>_vars => []<>(s \in requested)

\* A line whose decoder could not be set up and that never got data.
NeverUsed(s) == line[s].last_data_time = Never /\ ~line[s].started

\* A line about which nothing is heard any more is removed, in whatever order it
\* was asked for, set up, fed and set up again.  One that was never used stays, in
\* spite of "also the ones which never sent any data" (AOOReceiver::postProcessing).
SilentIsRemoved ==
  \A s \in Streams :
    []<>(\/ s \notin sources
         \/ NeverUsed(s)
         \/ line[s].last_data_time = 0
         \/ line[s].start_time = 0)
=============================================================================
