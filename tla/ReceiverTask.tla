---------------------------- MODULE ReceiverTask ----------------------------
(***************************************************************************)
(* AOOReceiverTask (AOOReceiverTask.h): a task handles the messages while  *)
(* the application thread pulls the audio.  sources_mutex (recursive)      *)
(* guards the list of source lines, mutex the encoded buffer of each line. *)
(* One line is modelled, with its jitter buffer (module JitterBuffer).     *)
(*                                                                         *)
(* A LockGuard is an action that takes the lock and one that gives it back *)
(* at the end of the scope; everything between two lock operations of a    *)
(* thread is one step.  Deleting the task leaves its locks locked.         *)
(***************************************************************************)
EXTENDS Integers

CONSTANTS
  Size, Segments,  \* of the jitter buffer
  WaitLimit        \* how many times end() waits for the task (100 in the code)

ASSUME WaitAssumption == WaitLimit \in Nat
ASSUME JitterAssumption == Size \in Nat \ {0} /\ Segments \subseteq Nat

VARIABLES
  entry_id, active, read_seq, min_write_seq, max_write_seq, segments_received,
  is_primed, result, out, stored, played,   \* the jitter buffer
  line,            \* the list holds a line with a decoder
  writing,         \* the segment storeEncodedData() is storing, or -1
  sources_owner, sources_depth,             \* sources_mutex
  mutex_owner,                              \* mutex
  stop_requested, stopped, waited,          \* the stop handshake
  task_pc, app_pc

JB == INSTANCE JitterBuffer

jitter == <<entry_id, active, read_seq, min_write_seq, max_write_seq,
            segments_received, is_primed, result, out, stored, played>>
lists == <<jitter, line, writing>>
locks == <<sources_owner, sources_depth, mutex_owner>>
flags == <<stop_requested, stopped, waited>>
vars == <<lists, locks, flags, task_pc, app_pc>>

Init ==
  /\ JB!Init
  /\ line = FALSE
  /\ writing = -1
  /\ sources_owner = "free" /\ sources_depth = 0
  /\ mutex_owner = "free"
  /\ stop_requested = FALSE /\ stopped = FALSE /\ waited = 0
  /\ task_pc = "none"
  /\ app_pc = "off"

-----------------------------------------------------------------------------
(* The locks *)

LockSources(thread) ==
  /\ sources_owner \in {"free", thread}
  /\ sources_owner' = thread
  /\ sources_depth' = sources_depth + 1
  /\ UNCHANGED mutex_owner

UnlockSources ==
  /\ sources_depth' = sources_depth - 1
  /\ sources_owner' = IF sources_depth = 1 THEN "free" ELSE sources_owner
  /\ UNCHANGED mutex_owner

LockBuffer(thread) ==
  /\ mutex_owner = "free"
  /\ mutex_owner' = thread
  /\ UNCHANGED <<sources_owner, sources_depth>>

UnlockBuffer ==
  /\ mutex_owner' = "free"
  /\ UNCHANGED <<sources_owner, sources_depth>>

TaskAt(from, to) == task_pc = from /\ task_pc' = to /\ UNCHANGED <<app_pc, flags>>
AppAt(from, to) == app_pc = from /\ app_pc' = to /\ UNCHANGED <<task_pc, flags>>

-----------------------------------------------------------------------------
(* The receive task: taskLoop() *)

TaskStop_GoesOn ==
  /\ task_pc = "idle"
  /\ stop_requested
  /\ stopped' = TRUE
  /\ task_pc' = "acquire"
  /\ UNCHANGED <<lists, locks, stop_requested, waited, app_pc>>

\* A requested stop is confirmed outside of the lock; the task then idles.
TaskStop ==
  /\ task_pc = "idle"
  /\ stop_requested
  /\ stopped' = TRUE
  /\ UNCHANGED <<lists, locks, stop_requested, waited, task_pc, app_pc>>

TaskGo ==
  /\ ~stop_requested
  /\ TaskAt("idle", "acquire")
  /\ UNCHANGED <<lists, locks>>

TaskAcquire_Unlocked ==
  /\ TaskAt("acquire", "dispatch")
  /\ sources_depth' = sources_depth + 1
  /\ UNCHANGED <<lists, sources_owner, mutex_owner>>

\* processMessages() holds sources_mutex until no more messages are available.
TaskAcquire ==
  /\ TaskAt("acquire", "dispatch")
  /\ LockSources("task")
  /\ UNCHANGED lists

\* onData of a complete segment: storeEncodedData locks the buffer twice, once
\* to write and once to notify.
TaskData(seq) ==
  /\ line
  /\ TaskAt("dispatch", "store")
  /\ writing' = seq
  /\ UNCHANGED <<jitter, line, locks>>

TaskStoreLock ==
  /\ TaskAt("store", "storing")
  /\ LockBuffer("task")
  /\ UNCHANGED lists

TaskStore ==
  /\ JB!acceptsSegment(writing)
  /\ TaskAt("storing", "stored")
  /\ UnlockBuffer
  /\ JB!Write(writing)
  /\ stored' = stored \union {writing}
  /\ UNCHANGED <<read_seq, min_write_seq, max_write_seq, segments_received,
                 is_primed, result, out, played, line, writing>>

TaskIgnore ==
  /\ ~JB!acceptsSegment(writing)
  /\ TaskAt("storing", "dispatch")
  /\ UnlockBuffer
  /\ writing' = -1
  /\ UNCHANGED <<jitter, line>>

TaskNotifyLock ==
  /\ TaskAt("stored", "notifying")
  /\ LockBuffer("task")
  /\ UNCHANGED lists

TaskNotify_Nothing ==
  /\ TaskAt("notifying", "dispatch")
  /\ UnlockBuffer
  /\ writing' = -1
  /\ UNCHANGED <<jitter, line>>
TaskNotify ==
  /\ TaskAt("notifying", "dispatch")
  /\ UnlockBuffer
  /\ JB!notifySegmentReceived(writing)
  /\ writing' = -1
  /\ UNCHANGED <<entry_id, active, read_seq, result, out, stored, played, line>>

\* onStart: sets up a new line or re-initialises it; a repeated /start for a
\* running line changes nothing.  With output_follows_source it calls
\* setAudioInfo(), which takes sources_mutex again.
TaskStart ==
  /\ TaskAt("dispatch", "starting")
  /\ LockSources("task")
  /\ UNCHANGED lists

TaskStarted ==
  /\ TaskAt("starting", "dispatch")
  /\ UnlockSources
  /\ JB!Restart
  /\ line' = TRUE
  /\ UNCHANGED writing

\* onStop: the line is removed with its buffer.
TaskRemove ==
  /\ TaskAt("dispatch", "dispatch")
  /\ line
  /\ JB!Restart
  /\ line' = FALSE
  /\ UNCHANGED <<writing, locks>>

TaskRelease ==
  /\ TaskAt("dispatch", "idle")
  /\ UnlockSources
  /\ UNCHANGED lists

TaskDispatch ==
  \/ \E seq \in Segments : TaskData(seq)
  \/ TaskStoreLock \/ TaskStore \/ TaskIgnore \/ TaskNotifyLock \/ TaskNotify
  \/ TaskStart \/ TaskStarted \/ TaskRemove

Task == TaskStop \/ TaskGo \/ TaskAcquire \/ TaskDispatch \/ TaskRelease

-----------------------------------------------------------------------------
(* The application thread *)

\* readBytes() and available(): post processing first, then the audio, each
\* under sources_mutex.
AppRead ==
  /\ AppAt("ready", "post")
  /\ UNCHANGED <<lists, locks>>

AppPostLock ==
  /\ AppAt("post", "posting")
  /\ LockSources("app")
  /\ UNCHANGED lists

\* updateStats() locks the buffer of each line.
AppStatsLock ==
  /\ line
  /\ AppAt("posting", "stats")
  /\ LockBuffer("app")
  /\ UNCHANGED lists

AppStats_KeepsLock ==
  /\ AppAt("stats", "posted")
  /\ UNCHANGED <<lists, locks>>
AppStats ==
  /\ AppAt("stats", "posted")
  /\ UnlockBuffer
  /\ UNCHANGED lists

\* A line that is stale or of poor quality is removed.
AppRemove ==
  /\ AppAt("posted", "read")
  /\ UnlockSources
  /\ JB!Restart
  /\ line' = FALSE
  /\ UNCHANGED writing

AppPosted ==
  /\ \/ AppAt("posted", "read")
     \/ ~line /\ AppAt("posting", "read")
  /\ UnlockSources
  /\ UNCHANGED lists

AppReadLock ==
  /\ AppAt("read", "reading")
  /\ LockSources("app")
  /\ UNCHANGED lists

\* decode() takes segments until it has enough audio.
AppSegmentLock ==
  /\ line /\ is_primed
  /\ AppAt("reading", "segment")
  /\ LockBuffer("app")
  /\ UNCHANGED lists

AppSegment ==
  /\ AppAt("segment", "decode")
  /\ UnlockBuffer
  /\ JB!Read
  /\ UNCHANGED <<line, writing>>

AppDecode ==
  /\ result # "none"
  /\ AppAt("decode", "reading")
  /\ UNCHANGED <<lists, locks>>

AppReadDone ==
  /\ AppAt("reading", "ready") \/ AppAt("decode", "ready")
  /\ UnlockSources
  /\ UNCHANGED lists

\* setAudioInfo(), xrunCount() and resetXrunCount() are locked as well.
AppCall ==
  /\ AppAt("ready", "call")
  /\ UNCHANGED <<lists, locks>>

AppCallLock ==
  /\ AppAt("call", "calling")
  /\ LockSources("app")
  /\ UNCHANGED lists

AppCallDone ==
  /\ AppAt("calling", "ready")
  /\ UnlockSources
  /\ UNCHANGED lists

\* getSourceCount() is inherited: it reads the length of the list without a lock.
AppCount ==
  /\ AppAt("ready", "counting")
  /\ UNCHANGED <<lists, locks>>

AppCounted ==
  /\ AppAt("counting", "ready")
  /\ UNCHANGED <<lists, locks>>

\* begin(): the flags are reset before the task is created.
AppBegin ==
  /\ app_pc = "off"
  /\ app_pc' = "ready"
  /\ stop_requested' = FALSE /\ stopped' = FALSE /\ waited' = 0
  /\ task_pc' = "idle"
  /\ UNCHANGED <<lists, locks>>

\* end(): request the stop and wait, but not for ever.
AppEnd ==
  /\ app_pc = "ready"
  /\ app_pc' = "waiting"
  /\ stop_requested' = TRUE
  /\ UNCHANGED <<lists, locks, stopped, waited, task_pc>>

AppWait ==
  /\ app_pc = "waiting"
  /\ ~stopped /\ waited < WaitLimit
  /\ waited' = waited + 1
  /\ UNCHANGED <<lists, locks, stop_requested, stopped, task_pc, app_pc>>

TaskHoldsLock == sources_owner = "task" \/ mutex_owner = "task"

\* Between the two critical sections of storeEncodedData(); "cut" is the task
\* deleted there.
Announced == task_pc \in {"stored", "notifying", "cut"}

\* task.end() and task.remove(): the task is gone wherever it was, and a lock
\* it held stays locked.
AppKill ==
  /\ app_pc = "waiting"
  /\ stopped \/ waited = WaitLimit
  /\ app_pc' = "clearing"
  /\ task_pc' = IF Announced THEN "cut" ELSE "none"
  /\ sources_owner' = IF sources_owner = "task" THEN "dead" ELSE sources_owner
  /\ mutex_owner' = IF mutex_owner = "task" THEN "dead" ELSE mutex_owner
  /\ UNCHANGED <<lists, sources_depth, flags>>

\* AOOReceiver::end() clears the list without a lock.
AppClear ==
  /\ app_pc = "clearing" /\ app_pc' = "off"
  /\ JB!Restart
  /\ line' = FALSE /\ writing' = -1
  /\ task_pc' = "none"
  /\ UNCHANGED <<locks, flags>>

AppReading ==
  \/ AppPostLock \/ AppStatsLock \/ AppStats \/ AppRemove \/ AppPosted
  \/ AppReadLock \/ AppSegmentLock \/ AppSegment \/ AppDecode \/ AppReadDone
AppCalls == AppRead \/ AppCall \/ AppCount \/ AppEnd \/ AppBegin
AppSteps == AppReading \/ AppCallLock \/ AppCallDone \/ AppCounted \/ AppWait
              \/ AppKill \/ AppClear

Next == Task \/ AppCalls \/ AppSteps

Spec == Init /\ [][Next]_vars

\* Both threads are scheduled.  A lock that is free again and again is granted
\* at some time (the task sleeps between two dispatches), and the queue of
\* messages is empty from time to time.
FairSpec ==
  /\ Spec
  /\ WF_vars(Task) /\ SF_vars(TaskRelease) /\ SF_vars(TaskAcquire)
  /\ WF_vars(AppSteps)
  /\ SF_vars(AppPostLock) /\ SF_vars(AppReadLock) /\ SF_vars(AppCallLock)
  /\ SF_vars(AppReadDone)

-----------------------------------------------------------------------------
(* Properties *)

TaskUsesSources == task_pc \in {"dispatch", "store", "storing", "stored",
                                "notifying", "starting"}
AppUsesSources == app_pc \in {"posting", "stats", "posted", "reading", "segment",
                              "decode", "calling", "clearing"}

\* The two threads never use the lines, their buffers and the mixer at the same
\* time, although end() clears them without a lock.  Of the calls modelled only
\* getSourceCount() runs beside the task: it reads the length of the list, and no
\* line, while the task may be changing the list ("`sources_mutex` ... guards the
\* sources list", the comment of AOOReceiverTask, is not true of it).
NoRaceOnLines == ~(TaskUsesSources /\ AppUsesSources)

\* A confirmed stop is final: the task neither holds nor wants a lock until
\* the next begin(), so it can be deleted.
StopIsFinal == stopped => task_pc \in {"none", "idle"} /\ ~TaskHoldsLock

LockLost == sources_owner = "dead" \/ mutex_owner = "dead"

\* Every call of the application returns, however the two locks are nested,
\* unless end() has deleted the task inside a critical section.
CallsReturn ==
  app_pc \notin {"ready", "off"} ~> app_pc \in {"ready", "off"} \/ LockLost

\* While a segment is written but not yet announced, the atomic buffer has it
\* already.
newest == IF Announced /\ writing > max_write_seq THEN writing ELSE max_write_seq
oldest == IF Announced /\ (min_write_seq < 0 \/ writing < min_write_seq)
            THEN writing ELSE min_write_seq
received == IF Announced THEN segments_received + 1 ELSE segments_received
primed == is_primed \/ (Announced /\ received >= Size \div 2)

Atomic == INSTANCE JitterBuffer WITH
  max_write_seq <- newest, min_write_seq <- oldest,
  segments_received <- received, is_primed <- primed

\* Storing in two critical sections is as good as storing in one: with the
\* lock on the list around them the buffer behaves as module JitterBuffer says.
StoreIsAtomic == Atomic!Spec
=============================================================================
