------------------------- MODULE ReceiverTaskProofs -------------------------
(* Proofs about ReceiverTask, for every size of the buffer, every set of     *)
(* segments and every limit of the wait.                                     *)
EXTENDS ReceiverTask, TLAPS

-----------------------------------------------------------------------------
(* The inductive invariant *)

AppHoldsSources == app_pc \in {"posting", "stats", "posted", "reading", "segment",
                               "decode", "calling"}

\* Who holds sources_mutex, and how deep, follows from where the threads are.
SourcesLocked ==
  /\ TaskUsesSources <=> sources_owner = "task"
  /\ AppHoldsSources <=> sources_owner = "app"
  /\ sources_owner = "free" => sources_depth = 0
  /\ sources_owner = "app" => sources_depth = 1
  /\ sources_owner = "task" => sources_depth = IF task_pc = "starting" THEN 2 ELSE 1

BufferLocked ==
  /\ mutex_owner \in {"free", "task", "app", "dead"}
  /\ mutex_owner = "task" => task_pc \in {"storing", "notifying"}
  /\ mutex_owner = "app" => app_pc \in {"stats", "segment"}

\* The list is cleared after the task has gone, and the task is created after
\* the list was cleared.
TaskGone ==
  /\ app_pc = "off" => task_pc = "none"
  /\ app_pc = "clearing" => task_pc \in {"none", "cut"}
  /\ task_pc = "cut" => app_pc = "clearing"

StopConfirmed == stopped => stop_requested /\ task_pc \in {"none", "idle"}

Storing == task_pc \in {"store", "storing"} \/ Announced => writing \in Segments

IInv == SourcesLocked /\ BufferLocked /\ TaskGone /\ StopConfirmed /\ Storing

LEMMA InitInv == Init => IInv
BY DEF Init, IInv, SourcesLocked, BufferLocked, TaskGone, StopConfirmed, Storing,
       TaskUsesSources, AppHoldsSources, Announced

\* A step of the receive task.
LEMMA TaskInv == ASSUME IInv, Task PROVE IInv'
<1> USE DEF IInv, SourcesLocked, BufferLocked, TaskGone, StopConfirmed, Storing,
            TaskUsesSources, AppHoldsSources, Announced, TaskAt, flags, lists,
            locks, LockSources, UnlockSources, LockBuffer, UnlockBuffer
<1>1. CASE TaskStop
  BY <1>1 DEF TaskStop
<1>2. CASE TaskGo
  BY <1>2 DEF TaskGo
<1>3. CASE TaskAcquire
  BY <1>3 DEF TaskAcquire
<1>4. ASSUME NEW seq \in Segments, TaskData(seq) PROVE IInv'
  BY <1>4 DEF TaskData
<1>5. CASE TaskStoreLock
  BY <1>5 DEF TaskStoreLock
<1>6. CASE TaskStore
  BY <1>6 DEF TaskStore
<1>7. CASE TaskIgnore
  BY <1>7 DEF TaskIgnore
<1>8. CASE TaskNotifyLock
  BY <1>8 DEF TaskNotifyLock
<1>9. CASE TaskNotify
  BY <1>9 DEF TaskNotify
<1>10. CASE TaskStart
  BY <1>10 DEF TaskStart
<1>11. CASE TaskStarted
  BY <1>11 DEF TaskStarted
<1>12. CASE TaskRemove
  BY <1>12 DEF TaskRemove
<1>13. CASE TaskRelease
  BY <1>13 DEF TaskRelease
<1> QED
  BY <1>1, <1>2, <1>3, <1>4, <1>5, <1>6, <1>7, <1>8, <1>9, <1>10, <1>11, <1>12,
     <1>13 DEF Task, TaskDispatch

\* A step of the application that reads the audio or calls another method.
LEMMA AppReadingInv ==
  ASSUME IInv, AppReading \/ AppRead \/ AppCall \/ AppCallLock \/ AppCallDone
               \/ AppCount \/ AppCounted
  PROVE  IInv'
<1> USE DEF IInv, SourcesLocked, BufferLocked, TaskGone, StopConfirmed, Storing,
            TaskUsesSources, AppHoldsSources, Announced, AppAt, flags, lists,
            locks, LockSources, UnlockSources, LockBuffer, UnlockBuffer
<1>1. CASE AppPostLock
  BY <1>1 DEF AppPostLock
<1>2. CASE AppStatsLock
  BY <1>2 DEF AppStatsLock
<1>3. CASE AppStats
  BY <1>3 DEF AppStats
<1>4. CASE AppRemove
  BY <1>4 DEF AppRemove
<1>5. CASE AppPosted
  BY <1>5 DEF AppPosted
<1>6. CASE AppReadLock
  BY <1>6 DEF AppReadLock
<1>7. CASE AppSegmentLock
  BY <1>7 DEF AppSegmentLock
<1>8. CASE AppSegment
  BY <1>8 DEF AppSegment
<1>9. CASE AppDecode
  BY <1>9 DEF AppDecode
<1>10. CASE AppReadDone
  BY <1>10 DEF AppReadDone
<1>11. CASE AppRead
  BY <1>11 DEF AppRead
<1>12. CASE AppCall
  BY <1>12 DEF AppCall
<1>13. CASE AppCallLock
  BY <1>13 DEF AppCallLock
<1>14. CASE AppCallDone
  BY <1>14 DEF AppCallDone
<1>15. CASE AppCount \/ AppCounted
  BY <1>15 DEF AppCount, AppCounted
<1> QED
  BY <1>1, <1>2, <1>3, <1>4, <1>5, <1>6, <1>7, <1>8, <1>9, <1>10, <1>11, <1>12,
     <1>13, <1>14, <1>15 DEF AppReading

\* begin() and the steps of end().
LEMMA AppEndInv ==
  ASSUME IInv, AppBegin \/ AppEnd \/ AppWait \/ AppKill \/ AppClear
  PROVE  IInv'
<1> USE DEF IInv, SourcesLocked, BufferLocked, TaskGone, StopConfirmed, Storing,
            TaskUsesSources, AppHoldsSources, Announced, flags, lists, locks
<1>1. CASE AppBegin
  BY <1>1 DEF AppBegin
<1>2. CASE AppEnd
  BY <1>2 DEF AppEnd
<1>3. CASE AppWait
  BY <1>3 DEF AppWait
<1>4. CASE AppKill
  BY <1>4 DEF AppKill
<1>5. CASE AppClear
  BY <1>5 DEF AppClear
<1> QED  BY <1>1, <1>2, <1>3, <1>4, <1>5

LEMMA StutterInv == ASSUME IInv, UNCHANGED vars PROVE IInv'
BY DEF vars, lists, locks, flags, IInv, SourcesLocked, BufferLocked, TaskGone,
       StopConfirmed, Storing, TaskUsesSources, AppHoldsSources, Announced

THEOREM Inductive == Spec => []IInv
<1>1. IInv /\ [Next]_vars => IInv'
  BY TaskInv, AppReadingInv, AppEndInv, StutterInv DEF Next, AppCalls, AppSteps
<1> QED  BY <1>1, InitInv, PTL DEF Spec

-----------------------------------------------------------------------------
(* The two threads *)

\* The task and the application never use the lines, their buffers or the mixer
\* at the same time: whoever uses one holds sources_mutex, or is end() after the
\* task has gone.  (getSourceCount() reads the length of the list, and no line,
\* without the lock: it is in no such section.)
THEOREM NoRaces == Spec => []NoRaceOnLines
<1>1. IInv => NoRaceOnLines
  BY DEF IInv, SourcesLocked, TaskGone, NoRaceOnLines, TaskUsesSources, AppUsesSources,
         AppHoldsSources
<1> QED  BY <1>1, Inductive, PTL

\* A thread that is about to lock a buffer holds the list, so the other one is
\* not in a critical section of the buffer.
NeverWaitsInside ==
  task_pc \in {"store", "stored"} \/ app_pc \in {"posting", "reading"}
    => mutex_owner \in {"free", "dead"}

\* The two locks cannot block each other: who holds sources_mutex gets mutex at
\* once, unless a task that was deleted took it with it.
THEOREM LocksNest == Spec => []NeverWaitsInside
<1>1. IInv => NeverWaitsInside
  BY DEF IInv, SourcesLocked, BufferLocked, NeverWaitsInside, TaskUsesSources,
         AppHoldsSources
<1> QED  BY <1>1, Inductive, PTL

\* A task that has confirmed the stop can be deleted.
THEOREM StopFinal == Spec => []StopIsFinal
<1>1. IInv => StopIsFinal
  BY DEF IInv, SourcesLocked, BufferLocked, StopConfirmed, StopIsFinal,
         TaskUsesSources, TaskHoldsLock
<1> QED  BY <1>1, Inductive, PTL

-----------------------------------------------------------------------------
(* The two critical sections of storeEncodedData() act as one *)

LEMMA InitAtomic == Init => Atomic!Init
BY DEF Init, Atomic!Init, JB!Init, newest, oldest, received, primed, Announced,
       JB!Slots, Atomic!Slots, JB!NoId, Atomic!NoId

\* Outside of the two sections the buffer is what it looks like.
LEMMA Unannounced ==
  ASSUME ~Announced
  PROVE  /\ newest = max_write_seq /\ oldest = min_write_seq
         /\ received = segments_received /\ (primed <=> is_primed) /\ primed \in BOOLEAN
BY DEF newest, oldest, received, primed

LEMMA UnannouncedNext ==
  ASSUME ~Announced'
  PROVE  /\ newest' = max_write_seq' /\ oldest' = min_write_seq'
         /\ received' = segments_received' /\ (primed' <=> is_primed') /\ primed' \in BOOLEAN
BY DEF newest, oldest, received, primed

\* A step that leaves the buffer alone, and neither begins nor ends a store.
LEMMA Untouched ==
  ASSUME UNCHANGED jitter,
         Announced' <=> Announced, Announced => writing' = writing
  PROVE  UNCHANGED Atomic!vars
BY DEF Atomic!vars, jitter, newest, oldest, received, primed

\* Writing is the step of the atomic buffer ...
LEMMA StoreAtomic ==
  ASSUME IInv, TaskStore
  PROVE  \E seq \in Segments : Atomic!Store(seq)
<1>1. ~Announced /\ Announced' /\ writing' = writing /\ writing \in Segments
  BY DEF TaskStore, TaskAt, Announced, IInv, Storing
<1>2. /\ newest = max_write_seq /\ oldest = min_write_seq
      /\ received = segments_received /\ (primed <=> is_primed) /\ primed \in BOOLEAN
  BY <1>1, Unannounced
<1>3. /\ newest' = IF writing > max_write_seq THEN writing ELSE max_write_seq
      /\ oldest' = IF min_write_seq < 0 \/ writing < min_write_seq
                     THEN writing ELSE min_write_seq
      /\ received' = segments_received + 1
      /\ primed' <=> (is_primed \/ segments_received + 1 >= Size \div 2)
      /\ primed' \in BOOLEAN
  BY <1>1 DEF TaskStore, newest, oldest, received, primed
<1>4. Atomic!notifySegmentReceived(writing)
  BY <1>2, <1>3 DEF Atomic!notifySegmentReceived
<1>5. Atomic!acceptsSegment(writing)
  BY <1>2 DEF TaskStore, JB!acceptsSegment, Atomic!acceptsSegment, JB!Buffered,
              Atomic!Buffered, JB!Index, Atomic!Index
<1>6. Atomic!Write(writing)
  BY DEF TaskStore, JB!Write, Atomic!Write, JB!Index, Atomic!Index
<1> QED  BY <1>1, <1>4, <1>5, <1>6 DEF Atomic!Store, TaskStore

\* ... and announcing what has been written is none.
LEMMA NotifyAtomic == ASSUME TaskNotify PROVE UNCHANGED Atomic!vars
<1>1. Announced /\ ~Announced'
  BY DEF TaskNotify, TaskAt, Announced
<1>2. /\ newest' = max_write_seq' /\ oldest' = min_write_seq'
      /\ received' = segments_received' /\ (primed' <=> is_primed') /\ primed' \in BOOLEAN
  BY <1>1, UnannouncedNext
<1> QED
  BY <1>1, <1>2 DEF TaskNotify, JB!notifySegmentReceived, newest, oldest, received,
                    primed, Atomic!vars

\* The buffer is only read and emptied between two stores.
LEMMA ReadAtomic == ASSUME IInv, AppSegment PROVE Atomic!Read
<1>1. ~Announced /\ ~Announced'
  BY DEF IInv, SourcesLocked, TaskGone, AppHoldsSources, TaskUsesSources, Announced,
         AppSegment, AppAt
<1>2. /\ newest = max_write_seq /\ oldest = min_write_seq
      /\ received = segments_received /\ (primed <=> is_primed) /\ primed \in BOOLEAN
  BY <1>1, Unannounced
<1>3. /\ newest' = max_write_seq' /\ oldest' = min_write_seq'
      /\ received' = segments_received' /\ (primed' <=> is_primed') /\ primed' \in BOOLEAN
  BY <1>1, UnannouncedNext
<1>4. JB!Read
  BY DEF AppSegment
<1> USE <1>2, <1>3 DEF JB!unwritten, Atomic!unwritten, JB!startSeq, Atomic!startSeq,
      JB!Buffered, Atomic!Buffered, JB!Index, Atomic!Index, JB!Oldest, Atomic!Oldest
<1>5. CASE JB!ReadNothing
  BY <1>5 DEF JB!ReadNothing, Atomic!ReadNothing, Atomic!Read
<1>6. CASE JB!ReadGap
  BY <1>6 DEF JB!ReadGap, Atomic!ReadGap, Atomic!Read
<1>7. CASE JB!ReadSegment
  BY <1>7 DEF JB!ReadSegment, Atomic!ReadSegment, Atomic!Read
<1> QED  BY <1>4, <1>5, <1>6, <1>7 DEF JB!Read

LEMMA RestartAtomic ==
  ASSUME IInv, TaskStarted \/ TaskRemove \/ AppRemove \/ AppClear
  PROVE  Atomic!Restart
<1>1. JB!Restart
  BY DEF TaskStarted, TaskRemove, AppRemove, AppClear
<1>2. ~Announced'
  BY DEF IInv, SourcesLocked, TaskGone, AppHoldsSources, TaskUsesSources, Announced,
         TaskStarted, TaskRemove, AppRemove, AppClear, AppAt, TaskAt
<1>3. /\ newest' = max_write_seq' /\ oldest' = min_write_seq'
      /\ received' = segments_received' /\ (primed' <=> is_primed') /\ primed' \in BOOLEAN
  BY <1>2, UnannouncedNext
<1> QED
  BY <1>1, <1>3 DEF JB!Restart, Atomic!Restart, JB!Slots, Atomic!Slots, JB!NoId,
                    Atomic!NoId

\* Storing a segment in two critical sections is as good as storing it in one,
\* wherever the other thread runs in between and wherever end() deletes the task.
THEOREM StoresAreAtomic == Spec => StoreIsAtomic
<1>1. ASSUME IInv, Next PROVE [Atomic!Next]_(Atomic!vars)
  <2> USE DEF Atomic!Next
  <2>1. CASE TaskStore
    BY <1>1, <2>1, StoreAtomic
  <2>2. CASE TaskNotify
    BY <2>2, NotifyAtomic
  <2>3. CASE AppSegment
    BY <1>1, <2>3, ReadAtomic
  <2>4. CASE TaskStarted \/ TaskRemove \/ AppRemove \/ AppClear
    BY <1>1, <2>4, RestartAtomic
  <2> USE Untouched DEF lists, Announced, TaskAt, AppAt
  <2>5. CASE TaskStop \/ TaskGo \/ TaskAcquire \/ TaskStoreLock \/ TaskIgnore
             \/ TaskNotifyLock \/ TaskStart \/ TaskRelease
             \/ \E seq \in Segments : TaskData(seq)
    BY <2>5 DEF TaskStop, TaskGo, TaskAcquire, TaskStoreLock, TaskIgnore,
       TaskNotifyLock, TaskStart, TaskRelease, TaskData
  <2>6. CASE AppPostLock \/ AppStatsLock \/ AppStats \/ AppPosted \/ AppReadLock
             \/ AppSegmentLock \/ AppDecode \/ AppReadDone \/ AppRead \/ AppCall
             \/ AppCallLock \/ AppCallDone \/ AppCount \/ AppCounted
    BY <2>6 DEF AppPostLock, AppStatsLock, AppStats, AppPosted, AppReadLock,
       AppSegmentLock, AppDecode, AppReadDone, AppRead, AppCall, AppCallLock,
       AppCallDone, AppCount, AppCounted, flags
  <2>7. CASE AppBegin \/ AppEnd \/ AppWait \/ AppKill
    BY <1>1, <2>7 DEF AppBegin, AppEnd, AppWait, AppKill, IInv, TaskGone
  <2> QED
    BY <1>1, <2>1, <2>2, <2>3, <2>4, <2>5, <2>6, <2>7
    DEF Next, Task, TaskDispatch, AppCalls, AppSteps, AppReading
<1>2. ASSUME UNCHANGED vars PROVE UNCHANGED Atomic!vars
  BY <1>2, Untouched DEF vars, lists, Announced
<1>3. IInv /\ [Next]_vars => [Atomic!Next]_(Atomic!vars)
  BY <1>1, <1>2
<1> QED  BY <1>3, InitAtomic, Inductive, PTL DEF Spec, StoreIsAtomic, Atomic!Spec

-----------------------------------------------------------------------------
(* From the locks to the play-out.  What JitterBufferProofs proves about the *)
(* atomic buffer holds of the buffer of the two threads.                     *)

Proved == INSTANCE JitterBufferProofs WITH
  max_write_seq <- newest, min_write_seq <- oldest,
  segments_received <- received, is_primed <- primed

LEMMA Assumed == Proved!SizeAssumption /\ Proved!SegmentsAssumption
BY JitterAssumption DEF Proved!SizeAssumption, Proved!SegmentsAssumption

\* Atomic and Proved are the same instance of JitterBuffer, reached directly and
\* through its proofs.
LEMMA SameStore ==
  ASSUME NEW seq, Atomic!Store(seq)
  PROVE  Proved!Store(seq)
BY DEF Atomic!Store, Proved!Store, Atomic!acceptsSegment, Proved!acceptsSegment,
       Atomic!Write, Proved!Write, Atomic!notifySegmentReceived,
       Proved!notifySegmentReceived, Atomic!Buffered, Proved!Buffered,
       Atomic!Index, Proved!Index

LEMMA SameRead == Atomic!Read => Proved!Read
<1> USE DEF Atomic!unwritten, Proved!unwritten, Atomic!startSeq, Proved!startSeq,
      Atomic!Buffered, Proved!Buffered, Atomic!Index, Proved!Index,
      Atomic!Oldest, Proved!Oldest
<1>1. Atomic!ReadNothing => Proved!ReadNothing
  BY DEF Atomic!ReadNothing, Proved!ReadNothing
<1>2. Atomic!ReadGap => Proved!ReadGap
  BY DEF Atomic!ReadGap, Proved!ReadGap
<1>3. Atomic!ReadSegment => Proved!ReadSegment
  BY DEF Atomic!ReadSegment, Proved!ReadSegment
<1> QED  BY <1>1, <1>2, <1>3 DEF Atomic!Read, Proved!Read

LEMMA SameRestart == Atomic!Restart => Proved!Restart
BY DEF Atomic!Restart, Proved!Restart, Atomic!Slots, Proved!Slots, Atomic!NoId,
       Proved!NoId

LEMMA SameSpec == Atomic!Spec => Proved!Spec
<1>1. Atomic!Init => Proved!Init
  BY DEF Atomic!Init, Proved!Init, Atomic!Slots, Proved!Slots, Atomic!NoId,
         Proved!NoId
<1>2. Atomic!Next => Proved!Next
  BY SameStore, SameRead, SameRestart DEF Atomic!Next, Proved!Next
<1>3. UNCHANGED Atomic!vars => UNCHANGED Proved!vars
  BY DEF Atomic!vars, Proved!vars
<1>4. [Atomic!Next]_(Atomic!vars) => [Proved!Next]_(Proved!vars)
  BY <1>2, <1>3
<1> QED  BY <1>1, <1>4, PTL DEF Atomic!Spec, Proved!Spec

LEMMA LikeProved == Spec => Proved!Spec
BY StoresAreAtomic, SameSpec, PTL DEF StoreIsAtomic

\* With the locks as the code takes them, and whenever end() deletes the task,
\* the two threads together implement the abstract play-out: the reader only
\* moves forward and every segment of the window is played in its turn.
THEOREM ThreadsPlayInOrder == Spec => Proved!RefinesPlayout
<1>1. Proved!Spec => Proved!RefinesPlayout
  BY Assumed, Proved!Refinement, PTL
<1> QED  BY <1>1, LikeProved, PTL

\* The application thread, however it interleaves with the task, never takes a
\* segment of the window from the buffer without playing it.
THEOREM ThreadsLoseNothing == Spec => []Atomic!NothingInWindowLost
<1>1. Proved!Spec => []Proved!NothingInWindowLost
  BY Assumed, Proved!NothingLost, PTL
<1>2. Proved!NothingInWindowLost => Atomic!NothingInWindowLost
  BY DEF Proved!NothingInWindowLost, Atomic!NothingInWindowLost, Proved!Buffered,
         Atomic!Buffered, Proved!Index, Atomic!Index
<1> QED  BY <1>1, <1>2, LikeProved, PTL
=============================================================================
