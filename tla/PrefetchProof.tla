---------------------------- MODULE PrefetchProof ----------------------------
(***************************************************************************)
(* Theorems about Prefetch for every number of goroutines, timers and      *)
(* tracks.                                                                 *)
(***************************************************************************)
EXTENDS Prefetch, PlaybackSerial

\* Every step of Prefetch is a step of Playback or leaves its variables alone.
LEMMA StepImplements == [PrefetchNext]_allVars => [Next]_vars
<1> SUFFICES ASSUME [PrefetchNext]_allVars PROVE [Next]_vars
  OBVIOUS
<1>1. ASSUME NEW p \in Procs, Handler(p) PROVE [Next]_vars
  <2>1. CASE FileFound(p)
    <3>1. Jump(p, "play") \/ Jump(p, "fetching")
      BY <2>1 DEF FileFound
    <3>2. ReadFilePath(p)
      BY <2>1, <3>1 DEF FileFound, ReadFilePath
    <3> QED BY <3>2 DEF Next, Step
  <2>2. CASE StarterDownloaded(p) \/ FileFetched(p) \/ FileMissed(p) \/ TrackStarted(p)
             \/ StopGoesOn(p)
    BY <2>2 DEF StarterDownloaded, FileFetched, FileMissed, TrackStarted, StopGoesOn, Next, Step
  <2>3. CASE OtherStep(p)
    BY <2>3 DEF OtherStep, Next, Step
  <2>4. CASE NewWork(p)
    BY <2>4 DEF NewWork, Next
  <2>5. CASE StopCancel(p) \/ ScheduleCancel(p) \/ ScheduleCreate(p) \/ ScheduleStore(p)
    BY <2>5 DEF StopCancel, ScheduleCancel, ScheduleCreate, ScheduleStore
  <2> QED BY <1>1, <2>1, <2>2, <2>3, <2>4, <2>5 DEF Handler
<1>2. ASSUME NEW t \in Timers, Fire(t) \/ Worker(t) PROVE [Next]_vars
  BY <1>2 DEF Fire, Worker, ReadNext, TryStart, Finish
<1>3. CASE ChatCleared \/ CallDiscarded
  BY <1>3 DEF Next
<1>4. CASE UNCHANGED allVars
  BY <1>4 DEF allVars
<1> QED BY <1>1, <1>2, <1>3, <1>4 DEF PrefetchNext

\* Prefetching is invisible to playback: with its timers, goroutines and stored
\* paths the engine still only does what Playback allows.
THEOREM PrefetchImplementsPlayback == PrefetchSpec => Spec
<1>1. PrefetchInit => Init
  BY DEF PrefetchInit
<1> QED BY <1>1, StepImplements, PTL DEF PrefetchSpec, Spec

\* So the bound on the queue's length holds with prefetching too.
THEOREM PrefetchQueueBounded == PrefetchSpec => []QueueBound
BY PrefetchImplementsPlayback, QueueBounded, PTL

-----------------------------------------------------------------------------
Downloading(t) == work[t].pc = "downloading"

WorkTypeOK == work \in [Timers -> [pc : {"none", "fired", "tryStart", "downloading"},
                                   song : Tracks \cup {None}]]

\* A timer that will still fire has no goroutine yet.
GuardInv ==
    /\ WorkTypeOK
    /\ \A t \in armed \cap Timers : work[t].pc = "none"
    /\ \A x : x \in inFlight <=> \E t \in Timers : Downloading(t) /\ work[t].song = x
    /\ \A t, u \in Timers :
         Downloading(t) /\ Downloading(u) /\ work[t].song = work[u].song => t = u

LEMMA GuardInit == PrefetchInit => GuardInv
BY DEF PrefetchInit, GuardInv, WorkTypeOK, Downloading, NoWork

\* The steps that leave the guard and the goroutines alone and arm at most an
\* idle timer.
LEMMA GuardIdle ==
    ASSUME GuardInv, UNCHANGED guardVars,
           \A t \in armed' \ armed : t \in Timers => work[t].pc = "none"
    PROVE  GuardInv'
BY DEF GuardInv, WorkTypeOK, Downloading, guardVars

LEMMA GuardStep == GuardInv /\ TypeInv /\ [PrefetchNext]_allVars => GuardInv'
<1> SUFFICES ASSUME GuardInv, TypeInv, [PrefetchNext]_allVars PROVE GuardInv'
  OBVIOUS
<1>1. ASSUME NEW p \in Procs, Handler(p) PROVE GuardInv'
  <2>1. CASE ScheduleCreate(p)
    BY <2>1, GuardIdle DEF ScheduleCreate, FreeTimers, NoWork
  <2>2. CASE ScheduleCancel(p) \/ ScheduleStore(p) \/ StopCancel(p)
    BY <2>2, GuardIdle DEF ScheduleCancel, ScheduleStore, StopCancel, CancelPrefetch
  <2>3. CASE StarterDownloaded(p) \/ FileFound(p) \/ FileFetched(p) \/ FileMissed(p)
             \/ TrackStarted(p) \/ StopGoesOn(p) \/ OtherStep(p) \/ NewWork(p)
    BY <2>3, GuardIdle DEF StarterDownloaded, FileFound, FileFetched, FileMissed, TrackStarted,
                           StopGoesOn, OtherStep, NewWork, prefetchVars, timerVars
  <2> QED BY <1>1, <2>1, <2>2, <2>3 DEF Handler
<1>2. ASSUME NEW t \in Timers, Fire(t) PROVE GuardInv'
  <2>1. work[t].pc = "none"
    BY <1>2 DEF Fire, GuardInv
  <2>2. \A u \in Timers : Downloading(u)' <=> Downloading(u)
    BY <1>2, <2>1 DEF Fire, Downloading, GuardInv, WorkTypeOK
  <2>3. \A u \in Timers : Downloading(u) => work'[u] = work[u]
    BY <1>2, <2>1 DEF Fire, Downloading, GuardInv, WorkTypeOK
  <2>4. WorkTypeOK'
    BY <1>2 DEF Fire, GuardInv, WorkTypeOK
  <2>5. \A u \in armed' \cap Timers : work'[u].pc = "none"
    BY <1>2 DEF Fire, GuardInv, WorkTypeOK
  <2>6. inFlight' = inFlight
    BY <1>2 DEF Fire
  <2> QED BY <2>2, <2>3, <2>4, <2>5, <2>6 DEF GuardInv
<1>3. ASSUME NEW t \in Timers, ReadNext(t) PROVE GuardInv'
  <2>1. GetUpcomingTrack \in Tracks \cup {None}
    BY ElementOfSeq DEF GetUpcomingTrack, TypeInv, ChatTypeOK
  <2>2. PICK w \in {NoWork, [pc |-> "tryStart", song |-> GetUpcomingTrack]} :
           work' = [work EXCEPT ![t] = w]
    BY <1>3 DEF ReadNext
  <2>3. w \in [pc : {"none", "tryStart"}, song : Tracks \cup {None}]
    BY <2>1, <2>2 DEF NoWork
  <2>4. work[t].pc = "fired" /\ inFlight' = inFlight /\ armed' = armed
    BY <1>3 DEF ReadNext, timerVars
  <2> QED BY <2>2, <2>3, <2>4 DEF GuardInv, WorkTypeOK, Downloading
<1>4. ASSUME NEW t \in Timers, TryStart(t) PROVE GuardInv'
  <2>1. work[t].pc = "tryStart" /\ armed' = armed
    BY <1>4 DEF TryStart, timerVars
  <2>2. CASE work[t].song \in inFlight
    <3>1. work' = [work EXCEPT ![t] = NoWork] /\ inFlight' = inFlight
      BY <1>4, <2>2 DEF TryStart
    <3> QED BY <2>1, <3>1 DEF GuardInv, WorkTypeOK, Downloading, NoWork
  <2>3. CASE work[t].song \notin inFlight
    <3>1. work' = [work EXCEPT ![t].pc = "downloading"]
          /\ inFlight' = inFlight \cup {work[t].song}
      BY <1>4, <2>3 DEF TryStart
    <3>2. WorkTypeOK'
      BY <3>1 DEF GuardInv, WorkTypeOK
    <3>3. \A u \in Timers : work'[u].song = work[u].song
      BY <3>1 DEF GuardInv, WorkTypeOK
    <3>4. \A u \in Timers : Downloading(u)' <=> (Downloading(u) \/ u = t)
      BY <3>1 DEF GuardInv, WorkTypeOK, Downloading
    <3>5. \A u \in armed' \cap Timers : work'[u].pc = "none"
      BY <2>1, <3>1 DEF GuardInv, WorkTypeOK
    <3> QED BY <2>3, <3>1, <3>2, <3>3, <3>4, <3>5 DEF GuardInv
  <2> QED BY <2>2, <2>3
<1>5. ASSUME NEW t \in Timers, Finish(t) PROVE GuardInv'
  <2>1. /\ Downloading(t) /\ armed' = armed
        /\ work' = [work EXCEPT ![t] = NoWork]
        /\ inFlight' = inFlight \ {work[t].song}
    BY <1>5 DEF Finish, timerVars, Downloading
  <2>2. WorkTypeOK'
    BY <2>1 DEF GuardInv, WorkTypeOK, NoWork
  <2>3. \A u \in Timers : u # t => work'[u] = work[u]
    BY <2>1 DEF GuardInv, WorkTypeOK
  <2>4. ~Downloading(t)'
    BY <2>1 DEF GuardInv, WorkTypeOK, Downloading, NoWork
  <2>5. \A u \in armed' \cap Timers : work'[u].pc = "none"
    BY <2>1 DEF GuardInv, WorkTypeOK, NoWork
  <2> QED BY <2>1, <2>2, <2>3, <2>4, <2>5 DEF GuardInv, Downloading
<1>6. CASE (ChatCleared \/ CallDiscarded) /\ UNCHANGED prefetchVars
  BY <1>6, GuardIdle DEF prefetchVars, timerVars
<1>7. CASE UNCHANGED allVars
  BY <1>7, GuardIdle DEF allVars, prefetchVars, timerVars
<1> QED BY <1>1, <1>2, <1>3, <1>4, <1>5, <1>6, <1>7 DEF PrefetchNext, Worker

\* Whatever timers fire when, two prefetches never download one track, and a
\* track is in the guard exactly while one of them does.
THEOREM GuardAlwaysExact == PrefetchSpec => []GuardExact
<1>1. GuardInv => GuardExact
  BY DEF GuardInv, GuardExact, Downloading
<1>2. PrefetchSpec => []TypeInv
  BY PrefetchImplementsPlayback, TypeInvariant, PTL
<1>3. PrefetchSpec => []GuardInv
  BY <1>2, GuardInit, GuardStep, PTL DEF PrefetchSpec
<1> QED BY <1>1, <1>3, PTL

-----------------------------------------------------------------------------
\* Types of what prefetching adds.

TimerTypeOK ==
    /\ sched \in [Procs -> [pc : {"none", "cancelled", "cancel", "create", "store"},
                            timer : Timers \cup {None}]]
    /\ timer \in Timers \cup {None}
    /\ armed \subseteq Timers

PathTypeOK ==
    /\ \A t \in Timers : work[t].pc \in {"tryStart", "downloading"} => work[t].song \in Tracks
    /\ filePath \subseteq Tracks

PrefetchInv == TimerTypeOK /\ PathTypeOK

LEMMA PrefetchInvInit == PrefetchInit => PrefetchInv
BY DEF PrefetchInit, PrefetchInv, TimerTypeOK, PathTypeOK, NotScheduling, NoWork

LEMMA PrefetchInvStep ==
    PrefetchInv /\ GuardInv /\ TypeInv /\ [PrefetchNext]_allVars => PrefetchInv'
<1> SUFFICES ASSUME PrefetchInv, GuardInv, TypeInv, [PrefetchNext]_allVars PROVE PrefetchInv'
  OBVIOUS
<1> USE DEF PrefetchInv
<1>1. ASSUME NEW p \in Procs, Handler(p) PROVE PrefetchInv'
  <2>1. Fits(pc[p], local[p])
    BY DEF TypeInv, PcTypeOK, LocalsFit
  <2>2. CASE StarterDownloaded(p) \/ FileFound(p) \/ FileFetched(p) \/ FileMissed(p)
    <3>1. UNCHANGED <<timerVars, guardVars>>
      BY <2>2 DEF StarterDownloaded, FileFound, FileFetched, FileMissed, prefetchVars
    <3>2. filePath' \subseteq filePath \cup {local[p].song}
      BY <2>2 DEF StarterDownloaded, FileFound, FileFetched, FileMissed, prefetchVars
    <3>3. pc[p] \in {"download", "fetch", "fetching"}
      BY <2>2 DEF StarterDownloaded, FileFound, FileFetched, FileMissed, Downloaded, Fetched,
                  FetchFailed, At
    <3>4. local[p].song \in Tracks
      BY <2>1, <3>3 DEF Fits, SongLabels
    <3> QED BY <3>1, <3>2, <3>4 DEF TimerTypeOK, PathTypeOK, timerVars, guardVars
  <2>3. CASE TrackStarted(p) \/ StopCancel(p) \/ StopGoesOn(p) \/ ScheduleCancel(p)
    <3>1. UNCHANGED <<guardVars, filePath>>
          /\ timer' \in {timer, None} /\ armed' \subseteq armed
      BY <2>3 DEF TrackStarted, StopCancel, StopGoesOn, ScheduleCancel, CancelPrefetch
    <3>2. \E label \in {"none", "cancelled", "cancel", "create"} :
            sched' \in {sched, [sched EXCEPT ![p].pc = label], [sched EXCEPT ![p] = NotScheduling]}
      BY <2>3 DEF TrackStarted, StopCancel, StopGoesOn, ScheduleCancel
    <3>3. TimerTypeOK'
      BY <3>1, <3>2 DEF TimerTypeOK, NotScheduling
    <3> QED BY <3>1, <3>3 DEF PathTypeOK, guardVars
  <2>4. CASE ScheduleCreate(p)
    BY <2>4 DEF ScheduleCreate, FreeTimers, TimerTypeOK, PathTypeOK, guardVars
  <2>5. CASE ScheduleStore(p)
    <3>1. UNCHANGED <<armed, guardVars, filePath>> /\ timer' = sched[p].timer
          /\ sched' = [sched EXCEPT ![p] = NotScheduling]
      BY <2>5 DEF ScheduleStore
    <3> QED BY <3>1 DEF TimerTypeOK, PathTypeOK, guardVars, NotScheduling
  <2>6. CASE OtherStep(p) \/ NewWork(p)
    BY <2>6 DEF OtherStep, NewWork, prefetchVars, timerVars, guardVars, TimerTypeOK, PathTypeOK
  <2> QED BY <1>1, <2>2, <2>3, <2>4, <2>5, <2>6 DEF Handler
<1>2. ASSUME NEW t \in Timers, Fire(t) PROVE PrefetchInv'
  <2>1. work' = [work EXCEPT ![t].pc = IF IsActive THEN "fired" ELSE "none"]
        /\ armed' = armed \ {t} /\ UNCHANGED <<sched, timer, filePath>>
    BY <1>2 DEF Fire
  <2>2. PathTypeOK'
    BY <2>1 DEF PathTypeOK, GuardInv, WorkTypeOK
  <2> QED BY <2>1, <2>2 DEF TimerTypeOK
<1>3. ASSUME NEW t \in Timers, Worker(t) PROVE PrefetchInv'
  <2>1. UNCHANGED timerVars
    BY <1>3 DEF Worker, ReadNext, TryStart, Finish
  <2>2. CASE ReadNext(t)
    <3>1. GetUpcomingTrack \in Tracks \cup {None}
      BY ElementOfSeq DEF GetUpcomingTrack, TypeInv, ChatTypeOK
    <3>2. /\ filePath' = filePath
          /\ \/ work' = [work EXCEPT ![t] = NoWork]
             \/ /\ GetUpcomingTrack # None
                /\ work' = [work EXCEPT ![t] = [pc |-> "tryStart", song |-> GetUpcomingTrack]]
      BY <2>2 DEF ReadNext
    <3>3. PathTypeOK'
      BY <3>1, <3>2 DEF PathTypeOK, GuardInv, WorkTypeOK, NoWork
    <3> QED BY <2>1, <3>3 DEF TimerTypeOK, timerVars
  <2>3. CASE TryStart(t)
    <3>1. /\ filePath' = filePath /\ work[t].pc = "tryStart"
          /\ work' \in {[work EXCEPT ![t] = NoWork], [work EXCEPT ![t].pc = "downloading"]}
      BY <2>3 DEF TryStart
    <3>2. PathTypeOK'
      BY <3>1 DEF PathTypeOK, GuardInv, WorkTypeOK, NoWork
    <3> QED BY <2>1, <3>2 DEF TimerTypeOK, timerVars
  <2>4. CASE Finish(t)
    <3>1. /\ filePath' \subseteq filePath \cup {work[t].song} /\ work[t].pc = "downloading"
          /\ work' = [work EXCEPT ![t] = NoWork]
      BY <2>4 DEF Finish
    <3>2. PathTypeOK'
      BY <3>1 DEF PathTypeOK, GuardInv, WorkTypeOK, NoWork
    <3> QED BY <2>1, <3>2 DEF TimerTypeOK, timerVars
  <2> QED BY <1>3, <2>2, <2>3, <2>4 DEF Worker
<1>4. CASE UNCHANGED prefetchVars
  BY <1>4 DEF prefetchVars, timerVars, guardVars, TimerTypeOK, PathTypeOK
<1> QED BY <1>1, <1>2, <1>3, <1>4 DEF PrefetchNext, allVars

\* What prefetching stores keeps its type: a goroutine never takes a missing
\* upcoming track for one, nor does a path get stored for none.
THEOREM PrefetchTypeCorrect == PrefetchSpec => []PrefetchTypeOK
<1>1. GuardInv /\ PrefetchInv => PrefetchTypeOK
  <2> SUFFICES ASSUME GuardInv, PrefetchInv PROVE PrefetchTypeOK
    OBVIOUS
  <2>1. inFlight \subseteq Tracks
    BY DEF GuardInv, Downloading, PrefetchInv, PathTypeOK
  <2> QED BY <2>1 DEF GuardInv, WorkTypeOK, PrefetchInv, PathTypeOK, TimerTypeOK, PrefetchTypeOK
<1>2. PrefetchSpec => []TypeInv
  BY PrefetchImplementsPlayback, TypeInvariant, PTL
<1>3. PrefetchSpec => []GuardInv
  BY <1>2, GuardInit, GuardStep, PTL DEF PrefetchSpec
<1>4. PrefetchSpec => []PrefetchInv
  BY <1>2, <1>3, PrefetchInvInit, PrefetchInvStep, PTL DEF PrefetchSpec
<1> QED BY <1>1, <1>3, <1>4, PTL

-----------------------------------------------------------------------------
\* The timer of handlers that come one at a time.

Scheduling == {"cancel", "create", "store"}

\* Where a goroutine is decides which timer may be pending.
TimerAt(label, s, t, a, stopped) ==
    /\ s.pc \in {"none", "cancel"} => a \subseteq {t}
    /\ s.pc = "create" => a = {}
    /\ s.pc = "store" => a \subseteq {s.timer}
    /\ s.pc \in Scheduling => label = "idle" /\ ~stopped
    /\ s.pc = "cancelled" => label = "stop" /\ a = {}
    /\ label \in {"clear", "hangUp"} => a = {}
    /\ stopped => a = {}

TimerInv == \A p \in Procs : TimerAt(pc[p], sched[p], timer, armed, halted)

\* The steps of Playback that leave prefetching alone: only Clear moves on to
\* hanging up, and only HangUp completes a Stop.
LEMMA StopLast ==
    ASSUME PcTypeOK, NEW p \in Procs, OtherStep(p) \/ NewWork(p)
    PROVE  /\ pc[p] # "stop" /\ (pc[p] = "idle" => sched[p] = NotScheduling)
           /\ pc'[p] # "clear" /\ (pc'[p] = "hangUp" => pc[p] = "clear")
           /\ halted' => halted \/ pc[p] = "hangUp"
<1> USE DEF At, unqueued, chatVars
<1>1. \A label \in Labels : Jump(p, label) => pc'[p] = label
  BY SerialGoto
<1>2. Return(p) => pc'[p] = "idle"
  BY SerialGoto
<1>3. \A label, l : Goto(p, label, l) => pc'[p] = label
  BY GotoAt
<1>4. CASE NewWork(p)
  <2>1. pc[p] = "idle" /\ halted' = halted /\ sched[p] = NotScheduling
    BY <1>4 DEF NewWork, Command, PlayRequest, SkipCommand, StopCommand, LoopCommand,
                RemoveCommand, AutoplayCommand, SeekCommand, StreamEnd
  <2>2. pc'[p] \notin {"clear", "hangUp"}
    BY <1>1, <1>3, <1>4 DEF NewWork, Command, PlayRequest, SkipCommand, StopCommand, LoopCommand,
                RemoveCommand, AutoplayCommand, SeekCommand, StreamEnd, Labels
  <2> QED BY <2>1, <2>2
<1>5. CASE \/ Found(p) \/ NotFound(p) \/ AddToQueue(p) \/ AddToFront(p) \/ LoopFirst(p)
           \/ DownloadFailed(p) \/ Undo(p) \/ MediaFailed(p)
           \/ ReadLoop(p) \/ LowerLoop(p) \/ ReadCurrent(p) \/ ReadUpcoming(p) \/ Advance(p)
  <2>1. pc[p] \notin {"stop", "idle"} /\ (halted' = FALSE \/ halted' = halted)
    <3>1. CASE AddToQueue(p) \/ AddToFront(p)
      BY <3>1 DEF AddToQueue, AddToFront
    <3>2. CASE ~(AddToQueue(p) \/ AddToFront(p))
      BY <1>5, <3>2 DEF Found, NotFound, LoopFirst, DownloadFailed, Undo, MediaFailed,
                        MediaLabels, ReadLoop, LowerLoop, ReadCurrent, ReadUpcoming, Advance
    <3> QED BY <3>1, <3>2
  <2>2. pc'[p] \notin {"clear", "hangUp"}
    BY <1>1, <1>2, <1>3, <1>5
       DEF Found, NotFound, AddToQueue, AddToFront, StartFirst, LoopFirst, DownloadFailed, Undo,
           MediaFailed, MediaLabels, ReadLoop, LowerLoop, ReadCurrent, ReadUpcoming, Advance,
           Labels
  <2> QED BY <2>1, <2>2
<1>6. CASE \/ Drain(p) \/ ReadSeed(p) \/ ReadAutoplay(p) \/ Recommended(p) \/ NoRecommendation(p)
           \/ Announced(p) \/ AnnounceFailed(p)
           \/ StoreLoop(p) \/ RemoveNumbered(p) \/ ReadToggle(p) \/ StoreToggle(p)
           \/ ReadPosition(p)
  <2>1. pc[p] \notin {"stop", "idle"} /\ (halted' => halted)
    BY <1>6 DEF Drain, ReadSeed, ReadAutoplay, Recommended, NoRecommendation, Announced,
                AnnounceFailed, StoreLoop, RemoveNumbered, ReadToggle, StoreToggle, ReadPosition
  <2>2. pc'[p] \notin {"clear", "hangUp"}
    BY <1>1, <1>2, <1>3, <1>6
       DEF Drain, ReadSeed, ReadAutoplay, Recommended, NoRecommendation, Announced,
           AnnounceFailed, StoreLoop, RemoveNumbered, ReadToggle, StoreToggle, ReadPosition,
           Labels
  <2> QED BY <2>1, <2>2
<1>7. CASE Clear(p) \/ HangUp(p) \/ HangUpFails(p)
  BY <1>1, <1>2, <1>7 DEF Clear, HangUp, HangUpFails, Labels
<1> QED BY <1>4, <1>5, <1>6, <1>7 DEF OtherStep

LEMMA TimerHandler ==
    ASSUME TypeInv, HaltInv, TimerTypeOK, TimerInv, NEW p \in Procs, Handler(p)
    PROVE  TimerAt(pc'[p], sched'[p], timer', armed', halted')
<1> USE DEF At, Scheduling
<1>1. TimerAt(pc[p], sched[p], timer, armed, halted) /\ PcTypeOK
      /\ sched \in [Procs -> [pc : {"none", "cancelled", "cancel", "create", "store"},
                              timer : Timers \cup {None}]]
      /\ None = NotScheduling.timer /\ NotScheduling.pc = "none"
  BY DEF TimerInv, TypeInv, TimerTypeOK, NotScheduling
<1>2. \A label \in Labels : Jump(p, label) => pc'[p] = label
  BY <1>1, SerialGoto
<1>3. Return(p) => pc'[p] = "idle"
  BY <1>1, SerialGoto
<1>4. CASE OtherStep(p) \/ NewWork(p)
  <2>1. UNCHANGED <<sched, timer, armed>>
    BY <1>4 DEF OtherStep, NewWork, prefetchVars, timerVars
  <2> QED BY <1>1, <1>4, <2>1, StopLast DEF TimerAt
<1>5. CASE StarterDownloaded(p) \/ FileFound(p) \/ FileFetched(p) \/ FileMissed(p)
  <2>1. UNCHANGED <<sched, timer, armed, halted>> /\ pc[p] \in {"download", "fetch", "fetching"}
    BY <1>5 DEF StarterDownloaded, FileFound, FileFetched, FileMissed, Downloaded, Fetched,
                FetchFailed, prefetchVars, timerVars, unqueued
  <2>2. pc'[p] \in {"start", "play", "fetching", "next"}
    BY <1>2, <1>5 DEF StarterDownloaded, FileFound, FileFetched, FileMissed, Downloaded, Fetched,
                      FetchFailed, Labels
  <2> QED BY <1>1, <2>1, <2>2 DEF TimerAt
<1>6. CASE TrackStarted(p)
  <2>1. /\ UNCHANGED <<timer, armed, halted>> /\ pc[p] \in MediaLabels /\ pc'[p] = "idle"
        /\ sched' \in {sched, [sched EXCEPT ![p].pc = "cancel"]}
    BY <1>3, <1>6 DEF TrackStarted, MediaStarted
  <2>2. ~halted
    BY <2>1 DEF HaltInv, HaltAt, Adding, Ending, MediaLabels
  <2>3. sched[p].pc = "none"
    BY <1>1, <2>1 DEF TimerAt, MediaLabels
  <2>4. sched'[p].pc \in {"none", "cancel"}
    BY <1>1, <2>1, <2>3
  <2> QED BY <1>1, <2>1, <2>2, <2>3, <2>4 DEF TimerAt
<1>7. CASE StopCancel(p)
  <2>1. /\ pc[p] = "stop" /\ sched[p] = NotScheduling /\ armed' = armed \ {timer}
        /\ sched' = [sched EXCEPT ![p].pc = "cancelled"] /\ UNCHANGED <<pc, halted>>
    BY <1>7 DEF StopCancel, CancelPrefetch, vars
  <2>2. armed' = {} /\ sched'[p].pc = "cancelled"
    BY <1>1, <2>1 DEF TimerAt
  <2> QED BY <2>1, <2>2 DEF TimerAt
<1>8. CASE StopGoesOn(p)
  <2>1. /\ sched[p].pc = "cancelled" /\ UNCHANGED <<timer, armed, halted>> /\ pc'[p] = "clear"
        /\ sched' = [sched EXCEPT ![p] = NotScheduling]
    BY <1>2, <1>8 DEF StopGoesOn, AutoplayOff, unqueued, Labels
  <2>2. armed = {} /\ sched'[p] = NotScheduling
    BY <1>1, <2>1 DEF TimerAt
  <2> QED BY <1>1, <2>1, <2>2 DEF TimerAt
<1>9. CASE ScheduleCancel(p)
  <2>1. /\ sched[p].pc = "cancel" /\ armed' = armed \ {timer} /\ UNCHANGED <<pc, halted>>
        /\ sched' \in {[sched EXCEPT ![p].pc = "create"], [sched EXCEPT ![p] = NotScheduling]}
    BY <1>9 DEF ScheduleCancel, CancelPrefetch, vars
  <2>2. armed' = {} /\ sched'[p].pc \in {"create", "none"}
    BY <1>1, <2>1 DEF TimerAt
  <2> QED BY <1>1, <2>1, <2>2 DEF TimerAt
<1>10. CASE ScheduleCreate(p)
  <2>1. PICK t \in Timers : /\ sched[p].pc = "create" /\ armed' = armed \cup {t}
                            /\ sched' = [sched EXCEPT ![p] = [pc |-> "store", timer |-> t]]
                            /\ UNCHANGED <<pc, halted>>
    BY <1>10 DEF ScheduleCreate, FreeTimers, vars
  <2>2. sched'[p].pc = "store" /\ sched'[p].timer = t /\ armed' = {t}
    BY <1>1, <2>1 DEF TimerAt
  <2> QED BY <1>1, <2>1, <2>2 DEF TimerAt
<1>11. CASE ScheduleStore(p)
  <2>1. /\ sched[p].pc = "store" /\ timer' = sched[p].timer /\ UNCHANGED <<pc, halted, armed>>
        /\ sched' = [sched EXCEPT ![p] = NotScheduling]
    BY <1>11 DEF ScheduleStore, vars
  <2>2. sched'[p].pc = "none"
    BY <1>1, <2>1
  <2> QED BY <1>1, <2>1, <2>2 DEF TimerAt
<1> QED BY <1>4, <1>5, <1>6, <1>7, <1>8, <1>9, <1>10, <1>11 DEF Handler

LEMMA TimerInvariant == ASSUME Serial PROVE PrefetchSpec => []TimerInv
<1>1. PrefetchInit => TimerInv
  BY DEF PrefetchInit, Init, TimerInv, TimerAt, Scheduling, NotScheduling
<1>2. TypeInv /\ HaltInv /\ TimerTypeOK /\ TimerInv /\ [PrefetchNext]_allVars => TimerInv'
  <2> SUFFICES ASSUME TypeInv, HaltInv, TimerTypeOK, TimerInv, [PrefetchNext]_allVars
               PROVE  TimerInv'
    OBVIOUS
  <2>1. ASSUME NEW p \in Procs, Handler(p) PROVE TimerInv'
    <3>1. TimerAt(pc'[p], sched'[p], timer', armed', halted') /\ \A q \in Procs : q = p
      BY <2>1, TimerHandler DEF Serial
    <3> QED BY <3>1 DEF TimerInv
  <2>2. ASSUME NEW t \in Timers, Fire(t) \/ Worker(t) PROVE TimerInv'
    <3>1. UNCHANGED <<pc, sched, timer, halted>> /\ armed' \subseteq armed
      BY <2>2 DEF Fire, Worker, ReadNext, TryStart, Finish, timerVars, vars
    <3> QED BY <3>1 DEF TimerInv, TimerAt
  <2>3. CASE \/ (ChatCleared \/ CallDiscarded) /\ UNCHANGED prefetchVars
             \/ UNCHANGED allVars
    <3>1. UNCHANGED <<pc, sched, timer, armed, halted>>
      BY <2>3 DEF ChatCleared, CallDiscarded, allVars, vars, prefetchVars, timerVars, unqueued
    <3> QED BY <3>1 DEF TimerInv
  <2> QED BY <2>1, <2>2, <2>3 DEF PrefetchNext
<1>3. PrefetchSpec => []TypeInv
  BY PrefetchImplementsPlayback, TypeInvariant, PTL
<1>4. PrefetchSpec => []HaltInv
  BY PrefetchImplementsPlayback, HaltInvariant, PTL
<1>5. PrefetchSpec => []TimerTypeOK
  <2>1. PrefetchTypeOK => TimerTypeOK
    BY DEF PrefetchTypeOK, TimerTypeOK
  <2> QED BY <2>1, PrefetchTypeCorrect, PTL
<1> QED BY <1>1, <1>2, <1>3, <1>4, <1>5, PTL DEF PrefetchSpec

\* Handlers that come one at a time leave at most one pending timer, the one
\* CancelPrefetch would find, for any number of timers.
THEOREM OneTimerPending == ASSUME Serial PROVE PrefetchSpec => []OneTimer
<1>1. TimerInv => OneTimer
  BY DEF TimerInv, TimerAt, OneTimer, Serial, NotScheduling
<1> QED BY <1>1, TimerInvariant, PTL

\* From such a Stop to the next request no prefetch is pending, although the
\* goroutine that stops may have scheduled one just before.
THEOREM StopCancelsTimers == ASSUME Serial PROVE PrefetchSpec => []StopCancels
<1>1. TimerInv => StopCancels
  BY DEF TimerInv, TimerAt, StopCancels, Serial
<1> QED BY <1>1, TimerInvariant, PTL
=============================================================================
