------------------------------- MODULE Prefetch -------------------------------
(***************************************************************************)
(* The background download of the upcoming track (vc/prefetch.go), added   *)
(* to Playback: the chat's timer, the goroutine a firing timer starts, the *)
(* guard these goroutines share, and CachedTrack.FilePath.                 *)
(*                                                                         *)
(* A goroutine of Playback that has started a track in playSong goes on to *)
(* schedulePrefetch, and takes no new work before it is done; Stop cancels *)
(* before anything else.  A timer id is free again once its timer is not   *)
(* armed, not in the map, and its goroutine has ended.                     *)
(***************************************************************************)
EXTENDS Playback

CONSTANTS Timers      \* names for *time.Timer values

ASSUME PrefetchAssumption == IsFiniteSet(Timers) /\ None \notin Timers

VARIABLES
    sched,      \* sched[p]: where p is in schedulePrefetch, or in Stop
    timer,      \* prefetchTimers[chatID]
    armed,      \* the timers that will still fire
    work,       \* work[t]: the prefetchNextTrack that t's firing started
    inFlight,   \* trackPrefetchGuard.inFlight
    filePath    \* the tracks whose FilePath is set

timerVars == <<sched, timer, armed>>
guardVars == <<work, inFlight>>
prefetchVars == <<timerVars, guardVars, filePath>>

NotScheduling == [pc |-> "none", timer |-> None]
NoWork == [pc |-> "none", song |-> None]

PrefetchTypeOK ==
    /\ sched \in [Procs -> [pc : {"none", "cancelled", "cancel", "create", "store"},
                          timer : Timers \cup {None}]]
    /\ timer \in Timers \cup {None}
    /\ armed \subseteq Timers
    /\ work \in [Timers -> [pc : {"none", "fired", "tryStart", "downloading"},
                            song : Tracks \cup {None}]]
    /\ inFlight \subseteq Tracks
    /\ filePath \subseteq Tracks

PrefetchInit ==
    /\ Init
    /\ sched = [p \in Procs |-> NotScheduling]
    /\ timer = None
    /\ armed = {}
    /\ work = [t \in Timers |-> NoWork]
    /\ inFlight = {}
    /\ filePath = {}

-----------------------------------------------------------------------------
\* The timer.

\* Mutant of CancelPrefetch: the timer is forgotten, not stopped.
BugCancelPrefetch ==
    /\ timer' = None
    /\ UNCHANGED armed

\* Removing the entry and stopping its timer are one step: if the timer fires
\* in between, it might as well have fired before.
CancelPrefetch ==
    /\ timer' = None
    /\ armed' = armed \ {timer}

ScheduleCancel(p) ==
    /\ sched[p].pc = "cancel"
    /\ CancelPrefetch
    /\ \/ sched' = [sched EXCEPT ![p].pc = "create"]
       \/ sched' = [sched EXCEPT ![p] = NotScheduling]    \* unknown duration
    /\ UNCHANGED <<vars, guardVars, filePath>>

FreeTimers == {t \in Timers \ (armed \cup {timer}) : work[t] = NoWork}

ScheduleCreate(p) ==
    /\ sched[p].pc = "create"
    /\ \E t \in FreeTimers :
         /\ \A q \in Procs : sched[q].timer # t
         /\ armed' = armed \cup {t}
         /\ sched' = [sched EXCEPT ![p] = [pc |-> "store", timer |-> t]]
    /\ UNCHANGED <<vars, timer, guardVars, filePath>>

ScheduleStore(p) ==
    /\ sched[p].pc = "store"
    /\ timer' = sched[p].timer
    /\ sched' = [sched EXCEPT ![p] = NotScheduling]
    /\ UNCHANGED <<vars, armed, guardVars, filePath>>

-----------------------------------------------------------------------------
\* prefetchNextTrack.

Fire(t) ==
    /\ t \in armed
    /\ armed' = armed \ {t}
    /\ work' = [work EXCEPT ![t].pc = IF IsActive THEN "fired" ELSE "none"]
    /\ UNCHANGED <<vars, sched, timer, inFlight, filePath>>

\* Mutant of ReadNext: a missing upcoming track is not noticed.
BugReadNext(t) ==
    /\ work[t].pc = "fired"
    /\ work' = [work EXCEPT ![t] =
                  IF GetUpcomingTrack \in filePath THEN NoWork
                  ELSE [pc |-> "tryStart", song |-> GetUpcomingTrack]]
    /\ UNCHANGED <<vars, timerVars, inFlight, filePath>>

\* The queue is read when the timer has fired; what the timer was set for is
\* forgotten.
ReadNext(t) ==
    /\ work[t].pc = "fired"
    /\ work' = [work EXCEPT ![t] =
                  IF GetUpcomingTrack \in filePath \cup {None} THEN NoWork
                  ELSE [pc |-> "tryStart", song |-> GetUpcomingTrack]]
    /\ UNCHANGED <<vars, timerVars, inFlight, filePath>>

\* Mutant of TryStart: an entry in the guard turns nobody away.
BugTryStart(t) ==
    /\ work[t].pc = "tryStart"
    /\ inFlight' = inFlight \cup {work[t].song}
    /\ work' = [work EXCEPT ![t].pc = "downloading"]
    /\ UNCHANGED <<vars, timerVars, filePath>>

TryStart(t) ==
    /\ work[t].pc = "tryStart"
    /\ IF work[t].song \in inFlight
         THEN work' = [work EXCEPT ![t] = NoWork] /\ UNCHANGED inFlight
         ELSE /\ inFlight' = inFlight \cup {work[t].song}
              /\ work' = [work EXCEPT ![t].pc = "downloading"]
    /\ UNCHANGED <<vars, timerVars, filePath>>

\* A download that fails leaves FilePath alone; either way the guard is freed.
Finish(t) ==
    /\ work[t].pc = "downloading"
    /\ \/ filePath' = filePath \cup {work[t].song}
       \/ "download" \in Faults /\ UNCHANGED filePath
    /\ inFlight' = inFlight \ {work[t].song}
    /\ work' = [work EXCEPT ![t] = NoWork]
    /\ UNCHANGED <<vars, timerVars>>

-----------------------------------------------------------------------------
\* The steps of Playback that touch FilePath or the timer.

StarterDownloaded(p) ==
    /\ Downloaded(p)
    /\ filePath' = filePath \cup {local[p].song}
    /\ UNCHANGED <<timerVars, guardVars>>

FileFound(p) ==
    /\ At(p, "fetch")
    /\ Jump(p, IF local[p].song \in filePath THEN "play" ELSE "fetching")
    /\ UNCHANGED <<chatVars, unqueued, prefetchVars>>

FileFetched(p) ==
    /\ Fetched(p)
    /\ filePath' = filePath \cup {local[p].song}
    /\ UNCHANGED <<timerVars, guardVars>>

\* The result of a failed download is stored too, and it is the empty path.
FileMissed(p) ==
    /\ FetchFailed(p)
    /\ filePath' = filePath \ {local[p].song}
    /\ UNCHANGED <<timerVars, guardVars>>

\* Only playSong schedules; the starter of a queue and /seek do not.
TrackStarted(p) ==
    /\ MediaStarted(p)
    /\ sched' = IF At(p, "play") THEN [sched EXCEPT ![p].pc = "cancel"] ELSE sched
    /\ UNCHANGED <<timer, armed, guardVars, filePath>>

\* Mutant of StopCancel: Stop does not cancel.
BugStopCancel(p) ==
    /\ At(p, "stop") /\ sched[p] = NotScheduling
    /\ sched' = [sched EXCEPT ![p].pc = "cancelled"]
    /\ UNCHANGED <<vars, timer, armed, guardVars, filePath>>

\* Stop cancels before it touches the queue.
StopCancel(p) ==
    /\ At(p, "stop") /\ sched[p] = NotScheduling
    /\ CancelPrefetch
    /\ sched' = [sched EXCEPT ![p].pc = "cancelled"]
    /\ UNCHANGED <<vars, guardVars, filePath>>

StopGoesOn(p) ==
    /\ sched[p].pc = "cancelled"
    /\ AutoplayOff(p)
    /\ sched' = [sched EXCEPT ![p] = NotScheduling]
    /\ UNCHANGED <<timer, armed, guardVars, filePath>>

OtherStep(p) ==
    /\ \/ Found(p) \/ NotFound(p) \/ AddToQueue(p) \/ AddToFront(p) \/ LoopFirst(p)
       \/ DownloadFailed(p) \/ Undo(p) \/ MediaFailed(p)
       \/ ReadLoop(p) \/ LowerLoop(p) \/ ReadCurrent(p) \/ ReadUpcoming(p) \/ Advance(p)
       \/ Drain(p) \/ ReadSeed(p) \/ ReadAutoplay(p) \/ Recommended(p) \/ NoRecommendation(p)
       \/ Announced(p) \/ AnnounceFailed(p) \/ Clear(p) \/ HangUp(p) \/ HangUpFails(p)
       \/ StoreLoop(p) \/ RemoveNumbered(p) \/ ReadToggle(p) \/ StoreToggle(p) \/ ReadPosition(p)
    /\ UNCHANGED prefetchVars

NewWork(p) ==
    /\ sched[p] = NotScheduling
    /\ Command(p) \/ StreamEnd(p)
    /\ UNCHANGED prefetchVars

Handler(p) ==
    \/ StarterDownloaded(p) \/ FileFound(p) \/ FileFetched(p) \/ FileMissed(p)
    \/ TrackStarted(p) \/ StopCancel(p) \/ StopGoesOn(p) \/ OtherStep(p) \/ NewWork(p)
    \/ ScheduleCancel(p) \/ ScheduleCreate(p) \/ ScheduleStore(p)

Worker(t) == ReadNext(t) \/ TryStart(t) \/ Finish(t)

PrefetchNext ==
    \/ \E p \in Procs : Handler(p)
    \/ \E t \in Timers : Fire(t) \/ Worker(t)
    \/ (ChatCleared \/ CallDiscarded) /\ UNCHANGED prefetchVars

allVars == <<vars, prefetchVars>>

PrefetchSpec == PrefetchInit /\ [][PrefetchNext]_allVars

-----------------------------------------------------------------------------
\* No two prefetches download one track, and the guard holds exactly the
\* tracks being prefetched: an entry left behind would never be downloaded
\* ahead again.
GuardExact ==
    /\ inFlight = {work[t].song : t \in {u \in Timers : work[u].pc = "downloading"}}
    /\ \A t, u \in Timers :
         work[t].pc = "downloading" /\ work[u].pc = "downloading" /\ work[t].song = work[u].song
         => t = u

\* One handler at a time leaves at most one pending timer, the one in the map
\* ("exactly one pending timer per chat", vc/prefetch.go:36).
OneTimer == (\A p \in Procs : sched[p] = NotScheduling) => armed \subseteq {timer}

\* After Stop no download is pending for the chat.
StopCancels == halted => armed = {}

\* "prevents the same *utils.CachedTrack from being downloaded by two
\* goroutines at once" (vc/prefetch.go:108), a player's download included.
OneDownload ==
    \A p \in Procs, t \in Timers :
        At(p, "fetching") /\ work[t].pc = "downloading" => local[p].song # work[t].song
=============================================================================
