------------------------------- MODULE Playback -------------------------------
(***************************************************************************)
(* The playback engine of one chat: the command handlers, the stream-end   *)
(* callback and TelegramCalls' PlayNext / playSong / PlayMedia / Stop, run *)
(* by concurrent goroutines over the chat's queue.                         *)
(*                                                                         *)
(* A goroutine is a member of Procs.  It is "idle" until an update or a    *)
(* stream end gives it work; after that it takes one step per call that    *)
(* reads or writes shared state, because the queue's lock is released      *)
(* between any two of them.  Nothing in the code serialises two handlers   *)
(* of one chat; with a single process the module is the sequential case.   *)
(*                                                                         *)
(* The voice call is seen through what it streams: SetStreamSources and    *)
(* connectCall set `stream', stopCall clears it.  Checks of who may run a  *)
(* command, message texts and the search services are left out: a request  *)
(* arrives with the tracks its search found, or with none.                 *)
(***************************************************************************)
EXTENDS ChatQueue, FiniteSets

CONSTANTS
    Procs,           \* goroutines that can be in a handler at once
    MaxQueueLength,  \* handlers.MaxQueueLength
    MaxBatch,        \* the longest playlist a request resolves to
    Ops,             \* the commands and events that occur
    Faults           \* the calls that can fail

ASSUME PlaybackAssumption ==
    /\ IsFiniteSet(Procs)
    /\ MaxQueueLength \in Nat /\ MaxQueueLength > 1
    /\ MaxBatch \in Nat \ {0}
    /\ Ops \subseteq {"play", "fplay", "fplaylist", "skip", "stop", "loop", "remove", "autoplay",
                      "seek", "end", "cleared", "discarded", "collected"}
    /\ Faults \subseteq {"search", "send", "download", "media", "rotate", "hangup"}

VARIABLES
    pc,      \* where each goroutine is
    local,   \* its local variables
    used,    \* the tracks allocated so far
    stream,  \* the track the voice call is streaming, or None
    halted,  \* history: a Stop has returned and nothing was requested since
    survivor,\* history: what the last Stop left on the air, or None
    tried    \* history: the tracks somebody has set out to play

vars == <<chatVars, pc, local, used, stream, halted, survivor, tried>>
unqueued == <<used, stream, halted, survivor, tried>>

\* song: the track in hand; count: a number the handler read or was given;
\* todo: the tracks a request adds; skips: the track a skip or a force-play
\* is to replace.
Fresh == [song |-> None, count |-> 0, todo |-> <<>>, skips |-> None]

Labels ==
    {"idle", "search", "add", "addFront", "download", "start", "undo", "loopFirst", "next",
     "replay", "current", "upcoming", "advance", "drain", "seed", "mix", "recommend", "send",
     "fetch", "fetching", "play", "stop", "clear", "hangUp", "loop", "remove", "toggle", "toggled",
     "position", "seek"}

Locals == [song : Tracks \cup {None}, count : Nat, todo : Seq(Tracks),
           skips : Tracks \cup {None}]

TypeOK ==
    /\ ChatTypeOK
    /\ pc \in [Procs -> Labels]
    /\ local \in [Procs -> Locals]
    /\ used \subseteq Tracks
    /\ stream \in Tracks \cup {None}
    /\ halted \in BOOLEAN
    /\ survivor \in Tracks \cup {None}
    /\ tried \subseteq Tracks

Init ==
    /\ ChatInit
    /\ pc = [p \in Procs |-> "idle"]
    /\ local = [p \in Procs |-> Fresh]
    /\ used = {}
    /\ stream = None
    /\ halted = TRUE
    /\ survivor = None
    /\ tried = {}

-----------------------------------------------------------------------------
\* Control.

Goto(p, label, l) ==
    /\ pc' = [pc EXCEPT ![p] = label]
    /\ local' = [local EXCEPT ![p] = l]

Jump(p, label) == Goto(p, label, local[p])

Return(p) == Goto(p, "idle", Fresh)

WithSong(p, t) == [local[p] EXCEPT !.song = t]
WithCount(p, n) == [local[p] EXCEPT !.count = n]

At(p, label) == pc[p] = label

SamePlatform(t, u) == t \in YouTube <=> u \in YouTube

-----------------------------------------------------------------------------
\* /play, /vplay, /fplay, /fvplay (handlers/play.go).

\* Mutant of QueueHasRoom: the comparison is off by one.
BugQueueHasRoom == Len(Queue) <= MaxQueueLength

\* The length is checked before the search, and never again.
QueueHasRoom == Len(Queue) < MaxQueueLength

PlayRequest(p) ==
    /\ At(p, "idle") /\ Ops \cap {"play", "fplay", "fplaylist"} # {}
    /\ QueueHasRoom
    /\ Jump(p, "search")
    /\ UNCHANGED <<chatVars, unqueued>>

\* New CachedTracks are numbered as they are allocated, the tracks of each
\* platform apart; which numbers come from YouTube is the constant's choice.
Allocate(ts) ==
    LET new == {ts[i] : i \in DOMAIN ts} IN
    /\ new \cap used = {}
    /\ \A i, j \in DOMAIN ts :
         i < j => ts[i] # ts[j] /\ (SamePlatform(ts[i], ts[j]) => ts[i] < ts[j])
    /\ \A t \in new, u \in Tracks \ (used \cup new) : SamePlatform(t, u) => t < u
    /\ used' = used \cup new

Request(ts) == [song |-> None, count |-> Len(ts), todo |-> ts, skips |-> None]

\* The search resolves to one track or to a playlist's.
Found(p) ==
    /\ At(p, "search")
    /\ \E n \in 1..MaxBatch : \E ts \in [1..n -> Tracks \ used] :
         /\ Allocate(ts)
         /\ \/ "play" \in Ops /\ Goto(p, "add", Request(ts))
            \/ (IF n = 1 THEN "fplay" ELSE "fplaylist") \in Ops
               /\ Goto(p, "addFront", Request(ts))
    /\ UNCHANGED <<chatVars, stream, halted, survivor, tried>>

\* Nothing was found, or the single track found is already queued.
NotFound(p) ==
    /\ At(p, "search") /\ "search" \in Faults
    /\ Return(p)
    /\ UNCHANGED <<chatVars, unqueued>>

\* The request that made the queue non-empty starts it: a single track is
\* downloaded and played here, a playlist (of one track, even) is handed to
\* PlayNext.
StartFirst(p, todo) ==
    /\ \E label \in {"download", "loopFirst"} :
         /\ label = "download" => Len(todo) = 1
         /\ Goto(p, label, [Fresh EXCEPT !.song = Head(todo)])
         /\ tried' = IF label = "download" THEN tried \cup {Head(todo)} ELSE tried

\* Mutant of AddToQueue: the second track still counts as the first.
BugAddToQueue(p) ==
    LET todo == local[p].todo IN
    /\ At(p, "add")
    /\ AddSongs(todo)
    /\ \/ Len(Queue) <= 1 /\ StartFirst(p, todo)
       \/ Len(Queue) > 1 /\ Return(p) /\ UNCHANGED tried
    /\ halted' = FALSE
    /\ UNCHANGED <<used, stream, survivor>>

AddToQueue(p) ==
    LET todo == local[p].todo IN
    /\ At(p, "add")
    /\ AddSongs(todo)
    /\ \/ Queue = <<>> /\ StartFirst(p, todo)
       \/ Queue # <<>> /\ Return(p) /\ UNCHANGED tried
    /\ halted' = FALSE
    /\ UNCHANGED <<used, stream, survivor>>

\* A forced playlist goes in back to front, one AddSongToFront per track; the
\* length the last of them returns decides who plays.  If the chat was cleared
\* in between it can be too short for either answer, and then nobody does.
AddToFront(p) ==
    LET todo == local[p].todo
        n == local[p].count
        startLen == Len(Queue) + 1 - Len(todo)
    IN
    /\ At(p, "addFront")
    /\ AddSongToFront(todo[n])
    /\ \/ n > 1 /\ Goto(p, "addFront", WithCount(p, n - 1)) /\ UNCHANGED tried
       \/ n = 1 /\ startLen > 0
                /\ Goto(p, "next", [Fresh EXCEPT !.skips = Head(Queue)]) /\ UNCHANGED tried
       \/ n = 1 /\ startLen = 0 /\ StartFirst(p, todo)
       \/ n = 1 /\ startLen < 0 /\ Return(p) /\ UNCHANGED tried
    /\ halted' = FALSE
    /\ UNCHANGED <<used, stream, survivor>>

\* Mutant of LoopFirst: the loop count is not set.
BugLoopFirst(p) ==
    /\ At(p, "loopFirst")
    /\ Jump(p, "next")
    /\ UNCHANGED <<chatVars, unqueued>>

\* firstTrack.Loop = 1 makes PlayNext play the head instead of dropping it.
LoopFirst(p) ==
    /\ At(p, "loopFirst")
    /\ Loop' = [Loop EXCEPT ![local[p].song] = 1]
    /\ Jump(p, "next")
    /\ UNCHANGED <<Queue, Autoplay, LastYouTubeTrack, unqueued>>

\* The starter's own download; a failure drops whatever is at the head then.
Downloaded(p) ==
    /\ At(p, "download")
    /\ Jump(p, "start")
    /\ UNCHANGED <<chatVars, unqueued>>

DownloadFailed(p) ==
    /\ At(p, "download") /\ "download" \in Faults
    /\ Jump(p, "undo")
    /\ UNCHANGED <<chatVars, unqueued>>

Undo(p) ==
    /\ At(p, "undo")
    /\ RemoveCurrentSong
    /\ Return(p)
    /\ UNCHANGED unqueued

-----------------------------------------------------------------------------
\* PlayMedia: each failing attempt clears the chat; the same or another
\* assistant may then be tried.

MediaLabels == {"start", "play", "seek"}

MediaStarted(p) ==
    /\ pc[p] \in MediaLabels
    /\ stream' = local[p].song
    /\ Return(p)
    /\ UNCHANGED <<chatVars, used, halted, survivor, tried>>

MediaFailed(p) ==
    /\ pc[p] \in MediaLabels /\ "media" \in Faults
    /\ ClearChat
    /\ \/ "rotate" \in Faults /\ Jump(p, pc[p])
       \/ At(p, "start") /\ Jump(p, "undo")
       \/ ~At(p, "start") /\ Return(p)
    /\ UNCHANGED unqueued

-----------------------------------------------------------------------------
\* PlayNext and playSong (vc/helpers.go, vc/calls.go).

ReadLoop(p) ==
    /\ At(p, "next")
    /\ Goto(p, IF GetLoopCount > 0 THEN "replay" ELSE "upcoming", WithCount(p, GetLoopCount))
    /\ UNCHANGED <<chatVars, unqueued>>

\* Mutant of LowerLoop: the count is stored back unchanged.
BugLowerLoop(p) ==
    /\ At(p, "replay")
    /\ SetLoopCount(local[p].count)
    /\ Jump(p, "current")
    /\ UNCHANGED unqueued

LowerLoop(p) ==
    /\ At(p, "replay")
    /\ SetLoopCount(local[p].count - 1)
    /\ Jump(p, "current")
    /\ UNCHANGED unqueued

ReadCurrent(p) ==
    /\ At(p, "current")
    /\ IF IsActive THEN Goto(p, "send", WithSong(p, GetPlayingTrack)) ELSE Jump(p, "upcoming")
    /\ UNCHANGED <<chatVars, unqueued>>

\* Mutant of ReadUpcoming: the wrong slot is read.
BugReadUpcoming(p) ==
    /\ At(p, "upcoming")
    /\ IF GetUpcomingTrack # None
         THEN Goto(p, "advance", WithSong(p, GetPlayingTrack))
         ELSE Jump(p, "drain")
    /\ UNCHANGED <<chatVars, unqueued>>

\* The upcoming track is read in one critical section and the finished one
\* removed in the next.
ReadUpcoming(p) ==
    /\ At(p, "upcoming")
    /\ IF GetUpcomingTrack # None
         THEN Goto(p, "advance", WithSong(p, GetUpcomingTrack))
         ELSE Jump(p, "drain")
    /\ UNCHANGED <<chatVars, unqueued>>

\* Mutant of Advance: the finished track stays in the queue.
BugAdvance(p) ==
    /\ At(p, "advance")
    /\ Jump(p, "send")
    /\ UNCHANGED <<chatVars, unqueued>>

Advance(p) ==
    /\ At(p, "advance")
    /\ RemoveCurrentSong
    /\ Jump(p, "send")
    /\ UNCHANGED unqueued

Drain(p) ==
    /\ At(p, "drain")
    /\ RemoveCurrentSong
    /\ Jump(p, "seed")
    /\ UNCHANGED unqueued

ReadSeed(p) ==
    /\ At(p, "seed")
    /\ IF LastYouTubeTrack # None THEN Jump(p, "mix") ELSE Jump(p, "stop")
    /\ UNCHANGED <<chatVars, unqueued>>

ReadAutoplay(p) ==
    /\ At(p, "mix")
    /\ Jump(p, IF Autoplay THEN "recommend" ELSE "stop")
    /\ UNCHANGED <<chatVars, unqueued>>

\* handleAutoplay: a recommendation is queued and played, whatever happened
\* to the chat during the lookup.
Recommended(p) ==
    /\ At(p, "recommend")
    /\ \E t \in YouTube \ used :
         /\ Allocate(<<t>>)
         /\ AddSong(t)
         /\ Goto(p, "send", WithSong(p, t))
    /\ UNCHANGED <<stream, halted, survivor, tried>>

NoRecommendation(p) ==
    /\ At(p, "recommend")
    /\ "search" \in Faults
    /\ Jump(p, "stop")
    /\ UNCHANGED <<chatVars, unqueued>>

\* playSong first announces the download; without that message it gives up.
Announced(p) ==
    /\ At(p, "send")
    /\ Jump(p, "fetch")
    /\ tried' = tried \cup {local[p].song}
    /\ UNCHANGED <<chatVars, used, stream, halted, survivor>>

AnnounceFailed(p) ==
    /\ At(p, "send") /\ "send" \in Faults
    /\ Return(p)
    /\ UNCHANGED <<chatVars, unqueued>>

\* downloadAndPrepareSong: a prefetch or an earlier play may have stored the
\* track's FilePath; Prefetch.tla follows that field.
ReadFilePath(p) ==
    /\ At(p, "fetch")
    /\ Jump(p, "play") \/ Jump(p, "fetching")
    /\ UNCHANGED <<chatVars, unqueued>>

Fetched(p) ==
    /\ At(p, "fetching")
    /\ Jump(p, "play")
    /\ UNCHANGED <<chatVars, unqueued>>

\* Mutant of FetchFailed: the error is returned instead of moving on.
BugFetchFailed(p) ==
    /\ At(p, "fetching") /\ "download" \in Faults
    /\ Return(p)
    /\ UNCHANGED <<chatVars, unqueued>>

\* A failed download moves on to the next track.
FetchFailed(p) ==
    /\ At(p, "fetching") /\ "download" \in Faults
    /\ Jump(p, "next")
    /\ UNCHANGED <<chatVars, unqueued>>

-----------------------------------------------------------------------------
\* Stop, run by /stop, by a removed bot and by PlayNext at the queue's end.

AutoplayOff(p) ==
    /\ At(p, "stop")
    /\ SetAutoplay(FALSE)
    /\ Jump(p, "clear")
    /\ UNCHANGED unqueued

Clear(p) ==
    /\ At(p, "clear")
    /\ ClearChat
    /\ Jump(p, "hangUp")
    /\ UNCHANGED unqueued

\* Mutant of HangUp: the native call is left running.
BugHangUp(p) ==
    /\ At(p, "hangUp")
    /\ halted' = TRUE
    /\ Return(p)
    /\ UNCHANGED <<chatVars, used, stream, survivor, tried>>

\* The native call is over, or there was none ("not found" is no error).  If
\* it is only the assistant's leaving that fails, the stream has ended too.
HangUp(p) ==
    /\ At(p, "hangUp")
    /\ stream' = None
    /\ halted' = TRUE
    /\ survivor' = None
    /\ Return(p)
    /\ UNCHANGED <<chatVars, used, tried>>

\* The engine fails to stop the call, or does not answer in time: the stream
\* goes on over a cleared queue, and no caller of Stop looks at the error.  If
\* the engine stops it later after all, that is CallDiscarded.
HangUpFails(p) ==
    /\ At(p, "hangUp") /\ "hangup" \in Faults
    /\ halted' = TRUE
    /\ survivor' = stream
    /\ Return(p)
    /\ UNCHANGED <<chatVars, used, stream, tried>>

-----------------------------------------------------------------------------
\* The other commands.  Each looks at the queue first, and most act on it in
\* a later step.

SkipCommand(p) ==
    /\ At(p, "idle") /\ "skip" \in Ops /\ IsActive
    /\ Goto(p, "next", [local[p] EXCEPT !.skips = GetPlayingTrack])
    /\ UNCHANGED <<chatVars, unqueued>>

StopCommand(p) ==
    /\ At(p, "idle") /\ "stop" \in Ops /\ IsActive
    /\ Jump(p, "stop")
    /\ UNCHANGED <<chatVars, unqueued>>

\* Mutant of LoopCommand: the range check lets one count too many through.
BugLoopCommand(p) ==
    /\ At(p, "idle") /\ "loop" \in Ops /\ IsActive
    /\ \E n \in 0..MaxLoop + 1 : Goto(p, "loop", WithCount(p, n))
    /\ UNCHANGED <<chatVars, unqueued>>

LoopCommand(p) ==
    /\ At(p, "idle") /\ "loop" \in Ops /\ IsActive
    /\ \E n \in 0..MaxLoop : Goto(p, "loop", WithCount(p, n))
    /\ UNCHANGED <<chatVars, unqueued>>

StoreLoop(p) ==
    /\ At(p, "loop")
    /\ SetLoopCount(local[p].count)
    /\ Return(p)
    /\ UNCHANGED unqueued

\* A number from 1 to the length of the snapshot passes the range check.
RemoveCommand(p) ==
    /\ At(p, "idle") /\ "remove" \in Ops /\ IsActive
    /\ \E trackNum \in 1..Len(Queue) : Goto(p, "remove", WithCount(p, trackNum))
    /\ UNCHANGED <<chatVars, unqueued>>

RemoveNumbered(p) ==
    /\ At(p, "remove")
    /\ RemoveTrack(local[p].count)
    /\ Return(p)
    /\ UNCHANGED unqueued

AutoplayCommand(p) ==
    /\ At(p, "idle") /\ "autoplay" \in Ops /\ GetPlayingTrack # None
    /\ Jump(p, "toggle")
    /\ UNCHANGED <<chatVars, unqueued>>

ReadToggle(p) ==
    /\ At(p, "toggle")
    /\ Goto(p, "toggled", WithCount(p, IF Autoplay THEN 0 ELSE 1))
    /\ UNCHANGED <<chatVars, unqueued>>

StoreToggle(p) ==
    /\ At(p, "toggled")
    /\ SetAutoplay(local[p].count = 1)
    /\ Return(p)
    /\ UNCHANGED unqueued

\* /seek restarts the track it read at the head; it asks the call for the
\* played time in between.
SeekCommand(p) ==
    /\ At(p, "idle") /\ "seek" \in Ops /\ GetPlayingTrack # None
    /\ Goto(p, "position", WithSong(p, GetPlayingTrack))
    /\ UNCHANGED <<chatVars, unqueued>>

ReadPosition(p) ==
    /\ At(p, "position")
    /\ IF stream # None THEN Jump(p, "seek") ELSE Return(p)
    /\ UNCHANGED <<chatVars, unqueued>>

-----------------------------------------------------------------------------
\* What reaches the chat from outside.

\* OnStreamEnd: the media ran out and its callback runs PlayNext.
StreamEnd(p) ==
    /\ At(p, "idle") /\ "end" \in Ops
    /\ stream # None
    /\ stream' = None
    /\ Jump(p, "next")
    /\ UNCHANGED <<chatVars, used, halted, survivor, tried>>

\* A "video chat started/ended" message, or the assistant leaving the chat.
ChatCleared ==
    /\ "cleared" \in Ops
    /\ ClearChat
    /\ UNCHANGED <<pc, local, unqueued>>

\* The group call was discarded: the assistant stops the native call only.
CallDiscarded ==
    /\ "discarded" \in Ops /\ stream # None
    /\ stream' = None
    /\ UNCHANGED <<chatVars, pc, local, used, halted, survivor, tried>>

\* Tracks are names: when those for recommendations run out, one that nothing
\* refers to any more is used again.
Held(p) == {local[p].song, local[p].skips} \cup ToSet(local[p].todo)

Collected(t) ==
    /\ "collected" \in Ops /\ YouTube \subseteq used
    /\ t \in YouTube \ (ToSet(Queue) \cup {LastYouTubeTrack, stream, survivor})
    /\ \A p \in Procs : t \notin Held(p)
    /\ used' = used \ {t}
    /\ tried' = tried \ {t}
    /\ Loop' = [Loop EXCEPT ![t] = 0]
    /\ UNCHANGED <<Queue, Autoplay, LastYouTubeTrack, pc, local, stream, halted, survivor>>

-----------------------------------------------------------------------------
Command(p) ==
    \/ PlayRequest(p) \/ SkipCommand(p) \/ StopCommand(p) \/ LoopCommand(p)
    \/ RemoveCommand(p) \/ AutoplayCommand(p) \/ SeekCommand(p)

Step(p) ==
    \/ Found(p) \/ NotFound(p) \/ AddToQueue(p) \/ AddToFront(p) \/ LoopFirst(p)
    \/ Downloaded(p) \/ DownloadFailed(p) \/ Undo(p)
    \/ MediaStarted(p) \/ MediaFailed(p)
    \/ ReadLoop(p) \/ LowerLoop(p) \/ ReadCurrent(p) \/ ReadUpcoming(p) \/ Advance(p)
    \/ Drain(p) \/ ReadSeed(p) \/ ReadAutoplay(p) \/ Recommended(p) \/ NoRecommendation(p)
    \/ Announced(p) \/ AnnounceFailed(p) \/ ReadFilePath(p) \/ Fetched(p) \/ FetchFailed(p)
    \/ AutoplayOff(p) \/ Clear(p) \/ HangUp(p) \/ HangUpFails(p)
    \/ StoreLoop(p) \/ RemoveNumbered(p) \/ ReadToggle(p) \/ StoreToggle(p) \/ ReadPosition(p)

Next ==
    \/ \E p \in Procs : Command(p) \/ Step(p) \/ StreamEnd(p)
    \/ ChatCleared \/ CallDiscarded \/ \E t \in Tracks : Collected(t)

Spec == Init /\ [][Next]_vars

(***************************************************************************)
(* A handler in progress keeps running: its calls return or time out.  A   *)
(* stream's media is finite and its end gets a goroutine of its own, which *)
(* no stream of commands can starve; commands themselves may never come.   *)
(***************************************************************************)
Fairness == \A p \in Procs : WF_vars(Step(p)) /\ SF_vars(StreamEnd(p))

FairSpec == Spec /\ Fairness

-----------------------------------------------------------------------------
AllIdle == \A p \in Procs : At(p, "idle")

\* Playback never stalls behind a queued track: when no handler is at work
\* and a track is queued, the one at the head is on the air.
HeadIsStreaming == AllIdle /\ Queue # <<>> => stream = Head(Queue)

\* "Stop halts media playback" (vc/calls.go:147): from the return of a Stop to
\* the next request nothing starts to play, and nothing is on the air but a
\* stream that this Stop failed to end (calls.go:157-165), an error all its
\* callers drop (handlers/stop.go:34, vc/helpers.go:117).
StopHalts == halted => stream \in {None, survivor}

\* A skip or a force-play that finds no repeat of the playing track left
\* goes to another track (handlers/skip.go, PlayNext).
SkipSwitches ==
    \A p \in Procs :
        /\ local[p].skips # None /\ local[p].count = 0
        /\ pc[p] \in {"send", "fetch", "fetching", "play"}
        => local[p].song # local[p].skips

\* A queued track "waits its turn" (handlers/help.go:75): PlayNext discards
\* from the head only a track somebody has set out to play.
TurnKept ==
    \A p \in Procs :
        pc[p] \in {"advance", "drain"} /\ IsActive => Head(Queue) \in tried

\* "Autoplay turns itself back off whenever /stop or /end fully clears the
\* queue" (handlers/help.go:104), and after every other way a queue ends.
AutoplayEndsWithQueue == AllIdle /\ Queue = <<>> => ~Autoplay

\* A track is queued at one position, and autoplay's seed at none: the queue
\* shares no pointer with itself or with the past.
QueuedOnce ==
    /\ \A i, j \in DOMAIN Queue : Queue[i] = Queue[j] => i = j
    /\ \A i \in DOMAIN Queue : Queue[i] # LastYouTubeTrack

\* A setting is the "maximum number of tracks allowed in a single chat's queue
\* at once", and who meets it is told that the "Queue is full"
\* (handlers/play.go:76-84).  The code does not keep to it: the length is
\* checked once per request and before a search, so a playlist, or handlers
\* that passed the check together, overshoot the limit.  What holds is that
\* they do so by no more than one request each.
QueueBound == Len(Queue) < MaxQueueLength + MaxBatch * Cardinality(Procs)

\* The handlers that are bringing a track to the air.
Driving(p) ==
    pc[p] \in {"download", "start", "undo", "loopFirst", "next", "replay", "current",
               "upcoming", "advance", "drain", "send", "fetch", "fetching", "play"}

\* Of the requests that reach an idle chat together exactly the one whose
\* AddSong returned 1 starts playing; the others queue behind it.
OneDriver ==
    /\ \A p, q \in Procs : Driving(p) /\ Driving(q) => p = q
    /\ Queue = <<>> => \A p \in Procs : ~Driving(p)

\* Every handler returns, PlayNext's retries over failing downloads included,
\* unless autoplay finds it one recommendation after another: each that cannot
\* be downloaded leads to PlayNext and to the next, and nothing counts them.
HandlersReturn ==
    \A p \in Procs : <>[]~At(p, "recommend") => (~At(p, "idle") ~> At(p, "idle"))

\* A queued track is reached or taken out, once no admin goes on asking for
\* repeats of the one before it.
QueuedServed ==
    \A t \in Tracks :
        <>[](\A u \in Tracks : Loop[u] = 0)
        => (t \in ToSet(Queue) ~> (stream = t \/ t \notin ToSet(Queue)))
=============================================================================
