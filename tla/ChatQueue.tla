------------------------------ MODULE ChatQueue ------------------------------
(***************************************************************************)
(* One chat's entry in core/cache.ChatCacher: what the queue operations    *)
(* promise their callers.  Every method of ChatCacher holds c.mu for its   *)
(* whole body, so each operator below is one atomic step; the entries of   *)
(* two chats share nothing but that mutex, so one chat is modelled.  A     *)
(* deleted entry and a zero ChatData answer every reader alike, and both   *)
(* are the initial state here.                                             *)
(*                                                                         *)
(* A track is a *utils.CachedTrack pointer.  Of its fields only Loop can   *)
(* change while the pointer is queued, and it stays with the track after   *)
(* the track has left the queue.                                           *)
(***************************************************************************)
EXTENDS Integers, Sequences, SequencesExt

CONSTANTS
    Tracks,     \* the tracks a behaviour can allocate, by number
    YouTube,    \* those whose Platform is utils.YouTube
    MaxLoop,    \* the largest loop count a caller stores
    None        \* nil

ASSUME ChatQueueAssumption ==
    /\ Tracks \subseteq Nat /\ YouTube \subseteq Tracks
    /\ None \notin Tracks
    /\ MaxLoop \in Nat \ {0}

VARIABLES
    Queue,              \* ChatData.Queue; Queue[1] is the playing track
    Autoplay,           \* ChatData.Autoplay
    LastYouTubeTrack,   \* ChatData.LastYouTubeTrack
    Loop                \* CachedTrack.Loop of every track

chatVars == <<Queue, Autoplay, LastYouTubeTrack, Loop>>

ChatTypeOK ==
    /\ Queue \in Seq(Tracks)
    /\ Autoplay \in BOOLEAN
    /\ LastYouTubeTrack \in YouTube \cup {None}
    /\ Loop \in [Tracks -> 0..MaxLoop]

ChatInit ==
    /\ Queue = <<>>
    /\ Autoplay = FALSE
    /\ LastYouTubeTrack = None
    /\ Loop = [t \in Tracks |-> 0]

-----------------------------------------------------------------------------
\* The readers.

GetPlayingTrack == IF Queue = <<>> THEN None ELSE Head(Queue)

GetUpcomingTrack == IF Len(Queue) < 2 THEN None ELSE Queue[2]

IsActive == Queue # <<>>

GetLoopCount == IF Queue = <<>> THEN 0 ELSE Loop[Head(Queue)]

-----------------------------------------------------------------------------
\* The writers.

AddSongs(ts) ==
    /\ Queue' = Queue \o ts
    /\ UNCHANGED <<Autoplay, LastYouTubeTrack, Loop>>

AddSong(t) == AddSongs(<<t>>)

\* Mutant of AddSongToFront: the copy starts one slot too early.
BugAddSongToFront(t) ==
    /\ Queue' = IF Queue = <<>> THEN <<t>> ELSE <<Head(Queue), t>> \o Queue
    /\ UNCHANGED <<Autoplay, LastYouTubeTrack, Loop>>

AddSongToFront(t) ==
    /\ Queue' = IF Queue = <<>> THEN <<t>> ELSE <<Head(Queue), t>> \o Tail(Queue)
    /\ UNCHANGED <<Autoplay, LastYouTubeTrack, Loop>>

\* Removing the playing track remembers it as autoplay's seed when it came
\* from YouTube.
RemoveCurrentSong ==
    /\ Queue' = IF Queue = <<>> THEN <<>> ELSE Tail(Queue)
    /\ LastYouTubeTrack' =
         IF IsActive /\ Head(Queue) \in YouTube THEN Head(Queue) ELSE LastYouTubeTrack
    /\ UNCHANGED <<Autoplay, Loop>>

\* Mutant of RemoveTrack: the index is taken to count from 1.
BugRemoveTrack(index) ==
    /\ Queue' = IF index <= Len(Queue) THEN RemoveAt(Queue, index) ELSE Queue
    /\ UNCHANGED <<Autoplay, LastYouTubeTrack, Loop>>

\* The index counts from 0, and one out of range removes nothing.
RemoveTrack(index) ==
    /\ Queue' = IF index < Len(Queue) THEN RemoveAt(Queue, index + 1) ELSE Queue
    /\ UNCHANGED <<Autoplay, LastYouTubeTrack, Loop>>

SetAutoplay(state) ==
    /\ Autoplay' = state
    /\ UNCHANGED <<Queue, LastYouTubeTrack, Loop>>

SetLoopCount(loop) ==
    /\ Loop' = IF IsActive THEN [Loop EXCEPT ![Head(Queue)] = loop] ELSE Loop
    /\ UNCHANGED <<Queue, Autoplay, LastYouTubeTrack>>

\* Mutant of ClearChat: the tracks go and the rest of the entry stays.
BugClearChat ==
    /\ Queue' = <<>>
    /\ UNCHANGED <<Autoplay, LastYouTubeTrack, Loop>>

\* The whole entry goes: queue, autoplay flag and seed.
ClearChat ==
    /\ Queue' = <<>>
    /\ Autoplay' = FALSE
    /\ LastYouTubeTrack' = None
    /\ UNCHANGED Loop
-----------------------------------------------------------------------------
\* Everything callers can do to the entry; `batches' are the lists AddSongs is
\* called with.
ChatNext(batches) ==
    \/ \E t \in Tracks : AddSong(t) \/ AddSongToFront(t)
    \/ \E ts \in batches : AddSongs(ts)
    \/ RemoveCurrentSong
    \/ \E index \in 0..Len(Queue) : RemoveTrack(index)
    \/ \E state \in BOOLEAN : SetAutoplay(state)
    \/ \E loop \in 0..MaxLoop : SetLoopCount(loop)
    \/ ClearChat
=============================================================================
