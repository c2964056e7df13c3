------------------------------ MODULE SliceQueue ------------------------------
(***************************************************************************)
(* core/cache/chat_cache.go as it is written: one chat's entry, whose      *)
(* queue is a Go slice.  A slice is a window on an array; append writes    *)
(* into the array's spare slots when there are enough and moves to a new   *)
(* array otherwise, removing from the front slides the window, removing    *)
(* from the middle shifts the array under it.  A caller of GetQueue keeps  *)
(* the slice it was given while the queue goes on changing.                *)
(*                                                                         *)
(* ChatQueue is what all this amounts to for callers (Implements).         *)
(***************************************************************************)
EXTENDS Integers, Sequences, FiniteSets

CONSTANTS
    Tracks, YouTube, MaxLoop, None,     \* as in ChatQueue
    Arrays,     \* names for the arrays behind slices
    NoArray,    \* the array of a nil slice
    MaxSpare,   \* bound: the spare slots append asks for when it grows a slice
    MaxBatch,   \* bound: the longest list given to AddSongs
    MaxLen      \* bound: callers add nothing to a queue of that length

ASSUME SliceQueueAssumption ==
    /\ Tracks \subseteq Nat /\ YouTube \subseteq Tracks /\ None \notin Tracks
    /\ MaxLoop \in Nat \ {0} /\ MaxSpare \in Nat /\ MaxBatch \in Nat /\ MaxLen \in Nat
    /\ NoArray \notin Arrays

VARIABLES
    heap,       \* heap[a]: the slots of array a, as many as its capacity
    cached,     \* is there an entry in chatCache?
    entry,      \* the *ChatData in the map, or the last one that was
    Loop,       \* CachedTrack.Loop of every track
    copy,       \* the slice a caller of GetQueue holds
    copied      \* history: the queue when the caller got it

sliceVars == <<heap, cached, entry, Loop, copy, copied>>
callerVars == <<copy, copied>>

Slice == [array : Arrays \cup {NoArray}, offset : Nat, len : Nat]
ChatData == [Queue : Slice, Autoplay : BOOLEAN, LastYouTubeTrack : YouTube \cup {None}]

Nil == [array |-> NoArray, offset |-> 0, len |-> 0]
Zero == [Queue |-> Nil, Autoplay |-> FALSE, LastYouTubeTrack |-> None]

Cap(s) == Len(heap[s.array]) - s.offset
Elements(s) == SubSeq(heap[s.array], s.offset + 1, s.offset + s.len)

TypeOK ==
    /\ heap \in [Arrays \cup {NoArray} -> Seq(Tracks \cup {None})] /\ heap[NoArray] = <<>>
    /\ cached \in BOOLEAN
    /\ entry \in ChatData /\ entry.Queue.len <= Cap(entry.Queue)
    /\ Loop \in [Tracks -> 0..MaxLoop]
    /\ copy \in Slice /\ copy.len <= Cap(copy)
    /\ copied \in Seq(Tracks)

Init ==
    /\ heap = [a \in Arrays \cup {NoArray} |-> <<>>]
    /\ cached = FALSE
    /\ entry = Zero
    /\ Loop = [t \in Tracks |-> 0]
    /\ copy = Nil
    /\ copied = <<>>

\* A deleted entry's *ChatData is dropped; the next writer makes a new one.
getOrCreate == IF cached THEN entry ELSE Zero

queue == getOrCreate.Queue
PlayingTrack == heap[queue.array][queue.offset + 1]

Free == Arrays \ {queue.array, copy.array}

-----------------------------------------------------------------------------
\* Mutant of InPlace: the capacity is overestimated by one.
BugInPlace(songs) ==
    LET end == queue.offset + queue.len IN
    /\ queue.len + Len(songs) <= Cap(queue) + 1
    /\ heap' = [heap EXCEPT ![queue.array] =
                  [i \in DOMAIN @ |-> IF i - end \in DOMAIN songs THEN songs[i - end] ELSE @[i]]]
    /\ entry' = [getOrCreate EXCEPT !.Queue.len = @ + Len(songs)]

\* append(data.Queue, songs...): in place where the capacity suffices, in a new
\* array otherwise.
InPlace(songs) ==
    LET end == queue.offset + queue.len IN
    /\ queue.len + Len(songs) <= Cap(queue)
    /\ heap' = [heap EXCEPT ![queue.array] =
                  [i \in DOMAIN @ |-> IF i - end \in DOMAIN songs THEN songs[i - end] ELSE @[i]]]
    /\ entry' = [getOrCreate EXCEPT !.Queue.len = @ + Len(songs)]

Grow(songs) ==
    /\ queue.len + Len(songs) > Cap(queue)
    /\ \E a \in Free, spare \in 0..MaxSpare :
         /\ heap' = [heap EXCEPT ![a] = Elements(queue) \o songs \o [i \in 1..spare |-> None]]
         /\ entry' = [getOrCreate EXCEPT
                        !.Queue = [array |-> a, offset |-> 0, len |-> queue.len + Len(songs)]]

AddSongs(songs) ==
    /\ queue.len + Len(songs) <= MaxLen
    /\ InPlace(songs) \/ Grow(songs)
    /\ cached' = TRUE
    /\ UNCHANGED <<Loop, callerVars>>

\* Into an empty queue this is append; otherwise a new array is filled.
AddSongToFront(song) ==
    \/ queue.len = 0 /\ AddSongs(<<song>>)
    \/ /\ queue.len \in 1..MaxLen - 1
       /\ \E a \in Free :
            /\ heap' = [heap EXCEPT ![a] =
                          <<PlayingTrack, song>> \o SubSeq(Elements(queue), 2, queue.len)]
            /\ entry' = [entry EXCEPT
                           !.Queue = [array |-> a, offset |-> 0, len |-> queue.len + 1]]
       /\ UNCHANGED <<cached, Loop, callerVars>>

\* Mutant of RemoveCurrentSong: the slot left behind keeps its pointer.
BugRemoveCurrentSong ==
    /\ queue.len > 0
    /\ entry' = [entry EXCEPT
                   !.Queue = [array |-> @.array, offset |-> @.offset + 1, len |-> @.len - 1],
                   !.LastYouTubeTrack = IF PlayingTrack \in YouTube THEN PlayingTrack ELSE @]
    /\ UNCHANGED <<heap, cached, Loop, callerVars>>

RemoveCurrentSong ==
    /\ queue.len > 0
    /\ heap' = [heap EXCEPT ![queue.array][queue.offset + 1] = None]
    /\ entry' = [entry EXCEPT
                   !.Queue = [array |-> @.array, offset |-> @.offset + 1, len |-> @.len - 1],
                   !.LastYouTubeTrack = IF PlayingTrack \in YouTube THEN PlayingTrack ELSE @]
    /\ UNCHANGED <<cached, Loop, callerVars>>

\* Mutant of RemoveTrack: copy's arguments are swapped.
BugRemoveTrack(index) ==
    LET first == queue.offset + index + 1
        last == queue.offset + queue.len
    IN
    /\ index < queue.len
    /\ heap' = [heap EXCEPT ![queue.array] =
                  [i \in DOMAIN @ |-> IF i = last THEN None
                                      ELSE IF i \in first + 1..last THEN @[i - 1] ELSE @[i]]]
    /\ entry' = [entry EXCEPT !.Queue.len = @ - 1]
    /\ UNCHANGED <<cached, Loop, callerVars>>

\* The index counts from 0; what follows it moves up one slot, in place.
RemoveTrack(index) ==
    LET first == queue.offset + index + 1
        last == queue.offset + queue.len
    IN
    /\ index < queue.len
    /\ heap' = [heap EXCEPT ![queue.array] =
                  [i \in DOMAIN @ |-> IF i = last THEN None
                                      ELSE IF i \in first..last THEN @[i + 1] ELSE @[i]]]
    /\ entry' = [entry EXCEPT !.Queue.len = @ - 1]
    /\ UNCHANGED <<cached, Loop, callerVars>>

SetAutoplay(state) ==
    /\ cached' = TRUE
    /\ entry' = [getOrCreate EXCEPT !.Autoplay = state]
    /\ UNCHANGED <<heap, Loop, callerVars>>

SetLoopCount(loop) ==
    /\ queue.len > 0
    /\ Loop' = [Loop EXCEPT ![PlayingTrack] = loop]
    /\ UNCHANGED <<heap, cached, entry, callerVars>>

\* The slots are emptied before the entry is deleted.
ClearChat ==
    /\ cached
    /\ heap' = [heap EXCEPT ![queue.array] =
                  [i \in DOMAIN @ |->
                     IF i - queue.offset \in 1..queue.len THEN None ELSE @[i]]]
    /\ cached' = FALSE
    /\ UNCHANGED <<entry, Loop, callerVars>>

\* Mutant of GetQueue: the slice itself is returned.
BugGetQueue ==
    /\ copy' = queue
    /\ copied' = Elements(queue)
    /\ UNCHANGED <<heap, cached, entry, Loop>>

\* The caller gets an array of its own.
GetQueue ==
    /\ \/ queue.len = 0 /\ copy' = Nil /\ UNCHANGED heap
       \/ /\ queue.len > 0
          /\ \E a \in Free :
               /\ heap' = [heap EXCEPT ![a] = Elements(queue)]
               /\ copy' = [array |-> a, offset |-> 0, len |-> queue.len]
    /\ copied' = Elements(queue)
    /\ UNCHANGED <<cached, entry, Loop>>

-----------------------------------------------------------------------------
Batches == UNION {[1..n -> Tracks] : n \in 0..MaxBatch}

Next ==
    \/ \E songs \in Batches : AddSongs(songs)
    \/ \E t \in Tracks : AddSongs(<<t>>) \/ AddSongToFront(t)
    \/ RemoveCurrentSong
    \/ \E index \in 0..MaxLen - 1 : RemoveTrack(index)
    \/ \E state \in BOOLEAN : SetAutoplay(state)
    \/ \E loop \in 0..MaxLoop : SetLoopCount(loop)
    \/ ClearChat
    \/ GetQueue

Spec == Init /\ [][Next]_sliceVars

-----------------------------------------------------------------------------
\* The entry as its readers see it: each looks for the entry first.
Abstract == INSTANCE ChatQueue WITH
    Queue <- Elements(queue),
    Autoplay <- cached /\ entry.Autoplay,
    LastYouTubeTrack <- IF cached THEN entry.LastYouTubeTrack ELSE None

\* Sliding, shifting, growing and re-created, the slice is a queue, and a
\* deleted entry leaves nothing to its successor.
Implements ==
    Abstract!ChatInit /\ [][Abstract!ChatNext(Batches)]_(Abstract!chatVars)

\* "GetQueue returns a shallow copy" (core/cache/chat_cache.go:238): whatever
\* is added, removed or cleared later, the caller's slice keeps the tracks.
CopyStable == Elements(copy) = copied

\* No slot outside the window holds on to a track that has left the queue,
\* through any number of slides, shifts and appends into the same array.
NothingRetained ==
    \A i \in DOMAIN heap[queue.array] :
        i - queue.offset \notin 1..queue.len => heap[queue.array][i] = None
=============================================================================
