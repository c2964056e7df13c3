------------------------------ MODULE SliceProof ------------------------------
(***************************************************************************)
(* Theorems about SliceQueue for every number of tracks and arrays and     *)
(* every growth of append: the slice is the queue of ChatQueue, callers'   *)
(* slices keep what they were given, and nothing is held on to.            *)
(***************************************************************************)
EXTENDS SliceQueue, TLAPS, SequenceTheorems

-----------------------------------------------------------------------------
\* The inductive invariant.  The queue and the slice a caller holds share no
\* array, which is what keeps the writes into an array from the caller, and the
\* slots of the window hold tracks, which is what every write relies on.

Slots == Tracks \cup {None}

Apart == queue.array = copy.array => queue.array = NoArray

Window == \A i \in 1..queue.len : heap[queue.array][queue.offset + i] \in Tracks

SliceInv == TypeOK /\ Apart /\ Window /\ CopyStable /\ NothingRetained

\* The elements of a window on an array.
LEMMA WindowElements ==
    ASSUME NEW h \in Seq(Slots), NEW o \in Nat, NEW n \in Nat, n <= Len(h) - o
    PROVE  LET e == SubSeq(h, o + 1, o + n) IN
           /\ e \in Seq(Slots) /\ Len(e) = n
           /\ \A i \in 1..n : e[i] = h[o + i]
           /\ (\A i \in 1..n : h[o + i] \in Tracks) => e \in Seq(Tracks)
<1>1. \A i \in o + 1..o + n : h[i] \in Slots
  BY LenProperties, ElementOfSeq
<1>2. /\ SubSeq(h, o + 1, o + n) \in Seq(Slots)
      /\ Len(SubSeq(h, o + 1, o + n)) = n
      /\ \A i \in 1..n : SubSeq(h, o + 1, o + n)[i] = h[o + i]
  BY <1>1, SubSeqProperties
<1>3. ASSUME \A i \in 1..n : h[o + i] \in Tracks
      PROVE  SubSeq(h, o + 1, o + n) \in Seq(Tracks)
  <2>1. \A i \in o + 1..o + n : h[i] \in Tracks
    <3> TAKE i \in o + 1..o + n
    <3>1. i - o \in 1..n /\ o + (i - o) = i
      OBVIOUS
    <3> QED BY <1>3, <3>1
  <2> QED BY <2>1, SubSeqProperties
<1> QED BY <1>2, <1>3

LEMMA WindowIs ==
    ASSUME NEW h \in Seq(Slots), NEW o \in Nat, NEW t \in Seq(Tracks), Len(t) <= Len(h) - o,
           \A i \in 1..Len(t) : h[o + i] = t[i]
    PROVE  SubSeq(h, o + 1, o + Len(t)) = t
<1> DEFINE e == SubSeq(h, o + 1, o + Len(t))
<1>1. Len(t) \in Nat /\ \A i \in 1..Len(t) : t[i] \in Tracks
  BY LenProperties, ElementOfSeq
<1>2. e \in Seq(Tracks) /\ Len(e) = Len(t) /\ \A i \in 1..Len(t) : e[i] = h[o + i]
  BY <1>1, WindowElements
<1> HIDE DEF e
<1>3. e = t
  BY <1>2, SeqEqual
<1> QED BY <1>3 DEF e

\* An entry whose queue is given a length, or another slice.
LEMMA EntryEdits ==
    ASSUME NEW e \in ChatData
    PROVE  /\ \A m \in Nat :
                /\ [e EXCEPT !.Queue.len = m] \in ChatData
                /\ [e EXCEPT !.Queue.len = m].Queue
                     = [array |-> e.Queue.array, offset |-> e.Queue.offset, len |-> m]
           /\ \A s \in Slice : /\ [e EXCEPT !.Queue = s] \in ChatData
                              /\ [e EXCEPT !.Queue = s].Queue = s
BY DEF ChatData, Slice

\* The slice in the entry.
LEMMA QueueType ==
    ASSUME SliceInv
    PROVE  /\ queue \in Slice /\ queue.len <= Cap(queue) /\ getOrCreate \in ChatData
           /\ heap[queue.array] \in Seq(Slots) /\ heap[NoArray] = <<>>
<1>1. Zero \in ChatData /\ Zero.Queue = Nil /\ Nil \in Slice
  BY DEF Zero, ChatData, Nil, Slice
<1>2. heap[NoArray] = <<>>
  BY DEF SliceInv, TypeOK
<1>3. getOrCreate \in ChatData
  BY <1>1 DEF SliceInv, TypeOK, getOrCreate
<1>4. queue \in Slice
  BY <1>3 DEF ChatData, queue
<1>5. queue.len <= Cap(queue)
  BY <1>1, <1>2 DEF SliceInv, TypeOK, queue, getOrCreate, Cap, Nil
<1>6. heap[queue.array] \in Seq(Slots)
  BY <1>4 DEF SliceInv, TypeOK, Slice, Slots
<1> QED BY <1>2, <1>3, <1>4, <1>5, <1>6

LEMMA QueueElements ==
    ASSUME SliceInv
    PROVE  /\ Elements(queue) \in Seq(Tracks) /\ Len(Elements(queue)) = queue.len
           /\ queue.len \in Nat
           /\ \A i \in 1..queue.len : Elements(queue)[i] = heap[queue.array][queue.offset + i]
<1>1. queue.offset \in Nat /\ queue.len \in Nat /\ heap[queue.array] \in Seq(Slots)
      /\ queue.len <= Len(heap[queue.array]) - queue.offset
  BY QueueType DEF Slice, Cap
<1>2. \A i \in 1..queue.len : heap[queue.array][queue.offset + i] \in Tracks
  BY DEF SliceInv, Window
<1> QED BY <1>1, <1>2, WindowElements DEF Elements

-----------------------------------------------------------------------------
\* A step that gives the entry the slice s on the array h.
LEMMA Rewritten ==
    ASSUME SliceInv, NEW s \in Slice, NEW h \in Seq(Slots),
           heap' = [heap EXCEPT ![s.array] = h],
           s.array = copy.array => h = heap[s.array] /\ s.array = NoArray,
           s.array = NoArray => h = <<>>,
           s.len <= Len(h) - s.offset,
           NEW t \in Seq(Tracks), Len(t) = s.len, \A i \in 1..s.len : h[s.offset + i] = t[i],
           \A i \in 1..Len(h) : i - s.offset \notin 1..s.len => h[i] = None,
           cached' = TRUE, entry' \in ChatData, entry'.Queue = s,
           Loop' \in [Tracks -> 0..MaxLoop], UNCHANGED callerVars
    PROVE  SliceInv' /\ Elements(queue)' = t
<1>0. s.offset \in Nat /\ s.len \in Nat /\ \A i \in 1..s.len : h[s.offset + i] \in Tracks
  BY ElementOfSeq DEF Slice
<1>1. queue' = s
  BY DEF queue, getOrCreate
<1>2. heap'[s.array] = h /\ heap'[copy.array] = heap[copy.array] /\ heap'[NoArray] = <<>>
      /\ heap' \in [Arrays \cup {NoArray} -> Seq(Slots)]
  BY DEF SliceInv, TypeOK, Slots, Slice
<1>3. copy' = copy /\ copied' = copied
  BY DEF callerVars
<1>4. TypeOK'
  <2>1. entry'.Queue.len <= Len(heap'[entry'.Queue.array]) - entry'.Queue.offset
    BY <1>2
  <2>2. copy'.len <= Cap(copy)'
    BY <1>2, <1>3 DEF Cap, SliceInv, TypeOK
  <2> QED BY <1>2, <1>3, <2>1, <2>2 DEF TypeOK, SliceInv, Cap, Slots
<1>5. Apart'
  BY <1>1, <1>3 DEF Apart
<1>6. Window'
  BY <1>0, <1>1, <1>2 DEF Window
<1>7. CopyStable'
  BY <1>2, <1>3 DEF CopyStable, SliceInv, Elements
<1>8. NothingRetained'
  BY <1>1, <1>2, LenProperties DEF NothingRetained
<1>9. Elements(queue)' = SubSeq(h, s.offset + 1, s.offset + s.len)
  BY <1>1, <1>2 DEF Elements
<1>10. SubSeq(h, s.offset + 1, s.offset + s.len) = t
  BY <1>0, WindowIs
<1> QED BY <1>4, <1>5, <1>6, <1>7, <1>8, <1>9, <1>10 DEF SliceInv

\* append(data.Queue, songs...): in place or on a new array, the songs follow the
\* queue.
LEMMA AppendStep ==
    ASSUME SliceInv, NEW songs \in Seq(Tracks), AddSongs(songs)
    PROVE  SliceInv' /\ Elements(queue)' = Elements(queue) \o songs
<1> DEFINE q == Elements(queue)
           n == Len(songs)
<1>1. /\ q \in Seq(Tracks) /\ Len(q) = queue.len /\ queue.len \in Nat /\ queue.offset \in Nat
      /\ \A i \in 1..queue.len : q[i] = heap[queue.array][queue.offset + i]
      /\ queue \in Slice /\ queue.array \in Arrays \cup {NoArray}
      /\ queue.len <= Len(heap[queue.array]) - queue.offset
  BY QueueElements, QueueType DEF Slice, Cap
<1>2. /\ n \in Nat /\ q \o songs \in Seq(Tracks) /\ Len(q \o songs) = queue.len + n
      /\ \A i \in 1..queue.len + n :
           (q \o songs)[i] = IF i <= queue.len THEN q[i] ELSE songs[i - queue.len]
  BY <1>1, ConcatProperties, LenProperties
<1>3. Tracks \subseteq Slots /\ None \in Slots
  BY DEF Slots
<1>4. cached' = TRUE /\ UNCHANGED callerVars /\ Loop' \in [Tracks -> 0..MaxLoop]
  BY DEF AddSongs, SliceInv, TypeOK
<1>5. CASE InPlace(songs)
  <2> DEFINE a == queue.array
             o == queue.offset
             end == o + queue.len
             h == [i \in DOMAIN heap[a] |-> IF i - end \in DOMAIN songs THEN songs[i - end]
                                             ELSE heap[a][i]]
             s == [array |-> a, offset |-> o, len |-> queue.len + n]
  <2>1. heap[a] \in Seq(Slots) /\ DOMAIN heap[a] = 1..Len(heap[a]) /\ Len(heap[a]) \in Nat
        /\ DOMAIN songs = 1..n
    BY QueueType, LenProperties
  <2>2. h \in Seq(Slots) /\ Len(h) = Len(heap[a])
    <3>1. \A i \in 1..Len(heap[a]) : h[i] \in Slots
      BY <1>3, <2>1, ElementOfSeq
    <3>2. h \in [1..Len(heap[a]) -> Slots]
      BY <2>1, <3>1
    <3> QED BY <2>1, <3>2, LenProperties
  <2>3. queue.len + n <= Len(heap[a]) - o
    BY <1>5 DEF InPlace, Cap
  <2>4. \A i \in 1..queue.len + n : h[o + i] = (q \o songs)[i]
    <3> TAKE i \in 1..queue.len + n
    <3>1. o + i \in DOMAIN heap[a] /\ (o + i) - end = i - queue.len
      BY <1>1, <1>2, <2>1, <2>3
    <3>2. i - queue.len \in DOMAIN songs <=> i > queue.len
      BY <1>1, <1>2, <2>1
    <3> QED BY <1>1, <1>2, <3>1, <3>2
  <2>6. \A i \in 1..Len(h) : i - o \notin 1..queue.len + n => h[i] = None
    <3> SUFFICES ASSUME NEW i \in 1..Len(h), i - o \notin 1..queue.len + n
                 PROVE  h[i] = None
      OBVIOUS
    <3>1. i - end \notin DOMAIN songs /\ i - o \notin 1..queue.len
      BY <1>1, <1>2, <2>1, <2>2
    <3> QED BY <2>1, <2>2, <3>1 DEF SliceInv, NothingRetained
  <2>7. s \in Slice /\ s.array = a /\ s.offset = o /\ s.len = queue.len + n
    BY <1>1, <1>2 DEF Slice
  <2>8. heap' = [heap EXCEPT ![s.array] = h]
    BY <1>5, <2>7 DEF InPlace
  <2>9. entry' \in ChatData /\ entry'.Queue = s
    <3>1. entry' = [getOrCreate EXCEPT !.Queue.len = getOrCreate.Queue.len + n]
      BY <1>5 DEF InPlace
    <3>2. getOrCreate \in ChatData /\ getOrCreate.Queue.len + n \in Nat
      BY <1>1, <1>2, QueueType DEF queue
    <3> QED BY <3>1, <3>2, EntryEdits DEF queue
  <2>10. a = NoArray => h = <<>> /\ h = heap[a]
    BY <2>1, <2>2, QueueType, EmptySeq
  <2>11. a = copy.array => h = heap[a] /\ a = NoArray
    BY <2>10 DEF SliceInv, Apart
  <2>12. /\ s.len <= Len(h) - s.offset /\ Len(q \o songs) = s.len
         /\ \A i \in 1..s.len : h[s.offset + i] = (q \o songs)[i]
         /\ \A i \in 1..Len(h) : i - s.offset \notin 1..s.len => h[i] = None
         /\ s.array = copy.array => h = heap[s.array] /\ s.array = NoArray
         /\ s.array = NoArray => h = <<>>
    <3> HIDE DEF h, s, q, n
    <3> QED BY <1>2, <2>2, <2>3, <2>4, <2>6, <2>7, <2>10, <2>11
  <2> HIDE DEF h, s
  <2> QED BY <1>2, <1>4, <2>2, <2>7, <2>8, <2>9, <2>12, Rewritten
<1>6. CASE Grow(songs)
  <2>1. PICK a \in Free, spare \in 0..MaxSpare :
          /\ heap' = [heap EXCEPT ![a] = q \o songs \o [i \in 1..spare |-> None]]
          /\ entry' = [getOrCreate EXCEPT
                         !.Queue = [array |-> a, offset |-> 0, len |-> queue.len + n]]
    BY <1>6 DEF Grow
  <2> DEFINE blank == [i \in 1..spare |-> None]
             h == (q \o songs) \o blank
             s == [array |-> a, offset |-> 0, len |-> queue.len + n]
  <2>2. blank \in Seq(Slots) /\ Len(blank) = spare /\ spare \in Nat
    BY <1>3, SliceQueueAssumption
  <2>3. q \o songs \in Seq(Slots)
    BY <1>2, <1>3, SeqMonotonic
  <2>4. /\ h \in Seq(Slots) /\ Len(h) = queue.len + n + spare
        /\ \A i \in 1..queue.len + n + spare :
             h[i] = IF i <= queue.len + n THEN (q \o songs)[i] ELSE blank[i - (queue.len + n)]
    <3> DEFINE b == q \o songs
    <3>1. b \in Seq(Slots) /\ Len(b) = queue.len + n
      BY <1>2, <2>3
    <3> HIDE DEF b, blank
    <3>2. /\ b \o blank \in Seq(Slots) /\ Len(b \o blank) = Len(b) + Len(blank)
          /\ \A i \in 1..Len(b) + Len(blank) :
               (b \o blank)[i] = IF i <= Len(b) THEN b[i] ELSE blank[i - Len(b)]
      BY <2>2, <3>1, ConcatProperties
    <3> QED BY <2>2, <3>1, <3>2 DEF b
  <2>5. s \in Slice /\ s.array = a /\ s.offset = 0 /\ s.len = queue.len + n
        /\ a # NoArray /\ a # copy.array
    BY <1>1, <1>2, SliceQueueAssumption DEF Slice, Free
  <2>6. \A i \in 1..queue.len + n : h[0 + i] = (q \o songs)[i]
    BY <1>1, <1>2, <2>2, <2>4
  <2>7. \A i \in 1..Len(h) : i - 0 \notin 1..queue.len + n => h[i] = None
    BY <1>1, <1>2, <2>2, <2>4
  <2>8. entry' \in ChatData /\ entry'.Queue = s
    BY <2>1, <2>5, QueueType, EntryEdits
  <2>9. heap' = [heap EXCEPT ![s.array] = h]
    BY <2>1, <2>5
  <2>10. s.len <= Len(h) - s.offset
    BY <1>1, <1>2, <2>2, <2>4, <2>5
  <2>11. /\ Len(q \o songs) = s.len
         /\ \A i \in 1..s.len : h[s.offset + i] = (q \o songs)[i]
         /\ \A i \in 1..Len(h) : i - s.offset \notin 1..s.len => h[i] = None
    <3> HIDE DEF h, s, q, n
    <3> QED BY <1>2, <2>5, <2>6, <2>7
  <2> HIDE DEF h, s
  <2> QED BY <1>2, <1>4, <2>4, <2>5, <2>8, <2>9, <2>10, <2>11, Rewritten
<1> QED BY <1>5, <1>6 DEF AddSongs

\* AddSongToFront: behind the playing track.
LEMMA FrontStep ==
    ASSUME SliceInv, NEW song \in Tracks, AddSongToFront(song)
    PROVE  /\ SliceInv'
           /\ Elements(queue)' = IF Elements(queue) = <<>> THEN <<song>>
                                ELSE <<Head(Elements(queue)), song>> \o Tail(Elements(queue))
<1> DEFINE q == Elements(queue)
<1>1. /\ q \in Seq(Tracks) /\ Len(q) = queue.len /\ queue.len \in Nat
      /\ \A i \in 1..queue.len : q[i] = heap[queue.array][queue.offset + i]
  BY QueueElements
<1>2. CASE queue.len = 0
  <2>1. q = <<>>
    BY <1>1, <1>2, EmptySeq
  <2>2. AddSongs(<<song>>) /\ <<song>> \in Seq(Tracks)
    BY <1>2 DEF AddSongToFront
  <2>3. SliceInv' /\ Elements(queue)' = q \o <<song>>
    BY <2>2, AppendStep
  <2>4. q \o <<song>> = <<song>>
    BY <2>1, <2>2, ConcatEmptySeq
  <2> QED BY <2>1, <2>3, <2>4
<1>3. CASE queue.len > 0
  <2>1. PICK a \in Free :
          /\ heap' = [heap EXCEPT ![a] = <<PlayingTrack, song>> \o SubSeq(q, 2, queue.len)]
          /\ entry' = [entry EXCEPT !.Queue = [array |-> a, offset |-> 0, len |-> queue.len + 1]]
          /\ UNCHANGED <<cached, Loop, callerVars>>
    BY <1>3 DEF AddSongToFront
  <2> DEFINE t == <<Head(q), song>> \o Tail(q)
             s == [array |-> a, offset |-> 0, len |-> queue.len + 1]
  <2>2. cached = TRUE /\ getOrCreate = entry
    BY <1>3 DEF queue, getOrCreate, Zero, Nil, SliceInv, TypeOK
  <2>3. q # <<>> /\ Head(q) = PlayingTrack /\ Tail(q) = SubSeq(q, 2, queue.len)
    <3>1. q # <<>>
      BY <1>1, <1>3, EmptySeq
    <3>2. Head(q) = q[1] /\ q[1] = PlayingTrack
      BY <1>1, <1>3, <3>1 DEF PlayingTrack
    <3> HIDE DEF q
    <3> QED BY <1>1, <3>1, <3>2, TailIsSubSeq
  <2>4. t \in Seq(Tracks) /\ Len(t) = queue.len + 1
    <3>1. Head(q) \in Tracks /\ Tail(q) \in Seq(Tracks) /\ Len(Tail(q)) = queue.len - 1
      <4> HIDE DEF q
      <4> QED BY <1>1, <2>3, HeadTailProperties
    <3>2. <<Head(q), song>> \in Seq(Tracks) /\ Len(<<Head(q), song>>) = 2
      BY <3>1
    <3> HIDE DEF q
    <3> QED BY <1>1, <3>1, <3>2, ConcatProperties
  <2>5. heap' = [heap EXCEPT ![a] = t]
    BY <2>1, <2>3
  <2>6. s \in Slice /\ s.array = a /\ s.offset = 0 /\ s.len = queue.len + 1
        /\ a # NoArray /\ a # copy.array
    BY <1>1, SliceQueueAssumption DEF Slice, Free
  <2>7. entry' \in ChatData /\ entry'.Queue = s
    BY <2>1, <2>2, <2>6, QueueType, EntryEdits
  <2>8. t \in Seq(Slots)
    BY <2>4, SeqMonotonic DEF Slots
  <2>9. cached' = TRUE /\ Loop' \in [Tracks -> 0..MaxLoop] /\ UNCHANGED callerVars
    BY <2>1, <2>2 DEF SliceInv, TypeOK
  <2>10. SliceInv' /\ Elements(queue)' = t
    <3>1. heap' = [heap EXCEPT ![s.array] = t]
      BY <2>5, <2>6
    <3>2. \A i \in 1..s.len : t[s.offset + i] = t[i]
      <4> HIDE DEF t, s
      <4> QED BY <1>1, <2>6
    <3>3. Len(t) = s.len /\ s.len <= Len(t) - s.offset
          /\ \A i \in 1..Len(t) : i - s.offset \notin 1..s.len => t[i] = None
      BY <1>1, <2>4, <2>6
    <3> HIDE DEF t, s
    <3> QED BY <2>4, <2>6, <2>7, <2>8, <2>9, <3>1, <3>2, <3>3, Rewritten
  <2> QED BY <2>3, <2>10
<1> QED BY <1>1, <1>2, <1>3

\* RemoveCurrentSong: the window slides, and the slot it leaves is emptied.
LEMMA SlideStep ==
    ASSUME SliceInv, RemoveCurrentSong
    PROVE  /\ SliceInv' /\ cached /\ cached' /\ UNCHANGED Loop
           /\ Elements(queue) # <<>> /\ Head(Elements(queue)) = PlayingTrack
           /\ Elements(queue)' = Tail(Elements(queue))
           /\ entry'.Autoplay = entry.Autoplay
           /\ entry'.LastYouTubeTrack = IF PlayingTrack \in YouTube THEN PlayingTrack
                                        ELSE entry.LastYouTubeTrack
<1> DEFINE q == Elements(queue)
           a == queue.array
           o == queue.offset
           h == [heap[a] EXCEPT ![o + 1] = None]
           s == [array |-> a, offset |-> o + 1, len |-> queue.len - 1]
<1>1. /\ q \in Seq(Tracks) /\ Len(q) = queue.len /\ queue.len \in Nat /\ o \in Nat
      /\ \A i \in 1..queue.len : q[i] = heap[a][o + i]
      /\ queue \in Slice /\ a \in Arrays \cup {NoArray}
      /\ queue.len <= Len(heap[a]) - o
      /\ heap[a] \in Seq(Slots) /\ Len(heap[a]) \in Nat
  BY QueueElements, QueueType, LenProperties DEF Slice, Cap
<1>2. queue.len > 0
  BY DEF RemoveCurrentSong
<1>3. cached = TRUE /\ getOrCreate = entry /\ entry \in ChatData /\ queue = entry.Queue
  BY <1>2 DEF queue, getOrCreate, Zero, Nil, SliceInv, TypeOK
<1>4. a # NoArray /\ a # copy.array
  BY <1>1, <1>2, QueueType, EmptySeq DEF SliceInv, Apart
<1>5. h \in Seq(Slots) /\ Len(h) = Len(heap[a])
      /\ \A i \in 1..Len(h) : h[i] = IF i = o + 1 THEN None ELSE heap[a][i]
  BY <1>1, <1>2, ExceptSeq DEF Slots
<1>6. s \in Slice /\ s.array = a /\ s.offset = o + 1 /\ s.len = queue.len - 1
  BY <1>1, <1>2 DEF Slice
<1>7. heap' = [heap EXCEPT ![s.array] = h]
  BY <1>6, <1>1 DEF RemoveCurrentSong, SliceInv, TypeOK
<1>8. /\ entry' \in ChatData /\ entry'.Queue = s /\ entry'.Autoplay = entry.Autoplay
      /\ entry'.LastYouTubeTrack = IF PlayingTrack \in YouTube THEN PlayingTrack
                                   ELSE entry.LastYouTubeTrack
  BY <1>1, <1>3, <1>6 DEF RemoveCurrentSong, ChatData, Slice
<1>9. q # <<>> /\ Head(q) = PlayingTrack
  BY <1>1, <1>2, EmptySeq DEF PlayingTrack
<1>10. Tail(q) \in Seq(Tracks) /\ Len(Tail(q)) = queue.len - 1
       /\ \A i \in 1..queue.len - 1 : Tail(q)[i] = q[i + 1]
  <2> HIDE DEF q
  <2> QED BY <1>1, <1>9, HeadTailProperties
<1>11. /\ Len(Tail(q)) = s.len /\ s.len <= Len(h) - s.offset
       /\ \A i \in 1..s.len : h[s.offset + i] = Tail(q)[i]
  <2> HIDE DEF q, h, s
  <2>1. Len(Tail(q)) = s.len /\ s.len <= Len(h) - s.offset
    BY <1>1, <1>2, <1>5, <1>6, <1>10
  <2>2. ASSUME NEW i \in 1..s.len
        PROVE  h[s.offset + i] = Tail(q)[i]
    <3>1. i + 1 \in 1..queue.len /\ s.offset + i = o + (i + 1) /\ o + (i + 1) \in 1..Len(h)
          /\ o + (i + 1) # o + 1
      <4>1. \A n, m, k \in Nat : \A j \in 1..n - 1 :
              n <= k - m => /\ j + 1 \in 1..n /\ (m + 1) + j = m + (j + 1) /\ m + (j + 1) \in 1..k
                            /\ m + (j + 1) # m + 1
        OBVIOUS
      <4>2. queue.len \in Nat /\ o \in Nat /\ Len(h) \in Nat /\ queue.len <= Len(h) - o
        BY <1>1, <1>5
      <4>3. i \in 1..queue.len - 1
        BY <1>6
      <4> QED BY <1>6, <4>1, <4>2, <4>3
    <3>2. Tail(q)[i] = q[i + 1] /\ q[i + 1] = heap[a][o + (i + 1)]
      BY <1>1, <1>6, <1>10, <3>1
    <3> QED BY <1>5, <3>1, <3>2
  <2> QED BY <2>1, <2>2
<1>12. \A i \in 1..Len(h) : i - s.offset \notin 1..s.len => h[i] = None
  <2> SUFFICES ASSUME NEW i \in 1..Len(h), i - s.offset \notin 1..s.len
               PROVE  h[i] = None
    OBVIOUS
  <2>1. i = o + 1 \/ i - o \notin 1..queue.len
    BY <1>1, <1>2, <1>5, <1>6
  <2> QED BY <1>1, <1>5, <2>1, LenProperties DEF SliceInv, NothingRetained
<1>13. cached' = TRUE /\ UNCHANGED <<Loop, callerVars>> /\ Loop' \in [Tracks -> 0..MaxLoop]
  BY <1>3 DEF RemoveCurrentSong, SliceInv, TypeOK
<1>14. SliceInv' /\ Elements(queue)' = Tail(q)
  <2> HIDE DEF h, s
  <2> QED BY <1>4, <1>5, <1>6, <1>7, <1>8, <1>10, <1>11, <1>12, <1>13, Rewritten
<1> QED BY <1>3, <1>8, <1>9, <1>13, <1>14

\* A sequence without one of its elements.
LEMMA WithoutOne ==
    ASSUME NEW q \in Seq(Tracks), NEW index \in Nat, index < Len(q)
    PROVE  LET t == SubSeq(q, 1, index) \o SubSeq(q, index + 2, Len(q)) IN
           /\ t \in Seq(Tracks) /\ Len(t) = Len(q) - 1
           /\ \A i \in 1..Len(q) - 1 : t[i] = IF i <= index THEN q[i] ELSE q[i + 1]
<1> DEFINE n == Len(q)
           l == SubSeq(q, 1, index)
           r == SubSeq(q, index + 2, n)
<1>1. n \in Nat /\ \A i \in 1..n : q[i] \in Tracks
  BY LenProperties, ElementOfSeq
<1>2. l \in Seq(Tracks) /\ Len(l) = index /\ \A i \in 1..index : l[i] = q[i]
  <2>1. \A i \in 1..index : q[i] \in Tracks
    BY <1>1
  <2> QED BY <2>1, SubSeqProperties
<1>3. r \in Seq(Tracks) /\ Len(r) = n - 1 - index
      /\ \A i \in 1..n - 1 - index : r[i] = q[index + 1 + i]
  <2>1. \A i \in index + 2..n : q[i] \in Tracks
    BY <1>1
  <2>2. /\ r \in Seq(Tracks) /\ Len(r) = IF index + 2 <= n THEN n - (index + 2) + 1 ELSE 0
        /\ \A i \in 1..n - (index + 2) + 1 : r[i] = q[index + 2 + i - 1]
    BY <1>1, <2>1, SubSeqProperties
  <2> HIDE DEF r
  <2> QED BY <1>1, <2>2
<1> HIDE DEF l, r
<1>4. l \o r \in Seq(Tracks) /\ Len(l \o r) = Len(l) + Len(r)
      /\ \A i \in 1..Len(l) + Len(r) : (l \o r)[i] = IF i <= Len(l) THEN l[i] ELSE r[i - Len(l)]
  BY <1>2, <1>3, ConcatProperties
<1>5. Len(l) + Len(r) = n - 1
  BY <1>1, <1>2, <1>3
<1>6. ASSUME NEW i \in 1..n - 1
      PROVE  (l \o r)[i] = IF i <= index THEN q[i] ELSE q[i + 1]
  <2>0. i \in Int /\ index \in Int
    BY <1>1
  <2>1. CASE i <= index
    BY <1>2, <1>4, <1>5, <2>1
  <2>2. CASE i > index
    <3>0. i \in Int /\ index \in Int /\ ~(i <= index)
      BY <1>1, <2>2
    <3>1. i - index \in 1..n - 1 - index /\ index + 1 + (i - index) = i + 1
      BY <1>1, <2>2
    <3>2. (l \o r)[i] = r[i - index]
      BY <1>2, <1>4, <1>5, <3>0
    <3>3. r[i - index] = q[index + 1 + (i - index)]
      BY <1>3, <3>1
    <3>4. q[index + 1 + (i - index)] = q[i + 1]
      BY <3>1, Zenon
    <3>5. (l \o r)[i] = q[i + 1]
      BY <3>2, <3>3, <3>4, Zenon
    <3>6. ~(i <= index)
      BY <3>0
    <3> QED BY <3>5, <3>6
  <2>3. i <= index \/ i > index
    BY <2>0
  <2> QED BY <2>1, <2>2, <2>3, Zenon
<1> QED BY <1>4, <1>5, <1>6 DEF l, r

\* RemoveTrack: what follows the track moves up one slot.
LEMMA ShiftStep ==
    ASSUME SliceInv, NEW index \in Nat, RemoveTrack(index)
    PROVE  LET q == Elements(queue) IN
           /\ SliceInv' /\ cached /\ cached' /\ UNCHANGED Loop
           /\ index < Len(q)
           /\ Elements(queue)' = SubSeq(q, 1, index) \o SubSeq(q, index + 2, Len(q))
           /\ entry'.Autoplay = entry.Autoplay
           /\ entry'.LastYouTubeTrack = entry.LastYouTubeTrack
<1> DEFINE q == Elements(queue)
           a == queue.array
           o == queue.offset
           first == o + index + 1
           last == o + queue.len
           h == [i \in DOMAIN heap[a] |-> IF i = last THEN None
                                          ELSE IF i \in first..last THEN heap[a][i + 1] ELSE heap[a][i]]
           s == [array |-> a, offset |-> o, len |-> queue.len - 1]
           t == SubSeq(q, 1, index) \o SubSeq(q, index + 2, Len(q))
<1>1. /\ q \in Seq(Tracks) /\ Len(q) = queue.len /\ queue.len \in Nat /\ o \in Nat
      /\ \A i \in 1..queue.len : q[i] = heap[a][o + i]
      /\ queue \in Slice /\ a \in Arrays \cup {NoArray}
      /\ queue.len <= Len(heap[a]) - o
      /\ heap[a] \in Seq(Slots) /\ Len(heap[a]) \in Nat /\ DOMAIN heap[a] = 1..Len(heap[a])
  BY QueueElements, QueueType, LenProperties DEF Slice, Cap
<1>2. /\ index < queue.len /\ index \in Nat /\ queue.len \in Nat /\ o \in Nat
      /\ Len(heap[a]) \in Nat /\ queue.len <= Len(heap[a]) - o
  BY <1>1 DEF RemoveTrack
<1>3. cached = TRUE /\ getOrCreate = entry /\ entry \in ChatData /\ queue = entry.Queue
  BY <1>1, <1>2 DEF queue, getOrCreate, Zero, Nil, SliceInv, TypeOK
<1>4. a # NoArray /\ a # copy.array
  BY <1>1, <1>2, QueueType, EmptySeq DEF SliceInv, Apart
<1>5. h \in Seq(Slots) /\ Len(h) = Len(heap[a])
      /\ \A i \in 1..Len(h) : h[i] = IF i = last THEN None
                                     ELSE IF i \in first..last THEN heap[a][i + 1] ELSE heap[a][i]
  <2>1. ASSUME NEW i \in 1..Len(heap[a])
        PROVE  h[i] \in Slots
    <3>1. i # last /\ i \in first..last => i + 1 \in 1..Len(heap[a])
      BY <1>2
    <3>2. \A j \in 1..Len(heap[a]) : heap[a][j] \in Slots
      BY <1>1, ElementOfSeq
    <3> QED BY <1>1, <3>1, <3>2 DEF Slots
  <2>2. h \in [1..Len(heap[a]) -> Slots]
    BY <1>1, <2>1
  <2> QED BY <1>1, <2>2, LenProperties
<1>6. s \in Slice /\ s.array = a /\ s.offset = o /\ s.len = queue.len - 1
  BY <1>1, <1>2 DEF Slice
<1>7. heap' = [heap EXCEPT ![s.array] = h]
  BY <1>6 DEF RemoveTrack
<1>8. /\ entry' \in ChatData /\ entry'.Queue = s /\ entry'.Autoplay = entry.Autoplay
      /\ entry'.LastYouTubeTrack = entry.LastYouTubeTrack
  BY <1>1, <1>3, <1>6 DEF RemoveTrack, ChatData, Slice
<1>9. t \in Seq(Tracks) /\ Len(t) = queue.len - 1
      /\ \A i \in 1..queue.len - 1 : t[i] = IF i <= index THEN q[i] ELSE q[i + 1]
  <2> HIDE DEF q
  <2>1. q \in Seq(Tracks) /\ index < Len(q) /\ index \in Nat
    BY <1>1, <1>2
  <2>2. /\ t \in Seq(Tracks) /\ Len(t) = Len(q) - 1
        /\ \A i \in 1..Len(q) - 1 : t[i] = IF i <= index THEN q[i] ELSE q[i + 1]
    BY <2>1, WithoutOne
  <2> QED BY <1>1, <2>2
<1>10. ASSUME NEW i \in 1..s.len
       PROVE  h[s.offset + i] = t[i]
  <2> HIDE DEF q, h, s, t
  <2>1. o + i \in 1..Len(h) /\ o + i # last /\ i \in 1..queue.len - 1
        /\ (o + i \in first..last <=> i > index) /\ s.offset + i = o + i /\ (o + i) + 1 = o + (i + 1)
        /\ i + 1 \in 1..queue.len /\ i \in 1..queue.len
    BY <1>1, <1>2, <1>5, <1>6
  <2>2. h[o + i] = IF i > index THEN heap[a][o + (i + 1)] ELSE heap[a][o + i]
    BY <1>5, <2>1
  <2>3. t[i] = IF i <= index THEN q[i] ELSE q[i + 1]
    BY <1>9, <2>1
  <2>4. q[i] = heap[a][o + i] /\ q[i + 1] = heap[a][o + (i + 1)]
    BY <1>1, <2>1
  <2>5. i > index <=> ~(i <= index)
    BY <1>2, <2>1
  <2> QED BY <2>1, <2>2, <2>3, <2>4, <2>5
<1>11. Len(t) = s.len /\ s.len <= Len(h) - s.offset
  <2> HIDE DEF q, h, s, t
  <2> QED BY <1>1, <1>2, <1>5, <1>6, <1>9
<1>12. \A i \in 1..Len(h) : i - s.offset \notin 1..s.len => h[i] = None
  <2> SUFFICES ASSUME NEW i \in 1..Len(h), i - s.offset \notin 1..s.len
               PROVE  h[i] = None
    OBVIOUS
  <2>1. i = last \/ (i - o \notin 1..queue.len /\ i \notin first..last)
    <3> HIDE DEF q, h, s, t
    <3> QED BY <1>1, <1>2, <1>5, <1>6
  <2> QED BY <1>1, <1>5, <2>1 DEF SliceInv, NothingRetained
<1>13. cached' = TRUE /\ UNCHANGED <<Loop, callerVars>> /\ Loop' \in [Tracks -> 0..MaxLoop]
  BY <1>3 DEF RemoveTrack, SliceInv, TypeOK
<1>14. SliceInv' /\ Elements(queue)' = t
  <2> HIDE DEF h, s, t
  <2> QED BY <1>4, <1>5, <1>6, <1>7, <1>8, <1>9, <1>10, <1>11, <1>12, <1>13, Rewritten
<1> QED BY <1>1, <1>2, <1>3, <1>8, <1>13, <1>14

\* The operations that leave the slice where it is.
LEMMA FlagStep ==
    ASSUME SliceInv, NEW state \in BOOLEAN, SetAutoplay(state)
    PROVE  /\ SliceInv' /\ UNCHANGED Loop /\ cached' = TRUE
           /\ Elements(queue)' = Elements(queue)
           /\ entry'.Autoplay = state /\ entry'.LastYouTubeTrack = getOrCreate.LastYouTubeTrack
<1>1. getOrCreate \in ChatData /\ entry' = [getOrCreate EXCEPT !.Autoplay = state]
  BY QueueType DEF SetAutoplay
<1>2. /\ entry' \in ChatData /\ entry'.Queue = queue /\ entry'.Autoplay = state
      /\ entry'.LastYouTubeTrack = getOrCreate.LastYouTubeTrack
  BY <1>1 DEF ChatData, queue
<1>3. queue' = queue /\ heap' = heap /\ cached' = TRUE /\ UNCHANGED <<Loop, copy, copied>>
  BY <1>2 DEF SetAutoplay, queue, getOrCreate, callerVars
<1>4. TypeOK'
  BY <1>2, <1>3, QueueType DEF SliceInv, TypeOK, Cap
<1>5. Apart' /\ Window' /\ CopyStable' /\ NothingRetained'
  BY <1>3 DEF SliceInv, Apart, Window, CopyStable, NothingRetained, Elements
<1> QED BY <1>2, <1>3, <1>4, <1>5 DEF SliceInv, Elements

LEMMA LoopStep ==
    ASSUME SliceInv, NEW loop \in 0..MaxLoop, SetLoopCount(loop)
    PROVE  /\ SliceInv' /\ UNCHANGED <<cached, entry>> /\ Elements(queue)' = Elements(queue)
           /\ Elements(queue) # <<>>
           /\ Loop' = [Loop EXCEPT ![Head(Elements(queue))] = loop]
<1>1. queue.len > 0 /\ Loop' = [Loop EXCEPT ![PlayingTrack] = loop]
      /\ UNCHANGED <<heap, cached, entry, copy, copied>>
  BY DEF SetLoopCount, callerVars
<1>2. Elements(queue) # <<>> /\ Head(Elements(queue)) = PlayingTrack
  BY <1>1, QueueElements, EmptySeq DEF PlayingTrack
<1>3. queue' = queue
  BY <1>1 DEF queue, getOrCreate
<1>4. TypeOK'
  BY <1>1 DEF SliceInv, TypeOK, Cap
<1>5. Apart' /\ Window' /\ CopyStable' /\ NothingRetained'
  BY <1>1, <1>3 DEF SliceInv, Apart, Window, CopyStable, NothingRetained, Elements
<1> QED BY <1>1, <1>2, <1>3, <1>4, <1>5 DEF SliceInv, Elements

\* ClearChat: whatever the array is used for next, the tracks are gone from it.
LEMMA ClearStep ==
    ASSUME SliceInv, ClearChat
    PROVE  SliceInv' /\ cached' = FALSE /\ UNCHANGED Loop /\ Elements(queue)' = <<>>
<1> DEFINE a == queue.array
           h == [i \in DOMAIN heap[a] |-> IF i - queue.offset \in 1..queue.len THEN None ELSE heap[a][i]]
<1>1. /\ heap[a] \in Seq(Slots) /\ DOMAIN heap[a] = 1..Len(heap[a]) /\ Len(heap[a]) \in Nat
      /\ a \in Arrays \cup {NoArray} /\ heap[NoArray] = <<>>
  BY QueueType, LenProperties DEF Slice
<1>2. heap' = [heap EXCEPT ![a] = h] /\ cached' = FALSE /\ UNCHANGED <<entry, Loop, copy, copied>>
  BY DEF ClearChat, callerVars
<1>3. h \in Seq(Slots) /\ Len(h) = Len(heap[a])
  <2>1. h \in [1..Len(heap[a]) -> Slots]
    BY <1>1, ElementOfSeq DEF Slots
  <2> QED BY <1>1, <2>1, LenProperties
<1>4. a = NoArray => h = <<>>
  BY <1>1, <1>3, EmptySeq
<1> HIDE DEF h
<1>5. /\ heap' \in [Arrays \cup {NoArray} -> Seq(Slots)] /\ heap'[NoArray] = <<>>
      /\ \A b \in Arrays \cup {NoArray} : Len(heap'[b]) = Len(heap[b])
      /\ \A b \in Arrays \cup {NoArray} : b # a => heap'[b] = heap[b]
  BY <1>1, <1>2, <1>3, <1>4 DEF SliceInv, TypeOK, Slots
<1>6. TypeOK'
  BY <1>2, <1>5 DEF SliceInv, TypeOK, Cap, Slots, ChatData, Slice
<1>7. queue' = Nil
  BY <1>2 DEF queue, getOrCreate, Zero
<1>8. heap'[copy.array] = heap[copy.array]
  BY <1>1, <1>5 DEF SliceInv, Apart, TypeOK, Slice
<1>9. Apart' /\ Window' /\ CopyStable' /\ NothingRetained'
  BY <1>2, <1>5, <1>7, <1>8, EmptySeq
  DEF SliceInv, Apart, Window, CopyStable, NothingRetained, Elements, Nil
<1>10. Elements(queue)' = <<>>
  BY <1>7, SubSeqEmpty DEF Elements, Nil
<1> QED BY <1>2, <1>6, <1>9, <1>10 DEF SliceInv

\* GetQueue: the caller gets an array nothing else refers to.
LEMMA CopyStep ==
    ASSUME SliceInv, GetQueue
    PROVE  SliceInv' /\ UNCHANGED <<cached, entry, Loop>> /\ Elements(queue)' = Elements(queue)
<1> DEFINE q == Elements(queue)
<1>1. /\ q \in Seq(Tracks) /\ Len(q) = queue.len /\ queue.len \in Nat /\ queue.array \in Arrays \cup {NoArray}
  BY QueueElements, QueueType DEF Slice
<1>2. UNCHANGED <<cached, entry, Loop>> /\ copied' = q /\ queue' = queue
  BY DEF GetQueue, queue, getOrCreate
<1>3. CASE queue.len = 0
  <2>1. copy' = Nil /\ heap' = heap /\ heap[NoArray] = <<>>
    BY <1>3, QueueType DEF GetQueue
  <2>2. Elements(copy)' = <<>> /\ q = <<>>
    BY <1>1, <1>3, <2>1, SubSeqEmpty, EmptySeq DEF Elements, Nil
  <2>3. TypeOK'
    BY <1>1, <1>2, <2>1 DEF SliceInv, TypeOK, Cap, Nil, Slice
  <2>4. Apart' /\ Window' /\ CopyStable' /\ NothingRetained'
    BY <1>2, <2>1, <2>2 DEF SliceInv, Apart, Window, CopyStable, NothingRetained, Nil
  <2> QED BY <1>2, <2>1, <2>3, <2>4 DEF SliceInv, Elements
<1>4. CASE queue.len > 0
  <2>1. PICK a \in Free : /\ heap' = [heap EXCEPT ![a] = q]
                          /\ copy' = [array |-> a, offset |-> 0, len |-> queue.len]
    BY <1>1, <1>4 DEF GetQueue
  <2>2. a \in Arrays /\ a # NoArray /\ a # queue.array /\ q \in Seq(Slots) /\ cached
    BY <1>1, <1>4, SeqMonotonic, SliceQueueAssumption
    DEF Free, Slots, queue, getOrCreate, Zero, Nil
  <2> HIDE DEF q
  <2>3. /\ heap' \in [Arrays \cup {NoArray} -> Seq(Slots)] /\ heap'[NoArray] = <<>>
        /\ heap'[a] = q /\ heap'[queue.array] = heap[queue.array]
    BY <1>1, <2>1, <2>2, QueueType DEF SliceInv, TypeOK, Slots
  <2>4. copy' \in Slice /\ copy'.array = a /\ copy'.offset = 0 /\ copy'.len = queue.len
    BY <1>1, <2>1, <2>2 DEF Slice
  <2>5. Elements(copy)' = q
    <3>1. Elements(copy)' = SubSeq(q, 1, Len(q))
      BY <1>1, <2>3, <2>4 DEF Elements
    <3> QED BY <1>1, <3>1, SubSeqFull
  <2>6. TypeOK'
    <3>1. entry.Queue = queue
      BY <2>2 DEF queue, getOrCreate
    <3>2. copy'.len <= Len(heap'[copy'.array]) - copy'.offset
      BY <1>1, <2>3, <2>4
    <3> QED BY <1>1, <1>2, <2>3, <2>4, <3>1, <3>2 DEF SliceInv, TypeOK, Cap, Slots
  <2>7. Apart' /\ Window' /\ CopyStable' /\ NothingRetained'
    BY <1>2, <2>2, <2>3, <2>4, <2>5 DEF SliceInv, Apart, Window, CopyStable, NothingRetained
  <2> QED BY <1>2, <2>3, <2>6, <2>7 DEF SliceInv, Elements
<1> QED BY <1>1, <1>3, <1>4

-----------------------------------------------------------------------------
\* The three invariants.

LEMMA SliceInit == Init => SliceInv
<1> SUFFICES ASSUME Init PROVE SliceInv
  OBVIOUS
<1>1. queue = Nil /\ copy = Nil /\ heap[NoArray] = <<>> /\ copied = <<>>
  BY DEF Init, queue, getOrCreate, Zero
<1>2. TypeOK
  <2>1. Nil \in Slice /\ Zero \in ChatData /\ Zero.Queue = Nil
    BY DEF Nil, Slice, Zero, ChatData
  <2>2. Cap(Nil) = 0 /\ Nil.len = 0
    BY <1>1, EmptySeq DEF Cap, Nil
  <2>3. heap \in [Arrays \cup {NoArray} -> Seq(Tracks \cup {None})] /\ copied \in Seq(Tracks)
    BY EmptySeq DEF Init
  <2>4. Loop \in [Tracks -> 0..MaxLoop] /\ cached = FALSE /\ entry = Zero
    BY SliceQueueAssumption DEF Init
  <2>5. entry.Queue.len <= Cap(entry.Queue) /\ copy.len <= Cap(copy)
    <3>1. entry.Queue = Nil
      BY <2>1, <2>4
    <3>2. Nil.len <= Cap(Nil)
      BY <2>2
    <3> QED BY <1>1, <3>1, <3>2, Zenon
  <2> QED BY <1>1, <2>1, <2>3, <2>4, <2>5 DEF TypeOK
<1>3. Elements(copy) = <<>>
  BY <1>1, SubSeqEmpty DEF Elements, Nil
<1> QED BY <1>1, <1>2, <1>3
        DEF SliceInv, Apart, Window, CopyStable, NothingRetained, Nil

LEMMA BatchesAreSeqs == \A songs \in Batches : songs \in Seq(Tracks)
BY SliceQueueAssumption DEF Batches

LEMMA SliceStep == SliceInv /\ [Next]_sliceVars => SliceInv'
<1> SUFFICES ASSUME SliceInv, [Next]_sliceVars
             PROVE  SliceInv'
  OBVIOUS
<1>1. ASSUME NEW songs \in Batches, AddSongs(songs)
      PROVE  SliceInv'
  BY <1>1, AppendStep, BatchesAreSeqs
<1>2. ASSUME NEW t \in Tracks, AddSongs(<<t>>) \/ AddSongToFront(t)
      PROVE  SliceInv'
  <2>1. <<t>> \in Seq(Tracks)
    OBVIOUS
  <2> QED BY <1>2, <2>1, AppendStep, FrontStep
<1>3. CASE RemoveCurrentSong
  BY <1>3, SlideStep
<1>4. ASSUME NEW index \in 0..MaxLen - 1, RemoveTrack(index)
      PROVE  SliceInv'
  <2>1. index \in Nat
    BY SliceQueueAssumption
  <2> QED BY <1>4, <2>1, ShiftStep
<1>5. ASSUME NEW state \in BOOLEAN, SetAutoplay(state)
      PROVE  SliceInv'
  BY <1>5, FlagStep
<1>6. ASSUME NEW loop \in 0..MaxLoop, SetLoopCount(loop)
      PROVE  SliceInv'
  BY <1>6, LoopStep
<1>7. CASE ClearChat \/ GetQueue
  BY <1>7, ClearStep, CopyStep
<1>8. CASE UNCHANGED sliceVars
  BY <1>8 DEF sliceVars, SliceInv, TypeOK, Apart, Window, CopyStable, NothingRetained, queue,
              getOrCreate, Elements, Cap
<1> QED BY <1>1, <1>2, <1>3, <1>4, <1>5, <1>6, <1>7, <1>8 DEF Next

\* However the queue and a caller's slice come to lie in the arrays.
LEMMA SliceInvariant == Spec => []SliceInv
BY SliceInit, SliceStep, PTL DEF Spec

\* Every slice lies within its array: no index of chat_cache.go is out of range.
THEOREM SlicesInBounds == Spec => []TypeOK
<1>1. SliceInv => TypeOK
  BY DEF SliceInv
<1> QED BY <1>1, SliceInvariant, PTL

\* A caller of GetQueue keeps what it was given, whatever becomes of the queue.
THEOREM CopiesStable == Spec => []CopyStable
<1>1. SliceInv => CopyStable
  BY DEF SliceInv
<1> QED BY <1>1, SliceInvariant, PTL

\* The slots outside the queue's window hold on to no track.
THEOREM NothingIsRetained == Spec => []NothingRetained
<1>1. SliceInv => NothingRetained
  BY DEF SliceInv
<1> QED BY <1>1, SliceInvariant, PTL

-----------------------------------------------------------------------------
\* The slice is a queue: every step is one that ChatQueue promises, or none.

\* The abstract step, named.
AbstractNext == Abstract!ChatNext(Batches)

LEMMA AbstractStart == Init => Abstract!ChatInit
<1> SUFFICES ASSUME Init PROVE Abstract!ChatInit
  OBVIOUS
<1>1. queue = Nil
  BY DEF Init, queue, getOrCreate, Zero
<1>2. Elements(queue) = <<>>
  BY <1>1, SubSeqEmpty DEF Elements, Nil
<1> QED BY <1>2 DEF Init, Abstract!ChatInit

LEMMA AbstractStep ==
    SliceInv /\ [Next]_sliceVars => [AbstractNext]_(Abstract!chatVars)
<1> SUFFICES ASSUME SliceInv, [Next]_sliceVars
             PROVE  AbstractNext \/ UNCHANGED Abstract!chatVars
  OBVIOUS
<1> USE DEF AbstractNext, Abstract!ChatNext
<1>0. /\ Elements(queue) \in Seq(Tracks) /\ Len(Elements(queue)) = queue.len /\ queue.len \in Nat
      /\ cached \in BOOLEAN
  BY QueueElements DEF SliceInv, TypeOK
<1>1. ASSUME NEW songs \in Seq(Tracks), AddSongs(songs)
      PROVE  Abstract!AddSongs(songs)
  <2>1. Elements(queue)' = Elements(queue) \o songs
    BY <1>1, AppendStep
  <2>2. cached' = TRUE /\ UNCHANGED Loop /\ entry'.Autoplay = getOrCreate.Autoplay
        /\ entry'.LastYouTubeTrack = getOrCreate.LastYouTubeTrack
    BY <1>1, QueueType DEF AddSongs, InPlace, Grow, ChatData
  <2>3. getOrCreate.Autoplay = (cached /\ entry.Autoplay)
    BY <1>0 DEF getOrCreate, Zero, SliceInv, TypeOK, ChatData
  <2>4. getOrCreate.LastYouTubeTrack = IF cached THEN entry.LastYouTubeTrack ELSE None
    BY DEF getOrCreate, Zero
  <2> QED BY <2>1, <2>2, <2>3, <2>4 DEF Abstract!AddSongs
<1>2. ASSUME NEW songs \in Batches, AddSongs(songs)
      PROVE  AbstractNext
  BY <1>1, <1>2, BatchesAreSeqs
<1>3. ASSUME NEW t \in Tracks, AddSongs(<<t>>)
      PROVE  AbstractNext
  <2>1. <<t>> \in Seq(Tracks)
    OBVIOUS
  <2> QED BY <1>1, <1>3, <2>1 DEF Abstract!AddSong
<1>4. ASSUME NEW t \in Tracks, AddSongToFront(t)
      PROVE  AbstractNext
  <2>1. CASE queue.len = 0
    BY <1>3, <1>4, <2>1 DEF AddSongToFront
  <2>2. CASE queue.len > 0
    <3>1. cached /\ cached' /\ UNCHANGED <<Loop, entry.Autoplay, entry.LastYouTubeTrack>>
      BY <1>0, <1>4, <2>2 DEF AddSongToFront, queue, getOrCreate, Zero, Nil, SliceInv, TypeOK, ChatData
    <3>2. Abstract!AddSongToFront(t)
      BY <1>4, <3>1, FrontStep DEF Abstract!AddSongToFront
    <3> QED BY <3>2
  <2> QED BY <1>0, <2>1, <2>2
<1>5. CASE RemoveCurrentSong
  BY <1>5, SlideStep DEF Abstract!RemoveCurrentSong, Abstract!IsActive
<1>6. ASSUME NEW index \in 0..MaxLen - 1, RemoveTrack(index)
      PROVE  AbstractNext
  <2>1. index \in Nat /\ index \in 0..Len(Elements(queue))
    BY <1>0, <1>6, SliceQueueAssumption DEF RemoveTrack
  <2>2. SubSeq(Elements(queue), 1, index) \o SubSeq(Elements(queue), index + 2, Len(Elements(queue)))
          = Abstract!RemoveAt(Elements(queue), index + 1)
    <3>1. (index + 1) - 1 = index /\ (index + 1) + 1 = index + 2
      BY <2>1
    <3> QED BY <3>1 DEF Abstract!RemoveAt
  <2>3. Abstract!RemoveTrack(index)
    BY <1>6, <2>1, <2>2, ShiftStep DEF Abstract!RemoveTrack
  <2> QED BY <2>1, <2>3
<1>7. ASSUME NEW state \in BOOLEAN, SetAutoplay(state)
      PROVE  AbstractNext
  <2>1. Abstract!SetAutoplay(state)
    BY <1>7, FlagStep DEF Abstract!SetAutoplay, getOrCreate, Zero
  <2> QED BY <2>1
<1>8. ASSUME NEW loop \in 0..MaxLoop, SetLoopCount(loop)
      PROVE  AbstractNext
  <2>1. Abstract!SetLoopCount(loop)
    BY <1>8, LoopStep DEF Abstract!SetLoopCount, Abstract!IsActive
  <2> QED BY <2>1
<1>9. CASE ClearChat
  BY <1>9, ClearStep DEF Abstract!ClearChat
<1>10. CASE GetQueue
  BY <1>10, CopyStep DEF Abstract!chatVars
<1>11. CASE UNCHANGED sliceVars
  BY <1>11 DEF sliceVars, Abstract!chatVars, Elements, queue, getOrCreate
<1> QED BY <1>2, <1>3, <1>4, <1>5, <1>6, <1>7, <1>8, <1>9, <1>10, <1>11 DEF Next

\* core/cache/chat_cache.go implements ChatQueue: growing, sliding, shifting,
\* deleted and made again, the entry is a queue of tracks, an autoplay flag and a
\* seed, and every method does to them what ChatQueue says, in one step.
THEOREM SliceIsQueue == Spec => Implements
<1>1. SliceInv /\ [Next]_sliceVars => [Abstract!ChatNext(Batches)]_(Abstract!chatVars)
  BY AbstractStep DEF AbstractNext
<1> QED BY <1>1, AbstractStart, SliceInvariant, PTL DEF Spec, Implements
=============================================================================
