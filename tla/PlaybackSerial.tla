---------------------------- MODULE PlaybackSerial ----------------------------
(***************************************************************************)
(* What the handlers of a chat promise when they do not disturb each       *)
(* other, for any queue, any playlists and any number of tracks: one       *)
(* handler at a time (Serial), or any number of requests and removals that *)
(* nothing interrupts.  Each theorem names the commands and faults that    *)
(* would break it.                                                         *)
(*                                                                         *)
(* Each invariant says for every label what the goroutine there may rely   *)
(* on: in one piece these are the conditions under which PlayNext, written *)
(* as a chain of separately locked steps, is right.                        *)
(***************************************************************************)
EXTENDS PlaybackProof

\* One goroutine at a time.
Serial == \E p : Procs = {p}

LEMMA SerialGoto ==
    ASSUME PcTypeOK, NEW p \in Procs
    PROVE  /\ \A label \in Labels : Jump(p, label) => pc'[p] = label /\ local'[p] = local[p]
           /\ Return(p) => pc'[p] = "idle" /\ local'[p] = Fresh
           /\ \A label \in Labels, t \in Tracks \cup {None} :
                Goto(p, label, WithSong(p, t))
                => /\ pc'[p] = label /\ local'[p].song = t /\ local'[p].count = local[p].count
                   /\ local'[p].skips = local[p].skips
           /\ \A label \in Labels, n \in Nat :
                Goto(p, label, WithCount(p, n))
                => /\ pc'[p] = label /\ local'[p].count = n /\ local'[p].song = local[p].song
                   /\ local'[p].todo = local[p].todo /\ local'[p].skips = local[p].skips
<1>1. ASSUME NEW label \in Labels, NEW t \in Tracks \cup {None}, Goto(p, label, WithSong(p, t))
      PROVE  /\ pc'[p] = label /\ local'[p].song = t /\ local'[p].count = local[p].count
             /\ local'[p].skips = local[p].skips
  BY <1>1, GotoAt, Fields
<1>2. ASSUME NEW label \in Labels, NEW n \in Nat, Goto(p, label, WithCount(p, n))
      PROVE  /\ pc'[p] = label /\ local'[p].count = n /\ local'[p].song = local[p].song
             /\ local'[p].todo = local[p].todo /\ local'[p].skips = local[p].skips
  BY <1>2, GotoAt, Fields, WithType
<1>3. \A label \in Labels : Jump(p, label) => pc'[p] = label /\ local'[p] = local[p]
  BY GotoAt DEF Jump
<1>4. Return(p) => pc'[p] = "idle" /\ local'[p] = Fresh
  BY GotoAt DEF Return
<1> QED BY <1>1, <1>2, <1>3, <1>4

LEMMA FreshSong == \A t : [Fresh EXCEPT !.song = t].song = t
BY DEF Fresh

\* How the operations treat the head of the queue.
LEMMA Heads ==
    ASSUME ChatTypeOK
    PROVE  /\ \A ts \in Seq(Tracks) : AddSongs(ts) /\ ts # <<>> =>
                /\ Queue' # <<>>
                /\ IF Queue = <<>> THEN Queue' = ts ELSE Head(Queue') = Head(Queue)
           /\ \A t \in Tracks : AddSongToFront(t) =>
                /\ Queue' # <<>> /\ Len(Queue') = Len(Queue) + 1
                /\ IF Queue = <<>> THEN Queue' = <<t>> ELSE Head(Queue') = Head(Queue)
           /\ \A index \in Nat \ {0} : RemoveTrack(index) =>
                IF Queue = <<>> THEN Queue' = <<>>
                ELSE Queue' # <<>> /\ Head(Queue') = Head(Queue)
           /\ RemoveCurrentSong =>
                IF Len(Queue) < 2 THEN Queue' = <<>>
                ELSE Queue' # <<>> /\ Head(Queue') = Queue[2] /\ Len(Queue') = Len(Queue) - 1
<1>1. Queue \in Seq(Tracks) /\ Len(Queue) \in Nat
      /\ (Queue # <<>> => Head(Queue) = Queue[1] /\ Len(Queue) > 0)
  BY DEF ChatTypeOK
<1>2. ASSUME NEW ts \in Seq(Tracks), AddSongs(ts), ts # <<>>
      PROVE  /\ Queue' # <<>>
             /\ IF Queue = <<>> THEN Queue' = ts ELSE Head(Queue') = Head(Queue)
  <2>1. Queue' = Queue \o ts /\ Len(ts) > 0 /\ Len(ts) \in Nat
    BY <1>2 DEF AddSongs
  <2>2. CASE Queue = <<>>
    BY <1>2, <2>1, <2>2, ConcatProperties
  <2>3. CASE Queue # <<>>
    <3>1. Queue' \in Seq(Tracks) /\ Len(Queue') = Len(Queue) + Len(ts) /\ Queue'[1] = Queue[1]
      BY <1>1, <2>1, <2>3, ConcatProperties
    <3>2. Queue' # <<>>
      BY <1>1, <2>1, <3>1
    <3> QED BY <1>1, <2>3, <3>1, <3>2
  <2> QED BY <2>2, <2>3
<1>3. ASSUME NEW t \in Tracks, AddSongToFront(t)
      PROVE  /\ Queue' # <<>> /\ Len(Queue') = Len(Queue) + 1
             /\ IF Queue = <<>> THEN Queue' = <<t>> ELSE Head(Queue') = Head(Queue)
  <2>1. CASE Queue = <<>>
    BY <1>3, <2>1 DEF AddSongToFront
  <2>2. CASE Queue # <<>>
    <3>1. /\ Tail(Queue) \in Seq(Tracks) /\ Len(Tail(Queue)) = Len(Queue) - 1
          /\ Head(Queue) \in Tracks
      BY <1>1, <2>2, HeadTailProperties
    <3>2. <<Head(Queue), t>> \in Seq(Tracks) /\ Len(<<Head(Queue), t>>) = 2
          /\ <<Head(Queue), t>>[1] = Head(Queue)
      BY <3>1
    <3>3. Queue' = <<Head(Queue), t>> \o Tail(Queue)
      BY <1>3, <2>2 DEF AddSongToFront
    <3>4. Queue' \in Seq(Tracks) /\ Len(Queue') = Len(Queue) + 1 /\ Queue'[1] = Head(Queue)
      BY <1>1, <2>2, <3>1, <3>2, <3>3, ConcatProperties
    <3>5. Queue' # <<>>
      BY <1>1, <3>4
    <3> QED BY <2>2, <3>4, <3>5
  <2> QED BY <2>1, <2>2
<1>4. ASSUME NEW index \in Nat \ {0}, RemoveTrack(index)
      PROVE  IF Queue = <<>> THEN Queue' = <<>>
             ELSE Queue' # <<>> /\ Head(Queue') = Head(Queue)
  <2>1. CASE index < Len(Queue)
    <3> DEFINE a == SubSeq(Queue, 1, index)
               b == SubSeq(Queue, index + 2, Len(Queue))
    <3>1. a \in Seq(Tracks) /\ Len(a) = index /\ a[1] = Queue[1]
      BY <1>1, <2>1, ElementOfSeq, SubSeqProperties
    <3>2. b \in Seq(Tracks) /\ Len(b) = Len(Queue) - index - 1
      BY <1>1, <2>1, ElementOfSeq, SubSeqProperties
    <3>3. Queue' = a \o b
      <4>1. Queue' = SubSeq(Queue, 1, (index + 1) - 1)
                       \o SubSeq(Queue, (index + 1) + 1, Len(Queue))
        BY <1>4, <2>1 DEF RemoveTrack, RemoveAt
      <4>2. (index + 1) - 1 = index /\ (index + 1) + 1 = index + 2
        OBVIOUS
      <4> QED BY <4>1, <4>2
    <3> HIDE DEF a, b
    <3>4. Queue' \in Seq(Tracks) /\ Len(Queue') = Len(a) + Len(b) /\ Queue'[1] = a[1]
      <4>1. Len(a) \in Nat /\ Len(b) \in Nat /\ 1 <= Len(a)
        BY <1>1, <2>1, <3>1, <3>2
      <4>2. 1 \in 1..(Len(a) + Len(b))
        BY <4>1
      <4>3. (a \o b)[1] = a[1]
        BY <3>1, <3>2, <4>1, <4>2, ConcatElements
      <4>4. a \o b \in Seq(Tracks) /\ Len(a \o b) = Len(a) + Len(b)
        BY <3>1, <3>2, ConcatProperties
      <4> QED BY <3>3, <4>3, <4>4
    <3>5. Len(Queue') > 0 /\ Queue # <<>>
      BY <1>1, <2>1, <3>1, <3>2, <3>4
    <3>6. Queue' # <<>>
      BY <3>5
    <3> QED BY <1>1, <3>1, <3>4, <3>5, <3>6
  <2>2. CASE ~(index < Len(Queue))
    BY <1>4, <2>2 DEF RemoveTrack
  <2> QED BY <2>1, <2>2
<1>5. ASSUME RemoveCurrentSong
      PROVE  IF Len(Queue) < 2 THEN Queue' = <<>>
             ELSE Queue' # <<>> /\ Head(Queue') = Queue[2] /\ Len(Queue') = Len(Queue) - 1
  <2>1. CASE Queue = <<>>
    BY <1>5, <2>1 DEF RemoveCurrentSong
  <2>2. CASE Queue # <<>>
    <3>1. /\ Queue' = Tail(Queue) /\ Queue' \in Seq(Tracks) /\ Len(Queue') = Len(Queue) - 1
          /\ \A i \in 1..(Len(Queue) - 1) : Queue'[i] = Queue[i + 1]
      BY <1>1, <1>5, <2>2, HeadTailProperties DEF RemoveCurrentSong
    <3>2. CASE Len(Queue) < 2
      <4>1. Len(Queue') = 0
        BY <1>1, <2>2, <3>1, <3>2
      <4> QED BY <3>1, <3>2, <4>1, EmptySeq
    <3>3. CASE ~(Len(Queue) < 2)
      <4>1. Queue'[1] = Queue[2] /\ Len(Queue') > 0
        <5>1. 1 \in 1..(Len(Queue) - 1) /\ 1 + 1 = 2
          BY <1>1, <3>3
        <5>2. Queue'[1] = Queue[1 + 1]
          BY <3>1, <5>1
        <5> QED BY <1>1, <3>1, <3>3, <5>1, <5>2
      <4>2. Queue' # <<>>
        BY <4>1
      <4> QED BY <3>1, <3>3, <4>1, <4>2
    <3> QED BY <3>2, <3>3
  <2> QED BY <2>1, <2>2
<1> QED BY <1>2, <1>3, <1>4, <1>5


-----------------------------------------------------------------------------
\* After a Stop the queue stays empty, and autoplay's seed forgotten, until a
\* request adds to it; a stream that the Stop failed to end only leads to
\* another Stop when it ends.

Ending == {"next", "upcoming", "drain", "seed", "stop", "clear", "hangUp"}

HaltAt(label, queue, last, air, left, stopped) ==
    /\ stopped => /\ air \in {None, left} /\ queue = <<>> /\ last = None
                  /\ label \in {"idle", "search"} \cup Adding \cup Ending
    /\ label = "hangUp" => queue = <<>> /\ last = None

HaltInv == \A p \in Procs : HaltAt(pc[p], Queue, LastYouTubeTrack, stream, survivor, halted)

LEMMA HaltStep ==
    ASSUME Serial, TypeInv, HaltInv, NEW p \in Procs, Command(p) \/ Step(p) \/ StreamEnd(p)
    PROVE  HaltAt(pc'[p], Queue', LastYouTubeTrack', stream', survivor', halted')
<1> USE DEF At, unqueued, chatVars, HaltAt, Adding
<1>1. HaltAt(pc[p], Queue, LastYouTubeTrack, stream, survivor, halted) /\ PcTypeOK
  BY DEF HaltInv, TypeInv
<1>2. \A label \in Labels : Jump(p, label) => pc'[p] = label
  BY <1>1, SerialGoto
<1>3. Return(p) => pc'[p] = "idle"
  BY <1>1, SerialGoto
<1>4. \A label, l : Goto(p, label, l) => pc'[p] = label
  BY <1>1, GotoAt
<1>5. CASE PlayRequest(p) \/ Found(p) \/ NotFound(p)
  <2>1. /\ UNCHANGED <<Queue, LastYouTubeTrack, stream, survivor, halted>>
        /\ pc[p] \in {"idle", "search"}
    BY <1>5 DEF PlayRequest, Found, NotFound
  <2>2. pc'[p] \in {"idle", "search", "add", "addFront"}
    BY <1>2, <1>3, <1>4, <1>5 DEF PlayRequest, Found, NotFound, Labels
  <2> QED BY <1>1, <2>1, <2>2
<1>6. CASE AddToQueue(p) \/ AddToFront(p)
  <2>1. pc'[p] # "hangUp"
    BY <1>3, <1>4, <1>6 DEF AddToQueue, AddToFront, StartFirst
  <2> QED BY <1>6, <2>1 DEF AddToQueue, AddToFront
<1>7. CASE HangUp(p) \/ HangUpFails(p)
  BY <1>1, <1>3, <1>7 DEF HangUp, HangUpFails
<1>8. CASE Clear(p)
  BY <1>1, <1>2, <1>8 DEF Clear, ClearChat, Ending, Labels
<1>9. CASE \/ SkipCommand(p) \/ StopCommand(p) \/ LoopCommand(p) \/ RemoveCommand(p)
           \/ AutoplayCommand(p) \/ SeekCommand(p)
  <2>1. ~halted
    BY <1>1, <1>9 DEF SkipCommand, StopCommand, LoopCommand, RemoveCommand, AutoplayCommand,
                      SeekCommand, IsActive, GetPlayingTrack
  <2>2. halted' = halted
    BY <1>9 DEF SkipCommand, StopCommand, LoopCommand, RemoveCommand, AutoplayCommand,
                SeekCommand
  <2>3. pc'[p] # "hangUp"
    BY <1>2, <1>4, <1>9 DEF SkipCommand, StopCommand, LoopCommand, RemoveCommand, AutoplayCommand,
                            SeekCommand, Labels
  <2> QED BY <2>1, <2>2, <2>3
<1>10. CASE \/ LoopFirst(p) \/ Downloaded(p) \/ DownloadFailed(p) \/ Undo(p)
            \/ MediaStarted(p) \/ MediaFailed(p)
            \/ LowerLoop(p) \/ ReadCurrent(p) \/ Advance(p)
            \/ ReadAutoplay(p) \/ Recommended(p) \/ NoRecommendation(p)
  <2>1. pc[p] \notin {"idle", "search", "add", "addFront"} \cup Ending /\ halted' = halted
    BY <1>10 DEF LoopFirst, Downloaded, DownloadFailed, Undo, MediaStarted, MediaFailed,
                 LowerLoop, ReadCurrent, Advance, ReadAutoplay,
                 Recommended, NoRecommendation, MediaLabels, Ending
  <2>2. pc'[p] # "hangUp"
    BY <1>2, <1>3, <1>4, <1>10
       DEF LoopFirst, Downloaded, DownloadFailed, Undo, MediaStarted, MediaFailed,
           LowerLoop, ReadCurrent, Advance, ReadAutoplay,
           Recommended, NoRecommendation, MediaLabels, Labels
  <2> QED BY <1>1, <2>1, <2>2
\* The end of a stream that outlived a Stop.
<1>12. CASE StreamEnd(p)
  <2>1. pc'[p] = "next" /\ stream' = None
    BY <1>2, <1>12 DEF StreamEnd, Labels
  <2> QED BY <1>1, <1>12, <2>1 DEF StreamEnd, Ending
<1>13. CASE ReadLoop(p)
  <2>1. Queue = <<>> => GetLoopCount = 0
    BY DEF GetLoopCount
  <2>2. pc'[p] \in {"replay", "upcoming"} /\ (Queue = <<>> => pc'[p] = "upcoming")
    BY <1>4, <1>13, <2>1 DEF ReadLoop
  <2> QED BY <1>1, <1>13, <2>2 DEF ReadLoop, Ending
<1>14. CASE ReadUpcoming(p)
  <2>1. Queue = <<>> => GetUpcomingTrack = None
    BY DEF GetUpcomingTrack
  <2>2. pc'[p] \in {"advance", "drain"} /\ (Queue = <<>> => pc'[p] = "drain")
    BY <1>2, <1>4, <1>14, <2>1 DEF ReadUpcoming, Labels
  <2> QED BY <1>1, <1>14, <2>2 DEF ReadUpcoming, Ending
<1>15. CASE Drain(p)
  <2>1. Queue = <<>> => UNCHANGED <<Queue, LastYouTubeTrack>>
    BY <1>15 DEF Drain, RemoveCurrentSong, IsActive
  <2>2. pc'[p] = "seed" /\ UNCHANGED <<stream, survivor, halted>>
    BY <1>2, <1>15 DEF Drain, Labels
  <2> QED BY <1>1, <2>1, <2>2 DEF Ending
<1>16. CASE ReadSeed(p)
  <2>1. pc'[p] \in {"mix", "stop"} /\ (LastYouTubeTrack = None => pc'[p] = "stop")
    BY <1>2, <1>16 DEF ReadSeed, Labels
  <2> QED BY <1>1, <1>16, <2>1 DEF ReadSeed, Ending
<1>17. CASE AutoplayOff(p)
  <2>1. pc'[p] = "clear"
    BY <1>2, <1>17 DEF AutoplayOff, Labels
  <2> QED BY <1>1, <1>17, <2>1 DEF AutoplayOff, SetAutoplay, Ending
<1>11. CASE \/ Announced(p) \/ AnnounceFailed(p) \/ ReadFilePath(p) \/ Fetched(p) \/ FetchFailed(p)
            \/ StoreLoop(p) \/ RemoveNumbered(p) \/ ReadToggle(p)
            \/ StoreToggle(p) \/ ReadPosition(p)
  <2>1. pc[p] \notin {"idle", "search", "add", "addFront"} \cup Ending /\ halted' = halted
    BY <1>11 DEF Announced, AnnounceFailed, ReadFilePath, Fetched, FetchFailed,
                 StoreLoop, RemoveNumbered, ReadToggle, StoreToggle, ReadPosition, Ending
  <2>2. pc'[p] # "hangUp"
    BY <1>2, <1>3, <1>4, <1>11
       DEF Announced, AnnounceFailed, ReadFilePath, Fetched, FetchFailed,
           StoreLoop, RemoveNumbered, ReadToggle, StoreToggle, ReadPosition, Labels
  <2> QED BY <1>1, <2>1, <2>2
<1> QED BY <1>5, <1>6, <1>7, <1>8, <1>9, <1>10, <1>11, <1>12, <1>13, <1>14, <1>15, <1>16, <1>17
        DEF Command, Step

LEMMA HaltInvariant == ASSUME Serial PROVE Spec => []HaltInv
<1>1. Init => HaltInv
  BY DEF Init, ChatInit, HaltInv, HaltAt
<1>2. TypeInv /\ HaltInv /\ [Next]_vars => HaltInv'
  <2> SUFFICES ASSUME TypeInv, HaltInv, [Next]_vars PROVE HaltInv'
    OBVIOUS
  <2>1. ASSUME NEW p \in Procs, Command(p) \/ Step(p) \/ StreamEnd(p) PROVE HaltInv'
    <3>1. HaltAt(pc'[p], Queue', LastYouTubeTrack', stream', survivor', halted') /\ \A q \in Procs : q = p
      BY <2>1, HaltStep DEF Serial
    <3> QED BY <3>1 DEF HaltInv
  <2>2. CASE ChatCleared \/ CallDiscarded
    BY <2>2 DEF HaltInv, HaltAt, ChatCleared, CallDiscarded, ClearChat, chatVars, unqueued
  <2>3. CASE UNCHANGED vars
    BY <2>3 DEF HaltInv, vars, chatVars
  <2>4. ASSUME NEW t, Collected(t) PROVE HaltInv'
    BY <2>4 DEF HaltInv, Collected
  <2> QED BY <2>1, <2>2, <2>3, <2>4 DEF Next
<1> QED BY <1>1, <1>2, TypeInvariant, PTL DEF Spec

\* With one handler at a time, whatever fails and whatever reaches the chat from
\* outside, nothing streams from the return of a Stop to the next request but
\* what that Stop itself failed to end (vc/calls.go lines 157 to 165), and when
\* that ends nothing follows it.
THEOREM StopsHalt == ASSUME Serial PROVE Spec => []StopHalts
<1>1. HaltInv => StopHalts
  BY DEF HaltInv, HaltAt, StopHalts, Serial
<1> QED BY <1>1, HaltInvariant, PTL

-----------------------------------------------------------------------------
\* Autoplay is on only with a queue, or while its end is being dealt with.

AutoAt(label, l, queue, on) ==
    /\ on => queue # <<>> \/ label \in {"seed", "mix", "recommend", "stop"}
    /\ label \in {"download", "start", "undo"} => ~on
    /\ label = "addFront" => \/ Len(queue) > Len(l.todo) - l.count
                             \/ Len(queue) = Len(l.todo) - l.count /\ ~on
    /\ label = "advance" => (on => Len(queue) > 1)
    /\ label \in {"toggle", "toggled"} => queue # <<>>

AutoInv == \A p \in Procs : AutoAt(pc[p], local[p], Queue, Autoplay)

LEMMA AutoStep ==
    ASSUME Serial, TypeInv, AutoInv, NEW p \in Procs, Command(p) \/ Step(p) \/ StreamEnd(p)
    PROVE  AutoAt(pc'[p], local'[p], Queue', Autoplay')
<1> USE DEF At, unqueued, chatVars
<1>1. AutoAt(pc[p], local[p], Queue, Autoplay) /\ PcTypeOK /\ ChatTypeOK /\ Queue \in Seq(Tracks)
      /\ Fits(pc[p], local[p]) /\ local[p] \in Locals
  BY DEF AutoInv, TypeInv, ChatTypeOK, PcTypeOK, LocalsFit
<1> DEFINE Plain == Labels \ {"download", "start", "undo", "addFront", "advance", "toggle",
                              "toggled"}
<1>2. \A label \in Labels : Jump(p, label) => pc'[p] = label
  BY <1>1, SerialGoto
<1>3. Return(p) => pc'[p] = "idle"
  BY <1>1, SerialGoto
<1>4. \A label, l : Goto(p, label, l) => pc'[p] = label /\ local'[p] = l
  BY <1>1, GotoAt
<1>5. ASSUME pc'[p] \in Plain, Autoplay' => Queue' # <<>>
      PROVE  AutoAt(pc'[p], local'[p], Queue', Autoplay')
  BY <1>5 DEF AutoAt
<1>6. Plain = {"idle", "search", "add", "loopFirst", "next", "replay", "current", "upcoming",
               "drain", "seed", "mix", "recommend", "send", "fetch", "fetching", "play", "stop",
               "clear", "hangUp", "loop", "remove", "position", "seek"}
  BY DEF Labels
<1> HIDE DEF Plain
<1>7. CASE PlayRequest(p) \/ NotFound(p) \/ SkipCommand(p) \/ StopCommand(p) \/ LoopCommand(p)
           \/ RemoveCommand(p) \/ SeekCommand(p) \/ StreamEnd(p)
  <2>1. UNCHANGED <<Queue, Autoplay>> /\ pc[p] \in {"idle", "search"}
    BY <1>7 DEF PlayRequest, NotFound, SkipCommand, StopCommand, LoopCommand, RemoveCommand,
                SeekCommand, StreamEnd
  <2>2. pc'[p] \in Plain
    BY <1>2, <1>3, <1>4, <1>6, <1>7
       DEF PlayRequest, NotFound, SkipCommand, StopCommand, LoopCommand, RemoveCommand,
           SeekCommand, StreamEnd, Labels
  <2>3. Autoplay' => Queue' # <<>>
    BY <1>1, <2>1 DEF AutoAt
  <2> QED BY <1>5, <2>2, <2>3
<1>8. CASE LoopFirst(p) \/ MediaStarted(p) \/ ReadLoop(p) \/ LowerLoop(p) \/ ReadCurrent(p)
           \/ Announced(p) \/ AnnounceFailed(p) \/ ReadFilePath(p) \/ Fetched(p) \/ FetchFailed(p)
           \/ StoreLoop(p) \/ ReadPosition(p)
  <2>1. UNCHANGED <<Queue, Autoplay>> /\ pc[p] \notin {"seed", "mix", "recommend", "stop"}
    BY <1>8 DEF LoopFirst, MediaStarted, ReadLoop, LowerLoop, ReadCurrent, Announced,
                AnnounceFailed, ReadFilePath, Fetched, FetchFailed, StoreLoop, ReadPosition,
                MediaLabels, SetLoopCount
  <2>2. pc'[p] \in Plain
    BY <1>2, <1>3, <1>4, <1>6, <1>8
       DEF LoopFirst, MediaStarted, ReadLoop, LowerLoop, ReadCurrent, Announced,
           AnnounceFailed, ReadFilePath, Fetched, FetchFailed, StoreLoop, ReadPosition, Labels
  <2>3. Autoplay' => Queue' # <<>>
    BY <1>1, <2>1 DEF AutoAt
  <2> QED BY <1>5, <2>2, <2>3
<1>9. CASE ReadSeed(p) \/ ReadAutoplay(p) \/ NoRecommendation(p)
  <2>1. UNCHANGED <<Queue, Autoplay>>
    BY <1>9 DEF ReadSeed, ReadAutoplay, NoRecommendation
  <2>2. pc'[p] \in {"mix", "recommend", "stop"}
    BY <1>2, <1>9 DEF ReadSeed, ReadAutoplay, NoRecommendation, Labels
  <2> QED BY <1>1, <2>1, <2>2 DEF AutoAt
<1>10. CASE AutoplayOff(p) \/ Clear(p) \/ HangUp(p) \/ HangUpFails(p) \/ MediaFailed(p)
  <2>1. CASE AutoplayOff(p) \/ Clear(p)
    BY <1>2, <1>5, <1>6, <2>1 DEF AutoplayOff, SetAutoplay, Clear, ClearChat, Labels
  <2>2. CASE HangUp(p) \/ HangUpFails(p)
    BY <1>1, <1>3, <1>5, <1>6, <2>2 DEF HangUp, HangUpFails, AutoAt
  <2>3. CASE MediaFailed(p)
    <3>1. Queue' = <<>> /\ Autoplay' = FALSE
      BY <2>3 DEF MediaFailed, ClearChat
    <3>2. pc'[p] \in MediaLabels \cup {"undo", "idle"}
      BY <1>2, <1>3, <2>3 DEF MediaFailed, MediaLabels, Labels
    <3> QED BY <3>1, <3>2 DEF AutoAt, MediaLabels
  <2> QED BY <1>10, <2>1, <2>2, <2>3
<1>11. CASE Downloaded(p) \/ DownloadFailed(p) \/ Undo(p)
  <2>1. ~Autoplay /\ Autoplay' = Autoplay
    BY <1>1, <1>11 DEF AutoAt, Downloaded, DownloadFailed, Undo, RemoveCurrentSong
  <2>2. pc'[p] \in {"start", "undo", "idle"}
    BY <1>2, <1>3, <1>11 DEF Downloaded, DownloadFailed, Undo, Labels
  <2> QED BY <2>1, <2>2 DEF AutoAt
<1>12. CASE ReadUpcoming(p)
  <2>1. UNCHANGED <<Queue, Autoplay>> /\ pc[p] = "upcoming"
    BY <1>12 DEF ReadUpcoming
  <2>2. \/ pc'[p] = "drain"
        \/ pc'[p] = "advance" /\ ~(Len(Queue) < 2)
    BY <1>2, <1>4, <1>12 DEF ReadUpcoming, GetUpcomingTrack, Labels
  <2>3. Len(Queue) \in Nat
    BY <1>1
  <2> QED BY <1>1, <2>1, <2>2, <2>3 DEF AutoAt
<1>13. CASE Advance(p)
  <2>1. /\ Autoplay' = Autoplay /\ pc[p] = "advance" /\ pc'[p] = "send"
        /\ (~(Len(Queue) < 2) => Queue' # <<>>)
    BY <1>1, <1>2, <1>13, Heads DEF Advance, RemoveCurrentSong, Labels
  <2>2. Len(Queue) \in Nat
    BY <1>1
  <2>3. Autoplay' => Queue' # <<>>
    BY <1>1, <2>1, <2>2 DEF AutoAt
  <2> QED BY <1>5, <1>6, <2>1, <2>3
<1>14. CASE Drain(p)
  <2>1. pc'[p] = "seed"
    BY <1>2, <1>14 DEF Drain, Labels
  <2> QED BY <2>1 DEF AutoAt
<1>15. CASE Recommended(p)
  <2>1. PICK t \in Tracks : AddSong(t)
    BY <1>15, ChatQueueAssumption DEF Recommended
  <2>2. <<t>> \in Seq(Tracks) /\ <<t>> # <<>>
    OBVIOUS
  <2>3. Queue' # <<>>
    BY <1>1, <2>1, <2>2, Heads DEF AddSong
  <2>4. pc'[p] = "send"
    BY <1>4, <1>15 DEF Recommended
  <2> QED BY <1>5, <1>6, <2>3, <2>4
<1>16. CASE RemoveNumbered(p)
  <2>1. local[p].count \in Nat \ {0} /\ Autoplay' = Autoplay /\ pc[p] = "remove" /\ pc'[p] = "idle"
    BY <1>1, <1>3, <1>16 DEF RemoveNumbered, Fits, Locals, RemoveTrack
  <2>2. Queue # <<>> => Queue' # <<>>
    BY <1>1, <1>16, <2>1, Heads DEF RemoveNumbered
  <2>3. Autoplay' => Queue' # <<>>
    BY <1>1, <2>1, <2>2 DEF AutoAt
  <2> QED BY <1>5, <1>6, <2>1, <2>3
<1>17. CASE AutoplayCommand(p) \/ ReadToggle(p) \/ StoreToggle(p)
  <2>1. Queue # <<>> /\ Queue' = Queue
    BY <1>1, <1>17 DEF AutoplayCommand, ReadToggle, StoreToggle, SetAutoplay, GetPlayingTrack, AutoAt
  <2>2. pc'[p] \in {"toggle", "toggled", "idle"}
    BY <1>2, <1>3, <1>4, <1>17 DEF AutoplayCommand, ReadToggle, StoreToggle, Labels
  <2> QED BY <2>1, <2>2 DEF AutoAt
<1>18. CASE Found(p)
  <2>1. UNCHANGED <<Queue, Autoplay>> /\ pc[p] = "search" /\ Len(Queue) \in Nat
    BY <1>1, <1>18 DEF Found
  <2>2. PICK ts : \E label \in Adding : Goto(p, label, Request(ts)) /\ Len(ts) \in Nat
    BY <1>18 DEF Found, Adding
  <2>3. pc'[p] \in Adding /\ local'[p].todo = ts /\ local'[p].count = Len(ts)
    BY <1>4, <2>2 DEF Request
  <2>4. Len(local'[p].todo) - local'[p].count = 0
    BY <2>2, <2>3
  <2>5. Queue # <<>> => Len(Queue) > 0
    BY <1>1
  <2> QED BY <1>1, <2>1, <2>3, <2>4, <2>5 DEF AutoAt, Adding
<1>19. CASE AddToQueue(p)
  <2>1. local[p].todo \in Seq(Tracks) /\ local[p].todo # <<>> /\ Autoplay' = Autoplay
    BY <1>1, <1>19 DEF AddToQueue, Fits, Locals, AddSongs
  <2>2. Queue' # <<>>
    BY <1>1, <1>19, <2>1, Heads DEF AddToQueue
  <2>3. \/ pc'[p] \in Plain
        \/ pc'[p] = "download" /\ Queue = <<>>
    <3>1. CASE Queue = <<>> /\ StartFirst(p, local[p].todo)
      <4>1. pc'[p] \in {"download", "loopFirst"}
        BY <1>4, <3>1 DEF StartFirst
      <4> QED BY <1>6, <3>1, <4>1
    <3>2. CASE Return(p)
      BY <1>3, <1>6, <3>2
    <3> QED BY <1>19, <3>1, <3>2 DEF AddToQueue
  <2>4. Queue = <<>> => ~Autoplay
    BY <1>1, <1>19 DEF AutoAt, AddToQueue
  <2> QED BY <1>5, <2>1, <2>2, <2>3, <2>4 DEF AutoAt
<1>20. CASE AddToFront(p)
  <2> DEFINE todo == local[p].todo
             n == local[p].count
             d == Len(todo) - n
  <2>1. /\ todo \in Seq(Tracks) /\ n \in 1..Len(todo) /\ Len(todo) \in Nat /\ todo[n] \in Tracks
        /\ Autoplay' = Autoplay /\ pc[p] = "addFront"
    BY <1>1, <1>20, ElementOfSeq DEF AddToFront, Fits, Locals, AddSongToFront
  <2>2. Queue' # <<>> /\ Len(Queue') = Len(Queue) + 1 /\ Len(Queue) \in Nat
    BY <1>1, <1>20, <2>1, Heads DEF AddToFront
  <2>3. \/ Len(Queue) > d
        \/ Len(Queue) = d /\ ~Autoplay
    BY <1>1, <2>1, Zenon DEF AutoAt
  <2>4. CASE n > 1 /\ Goto(p, "addFront", WithCount(p, n - 1))
    <3>1. n - 1 \in Nat
      BY <2>1, <2>4
    <3>2. pc'[p] = "addFront" /\ local'[p].todo = todo /\ local'[p].count = n - 1
      BY <1>1, <2>4, <3>1, SerialGoto DEF Labels
    <3>3. Len(local'[p].todo) - local'[p].count = d + 1 /\ d \in Int
      BY <2>1, <3>1, <3>2
    <3> HIDE DEF d, n, todo
    <3>4. \/ Len(Queue') > d + 1
          \/ Len(Queue') = d + 1 /\ ~Autoplay'
      BY <2>1, <2>2, <2>3, <3>3
    <3> QED BY <2>2, <3>2, <3>3, <3>4 DEF AutoAt
  <2>5. CASE Goto(p, "next", [Fresh EXCEPT !.skips = Head(Queue)]) \/ Return(p)
    BY <1>3, <1>4, <1>5, <1>6, <2>2, <2>5
  <2>6. CASE n = 1 /\ Len(Queue) + 1 - Len(todo) = 0 /\ StartFirst(p, todo)
    <3>1. ~Autoplay
      <4> HIDE DEF todo, n
      <4> QED BY <2>1, <2>2, <2>3, <2>6
    <3>2. pc'[p] \in {"download", "loopFirst"}
      BY <1>4, <2>6 DEF StartFirst
    <3> QED BY <2>1, <3>1, <3>2 DEF AutoAt
  <2> QED BY <1>20, <2>4, <2>5, <2>6 DEF AddToFront
<1> QED BY <1>7, <1>8, <1>9, <1>10, <1>11, <1>12, <1>13, <1>14, <1>15, <1>16, <1>17, <1>18,
           <1>19, <1>20 DEF Command, Step

\* With one handler at a time, and no service message in the middle of it,
\* autoplay is off when the queue has ended, in whichever way.
THEOREM AutoplayEnds ==
    ASSUME Serial, "cleared" \notin Ops PROVE Spec => []AutoplayEndsWithQueue
<1>1. Init => AutoInv
  BY DEF Init, ChatInit, AutoInv, AutoAt
<1>2. TypeInv /\ AutoInv /\ [Next]_vars => AutoInv'
  <2> SUFFICES ASSUME TypeInv, AutoInv, [Next]_vars PROVE AutoInv'
    OBVIOUS
  <2>1. ASSUME NEW p \in Procs, Command(p) \/ Step(p) \/ StreamEnd(p) PROVE AutoInv'
    <3>1. AutoAt(pc'[p], local'[p], Queue', Autoplay') /\ \A q \in Procs : q = p
      BY <2>1, AutoStep DEF Serial
    <3> QED BY <3>1 DEF AutoInv
  <2>2. CASE ChatCleared \/ CallDiscarded \/ UNCHANGED vars
    BY <2>2 DEF AutoInv, ChatCleared, CallDiscarded, chatVars, vars
  <2>3. ASSUME NEW t, Collected(t) PROVE AutoInv'
    BY <2>3 DEF AutoInv, Collected
  <2> QED BY <2>1, <2>2, <2>3 DEF Next
<1>3. AutoInv => AutoplayEndsWithQueue
  BY DEF AutoInv, AutoAt, AutoplayEndsWithQueue, AllIdle, At, Serial
<1> QED BY <1>1, <1>2, <1>3, TypeInvariant, PTL DEF Spec

-----------------------------------------------------------------------------
\* The track at the head is the one on the air, or the one being brought there.

Resting == {"idle", "search", "add", "loop", "remove", "toggle", "toggled", "position", "seek"}

AirAt(label, l, queue, air) ==
    /\ label \in Resting /\ queue # <<>> => air = Head(queue)
    /\ label = "addFront" => Len(queue) >= Len(l.todo) - l.count
    /\ label \in {"download", "start"} => queue \in {<<>>, <<l.song>>}
    /\ label \in {"send", "fetch", "fetching", "play", "position", "seek"} /\ queue # <<>>
       => Head(queue) = l.song
    /\ label \in {"undo", "drain"} => Len(queue) < 2
    /\ label = "advance" => Len(queue) > 1 /\ queue[2] = l.song
    /\ label \in {"seed", "mix", "recommend", "hangUp"} => queue = <<>>

AirInv == \A p \in Procs : AirAt(pc[p], local[p], Queue, stream)

LEMMA AirStep ==
    ASSUME Serial, "send" \notin Faults, TypeInv, AirInv, NEW p \in Procs,
           Command(p) \/ Step(p) \/ StreamEnd(p)
    PROVE  AirAt(pc'[p], local'[p], Queue', stream')
<1> USE DEF At, unqueued, chatVars
<1>1. AirAt(pc[p], local[p], Queue, stream) /\ PcTypeOK /\ ChatTypeOK /\ Queue \in Seq(Tracks)
      /\ Fits(pc[p], local[p]) /\ local[p] \in Locals /\ None \notin Tracks
  BY ChatQueueAssumption DEF AirInv, TypeInv, ChatTypeOK, PcTypeOK, LocalsFit
<1>2. \A label \in Labels : Jump(p, label) => pc'[p] = label /\ local'[p] = local[p]
  BY <1>1, SerialGoto
<1>3. Return(p) => pc'[p] = "idle"
  BY <1>1, SerialGoto
<1>4. \A label, l : Goto(p, label, l) => pc'[p] = label /\ local'[p] = l
  BY <1>1, GotoAt
<1>5. ASSUME pc'[p] \in {"loopFirst", "next", "replay", "current", "upcoming", "stop", "clear"}
      PROVE  AirAt(pc'[p], local'[p], Queue', stream')
  BY <1>5 DEF AirAt, Resting
<1>6. ASSUME pc'[p] \notin {"addFront", "advance"}, Queue' = <<>>
      PROVE  AirAt(pc'[p], local'[p], Queue', stream')
  <2>1. Len(Queue') < 2
    BY <1>6
  <2> QED BY <1>6, <2>1 DEF AirAt
<1>7. CASE \/ PlayRequest(p) \/ LoopCommand(p) \/ RemoveCommand(p) \/ AutoplayCommand(p)
           \/ NotFound(p) \/ StoreLoop(p) \/ ReadToggle(p) \/ StoreToggle(p)
  <2>1. UNCHANGED <<Queue, stream>> /\ pc[p] \in Resting
    BY <1>7 DEF PlayRequest, LoopCommand, RemoveCommand, AutoplayCommand, NotFound, StoreLoop,
                ReadToggle, StoreToggle, SetLoopCount, SetAutoplay, Resting
  <2>2. pc'[p] \in Resting \ {"position", "seek"}
    BY <1>2, <1>3, <1>4, <1>7
       DEF PlayRequest, LoopCommand, RemoveCommand, AutoplayCommand, NotFound, StoreLoop,
           ReadToggle, StoreToggle, Resting, Labels
  <2> QED BY <1>1, <2>1, <2>2 DEF AirAt, Resting
<1>8. CASE Found(p)
  <2>1. UNCHANGED <<Queue, stream>> /\ pc[p] = "search" /\ Len(Queue) \in Nat
    BY <1>1, <1>8 DEF Found
  <2>2. PICK ts : \E label \in Adding : Goto(p, label, Request(ts)) /\ Len(ts) \in Nat
    BY <1>8 DEF Found, Adding
  <2>3. pc'[p] \in Adding /\ local'[p].todo = ts /\ local'[p].count = Len(ts)
    BY <1>4, <2>2 DEF Request
  <2>4. Len(Queue') >= Len(local'[p].todo) - local'[p].count
    BY <2>1, <2>2, <2>3
  <2> QED BY <1>1, <2>1, <2>3, <2>4 DEF AirAt, Adding, Resting
<1>9. CASE SeekCommand(p) \/ ReadPosition(p)
  <2>1. UNCHANGED <<Queue, stream>> /\ pc[p] \in {"idle", "position"}
    BY <1>9 DEF SeekCommand, ReadPosition
  <2>2. CASE SeekCommand(p)
    <3>1. /\ pc[p] = "idle" /\ Goto(p, "position", WithSong(p, GetPlayingTrack))
          /\ GetPlayingTrack # None
      BY <2>2 DEF SeekCommand
    <3>2. pc'[p] = "position" /\ local'[p].song = Head(Queue)
      BY <1>1, <1>4, <3>1, Fields DEF GetPlayingTrack
    <3> QED BY <1>1, <2>1, <3>1, <3>2 DEF AirAt, Resting
  <2>3. CASE ReadPosition(p)
    <3>1. /\ pc[p] = "position"
          /\ \/ pc'[p] = "seek" /\ local'[p] = local[p]
             \/ pc'[p] = "idle"
      BY <1>2, <1>3, <2>3 DEF ReadPosition, Labels
    <3> QED BY <1>1, <2>1, <3>1 DEF AirAt, Resting
  <2> QED BY <1>9, <2>2, <2>3
<1>10. CASE \/ SkipCommand(p) \/ StopCommand(p) \/ StreamEnd(p) \/ LoopFirst(p) \/ LowerLoop(p)
            \/ ReadLoop(p) \/ FetchFailed(p) \/ AutoplayOff(p)
  <2>1. pc'[p] \in {"loopFirst", "next", "replay", "current", "upcoming", "stop", "clear"}
    BY <1>2, <1>4, <1>10 DEF SkipCommand, StopCommand, StreamEnd, LoopFirst, LowerLoop,
                             ReadLoop, FetchFailed, AutoplayOff, Labels
  <2> QED BY <1>5, <2>1
<1>11. CASE AddToQueue(p)
  <2>1. /\ local[p].todo \in Seq(Tracks) /\ local[p].todo # <<>> /\ AddSongs(local[p].todo)
        /\ stream' = stream /\ pc[p] = "add"
    BY <1>1, <1>11 DEF AddToQueue, Fits, Locals
  <2>2. CASE Queue = <<>> /\ StartFirst(p, local[p].todo)
    <3>1. PICK label \in {"download", "loopFirst"} :
            /\ label = "download" => Len(local[p].todo) = 1
            /\ Goto(p, label, [Fresh EXCEPT !.song = Head(local[p].todo)])
      BY <2>2 DEF StartFirst
    <3>2. pc'[p] = label /\ local'[p].song = Head(local[p].todo)
      BY <1>4, <3>1, FreshSong
    <3>3. Queue' = local[p].todo
      BY <1>1, <2>1, <2>2, Heads
    <3>4. CASE label = "download"
      <4>1. local[p].todo = <<Head(local[p].todo)>>
        BY <2>1, <3>1, <3>4
      <4> QED BY <3>2, <3>3, <3>4, <4>1 DEF AirAt, Resting
    <3> QED BY <1>5, <3>2, <3>4
  <2>3. CASE Queue # <<>> /\ Return(p)
    <3>1. Head(Queue') = Head(Queue)
      BY <1>1, <2>1, <2>3, Heads
    <3> QED BY <1>1, <1>3, <2>1, <2>3, <3>1 DEF AirAt, Resting
  <2> QED BY <1>11, <2>2, <2>3 DEF AddToQueue
<1>12. CASE AddToFront(p)
  <2> DEFINE todo == local[p].todo
             n == local[p].count
  <2>1. /\ todo \in Seq(Tracks) /\ n \in 1..Len(todo) /\ Len(todo) \in Nat /\ todo[n] \in Tracks
        /\ pc[p] = "addFront" /\ AddSongToFront(todo[n])
    BY <1>1, <1>12, ElementOfSeq DEF AddToFront, Fits, Locals
  <2>2. Len(Queue') = Len(Queue) + 1 /\ Len(Queue) \in Nat
        /\ (Queue = <<>> => Queue' = <<todo[n]>>)
    BY <1>1, <2>1, Heads
  <2>3. Len(Queue) >= Len(todo) - n
    BY <1>1, <2>1 DEF AirAt
  <2>4. CASE n > 1 /\ Goto(p, "addFront", WithCount(p, n - 1))
    <3>1. n - 1 \in Nat
      BY <2>1, <2>4
    <3>2. pc'[p] = "addFront" /\ local'[p].todo = todo /\ local'[p].count = n - 1
      BY <1>1, <2>4, <3>1, SerialGoto DEF Labels
    <3> HIDE DEF todo, n
    <3>3. Len(Queue') >= Len(local'[p].todo) - local'[p].count
      BY <2>1, <2>2, <2>3, <3>2
    <3> QED BY <3>2, <3>3 DEF AirAt, Resting
  <2>5. CASE Goto(p, "next", [Fresh EXCEPT !.skips = Head(Queue)])
    BY <1>4, <1>5, <2>5
  <2>6. CASE n = 1 /\ Len(Queue) + 1 - Len(todo) = 0 /\ StartFirst(p, todo)
    <3>1. PICK label \in {"download", "loopFirst"} :
            /\ label = "download" => Len(todo) = 1
            /\ Goto(p, label, [Fresh EXCEPT !.song = Head(todo)])
      BY <2>6 DEF StartFirst
    <3>2. pc'[p] = label /\ local'[p].song = Head(todo)
      BY <1>4, <3>1, FreshSong
    <3>3. CASE label = "download"
      <4>1. Len(Queue) = 0
        <5>1. Len(todo) = 1 /\ Len(Queue) + 1 - Len(todo) = 0
          BY <2>6, <3>1, <3>3
        <5> QED BY <2>2, <5>1
      <4>2. Queue = <<>> /\ n = 1 /\ todo[1] = Head(todo)
        BY <1>1, <2>1, <2>6, <4>1, EmptySeq
      <4>3. Queue' = <<local'[p].song>>
        BY <2>2, <3>2, <4>2
      <4> QED BY <3>2, <3>3, <4>3 DEF AirAt, Resting
    <3> QED BY <1>5, <3>2, <3>3
  <2>7. CASE n = 1 /\ Len(Queue) + 1 - Len(todo) < 0
    <3> HIDE DEF todo, n
    <3> QED BY <2>1, <2>2, <2>3, <2>7
  <2> QED BY <1>12, <2>4, <2>5, <2>6, <2>7 DEF AddToFront
<1>13. CASE Downloaded(p) \/ DownloadFailed(p)
  <2>1. pc[p] = "download" /\ Queue' = Queue
    BY <1>13 DEF Downloaded, DownloadFailed
  <2>2. \/ pc'[p] = "start" /\ local'[p] = local[p]
        \/ pc'[p] = "undo"
    BY <1>2, <1>13 DEF Downloaded, DownloadFailed, Labels
  <2>3. Queue' \in {<<>>, <<local[p].song>>}
    BY <1>1, <2>1 DEF AirAt
  <2>4. Len(Queue') < 2
    <3>1. Len(<<>>) = 0 /\ Len(<<local[p].song>>) = 1
      OBVIOUS
    <3>2. CASE Queue' = <<>>
      BY <3>1, <3>2
    <3>3. CASE Queue' = <<local[p].song>>
      BY <3>1, <3>3
    <3> QED BY <2>3, <3>2, <3>3
  <2> QED BY <2>2, <2>3, <2>4 DEF AirAt, Resting
<1>14. CASE Undo(p) \/ Drain(p)
  <2>1. Queue' = <<>>
    BY <1>1, <1>14, Heads DEF Undo, Drain, AirAt
  <2>2. pc'[p] \in {"idle", "seed"}
    BY <1>2, <1>3, <1>14 DEF Undo, Drain, Labels
  <2> QED BY <1>6, <2>1, <2>2
<1>15. CASE MediaStarted(p)
  <2>1. /\ pc[p] \in MediaLabels /\ Queue' = Queue /\ stream' = local[p].song /\ pc'[p] = "idle"
    BY <1>3, <1>15 DEF MediaStarted
  <2>2. Queue # <<>> => Head(Queue) = local[p].song
    <3>1. CASE pc[p] = "start"
      BY <1>1, <3>1 DEF AirAt
    <3>2. CASE pc[p] \in {"play", "seek"}
      BY <1>1, <3>2 DEF AirAt
    <3> QED BY <2>1, <3>1, <3>2 DEF MediaLabels
  <2> QED BY <2>1, <2>2 DEF AirAt, Resting
<1>16. CASE MediaFailed(p)
  <2>1. Queue' = <<>> /\ pc[p] \in MediaLabels
    BY <1>16 DEF MediaFailed, ClearChat
  <2>2. pc'[p] \in MediaLabels \cup {"undo", "idle"}
    BY <1>2, <1>3, <1>16 DEF MediaFailed, MediaLabels, Labels
  <2> QED BY <1>6, <2>1, <2>2 DEF MediaLabels
<1>17. CASE ReadCurrent(p)
  <2>1. Queue' = Queue
    BY <1>17 DEF ReadCurrent
  <2>2. CASE Queue # <<>>
    <3>1. pc'[p] = "send" /\ local'[p].song = Head(Queue)
      BY <1>1, <1>4, <1>17, <2>2, Fields DEF ReadCurrent, IsActive, GetPlayingTrack
    <3> QED BY <2>1, <3>1 DEF AirAt, Resting
  <2>3. CASE Queue = <<>>
    BY <1>2, <1>5, <1>17, <2>3 DEF ReadCurrent, IsActive, Labels
  <2> QED BY <2>2, <2>3
<1>18. CASE ReadUpcoming(p)
  <2>1. Queue' = Queue /\ Len(Queue) \in Nat
    BY <1>1, <1>18 DEF ReadUpcoming
  <2>2. CASE Len(Queue) < 2
    <3>1. pc'[p] = "drain"
      BY <1>2, <1>18, <2>2 DEF ReadUpcoming, GetUpcomingTrack, Labels
    <3> QED BY <2>1, <2>2, <3>1 DEF AirAt, Resting
  <2>3. CASE ~(Len(Queue) < 2)
    <3>1. Queue[2] \in Tracks
      BY <1>1, <2>1, <2>3, ElementOfSeq
    <3>2. Goto(p, "advance", WithSong(p, Queue[2]))
      BY <1>1, <1>18, <2>3, <3>1 DEF ReadUpcoming, GetUpcomingTrack
    <3>3. pc'[p] = "advance" /\ local'[p].song = Queue[2]
      BY <1>1, <1>4, <3>2, Fields
    <3>4. Len(Queue) > 1
      BY <2>1, <2>3
    <3> QED BY <2>1, <3>3, <3>4 DEF AirAt, Resting
  <2> QED BY <2>2, <2>3
<1>19. CASE Advance(p)
  <2>1. pc'[p] = "send" /\ local'[p] = local[p] /\ pc[p] = "advance" /\ RemoveCurrentSong
    BY <1>2, <1>19 DEF Advance, Labels
  <2>2. Len(Queue) > 1 /\ Queue[2] = local[p].song /\ Len(Queue) \in Nat
    BY <1>1, <2>1 DEF AirAt
  <2>3. Head(Queue') = local'[p].song
    BY <1>1, <2>1, <2>2, Heads
  <2> QED BY <2>1, <2>3 DEF AirAt, Resting
<1>20. CASE ReadSeed(p) \/ ReadAutoplay(p) \/ NoRecommendation(p) \/ HangUp(p) \/ HangUpFails(p)
  <2>1. Queue' = <<>>
    BY <1>1, <1>20 DEF ReadSeed, ReadAutoplay, NoRecommendation, HangUp, HangUpFails, AirAt
  <2>2. pc'[p] \in {"mix", "recommend", "stop", "idle"}
    BY <1>2, <1>3, <1>20 DEF ReadSeed, ReadAutoplay, NoRecommendation, HangUp, HangUpFails, Labels
  <2> QED BY <1>6, <2>1, <2>2
<1>21. CASE Recommended(p)
  <2>1. PICK t \in Tracks : AddSong(t) /\ Goto(p, "send", WithSong(p, t))
    BY <1>21, ChatQueueAssumption DEF Recommended
  <2>2. <<t>> \in Seq(Tracks) /\ <<t>> # <<>> /\ Queue = <<>>
    BY <1>1, <1>21 DEF Recommended, AirAt
  <2>3. Queue' = <<t>>
    BY <1>1, <2>1, <2>2, Heads DEF AddSong
  <2>4. pc'[p] = "send" /\ local'[p].song = t
    BY <1>1, <1>4, <2>1, Fields
  <2>5. Head(Queue') = local'[p].song
    BY <2>3, <2>4
  <2> QED BY <2>4, <2>5 DEF AirAt, Resting
<1>22. CASE Announced(p) \/ AnnounceFailed(p) \/ ReadFilePath(p) \/ Fetched(p)
  <2>1. /\ Queue' = Queue /\ pc[p] \in {"send", "fetch", "fetching"}
    BY <1>22 DEF Announced, AnnounceFailed, ReadFilePath, Fetched
  <2>2. pc'[p] \in {"fetch", "fetching", "play"} /\ local'[p] = local[p]
    BY <1>2, <1>22 DEF Announced, AnnounceFailed, ReadFilePath, Fetched, Labels
  <2> QED BY <1>1, <2>1, <2>2 DEF AirAt, Resting
<1>23. CASE Clear(p)
  <2>1. Queue' = <<>> /\ pc'[p] = "hangUp"
    BY <1>2, <1>23 DEF Clear, ClearChat, Labels
  <2> QED BY <1>6, <2>1
<1>24. CASE RemoveNumbered(p)
  <2>1. local[p].count \in Nat \ {0} /\ stream' = stream /\ pc[p] = "remove" /\ pc'[p] = "idle"
    BY <1>1, <1>3, <1>24 DEF RemoveNumbered, Fits, Locals
  <2>2. \/ Queue' = <<>>
        \/ Queue # <<>> /\ Head(Queue') = Head(Queue)
    BY <1>1, <1>24, <2>1, Heads DEF RemoveNumbered
  <2> QED BY <1>1, <2>1, <2>2 DEF AirAt, Resting
<1> QED BY <1>7, <1>8, <1>9, <1>10, <1>11, <1>12, <1>13, <1>14, <1>15, <1>16, <1>17, <1>18,
           <1>19, <1>20, <1>21, <1>22, <1>23, <1>24 DEF Command, Step

\* With one handler at a time, nothing clearing the chat or hanging up the call
\* behind its back, and announcements that get through, an idle chat with a
\* queue is playing its head.
THEOREM HeadStreams ==
    ASSUME Serial, "send" \notin Faults, Ops \cap {"cleared", "discarded"} = {}
    PROVE  Spec => []HeadIsStreaming
<1>1. Init => AirInv
  BY DEF Init, ChatInit, AirInv, AirAt
<1>2. TypeInv /\ AirInv /\ [Next]_vars => AirInv'
  <2> SUFFICES ASSUME TypeInv, AirInv, [Next]_vars PROVE AirInv'
    OBVIOUS
  <2>1. ASSUME NEW p \in Procs, Command(p) \/ Step(p) \/ StreamEnd(p) PROVE AirInv'
    <3>1. AirAt(pc'[p], local'[p], Queue', stream') /\ \A q \in Procs : q = p
      BY <2>1, AirStep DEF Serial
    <3> QED BY <3>1 DEF AirInv
  <2>2. CASE UNCHANGED vars
    BY <2>2 DEF AirInv, chatVars, vars
  <2>3. ASSUME NEW t, Collected(t) PROVE AirInv'
    BY <2>3 DEF AirInv, Collected
  <2> QED BY <2>1, <2>2, <2>3 DEF Next, ChatCleared, CallDiscarded
<1>3. AirInv => HeadIsStreaming
  BY DEF AirInv, AirAt, Resting, HeadIsStreaming, AllIdle, At, Serial
<1> QED BY <1>1, <1>2, <1>3, TypeInvariant, PTL DEF Spec

-----------------------------------------------------------------------------
\* Nobody is passed over: a track at the head has been set out for, or the
\* goroutine is on its way to do so.

Unseen == {"loopFirst", "next", "replay", "current", "send"}

TurnAt(label, l, queue, loop, seen) ==
    /\ label = "addFront" => Len(l.todo) = 1
    /\ queue # <<>> =>
        /\ label \notin Unseen => Head(queue) \in seen
        /\ label \in {"loopFirst", "send"} => Head(queue) = l.song
        /\ label = "next" => Head(queue) \in seen \/ loop[Head(queue)] > 0
        /\ label \in {"download", "start", "undo", "drain"} => Len(queue) < 2
        /\ label = "advance" => Len(queue) > 1 /\ queue[2] = l.song
        /\ label \notin {"seed", "mix", "recommend"}

TurnInv == \A p \in Procs : TurnAt(pc[p], local[p], Queue, Loop, tried)

LEMMA TurnStep ==
    ASSUME "send" \notin Faults, "fplaylist" \notin Ops, TypeInv, TurnInv, NEW p \in Procs,
           Command(p) \/ Step(p) \/ StreamEnd(p)
    PROVE  TurnAt(pc'[p], local'[p], Queue', Loop', tried')
<1> USE DEF At, unqueued, chatVars
<1>1. TurnAt(pc[p], local[p], Queue, Loop, tried) /\ PcTypeOK /\ ChatTypeOK /\ Queue \in Seq(Tracks)
      /\ Fits(pc[p], local[p]) /\ local[p] \in Locals /\ None \notin Tracks
  BY ChatQueueAssumption DEF TurnInv, TypeInv, ChatTypeOK, PcTypeOK, LocalsFit
<1>2. \A label \in Labels : Jump(p, label) => pc'[p] = label /\ local'[p] = local[p]
  BY <1>1, SerialGoto
<1>3. Return(p) => pc'[p] = "idle"
  BY <1>1, SerialGoto
<1>4. \A label, l : Goto(p, label, l) => pc'[p] = label /\ local'[p] = l
  BY <1>1, GotoAt
<1> DEFINE Settled == Labels \ (Unseen \cup {"addFront", "download", "start", "undo", "drain",
                                             "advance", "seed", "mix", "recommend"})
<1>5. ASSUME pc'[p] \in Settled, Queue' # <<>> => Head(Queue') \in tried'
      PROVE  TurnAt(pc'[p], local'[p], Queue', Loop', tried')
  BY <1>5 DEF TurnAt, Unseen
<1>6. ASSUME pc'[p] # "addFront", Queue' = <<>>
      PROVE  TurnAt(pc'[p], local'[p], Queue', Loop', tried')
  BY <1>6 DEF TurnAt
<1>7. Settled = {"idle", "search", "add", "upcoming", "fetch", "fetching", "play", "stop", "clear",
                 "hangUp", "loop", "remove", "toggle", "toggled", "position", "seek"}
  BY DEF Labels, Unseen
<1> HIDE DEF Settled
<1>8. CASE \/ PlayRequest(p) \/ StopCommand(p) \/ LoopCommand(p) \/ RemoveCommand(p)
           \/ AutoplayCommand(p) \/ SeekCommand(p) \/ NotFound(p) \/ StoreLoop(p)
           \/ ReadToggle(p) \/ StoreToggle(p) \/ ReadPosition(p) \/ HangUp(p) \/ HangUpFails(p) \/ AutoplayOff(p)
           \/ ReadFilePath(p) \/ Fetched(p)
  <2>1. /\ UNCHANGED <<Queue, tried>>
        /\ pc[p] \in {"idle", "search", "loop", "toggle", "toggled", "position", "hangUp", "stop",
                      "fetch", "fetching"}
    BY <1>8 DEF PlayRequest, StopCommand, LoopCommand, RemoveCommand, AutoplayCommand, SeekCommand,
                NotFound, StoreLoop, ReadToggle, StoreToggle, ReadPosition, HangUp, HangUpFails, AutoplayOff,
                ReadFilePath, Fetched, SetLoopCount, SetAutoplay
  <2>2. pc'[p] \in Settled
    BY <1>2, <1>3, <1>4, <1>7, <1>8
       DEF PlayRequest, StopCommand, LoopCommand, RemoveCommand, AutoplayCommand, SeekCommand,
           NotFound, StoreLoop, ReadToggle, StoreToggle, ReadPosition, HangUp, HangUpFails, AutoplayOff,
           ReadFilePath, Fetched, Labels
  <2>3. Queue # <<>> => Head(Queue) \in tried
    BY <1>1, <2>1 DEF TurnAt, Unseen
  <2> QED BY <1>5, <2>1, <2>2, <2>3
<1>9. CASE Found(p)
  <2>1. UNCHANGED <<Queue, Loop, tried>> /\ pc[p] = "search"
    BY <1>9 DEF Found
  <2>2. PICK ts : \/ Goto(p, "add", Request(ts))
                  \/ Len(ts) = 1 /\ Goto(p, "addFront", Request(ts))
    <3>1. PICK n \in 1..MaxBatch : \E ts \in [1..n -> Tracks \ used] :
            \/ Goto(p, "add", Request(ts))
            \/ n = 1 /\ Goto(p, "addFront", Request(ts))
      BY <1>9 DEF Found
    <3>2. PICK ts \in [1..n -> Tracks \ used] :
            \/ Goto(p, "add", Request(ts))
            \/ n = 1 /\ Goto(p, "addFront", Request(ts))
      BY <3>1
    <3>3. n = 1 => Len(ts) = 1
      BY <3>2
    <3> QED BY <3>2, <3>3
  <2>3. \/ pc'[p] = "add"
        \/ pc'[p] = "addFront" /\ Len(local'[p].todo) = 1
    BY <1>4, <2>2 DEF Request
  <2> QED BY <1>1, <2>1, <2>3 DEF TurnAt, Unseen
<1>10. CASE AddToQueue(p)
  <2>1. local[p].todo \in Seq(Tracks) /\ local[p].todo # <<>> /\ AddSongs(local[p].todo)
        /\ pc[p] = "add"
    BY <1>1, <1>10 DEF AddToQueue, Fits, Locals
  <2>2. CASE Queue = <<>> /\ StartFirst(p, local[p].todo)
    <3>1. PICK label \in {"download", "loopFirst"} :
            /\ label = "download" => Len(local[p].todo) = 1
            /\ Goto(p, label, [Fresh EXCEPT !.song = Head(local[p].todo)])
            /\ label = "download" => Head(local[p].todo) \in tried'
      BY <2>2 DEF StartFirst
    <3>2. pc'[p] = label /\ local'[p].song = Head(local[p].todo)
      BY <1>4, <3>1, FreshSong
    <3>3. Queue' = local[p].todo
      BY <1>1, <2>1, <2>2, Heads
    <3>4. Head(Queue') = local'[p].song
      BY <3>2, <3>3
    <3>5. CASE label = "download"
      <4>1. Len(Queue') = 1 /\ Head(Queue') \in tried'
        BY <3>1, <3>3, <3>5
      <4>2. Len(Queue') < 2
        BY <4>1
      <4> QED BY <3>2, <3>5, <4>1, <4>2 DEF TurnAt, Unseen
    <3>6. CASE label = "loopFirst"
      BY <3>2, <3>4, <3>6 DEF TurnAt, Unseen
    <3> QED BY <3>5, <3>6
  <2>3. CASE Queue # <<>> /\ Return(p) /\ UNCHANGED tried
    <3>1. Head(Queue') = Head(Queue)
      BY <1>1, <2>1, <2>3, Heads
    <3>2. Head(Queue) \in tried
      BY <1>1, <2>1, <2>3 DEF TurnAt, Unseen
    <3> QED BY <1>3, <1>5, <1>7, <2>3, <3>1, <3>2
  <2> QED BY <1>10, <2>2, <2>3 DEF AddToQueue
<1>11. CASE AddToFront(p)
  <2> DEFINE todo == local[p].todo
             n == local[p].count
  <2>1. /\ todo \in Seq(Tracks) /\ n = 1 /\ Len(todo) = 1 /\ todo[n] \in Tracks
        /\ pc[p] = "addFront" /\ AddSongToFront(todo[n]) /\ Head(todo) = todo[1]
    <3>1. pc[p] = "addFront" /\ todo \in Seq(Tracks) /\ n \in 1..Len(todo) /\ AddSongToFront(todo[n])
      BY <1>1, <1>11 DEF AddToFront, Fits, Locals
    <3>2. Len(todo) = 1
      BY <1>1, <3>1 DEF TurnAt
    <3>3. n = 1
      BY <3>1, <3>2
    <3>4. todo[n] \in Tracks /\ Head(todo) = todo[1]
      BY <3>1, <3>2, <3>3, ElementOfSeq
    <3> QED BY <3>1, <3>2, <3>3, <3>4
  <2>2. Len(Queue) \in Nat /\ Queue' # <<>>
        /\ IF Queue = <<>> THEN Queue' = <<todo[1]>> ELSE Head(Queue') = Head(Queue)
    BY <1>1, <2>1, Heads
  <2>3. Queue # <<>> => Head(Queue) \in tried
    BY <1>1, <2>1 DEF TurnAt, Unseen
  <2>4. Len(Queue) + 1 - Len(todo) = Len(Queue) /\ (Len(Queue) > 0 <=> Queue # <<>>)
    BY <1>1, <2>1, <2>2
  <2>5. \/ Queue # <<>> /\ Goto(p, "next", [Fresh EXCEPT !.skips = Head(Queue)]) /\ UNCHANGED tried
        \/ Queue = <<>> /\ StartFirst(p, todo)
    <3> DEFINE start == Len(Queue) + 1 - Len(todo)
    <3>1. \/ n > 1
          \/ start > 0 /\ Goto(p, "next", [Fresh EXCEPT !.skips = Head(Queue)]) /\ UNCHANGED tried
          \/ start = 0 /\ StartFirst(p, todo)
          \/ start < 0
      BY <1>11, Zenon DEF AddToFront
    <3> HIDE DEF start, todo, n
    <3>2. ~(n > 1)
      BY <2>1
    <3>3. start = Len(Queue)
      BY <2>4 DEF start
    <3>4. ~(start < 0) /\ (start > 0 => Queue # <<>>) /\ (start = 0 => Queue = <<>>)
      BY <2>2, <2>4, <3>3
    <3> QED BY <3>1, <3>2, <3>4
  <2>6. CASE Queue # <<>> /\ Goto(p, "next", [Fresh EXCEPT !.skips = Head(Queue)]) /\ UNCHANGED tried
    <3>1. pc'[p] = "next"
      BY <1>4, <2>6
    <3> QED BY <2>2, <2>3, <2>6, <3>1 DEF TurnAt, Unseen
  <2>7. CASE Queue = <<>> /\ StartFirst(p, todo)
    <3>1. PICK label \in {"download", "loopFirst"} :
            /\ Goto(p, label, [Fresh EXCEPT !.song = Head(todo)])
            /\ label = "download" => Head(todo) \in tried'
      BY <2>7 DEF StartFirst
    <3>2. pc'[p] = label /\ local'[p].song = Head(todo)
      BY <1>4, <3>1, FreshSong
    <3>3. Len(Queue') = 1 /\ Head(Queue') = Head(todo)
      <4> HIDE DEF todo
      <4> QED BY <2>1, <2>2, <2>7
    <3>4. Len(Queue') < 2
      BY <3>3
    <3> QED BY <3>1, <3>2, <3>3, <3>4 DEF TurnAt, Unseen
  <2> QED BY <2>5, <2>6, <2>7
<1>12. CASE LoopFirst(p)
  <2>1. /\ pc[p] = "loopFirst" /\ pc'[p] = "next" /\ Queue' = Queue
        /\ Loop' = [Loop EXCEPT ![local[p].song] = 1]
    BY <1>2, <1>12 DEF LoopFirst, Labels
  <2>2. local[p].song \in Tracks /\ DOMAIN Loop = Tracks
    BY <1>1, <2>1 DEF Fits, SongLabels, ChatTypeOK
  <2>3. Queue # <<>> => Loop'[Head(Queue')] > 0
    BY <1>1, <2>1, <2>2 DEF TurnAt
  <2> QED BY <2>1, <2>3 DEF TurnAt, Unseen
<1>13. CASE SkipCommand(p) \/ StreamEnd(p) \/ FetchFailed(p)
  <2>1. UNCHANGED <<Queue, tried>> /\ pc[p] \in {"idle", "fetching"} /\ pc'[p] = "next"
    BY <1>2, <1>4, <1>13 DEF SkipCommand, StreamEnd, FetchFailed, Labels
  <2> QED BY <1>1, <2>1 DEF TurnAt, Unseen
<1>14. CASE Downloaded(p) \/ DownloadFailed(p)
  <2>1. UNCHANGED <<Queue, tried>> /\ pc[p] = "download" /\ pc'[p] \in {"start", "undo"}
    BY <1>2, <1>14 DEF Downloaded, DownloadFailed, Labels
  <2> QED BY <1>1, <2>1 DEF TurnAt, Unseen
<1>15. CASE Undo(p) \/ Drain(p)
  <2>1. Queue' = <<>>
    BY <1>1, <1>15, Heads DEF Undo, Drain, TurnAt, RemoveCurrentSong
  <2>2. pc'[p] \in {"idle", "seed"}
    BY <1>2, <1>3, <1>15 DEF Undo, Drain, Labels
  <2> QED BY <1>6, <2>1, <2>2
<1>16. CASE MediaStarted(p)
  <2>1. pc[p] \in MediaLabels /\ UNCHANGED <<Queue, tried>> /\ pc'[p] = "idle"
    BY <1>3, <1>16 DEF MediaStarted
  <2> QED BY <1>1, <1>5, <1>7, <2>1 DEF TurnAt, Unseen, MediaLabels
<1>17. CASE MediaFailed(p)
  <2>1. Queue' = <<>> /\ pc[p] \in MediaLabels
    BY <1>17 DEF MediaFailed, ClearChat
  <2>2. pc'[p] \in MediaLabels \cup {"undo", "idle"}
    BY <1>2, <1>3, <1>17 DEF MediaFailed, MediaLabels, Labels
  <2> QED BY <1>6, <2>1, <2>2 DEF MediaLabels
<1>18. CASE ReadLoop(p)
  <2>1. UNCHANGED <<Queue, Loop, tried>> /\ pc[p] = "next"
    BY <1>18 DEF ReadLoop
  <2>2. CASE GetLoopCount > 0
    <3>1. pc'[p] = "replay"
      BY <1>4, <1>18, <2>2 DEF ReadLoop
    <3> QED BY <3>1 DEF TurnAt, Unseen
  <2>3. CASE ~(GetLoopCount > 0)
    <3>1. pc'[p] = "upcoming"
      BY <1>4, <1>18, <2>3 DEF ReadLoop
    <3>2. Queue # <<>> => ~(Loop[Head(Queue)] > 0)
      BY <2>3 DEF GetLoopCount
    <3>3. Queue # <<>> => Head(Queue) \in tried
      BY <1>1, <2>1, <3>2, Zenon DEF TurnAt
    <3> QED BY <1>5, <1>7, <2>1, <3>1, <3>3
  <2> QED BY <2>2, <2>3
<1>19. CASE LowerLoop(p)
  <2>1. pc'[p] = "current"
    BY <1>2, <1>19 DEF LowerLoop, Labels
  <2> QED BY <2>1 DEF TurnAt, Unseen
<1>20. CASE ReadCurrent(p)
  <2>1. Queue' = Queue
    BY <1>20 DEF ReadCurrent
  <2>2. CASE Queue # <<>>
    <3>1. pc'[p] = "send" /\ local'[p].song = Head(Queue)
      BY <1>1, <1>4, <1>20, <2>2, Fields DEF ReadCurrent, IsActive, GetPlayingTrack
    <3> QED BY <2>1, <3>1 DEF TurnAt, Unseen
  <2>3. CASE Queue = <<>>
    BY <1>2, <1>6, <1>20, <2>1, <2>3 DEF ReadCurrent, IsActive, Labels
  <2> QED BY <2>2, <2>3
<1>21. CASE ReadUpcoming(p)
  <2>1. UNCHANGED <<Queue, tried>> /\ Len(Queue) \in Nat /\ pc[p] = "upcoming"
    BY <1>1, <1>21 DEF ReadUpcoming
  <2>2. Queue # <<>> => Head(Queue) \in tried
    BY <1>1, <2>1 DEF TurnAt, Unseen
  <2>3. CASE Len(Queue) < 2
    <3>1. pc'[p] = "drain"
      BY <1>2, <1>21, <2>3 DEF ReadUpcoming, GetUpcomingTrack, Labels
    <3> QED BY <2>1, <2>2, <2>3, <3>1 DEF TurnAt, Unseen
  <2>4. CASE ~(Len(Queue) < 2)
    <3>1. Queue[2] \in Tracks
      BY <1>1, <2>1, <2>4, ElementOfSeq
    <3>2. Goto(p, "advance", WithSong(p, Queue[2]))
      BY <1>1, <1>21, <2>4, <3>1 DEF ReadUpcoming, GetUpcomingTrack
    <3>3. pc'[p] = "advance" /\ local'[p].song = Queue[2]
      BY <1>1, <1>4, <3>2, Fields
    <3>4. Len(Queue) > 1
      BY <2>1, <2>4
    <3> QED BY <2>1, <2>2, <3>3, <3>4 DEF TurnAt, Unseen
  <2> QED BY <2>3, <2>4
<1>22. CASE Advance(p)
  <2>1. pc'[p] = "send" /\ local'[p] = local[p] /\ pc[p] = "advance" /\ RemoveCurrentSong
    BY <1>2, <1>22 DEF Advance, Labels
  <2>2. CASE Queue = <<>>
    <3>1. Queue' = <<>>
      BY <2>1, <2>2 DEF RemoveCurrentSong
    <3> QED BY <1>6, <2>1, <3>1
  <2>3. CASE Queue # <<>>
    <3>1. Len(Queue) > 1 /\ Queue[2] = local[p].song /\ Len(Queue) \in Nat
      BY <1>1, <2>1, <2>3 DEF TurnAt
    <3>2. Head(Queue') = local'[p].song
      BY <1>1, <2>1, <3>1, Heads
    <3> QED BY <2>1, <3>2 DEF TurnAt, Unseen
  <2> QED BY <2>2, <2>3
<1>23. CASE ReadSeed(p) \/ ReadAutoplay(p) \/ NoRecommendation(p)
  <2>1. Queue' = <<>>
    BY <1>1, <1>23 DEF ReadSeed, ReadAutoplay, NoRecommendation, TurnAt
  <2>2. pc'[p] \in {"mix", "recommend", "stop"}
    BY <1>2, <1>23 DEF ReadSeed, ReadAutoplay, NoRecommendation, Labels
  <2> QED BY <1>6, <2>1, <2>2
<1>24. CASE Recommended(p)
  <2>1. PICK t \in Tracks : AddSong(t) /\ Goto(p, "send", WithSong(p, t))
    BY <1>24, ChatQueueAssumption DEF Recommended
  <2>2. <<t>> \in Seq(Tracks) /\ <<t>> # <<>> /\ Queue = <<>>
    BY <1>1, <1>24 DEF Recommended, TurnAt
  <2>3. Queue' = <<t>>
    BY <1>1, <2>1, <2>2, Heads DEF AddSong
  <2>4. pc'[p] = "send" /\ local'[p].song = t
    BY <1>1, <1>4, <2>1, Fields
  <2>5. Head(Queue') = local'[p].song
    BY <2>3, <2>4
  <2> QED BY <2>4, <2>5 DEF TurnAt, Unseen
<1>25. CASE Announced(p) \/ AnnounceFailed(p)
  <2>1. /\ Queue' = Queue /\ pc[p] = "send" /\ tried' = tried \cup {local[p].song}
        /\ pc'[p] = "fetch"
    BY <1>2, <1>25 DEF Announced, AnnounceFailed, Labels
  <2> QED BY <1>1, <1>5, <1>7, <2>1 DEF TurnAt
<1>26. CASE Clear(p)
  <2>1. Queue' = <<>> /\ pc'[p] = "hangUp"
    BY <1>2, <1>26 DEF Clear, ClearChat, Labels
  <2> QED BY <1>6, <2>1
<1>27. CASE RemoveNumbered(p)
  <2>1. local[p].count \in Nat \ {0} /\ tried' = tried /\ pc[p] = "remove" /\ pc'[p] = "idle"
    BY <1>1, <1>3, <1>27 DEF RemoveNumbered, Fits, Locals
  <2>2. \/ Queue' = <<>>
        \/ Queue # <<>> /\ Head(Queue') = Head(Queue)
    BY <1>1, <1>27, <2>1, Heads DEF RemoveNumbered
  <2>3. Queue # <<>> => Head(Queue) \in tried
    BY <1>1, <2>1 DEF TurnAt, Unseen
  <2> QED BY <1>5, <1>7, <2>1, <2>2, <2>3
<1> QED BY <1>8, <1>9, <1>10, <1>11, <1>12, <1>13, <1>14, <1>15, <1>16, <1>17, <1>18, <1>19,
           <1>20, <1>21, <1>22, <1>23, <1>24, <1>25, <1>26, <1>27 DEF Command, Step

\* With one handler at a time, no forced playlists and announcements that get
\* through, no track is discarded before somebody has set out to play it.
THEOREM TurnsKept ==
    ASSUME Serial, "send" \notin Faults, "fplaylist" \notin Ops PROVE Spec => []TurnKept
<1>1. Init => TurnInv
  BY DEF Init, ChatInit, TurnInv, TurnAt
<1>2. TypeInv /\ TurnInv /\ [Next]_vars => TurnInv'
  <2> SUFFICES ASSUME TypeInv, TurnInv, [Next]_vars PROVE TurnInv'
    OBVIOUS
  <2>1. ASSUME NEW p \in Procs, Command(p) \/ Step(p) \/ StreamEnd(p) PROVE TurnInv'
    <3>1. TurnAt(pc'[p], local'[p], Queue', Loop', tried') /\ \A q \in Procs : q = p
      BY <2>1, TurnStep DEF Serial
    <3> QED BY <3>1 DEF TurnInv
  <2>2. CASE ChatCleared
    BY <2>2 DEF TurnInv, TurnAt, ChatCleared, ClearChat
  <2>3. CASE CallDiscarded \/ UNCHANGED vars
    BY <2>3 DEF TurnInv, CallDiscarded, chatVars, vars
  <2>4. ASSUME NEW t \in Tracks, Collected(t) PROVE TurnInv'
    <3>1. /\ UNCHANGED <<Queue, pc, local>> /\ t \notin ToSet(Queue) /\ tried' = tried \ {t}
          /\ Loop' = [Loop EXCEPT ![t] = 0]
      BY <2>4 DEF Collected
    <3>2. Queue # <<>> => Head(Queue) \in ToSet(Queue) /\ Head(Queue) \in Tracks
      BY HeadTailProperties DEF TypeInv, ChatTypeOK, ToSet
    <3>3. Queue # <<>> => (Head(Queue) \in tried => Head(Queue) \in tried')
                          /\ Loop'[Head(Queue)] = Loop[Head(Queue)]
      BY <3>1, <3>2 DEF TypeInv, ChatTypeOK
    <3> QED BY <3>1, <3>3 DEF TurnInv, TurnAt
  <2> QED BY <2>1, <2>2, <2>3, <2>4 DEF Next
<1>3. TurnInv => TurnKept
  BY DEF TurnInv, TurnAt, Unseen, TurnKept, IsActive
<1> QED BY <1>1, <1>2, <1>3, TypeInvariant, PTL DEF Spec

-----------------------------------------------------------------------------
\* Requests, removals and toggles of any number of goroutines, with nothing
\* that interrupts the playback they start.

Waiting == {"idle", "search", "add", "remove", "toggle", "toggled"}
Bringing == {"download", "start", "loopFirst", "next", "replay", "current", "send", "fetch",
             "fetching", "play"}

\* The one goroutine that brings a track brings the head; without one the head
\* is on the air.
StartAt(label, l) ==
    /\ label \in Bringing \ {"next", "replay", "current"} => l.song = Head(Queue)
    /\ label = "next" => Loop[Head(Queue)] > 0

StartInv ==
    /\ \A p \in Procs : pc[p] \in Waiting \cup Bringing /\ StartAt(pc[p], local[p])
    /\ \A p, q \in Procs : pc[p] \in Bringing /\ pc[q] \in Bringing => p = q
    /\ Queue = <<>> => \A p \in Procs : pc[p] \in Waiting
    /\ Queue # <<>> /\ (\A p \in Procs : pc[p] \in Waiting) => stream = Head(Queue)

\* A step of a goroutine that waits.
LEMMA StartWaits ==
    ASSUME StartInv, NEW p \in Procs, Others(p), pc[p] \in Waiting, pc'[p] \in Waiting,
           Loop' = Loop, stream' = stream,
           IF Queue = <<>> THEN Queue' = <<>> ELSE Queue' # <<>> /\ Head(Queue') = Head(Queue)
    PROVE  StartInv'
<1>1. Waiting \cap Bringing = {}
  BY DEF Waiting, Bringing
<1>2. ASSUME NEW q \in Procs
      PROVE  (pc[q] \in Waiting <=> pc'[q] \in Waiting) /\ (q # p => local'[q] = local[q])
  BY DEF Others
<1>3. ASSUME NEW q \in Procs, pc'[q] \in Bringing
      PROVE  q # p /\ pc'[q] = pc[q] /\ local'[q] = local[q] /\ Head(Queue') = Head(Queue)
  <2>1. q # p
    BY <1>1, <1>3
  <2>2. pc'[q] = pc[q] /\ local'[q] = local[q]
    BY <2>1 DEF Others
  <2>3. Queue # <<>>
    BY <1>1, <1>3, <2>2 DEF StartInv
  <2> QED BY <2>1, <2>2, <2>3
<1>4. \A q \in Procs : pc'[q] \in Waiting \cup Bringing
  BY DEF Others, StartInv
<1>5. ASSUME NEW q \in Procs
      PROVE  /\ pc'[q] \in Bringing \ {"next", "replay", "current"} => local'[q].song = Head(Queue')
             /\ pc'[q] = "next" => Loop'[Head(Queue')] > 0
  BY <1>3 DEF StartInv, StartAt, Bringing
<1>6. \A q, r \in Procs : pc'[q] \in Bringing /\ pc'[r] \in Bringing => q = r
  BY <1>3 DEF StartInv
<1>7. Queue' = <<>> => \A q \in Procs : pc'[q] \in Waiting
  BY <1>2 DEF StartInv
<1>8. Queue' # <<>> /\ (\A q \in Procs : pc'[q] \in Waiting) => stream' = Head(Queue')
  BY <1>2 DEF StartInv
<1> QED BY <1>4, <1>5, <1>6, <1>7, <1>8 DEF StartInv, StartAt

\* A step of the goroutine that brings the head, or sets out to.
LEMMA StartBrings ==
    ASSUME NEW p \in Procs, Others(p), \A q \in Procs \ {p} : pc[q] \in Waiting,
           Queue' # <<>>, pc'[p] \in Waiting \cup Bringing,
           StartAt(pc[p], local[p])',
           pc'[p] \in Waiting => stream' = Head(Queue')
    PROVE  StartInv'
<1>1. \A q \in Procs \ {p} : pc'[q] \in Waiting
  BY DEF Others
<1>2. \A q \in Procs : pc'[q] \in Bringing => q = p
  BY <1>1 DEF Waiting, Bringing
<1>3. \A q \in Procs : StartAt(pc[q], local[q])'
  BY <1>2 DEF StartAt, Bringing
<1> QED BY <1>1, <1>2, <1>3 DEF StartInv

LEMMA StartStep ==
    ASSUME Ops \subseteq {"play", "remove", "autoplay"}, Faults \subseteq {"search"},
           TypeInv, StartInv, NEW p \in Procs, Command(p) \/ Step(p) \/ StreamEnd(p)
    PROVE  StartInv'
<1> USE DEF At, unqueued, chatVars
<1>1. PcTypeOK /\ ChatTypeOK /\ Queue \in Seq(Tracks) /\ Fits(pc[p], local[p])
      /\ local[p] \in Locals /\ None \notin Tracks
  BY ChatQueueAssumption DEF TypeInv, ChatTypeOK, PcTypeOK, LocalsFit
<1>2. \A label \in Labels : Jump(p, label) => pc'[p] = label /\ local'[p] = local[p] /\ Others(p)
  BY <1>1, GotoAt DEF Jump
<1>3. Return(p) => pc'[p] = "idle" /\ Others(p)
  BY <1>1, GotoAt DEF Return
<1>4. \A label, l : Goto(p, label, l) => pc'[p] = label /\ local'[p] = l /\ Others(p)
  BY <1>1, GotoAt
<1>5. pc[p] \in Waiting \cup Bringing /\ StartAt(pc[p], local[p])
  BY DEF StartInv
<1>6. ASSUME pc[p] \in Bringing
      PROVE  Queue # <<>> /\ Head(Queue) \in Tracks /\ \A q \in Procs \ {p} : pc[q] \in Waiting
  <2>1. Queue # <<>>
    BY <1>6 DEF StartInv, Waiting, Bringing
  <2>2. Head(Queue) \in Tracks
    BY <1>1, <2>1, HeadTailProperties
  <2>3. \A q \in Procs \ {p} : pc[q] \in Waiting
    BY <1>6 DEF StartInv
  <2> QED BY <2>1, <2>2, <2>3
<1>7. CASE \/ PlayRequest(p) \/ Found(p) \/ NotFound(p) \/ RemoveCommand(p) \/ AutoplayCommand(p)
           \/ ReadToggle(p) \/ StoreToggle(p)
  <2>1. UNCHANGED <<Queue, Loop, stream>> /\ pc[p] \in Waiting
    BY <1>7 DEF PlayRequest, Found, NotFound, RemoveCommand, AutoplayCommand, ReadToggle,
                StoreToggle, SetAutoplay, Waiting
  <2>2. pc'[p] \in Waiting /\ Others(p)
    BY <1>2, <1>3, <1>4, <1>7
       DEF PlayRequest, Found, NotFound, RemoveCommand, AutoplayCommand, ReadToggle, StoreToggle,
           Waiting, Labels
  <2> QED BY <2>1, <2>2, StartWaits
<1>8. CASE RemoveNumbered(p)
  <2>1. /\ local[p].count \in Nat \ {0} /\ UNCHANGED <<Loop, stream>> /\ pc[p] = "remove"
        /\ pc'[p] = "idle" /\ Others(p)
    BY <1>1, <1>3, <1>8 DEF RemoveNumbered, Fits, Locals, RemoveTrack
  <2>2. IF Queue = <<>> THEN Queue' = <<>> ELSE Queue' # <<>> /\ Head(Queue') = Head(Queue)
    BY <1>1, <1>8, <2>1, Heads DEF RemoveNumbered
  <2> QED BY <2>1, <2>2, StartWaits DEF Waiting
<1>9. CASE AddToQueue(p)
  <2>1. /\ local[p].todo \in Seq(Tracks) /\ local[p].todo # <<>> /\ AddSongs(local[p].todo)
        /\ stream' = stream /\ Loop' = Loop /\ pc[p] = "add"
    BY <1>1, <1>9 DEF AddToQueue, AddSongs, Fits, Locals
  <2>2. Queue' # <<>>
        /\ IF Queue = <<>> THEN Queue' = local[p].todo ELSE Head(Queue') = Head(Queue)
    BY <1>1, <2>1, Heads
  <2>3. CASE Queue = <<>> /\ StartFirst(p, local[p].todo)
    <3>1. PICK label \in {"download", "loopFirst"} :
            Goto(p, label, [Fresh EXCEPT !.song = Head(local[p].todo)])
      BY <2>3 DEF StartFirst
    <3>2. pc'[p] = label /\ local'[p].song = Head(Queue') /\ Others(p)
      BY <1>4, <2>2, <2>3, <3>1, FreshSong
    <3>3. \A q \in Procs : pc[q] \in Waiting
      BY <2>3 DEF StartInv
    <3> QED BY <2>2, <3>2, <3>3, StartBrings DEF StartAt, Bringing, Waiting
  <2>4. CASE Queue # <<>> /\ Return(p)
    BY <1>3, <2>1, <2>2, <2>4, StartWaits DEF Waiting
  <2> QED BY <1>9, <2>3, <2>4 DEF AddToQueue
<1>10. CASE LoopFirst(p)
  <2>1. /\ pc[p] = "loopFirst" /\ pc'[p] = "next" /\ Others(p) /\ Queue' = Queue
        /\ Loop' = [Loop EXCEPT ![local[p].song] = 1]
    BY <1>2, <1>10 DEF LoopFirst, Labels
  <2>2. local[p].song = Head(Queue) /\ DOMAIN Loop = Tracks
    BY <1>1, <1>5, <2>1 DEF StartAt, Bringing, ChatTypeOK
  <2>3. Loop'[Head(Queue')] > 0
    BY <1>6, <2>1, <2>2 DEF Bringing
  <2> QED BY <1>6, <2>1, <2>3, StartBrings DEF StartAt, Bringing, Waiting
<1>11. CASE ReadLoop(p)
  <2>1. /\ pc[p] = "next" /\ Queue' = Queue
        /\ Goto(p, IF GetLoopCount > 0 THEN "replay" ELSE "upcoming", WithCount(p, GetLoopCount))
    BY <1>11 DEF ReadLoop
  <2>2. GetLoopCount > 0
    BY <1>5, <1>6, <2>1 DEF StartAt, Bringing, GetLoopCount
  <2>3. pc'[p] = "replay" /\ Others(p)
    BY <1>4, <2>1, <2>2
  <2> QED BY <1>6, <2>1, <2>3, StartBrings DEF StartAt, Bringing, Waiting
<1>12. CASE LowerLoop(p)
  <2>1. pc[p] = "replay" /\ pc'[p] = "current" /\ Others(p) /\ Queue' = Queue
    BY <1>2, <1>12 DEF LowerLoop, SetLoopCount, Labels
  <2> QED BY <1>6, <2>1, StartBrings DEF StartAt, Bringing, Waiting
<1>13. CASE ReadCurrent(p)
  <2>1. pc[p] = "current" /\ Queue' = Queue
    BY <1>13 DEF ReadCurrent
  <2>2. Queue # <<>>
    BY <1>6, <2>1 DEF Bringing
  <2>3. pc'[p] = "send" /\ local'[p].song = Head(Queue) /\ Others(p)
    BY <1>1, <1>4, <1>13, <2>2, Fields DEF ReadCurrent, IsActive, GetPlayingTrack
  <2> QED BY <1>6, <2>1, <2>3, StartBrings DEF StartAt, Bringing, Waiting
<1>14. CASE \/ Downloaded(p) \/ DownloadFailed(p) \/ Announced(p) \/ AnnounceFailed(p)
            \/ ReadFilePath(p) \/ Fetched(p) \/ FetchFailed(p)
  <2>1. pc[p] \in {"download", "send", "fetch", "fetching"} /\ Queue' = Queue
    BY <1>14 DEF Downloaded, DownloadFailed, Announced, AnnounceFailed, ReadFilePath, Fetched,
                 FetchFailed
  <2>2. pc'[p] \in {"start", "fetch", "fetching", "play"} /\ local'[p] = local[p] /\ Others(p)
    BY <1>2, <1>14 DEF Downloaded, DownloadFailed, Announced, AnnounceFailed, ReadFilePath,
                       Fetched, FetchFailed, Labels
  <2>3. local'[p].song = Head(Queue')
    BY <1>5, <2>1, <2>2 DEF StartAt, Bringing
  <2> QED BY <1>6, <2>1, <2>2, <2>3, StartBrings DEF StartAt, Bringing, Waiting
<1>15. CASE MediaStarted(p)
  <2>1. /\ pc[p] \in MediaLabels /\ Queue' = Queue /\ stream' = local[p].song /\ pc'[p] = "idle"
        /\ Others(p)
    BY <1>3, <1>15 DEF MediaStarted
  <2>2. pc[p] \in {"start", "play"}
    BY <1>5, <2>1 DEF MediaLabels, Waiting, Bringing
  <2>3. stream' = Head(Queue')
    BY <1>5, <2>1, <2>2 DEF StartAt, Bringing
  <2> QED BY <1>6, <2>1, <2>2, <2>3, StartBrings DEF StartAt, Bringing, Waiting
<1>16. CASE \/ SkipCommand(p) \/ StopCommand(p) \/ LoopCommand(p) \/ SeekCommand(p) \/ StreamEnd(p)
            \/ MediaFailed(p)
  BY <1>16 DEF SkipCommand, StopCommand, LoopCommand, SeekCommand, StreamEnd, MediaFailed
<1>17. CASE \/ AddToFront(p) \/ Undo(p) \/ ReadUpcoming(p) \/ Advance(p) \/ Drain(p) \/ ReadSeed(p)
            \/ ReadAutoplay(p) \/ Recommended(p) \/ NoRecommendation(p) \/ AutoplayOff(p)
            \/ Clear(p) \/ HangUp(p) \/ HangUpFails(p) \/ StoreLoop(p) \/ ReadPosition(p)
  <2>1. pc[p] \notin Waiting \cup Bringing
    BY <1>17 DEF AddToFront, Undo, ReadUpcoming, Advance, Drain, ReadSeed, ReadAutoplay,
                 Recommended, NoRecommendation, AutoplayOff, Clear, HangUp, HangUpFails, StoreLoop,
                 ReadPosition, Waiting, Bringing
  <2> QED BY <1>5, <2>1
<1> QED BY <1>7, <1>8, <1>9, <1>10, <1>11, <1>12, <1>13, <1>14, <1>15, <1>16, <1>17
        DEF Command, Step

LEMMA StartInvariant ==
    ASSUME Ops \subseteq {"play", "remove", "autoplay"}, Faults \subseteq {"search"}
    PROVE  Spec => []StartInv
<1>1. Init => StartInv
  BY DEF Init, ChatInit, StartInv, StartAt, Waiting, Bringing
<1>2. TypeInv /\ StartInv /\ [Next]_vars => StartInv'
  <2> SUFFICES ASSUME TypeInv, StartInv, [Next]_vars PROVE StartInv'
    OBVIOUS
  <2>1. ASSUME NEW p \in Procs, Command(p) \/ Step(p) \/ StreamEnd(p) PROVE StartInv'
    BY <2>1, StartStep
  <2>2. CASE UNCHANGED vars
    BY <2>2 DEF StartInv, StartAt, chatVars, vars
  <2> QED BY <2>1, <2>2 DEF Next, ChatCleared, CallDiscarded, Collected
<1> QED BY <1>1, <1>2, TypeInvariant, PTL DEF Spec

\* However many requests, removals and toggles overlap, one goroutine brings
\* the head of the queue to the air and none when the queue is empty.
THEOREM OneStarts ==
    ASSUME Ops \subseteq {"play", "remove", "autoplay"}, Faults \subseteq {"search"}
    PROVE  Spec => []OneDriver
<1>1. StartInv => OneDriver
  BY DEF StartInv, OneDriver, Driving, Waiting, Bringing
<1> QED BY <1>1, StartInvariant, PTL

\* However many requests, removals and toggles overlapped, the chat is playing
\* the head of its queue once they have returned.
THEOREM HeadStreamsConcurrently ==
    ASSUME Ops \subseteq {"play", "remove", "autoplay"}, Faults \subseteq {"search"}
    PROVE  Spec => []HeadIsStreaming
<1>1. StartInv => HeadIsStreaming
  BY DEF StartInv, HeadIsStreaming, AllIdle, At, Waiting
<1> QED BY <1>1, StartInvariant, PTL

=============================================================================
