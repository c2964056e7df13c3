---------------------------- MODULE PlaybackProof ----------------------------
(***************************************************************************)
(* Theorems about Playback for every number of goroutines and tracks, and  *)
(* whatever commands, events and faults occur: types, the bound on the     *)
(* queue's length, and where a track can be.                               *)
(***************************************************************************)
EXTENDS Playback, TLAPS, SequenceTheorems, FiniteSetTheorems

-----------------------------------------------------------------------------
\* What a goroutine's local variables hold at each label.

SongLabels == {"download", "start", "loopFirst", "advance", "send", "fetch", "fetching", "play",
               "position", "seek"}

Fits(label, l) ==
    /\ label \in {"add", "addFront"} => Len(l.todo) \in 1..MaxBatch /\ l.count \in 1..Len(l.todo)
    /\ label = "add" => l.count = Len(l.todo)
    /\ label = "replay" => l.count \in 1..MaxLoop
    /\ label = "loop" => l.count \in 0..MaxLoop
    /\ label = "remove" => l.count # 0
    /\ label \in SongLabels => l.song \in Tracks

LocalsFit == \A p \in Procs : Fits(pc[p], local[p])

PcTypeOK == pc \in [Procs -> Labels] /\ local \in [Procs -> Locals] /\ LocalsFit

RestTypeOK ==
    /\ used \subseteq Tracks
    /\ stream \in Tracks \cup {None}
    /\ halted \in BOOLEAN
    /\ survivor \in Tracks \cup {None}
    /\ tried \subseteq Tracks

\* The inductive strengthening of TypeOK.
TypeInv == ChatTypeOK /\ PcTypeOK /\ RestTypeOK

\* The queue operations keep ChatData well typed.
LEMMA ChatOpsType ==
    ASSUME ChatTypeOK
    PROVE  /\ \A ts \in Seq(Tracks) : AddSongs(ts) => ChatTypeOK'
           /\ \A t \in Tracks : AddSong(t) => ChatTypeOK'
           /\ \A t \in Tracks : AddSongToFront(t) => ChatTypeOK'
           /\ RemoveCurrentSong => ChatTypeOK'
           /\ \A index \in Nat \ {0} : RemoveTrack(index) => ChatTypeOK'
           /\ \A state \in BOOLEAN : SetAutoplay(state) => ChatTypeOK'
           /\ \A loop \in 0..MaxLoop : SetLoopCount(loop) => ChatTypeOK'
           /\ ClearChat => ChatTypeOK'
           /\ UNCHANGED chatVars => ChatTypeOK'
<1> USE ChatQueueAssumption DEF ChatTypeOK
<1>1. \A ts \in Seq(Tracks) : AddSongs(ts) => ChatTypeOK'
  BY ConcatProperties DEF AddSongs
<1>2. ASSUME NEW t \in Tracks, AddSong(t) PROVE ChatTypeOK'
  <2>1. <<t>> \in Seq(Tracks)
    OBVIOUS
  <2> QED BY <1>1, <1>2, <2>1 DEF AddSong
<1>3. \A t \in Tracks : AddSongToFront(t) => ChatTypeOK'
  BY HeadTailProperties, ConcatProperties DEF AddSongToFront
<1>4. RemoveCurrentSong => ChatTypeOK'
  BY HeadTailProperties DEF RemoveCurrentSong, IsActive
<1>5. ASSUME NEW index \in Nat \ {0}, RemoveTrack(index) PROVE ChatTypeOK'
  <2>1. CASE index < Len(Queue)
    <3>1. Queue \in Seq(Tracks) /\ index \in Int /\ Len(Queue) \in Nat
      OBVIOUS
    <3>2. SubSeq(Queue, 1, index) \in Seq(Tracks)
      BY <2>1, <3>1, ElementOfSeq, SubSeqProperties
    <3>3. SubSeq(Queue, index + 2, Len(Queue)) \in Seq(Tracks)
      BY <2>1, <3>1, ElementOfSeq, SubSeqProperties
    <3>4. Queue' = SubSeq(Queue, 1, index) \o SubSeq(Queue, index + 2, Len(Queue))
      <4>1. /\ Queue' = SubSeq(Queue, 1, (index + 1) - 1)
                         \o SubSeq(Queue, (index + 1) + 1, Len(Queue))
        BY <1>5, <2>1 DEF RemoveTrack, RemoveAt
      <4>2. (index + 1) - 1 = index /\ (index + 1) + 1 = index + 2
        OBVIOUS
      <4> QED BY <4>1, <4>2
    <3>5. Queue' \in Seq(Tracks)
      BY <3>2, <3>3, <3>4, ConcatProperties
    <3> QED BY <1>5, <3>5 DEF RemoveTrack
  <2>2. CASE ~(index < Len(Queue))
    BY <1>5, <2>2 DEF RemoveTrack
  <2> QED BY <2>1, <2>2
<1>6. \A state \in BOOLEAN : SetAutoplay(state) => ChatTypeOK'
  BY DEF SetAutoplay
<1>7. \A loop \in 0..MaxLoop : SetLoopCount(loop) => ChatTypeOK'
  BY DEF SetLoopCount
<1>8. ClearChat => ChatTypeOK'
  BY EmptySeq DEF ClearChat
<1>9. UNCHANGED chatVars => ChatTypeOK'
  BY DEF chatVars
<1> QED BY <1>1, <1>2, <1>3, <1>4, <1>5, <1>6, <1>7, <1>8, <1>9

\* A goroutine that moves to a label its new local variables fit leaves pc
\* and local well typed.
LEMMA GotoType ==
    ASSUME PcTypeOK, NEW p \in Procs, NEW label \in Labels, NEW l \in Locals,
           Fits(label, l), Goto(p, label, l)
    PROVE  PcTypeOK'
BY DEF PcTypeOK, LocalsFit, Goto

\* The moves that need no more than the label's name.
FreeLabels == Labels \ ({"add", "addFront", "replay", "loop", "remove"} \cup SongLabels)

LEMMA JumpType ==
    ASSUME PcTypeOK, NEW p \in Procs
    PROVE  /\ \A label \in FreeLabels : Jump(p, label) => PcTypeOK'
           /\ \A label \in SongLabels :
                local[p].song \in Tracks /\ Jump(p, label) => PcTypeOK'
           /\ Return(p) => PcTypeOK'
<1>1. local[p] \in Locals /\ Fresh \in Locals /\ SongLabels \subseteq Labels
  BY EmptySeq DEF PcTypeOK, Locals, Fresh, SongLabels, Labels
<1>2. \A label \in FreeLabels : label \in Labels /\ Fits(label, local[p])
  BY DEF Fits, FreeLabels, SongLabels, Labels
<1>3. \A label \in SongLabels : local[p].song \in Tracks => Fits(label, local[p])
  BY DEF Fits, SongLabels
<1>4. "idle" \in Labels /\ Fits("idle", Fresh)
  BY DEF Fits, SongLabels, Labels
<1>5. ASSUME NEW label \in FreeLabels, Jump(p, label) PROVE PcTypeOK'
  BY <1>1, <1>2, <1>5, GotoType DEF Jump
<1>6. ASSUME NEW label \in SongLabels, local[p].song \in Tracks, Jump(p, label)
      PROVE  PcTypeOK'
  BY <1>1, <1>3, <1>6, GotoType DEF Jump
<1>7. ASSUME Return(p) PROVE PcTypeOK'
  BY <1>1, <1>4, <1>7, GotoType DEF Return
<1> QED BY <1>5, <1>6, <1>7

LEMMA WithType ==
    ASSUME PcTypeOK, NEW p \in Procs
    PROVE  /\ \A t \in Tracks \cup {None} :
                WithSong(p, t) \in Locals /\ WithSong(p, t).song = t
           /\ \A n \in Nat : WithCount(p, n) \in Locals /\ WithCount(p, n).count = n
                                /\ WithCount(p, n).todo = local[p].todo
           /\ \A t \in Tracks \cup {None} :
                /\ [local[p] EXCEPT !.skips = t] \in Locals
                /\ [Fresh EXCEPT !.skips = t] \in Locals
                /\ [Fresh EXCEPT !.song = t] \in Locals
                /\ [Fresh EXCEPT !.song = t].song = t
BY EmptySeq DEF PcTypeOK, Locals, WithSong, WithCount, Fresh

\* A goroutine that takes a track in hand.
LEMMA SongType ==
    ASSUME PcTypeOK, NEW p \in Procs, NEW t \in Tracks, NEW label \in SongLabels,
           Goto(p, label, WithSong(p, t))
    PROVE  PcTypeOK'
<1>1. WithSong(p, t) \in Locals /\ WithSong(p, t).song = t
  BY WithType
<1>2. Fits(label, WithSong(p, t)) /\ label \in Labels
  BY <1>1 DEF Fits, SongLabels, Labels
<1> QED BY <1>1, <1>2, GotoType

-----------------------------------------------------------------------------
\* Type correctness, one step per action.

LEMMA RequestType ==
    ASSUME TypeInv, NEW p \in Procs,
           \/ PlayRequest(p) \/ Found(p) \/ NotFound(p) \/ AddToQueue(p) \/ AddToFront(p)
           \/ LoopFirst(p) \/ Downloaded(p) \/ DownloadFailed(p) \/ Undo(p)
    PROVE  TypeInv'
<1> USE ChatQueueAssumption, PlaybackAssumption DEF unqueued, At, TypeInv
<1>1. ChatTypeOK /\ PcTypeOK /\ RestTypeOK /\ Fits(pc[p], local[p]) /\ local[p] \in Locals
  BY DEF PcTypeOK, LocalsFit
<1>2. ASSUME NEW todo \in Seq(Tracks), todo # <<>>, StartFirst(p, todo)
      PROVE  PcTypeOK' /\ tried' \subseteq Tracks
  <2>1. Head(todo) \in Tracks
    BY <1>2, HeadTailProperties
  <2>2. PICK label \in {"download", "loopFirst"} :
           /\ Goto(p, label, [Fresh EXCEPT !.song = Head(todo)])
           /\ tried' = IF label = "download" THEN tried \cup {Head(todo)} ELSE tried
    BY <1>2 DEF StartFirst
  <2>3. [Fresh EXCEPT !.song = Head(todo)] \in Locals
        /\ [Fresh EXCEPT !.song = Head(todo)].song = Head(todo)
    BY <1>1, <2>1, WithType
  <2>4. Fits(label, [Fresh EXCEPT !.song = Head(todo)]) /\ label \in Labels
    BY <2>1, <2>3 DEF Fits, Labels
  <2> QED BY <1>1, <2>1, <2>2, <2>3, <2>4, GotoType DEF RestTypeOK
<1>3. CASE PlayRequest(p)
  <2>1. Jump(p, "search") /\ "search" \in FreeLabels
    BY <1>3 DEF PlayRequest, FreeLabels, SongLabels, Labels
  <2> QED BY <1>1, <1>3, <2>1, JumpType, ChatOpsType DEF PlayRequest, RestTypeOK
<1>4. CASE Found(p)
  <2>1. PICK n \in 1..MaxBatch : \E ts0 \in [1..n -> Tracks \ used] :
           /\ Allocate(ts0)
           /\ \E label \in {"add", "addFront"} :
                Goto(p, label, Request(ts0))
    BY <1>4 DEF Found
  <2>11. PICK ts \in [1..n -> Tracks \ used] :
           /\ used' = used \cup {ts[i] : i \in DOMAIN ts}
           /\ \E label \in {"add", "addFront"} :
                Goto(p, label, Request(ts))
    BY <2>1 DEF Allocate
  <2>2. ts \in Seq(Tracks) /\ Len(ts) = n /\ n \in Nat
    OBVIOUS
  <2>3. PICK label \in {"add", "addFront"} :
           Goto(p, label, Request(ts))
    BY <2>11
  <2>4. Request(ts) \in Locals /\ Request(ts).todo = ts /\ Request(ts).count = n
    BY <2>2 DEF Request, Locals
  <2>5. Fits(label, Request(ts)) /\ label \in Labels
    BY <2>2, <2>4 DEF Fits, SongLabels, Labels
  <2>6. PcTypeOK'
    BY <1>1, <2>3, <2>4, <2>5, GotoType
  <2> QED BY <1>1, <1>4, <2>11, <2>6, ChatOpsType DEF Found, RestTypeOK
<1>5. CASE NotFound(p)
  BY <1>1, <1>5, JumpType, ChatOpsType DEF NotFound, RestTypeOK
<1>6. CASE AddToQueue(p)
  <2>1. local[p].todo \in Seq(Tracks) /\ local[p].todo # <<>>
    BY <1>1, <1>6 DEF AddToQueue, Fits, Locals
  <2>2. ChatTypeOK'
    BY <1>1, <1>6, <2>1, ChatOpsType DEF AddToQueue
  <2>3. PcTypeOK' /\ tried' \subseteq Tracks
    BY <1>1, <1>2, <1>6, <2>1, JumpType DEF AddToQueue, RestTypeOK
  <2> QED BY <1>1, <1>6, <2>2, <2>3 DEF AddToQueue, RestTypeOK
<1>7. CASE AddToFront(p)
  <2> DEFINE todo == local[p].todo
             n == local[p].count
  <2>1. todo \in Seq(Tracks) /\ todo # <<>> /\ n \in 1..Len(todo) /\ Len(todo) \in 1..MaxBatch
    BY <1>1, <1>7 DEF AddToFront, Fits, Locals
  <2>2. ChatTypeOK'
    BY <1>1, <1>7, <2>1, ElementOfSeq, ChatOpsType DEF AddToFront
  <2>3. CASE n > 1 /\ Goto(p, "addFront", WithCount(p, n - 1)) /\ UNCHANGED tried
    <3>0. n - 1 \in Nat
      BY <2>1, <2>3
    <3>1. WithCount(p, n - 1) \in Locals /\ WithCount(p, n - 1).count = n - 1
          /\ WithCount(p, n - 1).todo = todo
      BY <1>1, <3>0, WithType
    <3>2. Fits("addFront", WithCount(p, n - 1)) /\ "addFront" \in Labels
      BY <2>1, <2>3, <3>1 DEF Fits, SongLabels, Labels
    <3> QED BY <1>1, <1>7, <2>2, <2>3, <3>1, <3>2, GotoType
            DEF AddToFront, RestTypeOK
  <2>4. CASE Queue # <<>> /\ Goto(p, "next", [Fresh EXCEPT !.skips = Head(Queue)])
             /\ UNCHANGED tried
    <3>1. [Fresh EXCEPT !.skips = Head(Queue)] \in Locals
      BY <1>1, <2>4, HeadTailProperties, WithType DEF ChatTypeOK
    <3>2. Fits("next", [Fresh EXCEPT !.skips = Head(Queue)]) /\ "next" \in Labels
      BY DEF Fits, SongLabels, Labels
    <3> QED BY <1>1, <1>7, <2>2, <2>4, <3>1, <3>2, GotoType
            DEF AddToFront, RestTypeOK
  <2>5. CASE StartFirst(p, todo)
    BY <1>1, <1>2, <1>7, <2>1, <2>2, <2>5 DEF AddToFront, RestTypeOK
  <2>6. CASE Return(p) /\ UNCHANGED tried
    BY <1>1, <1>7, <2>2, <2>6, JumpType DEF AddToFront, RestTypeOK
  <2>7. Len(Queue) + 1 - Len(todo) > 0 => Queue # <<>>
    <3>1. Len(todo) >= 1 /\ Len(todo) \in Int
      BY <2>1
    <3> HIDE DEF todo
    <3> QED BY <3>1
  <2> QED BY <1>7, <2>3, <2>4, <2>5, <2>6, <2>7 DEF AddToFront
<1>8. CASE LoopFirst(p)
  <2>1. ChatTypeOK'
    <3>1. Loop' = [Loop EXCEPT ![local[p].song] = 1] /\ 1 \in 0..MaxLoop
          /\ UNCHANGED <<Queue, Autoplay, LastYouTubeTrack>>
      BY <1>8 DEF LoopFirst
    <3> QED BY <1>1, <3>1 DEF ChatTypeOK
  <2>2. Jump(p, "next") /\ "next" \in FreeLabels
    BY <1>8 DEF LoopFirst, FreeLabels, SongLabels, Labels
  <2> QED BY <1>1, <1>8, <2>1, <2>2, JumpType DEF LoopFirst, RestTypeOK
<1>9. CASE Downloaded(p)
  <2>1. Jump(p, "start") /\ "start" \in SongLabels /\ local[p].song \in Tracks
    BY <1>1, <1>9 DEF Downloaded, Fits, SongLabels
  <2> QED BY <1>1, <1>9, <2>1, JumpType, ChatOpsType DEF Downloaded, RestTypeOK
<1>10. CASE DownloadFailed(p)
  <2>1. Jump(p, "undo") /\ "undo" \in FreeLabels
    BY <1>10 DEF DownloadFailed, FreeLabels, SongLabels, Labels
  <2> QED BY <1>1, <1>10, <2>1, JumpType, ChatOpsType
          DEF DownloadFailed, RestTypeOK
<1>11. CASE Undo(p)
  BY <1>1, <1>11, JumpType, ChatOpsType DEF Undo, RestTypeOK
<1> QED BY <1>3, <1>4, <1>5, <1>6, <1>7, <1>8, <1>9, <1>10, <1>11

LEMMA PlayNextType ==
    ASSUME TypeInv, NEW p \in Procs,
           \/ MediaStarted(p) \/ MediaFailed(p)
           \/ ReadLoop(p) \/ LowerLoop(p) \/ ReadCurrent(p) \/ ReadUpcoming(p) \/ Advance(p)
           \/ Drain(p) \/ ReadSeed(p) \/ ReadAutoplay(p) \/ Recommended(p)
           \/ NoRecommendation(p)
    PROVE  TypeInv'
<1> USE ChatQueueAssumption DEF unqueued, At, TypeInv
<1>1. ChatTypeOK /\ PcTypeOK /\ RestTypeOK /\ Fits(pc[p], local[p]) /\ local[p] \in Locals
  BY DEF PcTypeOK, LocalsFit
<1>2. {"undo", "current", "upcoming", "drain", "seed", "mix", "recommend", "stop"}
        \subseteq FreeLabels
      /\ MediaLabels \cup {"advance", "send"} \subseteq SongLabels
  BY DEF FreeLabels, SongLabels, Labels, MediaLabels
<1>3. CASE MediaStarted(p)
  <2>1. local[p].song \in Tracks
    BY <1>1, <1>2, <1>3 DEF MediaStarted, Fits
  <2> QED BY <1>1, <1>3, <2>1, JumpType, ChatOpsType DEF MediaStarted, RestTypeOK
<1>4. CASE MediaFailed(p)
  <2>1. local[p].song \in Tracks /\ pc[p] \in SongLabels
    BY <1>1, <1>2, <1>4 DEF MediaFailed, Fits
  <2>2. PcTypeOK'
    BY <1>1, <1>2, <1>4, <2>1, JumpType DEF MediaFailed
  <2> QED BY <1>1, <1>4, <2>2, ChatOpsType DEF MediaFailed, RestTypeOK
<1>5. CASE ReadLoop(p)
  <2>1. GetLoopCount \in 0..MaxLoop
    BY <1>1, HeadTailProperties DEF GetLoopCount, ChatTypeOK
  <2>2. WithCount(p, GetLoopCount) \in Locals /\ WithCount(p, GetLoopCount).count = GetLoopCount
    BY <1>1, <2>1, WithType
  <2>3. CASE GetLoopCount > 0 /\ Goto(p, "replay", WithCount(p, GetLoopCount))
    <3>1. Fits("replay", WithCount(p, GetLoopCount)) /\ "replay" \in Labels
      BY <2>1, <2>2, <2>3 DEF Fits, SongLabels, Labels
    <3> QED BY <1>1, <1>5, <2>2, <2>3, <3>1, GotoType, ChatOpsType DEF ReadLoop, RestTypeOK
  <2>4. CASE Goto(p, "upcoming", WithCount(p, GetLoopCount))
    <3>1. Fits("upcoming", WithCount(p, GetLoopCount)) /\ "upcoming" \in Labels
      BY DEF Fits, SongLabels, Labels
    <3> QED BY <1>1, <1>5, <2>2, <2>4, <3>1, GotoType, ChatOpsType DEF ReadLoop, RestTypeOK
  <2> QED BY <1>5, <2>3, <2>4 DEF ReadLoop
<1>6. CASE LowerLoop(p)
  <2>1. local[p].count - 1 \in 0..MaxLoop
    BY <1>1, <1>6 DEF LowerLoop, Fits
  <2> QED BY <1>1, <1>2, <1>6, <2>1, JumpType, ChatOpsType DEF LowerLoop, RestTypeOK
<1>7. CASE ReadCurrent(p)
  <2>1. CASE IsActive /\ Goto(p, "send", WithSong(p, GetPlayingTrack))
    <3>1. GetPlayingTrack \in Tracks
      BY <1>1, <2>1, HeadTailProperties DEF GetPlayingTrack, IsActive, ChatTypeOK
    <3> QED BY <1>1, <1>2, <1>7, <2>1, <3>1, SongType, ChatOpsType DEF ReadCurrent, RestTypeOK
  <2>2. CASE Jump(p, "upcoming")
    BY <1>1, <1>2, <1>7, <2>2, JumpType, ChatOpsType DEF ReadCurrent, RestTypeOK
  <2> QED BY <1>7, <2>1, <2>2 DEF ReadCurrent
<1>8. CASE ReadUpcoming(p)
  <2>1. CASE GetUpcomingTrack # None /\ Goto(p, "advance", WithSong(p, GetUpcomingTrack))
    <3>1. GetUpcomingTrack \in Tracks
      BY <1>1, <2>1, ElementOfSeq DEF GetUpcomingTrack, ChatTypeOK
    <3> QED BY <1>1, <1>2, <1>8, <2>1, <3>1, SongType, ChatOpsType DEF ReadUpcoming, RestTypeOK
  <2>2. CASE Jump(p, "drain")
    BY <1>1, <1>2, <1>8, <2>2, JumpType, ChatOpsType DEF ReadUpcoming, RestTypeOK
  <2> QED BY <1>8, <2>1, <2>2 DEF ReadUpcoming
<1>9. CASE Advance(p)
  <2>1. local[p].song \in Tracks
    BY <1>1, <1>9 DEF Advance, Fits, SongLabels
  <2> QED BY <1>1, <1>2, <1>9, <2>1, JumpType, ChatOpsType DEF Advance, RestTypeOK
<1>10. CASE Drain(p)
  BY <1>1, <1>2, <1>10, JumpType, ChatOpsType DEF Drain, RestTypeOK
<1>11. CASE ReadSeed(p)
  BY <1>1, <1>2, <1>11, JumpType, ChatOpsType DEF ReadSeed, RestTypeOK
<1>12. CASE ReadAutoplay(p)
  BY <1>1, <1>2, <1>12, JumpType, ChatOpsType DEF ReadAutoplay, RestTypeOK
<1>13. CASE Recommended(p)
  <2>1. PICK t \in YouTube \ used :
           Allocate(<<t>>) /\ AddSong(t) /\ Goto(p, "send", WithSong(p, t))
    BY <1>13 DEF Recommended
  <2>2. used' \subseteq Tracks
    <3>1. used' = used \cup {<<t>>[i] : i \in DOMAIN <<t>>}
      BY <2>1 DEF Allocate
    <3>2. \A i \in DOMAIN <<t>> : <<t>>[i] = t
      OBVIOUS
    <3> QED BY <1>1, <3>1, <3>2 DEF RestTypeOK
  <2>3. t \in Tracks
    OBVIOUS
  <2> QED BY <1>1, <1>2, <1>13, <2>1, <2>2, <2>3, SongType, ChatOpsType DEF Recommended, RestTypeOK
<1>14. CASE NoRecommendation(p)
  BY <1>1, <1>2, <1>14, JumpType, ChatOpsType DEF NoRecommendation, RestTypeOK
<1> QED BY <1>3, <1>4, <1>5, <1>6, <1>7, <1>8, <1>9, <1>10, <1>11, <1>12, <1>13, <1>14

LEMMA PlayStopType ==
    ASSUME TypeInv, NEW p \in Procs,
           \/ Announced(p) \/ AnnounceFailed(p) \/ ReadFilePath(p) \/ Fetched(p)
           \/ FetchFailed(p) \/ AutoplayOff(p) \/ Clear(p) \/ HangUp(p) \/ HangUpFails(p)
           \/ StopCommand(p) \/ StreamEnd(p)
    PROVE  TypeInv'
<1> USE DEF unqueued, At, TypeInv
<1>1. ChatTypeOK /\ PcTypeOK /\ RestTypeOK /\ Fits(pc[p], local[p]) /\ local[p] \in Locals
  BY DEF PcTypeOK, LocalsFit
<1>2. {"next", "stop", "clear", "hangUp"} \subseteq FreeLabels
      /\ {"send", "fetch", "fetching", "play"} \subseteq SongLabels
  BY DEF FreeLabels, SongLabels, Labels
<1>3. pc[p] \in SongLabels => local[p].song \in Tracks
  BY <1>1 DEF Fits
<1>4. CASE Announced(p)
  BY <1>1, <1>2, <1>3, <1>4, JumpType, ChatOpsType DEF Announced, RestTypeOK
<1>5. CASE AnnounceFailed(p)
  BY <1>1, <1>5, JumpType, ChatOpsType DEF AnnounceFailed, RestTypeOK
<1>6. CASE ReadFilePath(p)
  BY <1>1, <1>2, <1>3, <1>6, JumpType, ChatOpsType DEF ReadFilePath, RestTypeOK
<1>7. CASE Fetched(p)
  BY <1>1, <1>2, <1>3, <1>7, JumpType, ChatOpsType DEF Fetched, RestTypeOK
<1>8. CASE FetchFailed(p)
  BY <1>1, <1>2, <1>8, JumpType, ChatOpsType DEF FetchFailed, RestTypeOK
<1>9. CASE AutoplayOff(p)
  BY <1>1, <1>2, <1>9, JumpType, ChatOpsType DEF AutoplayOff, RestTypeOK
<1>10. CASE Clear(p)
  BY <1>1, <1>2, <1>10, JumpType, ChatOpsType DEF Clear, RestTypeOK
<1>11. CASE HangUp(p) \/ HangUpFails(p)
  BY <1>1, <1>11, JumpType, ChatOpsType DEF HangUp, HangUpFails, RestTypeOK
<1>12. CASE StopCommand(p)
  BY <1>1, <1>2, <1>12, JumpType, ChatOpsType DEF StopCommand, RestTypeOK
<1>13. CASE StreamEnd(p)
  BY <1>1, <1>2, <1>13, JumpType, ChatOpsType DEF StreamEnd, RestTypeOK
<1> QED BY <1>4, <1>5, <1>6, <1>7, <1>8, <1>9, <1>10, <1>11, <1>12, <1>13

LEMMA CommandType ==
    ASSUME TypeInv, NEW p \in Procs,
           \/ SkipCommand(p) \/ LoopCommand(p) \/ StoreLoop(p)
           \/ RemoveCommand(p) \/ RemoveNumbered(p)
           \/ AutoplayCommand(p) \/ ReadToggle(p) \/ StoreToggle(p)
           \/ SeekCommand(p) \/ ReadPosition(p)
    PROVE  TypeInv'
<1> USE ChatQueueAssumption DEF unqueued, At, TypeInv
<1>1. ChatTypeOK /\ PcTypeOK /\ RestTypeOK /\ Fits(pc[p], local[p]) /\ local[p] \in Locals
  BY DEF PcTypeOK, LocalsFit
<1>2. "toggle" \in FreeLabels /\ {"position", "seek"} \subseteq SongLabels
  BY DEF FreeLabels, SongLabels, Labels
<1>3. IsActive => Head(Queue) \in Tracks
  BY <1>1, HeadTailProperties DEF IsActive, ChatTypeOK
<1>4. \A label \in {"remove", "toggled"}, n \in Nat :
        n # 0 \/ label = "toggled" => (Goto(p, label, WithCount(p, n)) => PcTypeOK')
  <2> SUFFICES ASSUME NEW label \in {"remove", "toggled"}, NEW n \in Nat,
                      n # 0 \/ label = "toggled",
                      Goto(p, label, WithCount(p, n))
               PROVE  PcTypeOK'
    OBVIOUS
  <2>1. WithCount(p, n) \in Locals /\ WithCount(p, n).count = n
    BY <1>1, WithType
  <2>2. Fits(label, WithCount(p, n)) /\ label \in Labels
    BY <2>1 DEF Fits, SongLabels, Labels
  <2> QED BY <1>1, <2>1, <2>2, GotoType
<1>5. CASE SkipCommand(p)
  <2>1. [local[p] EXCEPT !.skips = GetPlayingTrack] \in Locals
    BY <1>1, <1>3, <1>5, WithType DEF SkipCommand, GetPlayingTrack, IsActive
  <2>2. Fits("next", [local[p] EXCEPT !.skips = GetPlayingTrack]) /\ "next" \in Labels
    BY DEF Fits, SongLabels, Labels
  <2> QED BY <1>1, <1>5, <2>1, <2>2, GotoType, ChatOpsType DEF SkipCommand, RestTypeOK
<1>6. CASE LoopCommand(p)
  <2>1. PICK n \in 0..MaxLoop : Goto(p, "loop", WithCount(p, n))
    BY <1>6 DEF LoopCommand
  <2>2. WithCount(p, n) \in Locals /\ WithCount(p, n).count = n
    BY <1>1, WithType
  <2>3. Fits("loop", WithCount(p, n)) /\ "loop" \in Labels
    BY <2>2 DEF Fits, SongLabels, Labels
  <2> QED BY <1>1, <1>6, <2>1, <2>2, <2>3, GotoType, ChatOpsType DEF LoopCommand, RestTypeOK
<1>7. CASE StoreLoop(p)
  <2>1. local[p].count \in 0..MaxLoop
    BY <1>1, <1>7 DEF StoreLoop, Fits
  <2> QED BY <1>1, <1>7, <2>1, JumpType, ChatOpsType DEF StoreLoop, RestTypeOK
<1>8. CASE RemoveCommand(p)
  <2>1. PICK n \in Nat \ {0} : Goto(p, "remove", WithCount(p, n))
    BY <1>1, <1>8 DEF RemoveCommand, ChatTypeOK
  <2> QED BY <1>1, <1>4, <1>8, <2>1, ChatOpsType DEF RemoveCommand, RestTypeOK
<1>9. CASE RemoveNumbered(p)
  <2>1. local[p].count \in Nat \ {0}
    BY <1>1, <1>9 DEF RemoveNumbered, Fits, Locals
  <2> QED BY <1>1, <1>9, <2>1, JumpType, ChatOpsType DEF RemoveNumbered, RestTypeOK
<1>10. CASE AutoplayCommand(p)
  BY <1>1, <1>2, <1>10, JumpType, ChatOpsType DEF AutoplayCommand, RestTypeOK
<1>11. CASE ReadToggle(p)
  BY <1>1, <1>4, <1>11, ChatOpsType DEF ReadToggle, RestTypeOK
<1>12. CASE StoreToggle(p)
  BY <1>1, <1>12, JumpType, ChatOpsType DEF StoreToggle, RestTypeOK
<1>13. CASE SeekCommand(p)
  <2>1. GetPlayingTrack \in Tracks
    BY <1>1, <1>3, <1>13 DEF SeekCommand, GetPlayingTrack, IsActive
  <2> QED BY <1>1, <1>2, <1>13, <2>1, SongType, ChatOpsType DEF SeekCommand, RestTypeOK
<1>14. CASE ReadPosition(p)
  <2>1. local[p].song \in Tracks
    BY <1>1, <1>2, <1>14 DEF ReadPosition, Fits
  <2> QED BY <1>1, <1>2, <1>14, <2>1, JumpType, ChatOpsType DEF ReadPosition, RestTypeOK
<1> QED BY <1>5, <1>6, <1>7, <1>8, <1>9, <1>10, <1>11, <1>12, <1>13, <1>14

LEMMA TypeStep == TypeInv /\ [Next]_vars => TypeInv'
<1> SUFFICES ASSUME TypeInv, [Next]_vars PROVE TypeInv'
  OBVIOUS
<1>1. CASE UNCHANGED vars
  <2>1. ChatTypeOK'
    BY <1>1, ChatOpsType DEF TypeInv, vars
  <2> QED BY <1>1, <2>1 DEF TypeInv, vars, PcTypeOK, LocalsFit, RestTypeOK
<1>2. ASSUME NEW p \in Procs, Command(p) \/ Step(p) \/ StreamEnd(p) PROVE TypeInv'
  BY <1>2, RequestType, PlayNextType, PlayStopType, CommandType DEF Command, Step
<1>3. CASE ChatCleared \/ CallDiscarded
  <2>1. ChatTypeOK'
    BY <1>3, ChatOpsType DEF TypeInv, ChatCleared, CallDiscarded
  <2> QED BY <1>3, <2>1
          DEF TypeInv, ChatCleared, CallDiscarded, PcTypeOK, LocalsFit, RestTypeOK, unqueued
<1>4. ASSUME NEW t \in Tracks, Collected(t) PROVE TypeInv'
  <2>1. Loop' \in [Tracks -> 0..MaxLoop]
    BY <1>4, ChatQueueAssumption DEF Collected, TypeInv, ChatTypeOK
  <2>2. ChatTypeOK'
    BY <1>4, <2>1 DEF Collected, TypeInv, ChatTypeOK
  <2> QED BY <1>4, <2>2 DEF Collected, TypeInv, PcTypeOK, LocalsFit, RestTypeOK
<1> QED BY <1>1, <1>2, <1>3, <1>4 DEF Next

LEMMA TypeInit == Init => TypeInv
<1> SUFFICES ASSUME Init PROVE TypeInv
  OBVIOUS
<1>1. ChatTypeOK
  <2>1. Queue \in Seq(Tracks)
    BY EmptySeq DEF Init, ChatInit
  <2>2. Loop \in [Tracks -> 0..MaxLoop]
    BY ChatQueueAssumption DEF Init, ChatInit
  <2> QED BY <2>1, <2>2 DEF Init, ChatInit, ChatTypeOK
<1>2. Fresh \in Locals /\ "idle" \in Labels /\ Fits("idle", Fresh)
  BY EmptySeq DEF Fresh, Locals, Labels, Fits, SongLabels
<1> QED BY <1>1, <1>2 DEF Init, TypeInv, PcTypeOK, LocalsFit, RestTypeOK

LEMMA TypeInvariant == Spec => []TypeInv
BY TypeInit, TypeStep, PTL DEF Spec

\* Every variable keeps its type whatever the handlers interleave, and a loop
\* count never leaves 0..MaxLoop although /loop's range check, the store and
\* PlayNext's decrement are three separate steps.
THEOREM TypeCorrect == Spec => []TypeOK
<1>1. TypeInv => TypeOK
  BY DEF TypeInv, PcTypeOK, RestTypeOK, TypeOK
<1> QED BY <1>1, TypeInvariant, PTL

-----------------------------------------------------------------------------
(***************************************************************************)
(* The queue's length is bounded although its limit is checked before the  *)
(* search and the tracks are added after it.                               *)
(*                                                                         *)
(* A handler past its length check holds a promise of tracks it will still *)
(* add: the largest batch while it searches, what is left of its request   *)
(* afterwards, one while PlayNext is on its way to autoplay.  Queue and    *)
(* promises together never exceed the bound: a promise is made only when   *)
(* the queue is below the limit, and every AddSong spends one.             *)
(***************************************************************************)
Single == {"drain", "seed", "mix", "recommend"}

\* What a handler at this label may still add.
DueAt(label, n) ==
    IF label = "search" THEN MaxBatch
    ELSE IF label \in {"add", "addFront"} THEN n
    ELSE IF label \in Single THEN 1 ELSE 0

Due(p) == DueAt(pc[p], local[p].count)

\* The promised tracks as a set, to be counted.
Slots == {s \in Procs \X (1..MaxBatch) : s[2] <= Due(s[1])}

BoundInv == Len(Queue) + Cardinality(Slots) < MaxQueueLength + MaxBatch * Cardinality(Procs)

-----------------------------------------------------------------------------
LEMMA DueBounded ==
    ASSUME TypeInv, NEW p \in Procs
    PROVE  Due(p) \in 0..MaxBatch
<1>1. Fits(pc[p], local[p]) /\ local[p] \in Locals
  BY DEF TypeInv, PcTypeOK, LocalsFit
<1>2. pc[p] \in {"add", "addFront"} => local[p].count \in 1..MaxBatch
  <2> SUFFICES ASSUME pc[p] \in {"add", "addFront"} PROVE local[p].count \in 1..MaxBatch
    OBVIOUS
  <2>1. Len(local[p].todo) \in 1..MaxBatch /\ local[p].count \in 1..Len(local[p].todo)
    BY <1>1 DEF Fits
  <2> QED BY <2>1, PlaybackAssumption
<1> QED BY <1>2, PlaybackAssumption DEF Due, DueAt

\* There are never more promises than goroutines times the largest batch.
LEMMA SlotsFinite ==
    /\ MaxBatch * Cardinality(Procs) \in Nat
    /\ IsFiniteSet(Procs \X (1..MaxBatch))
    /\ \A S \in SUBSET (Procs \X (1..MaxBatch)) :
         IsFiniteSet(S) /\ Cardinality(S) \in Nat /\ Cardinality(S) <= MaxBatch * Cardinality(Procs)
<1>1. IsFiniteSet(1..MaxBatch) /\ Cardinality(1..MaxBatch) = MaxBatch
  BY PlaybackAssumption, FS_Interval
<1>2. IsFiniteSet(Procs) /\ Cardinality(Procs) \in Nat
  BY PlaybackAssumption, FS_CardinalityType
<1>3. IsFiniteSet(Procs \X (1..MaxBatch))
      /\ Cardinality(Procs \X (1..MaxBatch)) = Cardinality(Procs) * MaxBatch
  BY <1>1, <1>2, FS_Product
<1>4. Cardinality(Procs) * MaxBatch = MaxBatch * Cardinality(Procs)
      /\ MaxBatch * Cardinality(Procs) \in Nat
  BY <1>2, PlaybackAssumption
<1>5. ASSUME NEW S \in SUBSET (Procs \X (1..MaxBatch))
      PROVE  IsFiniteSet(S) /\ Cardinality(S) \in Nat
             /\ Cardinality(S) <= MaxBatch * Cardinality(Procs)
  <2>1. IsFiniteSet(S) /\ Cardinality(S) <= Cardinality(Procs \X (1..MaxBatch))
    BY <1>3, FS_Subset
  <2>2. Cardinality(S) \in Nat
    BY <2>1, FS_CardinalityType
  <2> QED BY <1>3, <1>4, <2>1, <2>2
<1> QED BY <1>3, <1>4, <1>5

\* The change of one goroutine's promise.
LEMMA GotoDue ==
    ASSUME TypeInv, NEW p \in Procs, NEW label, NEW l, Goto(p, label, l)
    PROVE  /\ Due(p)' = DueAt(label, l.count)
           /\ \A q \in Procs : q # p => Due(q)' = Due(q)
BY DEF TypeInv, PcTypeOK, Goto, Due

LEMMA LessDue ==
    ASSUME TypeInv, NEW p \in Procs, NEW label, NEW l, Goto(p, label, l),
           DueAt(label, l.count) \in 0..Due(p)
    PROVE  Slots' \subseteq Slots
<1>1. \A q \in Procs : Due(q) \in Int
  BY DueBounded
<1>2. \A q \in Procs : Due(q)' \in Int /\ Due(q)' <= Due(q)
  BY <1>1, GotoDue
<1> QED BY <1>1, <1>2, PlaybackAssumption DEF Slots

\* The labels at which nothing is promised.
Owing == {"search", "add", "addFront"} \cup Single

LEMMA NoDue ==
    ASSUME TypeInv, NEW p \in Procs,
           \/ Return(p)
           \/ \E label \in Labels \ Owing : Jump(p, label)
           \/ \E label \in Labels \ Owing, l \in Locals : Goto(p, label, l)
    PROVE  Slots' \subseteq Slots
<1>1. PICK label \in Labels \ Owing, l \in {local[p], Fresh} \cup Locals : Goto(p, label, l)
  BY DEF Return, Jump, Owing, Single, Labels
<1>2. DueAt(label, l.count) = 0
  BY DEF DueAt, Owing, Single
<1> QED BY <1>1, <1>2, DueBounded, LessDue

LEMMA SameDue ==
    ASSUME TypeInv, NEW p \in Procs, pc[p] \in Single,
           \E label \in Single : Jump(p, label)
    PROVE  Slots' \subseteq Slots
<1>1. PICK label \in Single : Goto(p, label, local[p])
  BY DEF Jump
<1>2. DueAt(label, local[p].count) = 1 /\ Due(p) = 1
  BY DEF Due, DueAt, Single
<1> QED BY <1>1, <1>2, LessDue

\* No queue operation but the three that add makes the queue longer.
LEMMA NotLonger ==
    ASSUME ChatTypeOK,
           \/ RemoveCurrentSong \/ ClearChat \/ UNCHANGED chatVars
           \/ \E index \in Nat : RemoveTrack(index)
           \/ \E state \in BOOLEAN : SetAutoplay(state)
           \/ \E n \in Nat : SetLoopCount(n)
           \/ UNCHANGED Queue
    PROVE  Len(Queue') \in Nat /\ Len(Queue') <= Len(Queue)
<1>1. Queue \in Seq(Tracks) /\ Len(Queue) \in Nat
  BY DEF ChatTypeOK
<1>2. CASE RemoveCurrentSong
  BY <1>1, <1>2, HeadTailProperties DEF RemoveCurrentSong
<1>3. CASE ClearChat
  BY <1>1, <1>3 DEF ClearChat
<1>4. ASSUME NEW index \in Nat, RemoveTrack(index)
      PROVE  Len(Queue') \in Nat /\ Len(Queue') <= Len(Queue)
  <2>1. CASE index < Len(Queue)
    <3>1. index + 1 \in 1..Len(Queue)
      BY <1>1, <2>1
    <3>2. Queue' = RemoveAt(Queue, index + 1)
      BY <1>4, <2>1 DEF RemoveTrack
    <3>3. /\ SubSeq(Queue, 1, index) \in Seq(Tracks) /\ Len(SubSeq(Queue, 1, index)) = index
      BY <1>1, <2>1, ElementOfSeq, SubSeqProperties
    <3>4. /\ SubSeq(Queue, index + 2, Len(Queue)) \in Seq(Tracks)
          /\ Len(SubSeq(Queue, index + 2, Len(Queue))) = Len(Queue) - index - 1
      BY <1>1, <2>1, ElementOfSeq, SubSeqProperties
    <3>5. Queue' = SubSeq(Queue, 1, index) \o SubSeq(Queue, index + 2, Len(Queue))
      <4>1. Queue' = SubSeq(Queue, 1, (index + 1) - 1)
                       \o SubSeq(Queue, (index + 1) + 1, Len(Queue))
        BY <3>2 DEF RemoveAt
      <4>2. (index + 1) - 1 = index /\ (index + 1) + 1 = index + 2
        OBVIOUS
      <4> QED BY <4>1, <4>2
    <3>6. Len(Queue') = index + (Len(Queue) - index - 1)
      BY <3>3, <3>4, <3>5, ConcatProperties
    <3> QED BY <1>1, <2>1, <3>6
  <2>2. CASE ~(index < Len(Queue))
    BY <1>1, <1>4, <2>2 DEF RemoveTrack
  <2> QED BY <2>1, <2>2
<1>5. CASE UNCHANGED Queue
  BY <1>1, <1>5
<1> QED BY <1>2, <1>3, <1>4, <1>5 DEF chatVars, SetAutoplay, SetLoopCount

\* What a step that adds nothing and promises nothing does.
Quiet == Len(Queue') \in Nat /\ Len(Queue') <= Len(Queue) /\ Slots' \subseteq Slots

LEMMA QuietHandlers ==
    ASSUME TypeInv, NEW p \in Procs,
           \/ Found(p) \/ NotFound(p) \/ LoopFirst(p)
           \/ Downloaded(p) \/ DownloadFailed(p) \/ Undo(p)
           \/ MediaStarted(p) \/ MediaFailed(p)
           \/ ReadLoop(p) \/ LowerLoop(p) \/ ReadCurrent(p) \/ Advance(p)
           \/ Drain(p) \/ ReadSeed(p) \/ ReadAutoplay(p) \/ NoRecommendation(p)
    PROVE  Quiet
<1> USE DEF unqueued, At, Quiet
<1>1. ChatTypeOK /\ Fits(pc[p], local[p]) /\ local[p] \in Locals
  BY DEF TypeInv, PcTypeOK, LocalsFit
<1>2. /\ {"start", "undo", "next", "upcoming", "current", "send", "stop", "replay"}
           \subseteq Labels \ Owing
      /\ MediaLabels \subseteq Labels \ Owing
      /\ Single = {"drain", "seed", "mix", "recommend"}
  BY DEF Labels, Owing, Single, MediaLabels
<1>3. CASE Found(p)
  <2>10. PICK n \in 1..MaxBatch :
           \E ts0 \in [1..n -> Tracks \ used], label0 \in {"add", "addFront"} :
             Goto(p, label0, Request(ts0))
    BY <1>3 DEF Found
  <2>1. PICK ts \in [1..n -> Tracks \ used], label \in {"add", "addFront"} :
           Goto(p, label, Request(ts))
    BY <2>10
  <2>2. Len(ts) = n /\ Request(ts).count = Len(ts)
    BY DEF Request
  <2>3. DueAt(label, Request(ts).count) = n /\ Due(p) = MaxBatch
    BY <1>3, <2>2 DEF Found, Due, DueAt
  <2>4. Slots' \subseteq Slots
    BY <2>1, <2>3, LessDue
  <2> QED BY <1>1, <1>3, <2>4, NotLonger DEF Found
<1>4. CASE NotFound(p)
  BY <1>1, <1>4, NoDue, NotLonger DEF NotFound
<1>5. CASE LoopFirst(p)
  BY <1>1, <1>2, <1>5, NoDue, NotLonger DEF LoopFirst
<1>6. CASE Downloaded(p)
  BY <1>1, <1>2, <1>6, NoDue, NotLonger DEF Downloaded
<1>7. CASE DownloadFailed(p)
  BY <1>1, <1>2, <1>7, NoDue, NotLonger DEF DownloadFailed
<1>8. CASE Undo(p)
  BY <1>1, <1>8, NoDue, NotLonger DEF Undo
<1>9. CASE MediaStarted(p)
  BY <1>1, <1>9, NoDue, NotLonger DEF MediaStarted
<1>10. CASE MediaFailed(p)
  BY <1>1, <1>2, <1>10, NoDue, NotLonger DEF MediaFailed
<1>11. CASE ReadLoop(p)
  <2>1. GetLoopCount \in Nat
    BY <1>1, ChatQueueAssumption, HeadTailProperties DEF GetLoopCount, ChatTypeOK
  <2>2. WithCount(p, GetLoopCount) \in Locals
    BY <2>1, WithType DEF TypeInv
  <2> QED BY <1>1, <1>2, <1>11, <2>2, NoDue, NotLonger DEF ReadLoop
<1>12. CASE LowerLoop(p)
  <2>1. local[p].count - 1 \in Nat
    BY <1>1, <1>12 DEF LowerLoop, Fits
  <2> QED BY <1>1, <1>2, <1>12, <2>1, NoDue, NotLonger DEF LowerLoop
<1>13. CASE ReadCurrent(p)
  <2>1. IsActive => WithSong(p, GetPlayingTrack) \in Locals
    BY <1>1, WithType, HeadTailProperties DEF TypeInv, GetPlayingTrack, IsActive, ChatTypeOK
  <2> QED BY <1>1, <1>2, <1>13, <2>1, NoDue, NotLonger DEF ReadCurrent
<1>14. CASE Advance(p)
  BY <1>1, <1>2, <1>14, NoDue, NotLonger DEF Advance
<1>15. CASE Drain(p)
  BY <1>1, <1>2, <1>15, SameDue, NotLonger DEF Drain
<1>16. CASE ReadSeed(p)
  BY <1>1, <1>2, <1>16, SameDue, NoDue, NotLonger DEF ReadSeed
<1>17. CASE ReadAutoplay(p)
  BY <1>1, <1>2, <1>17, SameDue, NoDue, NotLonger DEF ReadAutoplay
<1>18. CASE NoRecommendation(p)
  BY <1>1, <1>2, <1>18, NoDue, NotLonger DEF NoRecommendation
<1> QED BY <1>3, <1>4, <1>5, <1>6, <1>7, <1>8, <1>9, <1>10, <1>11, <1>12, <1>13, <1>14,
           <1>15, <1>16, <1>17, <1>18

LEMMA QuietCommands ==
    ASSUME TypeInv, NEW p \in Procs,
           \/ Announced(p) \/ AnnounceFailed(p) \/ ReadFilePath(p) \/ Fetched(p)
           \/ FetchFailed(p) \/ AutoplayOff(p) \/ Clear(p) \/ HangUp(p) \/ HangUpFails(p)
           \/ StopCommand(p) \/ StreamEnd(p) \/ SkipCommand(p)
           \/ LoopCommand(p) \/ StoreLoop(p) \/ RemoveCommand(p) \/ RemoveNumbered(p)
           \/ AutoplayCommand(p) \/ ReadToggle(p) \/ StoreToggle(p)
           \/ SeekCommand(p) \/ ReadPosition(p)
    PROVE  Quiet
<1> USE DEF unqueued, At, Quiet
<1>1. /\ ChatTypeOK /\ PcTypeOK /\ Fits(pc[p], local[p]) /\ local[p] \in Locals
      /\ IsActive => Head(Queue) \in Tracks
  BY HeadTailProperties DEF TypeInv, PcTypeOK, LocalsFit, IsActive, ChatTypeOK
<1>2. {"fetch", "fetching", "play", "next", "clear", "hangUp", "stop", "loop", "remove",
       "toggle", "toggled", "position", "seek"} \subseteq Labels \ Owing
  BY DEF Labels, Owing, Single
<1>3. \A n \in Nat : WithCount(p, n) \in Locals
  BY <1>1, WithType
<1>4. CASE Announced(p)
  BY <1>1, <1>2, <1>4, NoDue, NotLonger DEF Announced
<1>5. CASE AnnounceFailed(p)
  BY <1>1, <1>5, NoDue, NotLonger DEF AnnounceFailed
<1>6. CASE ReadFilePath(p)
  BY <1>1, <1>2, <1>6, NoDue, NotLonger DEF ReadFilePath
<1>7. CASE Fetched(p)
  BY <1>1, <1>2, <1>7, NoDue, NotLonger DEF Fetched
<1>8. CASE FetchFailed(p)
  BY <1>1, <1>2, <1>8, NoDue, NotLonger DEF FetchFailed
<1>9. CASE AutoplayOff(p)
  BY <1>1, <1>2, <1>9, NoDue, NotLonger DEF AutoplayOff
<1>10. CASE Clear(p)
  BY <1>1, <1>2, <1>10, NoDue, NotLonger DEF Clear
<1>11. CASE HangUp(p) \/ HangUpFails(p)
  BY <1>1, <1>11, NoDue, NotLonger DEF HangUp, HangUpFails
<1>12. CASE StopCommand(p)
  BY <1>1, <1>2, <1>12, NoDue, NotLonger DEF StopCommand
<1>13. CASE StreamEnd(p)
  BY <1>1, <1>2, <1>13, NoDue, NotLonger DEF StreamEnd
<1>14. CASE SkipCommand(p)
  <2>1. [local[p] EXCEPT !.skips = GetPlayingTrack] \in Locals
    BY <1>1, <1>14, WithType DEF SkipCommand, GetPlayingTrack, IsActive
  <2> QED BY <1>1, <1>2, <1>14, <2>1, NoDue, NotLonger DEF SkipCommand
<1>15. CASE LoopCommand(p)
  BY <1>1, <1>2, <1>3, <1>15, NoDue, NotLonger, ChatQueueAssumption DEF LoopCommand
<1>16. CASE StoreLoop(p)
  <2>1. local[p].count \in Nat
    BY <1>1 DEF Locals
  <2> QED BY <1>1, <1>16, <2>1, NoDue, NotLonger DEF StoreLoop
<1>17. CASE RemoveCommand(p)
  BY <1>1, <1>2, <1>3, <1>17, NoDue, NotLonger DEF RemoveCommand, ChatTypeOK
<1>18. CASE RemoveNumbered(p)
  <2>1. local[p].count \in Nat
    BY <1>1 DEF Locals
  <2> QED BY <1>1, <1>18, <2>1, NoDue, NotLonger DEF RemoveNumbered
<1>19. CASE AutoplayCommand(p)
  BY <1>1, <1>2, <1>19, NoDue, NotLonger DEF AutoplayCommand
<1>20. CASE ReadToggle(p)
  BY <1>1, <1>2, <1>3, <1>20, NoDue, NotLonger DEF ReadToggle
<1>21. CASE StoreToggle(p)
  BY <1>1, <1>21, NoDue, NotLonger DEF StoreToggle
<1>22. CASE SeekCommand(p)
  <2>1. WithSong(p, GetPlayingTrack) \in Locals
    BY <1>1, <1>22, WithType DEF SeekCommand, GetPlayingTrack, IsActive
  <2> QED BY <1>1, <1>2, <1>22, <2>1, NoDue, NotLonger DEF SeekCommand
<1>23. CASE ReadPosition(p)
  BY <1>1, <1>2, <1>23, NoDue, NotLonger DEF ReadPosition
<1> QED BY <1>4, <1>5, <1>6, <1>7, <1>8, <1>9, <1>10, <1>11, <1>12, <1>13, <1>14, <1>15,
           <1>16, <1>17, <1>18, <1>19, <1>20, <1>21, <1>22, <1>23

\* The two steps that make a promise find the queue below the limit.
LEMMA PromiseStep ==
    ASSUME TypeInv, NEW p \in Procs, PlayRequest(p) \/ ReadUpcoming(p)
    PROVE  Quiet \/ (Len(Queue') \in Nat /\ Len(Queue') < MaxQueueLength)
<1> USE DEF unqueued, At
<1>1. ChatTypeOK /\ Len(Queue) \in Nat /\ local[p] \in Locals
  BY DEF TypeInv, ChatTypeOK, PcTypeOK
<1>2. CASE PlayRequest(p)
  BY <1>1, <1>2 DEF PlayRequest, QueueHasRoom, chatVars
<1>3. CASE ReadUpcoming(p)
  <2>1. Queue' = Queue
    BY <1>3 DEF ReadUpcoming, chatVars
  <2>2. CASE Len(Queue) < 2
    BY <1>1, <2>1, <2>2, PlaybackAssumption
  <2>3. CASE ~(Len(Queue) < 2) /\ Goto(p, "advance", WithSong(p, GetUpcomingTrack))
    <3>1. GetUpcomingTrack \in Tracks
      BY <1>1, <2>3, ElementOfSeq DEF GetUpcomingTrack, ChatTypeOK
    <3>2. WithSong(p, GetUpcomingTrack) \in Locals /\ "advance" \in Labels \ Owing
      BY <3>1, WithType DEF TypeInv, Labels, Owing, Single
    <3>3. Slots' \subseteq Slots
      BY <2>3, <3>2, NoDue
    <3> QED BY <1>1, <2>1, <3>3 DEF Quiet
  <2>4. Len(Queue) < 2 \/ GetUpcomingTrack # None
    <3>1. ~(Len(Queue) < 2) => GetUpcomingTrack \in Tracks
      BY <1>1, ElementOfSeq DEF GetUpcomingTrack, ChatTypeOK
    <3> QED BY <3>1, ChatQueueAssumption
  <2> QED BY <1>3, <2>2, <2>3, <2>4 DEF ReadUpcoming
<1> QED BY <1>2, <1>3

\* A step that adds n tracks spends n promises.
Spends(n) == Len(Queue') = Len(Queue) + n
             /\ \E S \in SUBSET Slots : Cardinality(S) = n /\ Slots' \subseteq Slots \ S

LEMMA SpendDue ==
    ASSUME TypeInv, NEW p \in Procs, NEW n \in Nat, NEW label, NEW l, Goto(p, label, l),
           n <= Due(p), DueAt(label, l.count) \in 0..(Due(p) - n),
           Len(Queue') = Len(Queue) + n
    PROVE  Spends(n)
<1> DEFINE S == {p} \X ((Due(p) - n + 1)..Due(p))
<1>1. Due(p) \in 0..MaxBatch /\ Due(p) \in Int /\ Due(p) - n + 1 \in Int
  BY DueBounded, PlaybackAssumption
<1>2. Cardinality(S) = n
  <2>1. IsFiniteSet({p}) /\ Cardinality({p}) = 1
    BY FS_Singleton
  <2>2. IsFiniteSet((Due(p) - n + 1)..Due(p)) /\ Cardinality((Due(p) - n + 1)..Due(p)) = n
    BY <1>1, FS_Interval
  <2>3. Cardinality(S) = 1 * n
    BY <2>1, <2>2, FS_Product
  <2> QED BY <2>3
<1>3. S \subseteq Slots
  <2> SUFFICES ASSUME NEW i \in (Due(p) - n + 1)..Due(p) PROVE <<p, i>> \in Slots
    OBVIOUS
  <2>1. i \in 1..MaxBatch /\ i <= Due(p)
    BY <1>1, PlaybackAssumption
  <2> QED BY <2>1 DEF Slots
<1>4. Slots' \subseteq Slots \ S
  <2> SUFFICES ASSUME NEW q \in Procs, NEW i \in 1..MaxBatch, i <= Due(q)'
               PROVE  <<q, i>> \in Slots \ S
    BY DEF Slots
  <2>1. CASE q # p
    BY <2>1, GotoDue DEF Slots
  <2>2. CASE q = p
    <3>1. Due(p)' \in 0..(Due(p) - n)
      BY GotoDue
    <3>2. i <= Due(p) - n /\ i <= Due(p)
      BY <1>1, <2>2, <3>1, PlaybackAssumption
    <3> QED BY <1>1, <2>2, <3>2, PlaybackAssumption DEF Slots
  <2> QED BY <2>1, <2>2
<1> HIDE DEF S
<1> QED BY <1>2, <1>3, <1>4 DEF Spends

LEMMA AddStep ==
    ASSUME TypeInv, NEW p \in Procs, AddToQueue(p) \/ AddToFront(p) \/ Recommended(p)
    PROVE  \E n \in Nat : Spends(n)
<1> USE DEF unqueued, At
<1>1. /\ ChatTypeOK /\ Queue \in Seq(Tracks) /\ Len(Queue) \in Nat
      /\ Fits(pc[p], local[p]) /\ local[p] \in Locals
  BY DEF TypeInv, ChatTypeOK, PcTypeOK, LocalsFit
<1>2. \A label \in Labels \ Owing : \A l : DueAt(label, l.count) = 0
  BY DEF DueAt, Owing, Single
<1>3. {"download", "loopFirst", "next", "idle", "send"} \subseteq Labels \ Owing
  BY DEF Labels, Owing, Single
<1>4. CASE AddToQueue(p)
  <2>1. local[p].todo \in Seq(Tracks) /\ Len(local[p].todo) \in Nat
        /\ Due(p) = Len(local[p].todo)
    BY <1>1, <1>4 DEF AddToQueue, Fits, Locals, Due, DueAt
  <2>2. Len(Queue') = Len(Queue) + Len(local[p].todo)
    BY <1>1, <1>4, <2>1, ConcatProperties DEF AddToQueue, AddSongs
  <2>3. PICK label \in Labels \ Owing : \E l : Goto(p, label, l)
    BY <1>3, <1>4 DEF AddToQueue, StartFirst, Return
  <2>4. PICK l : Goto(p, label, l)
    BY <2>3
  <2>5. DueAt(label, l.count) \in 0..(Due(p) - Len(local[p].todo))
    BY <1>2, <2>1
  <2> QED BY <2>1, <2>2, <2>4, <2>5, SpendDue
<1>5. CASE AddToFront(p)
  <2> DEFINE n == local[p].count
  <2>1. /\ n \in 1..MaxBatch /\ Due(p) = n
        /\ local[p].todo \in Seq(Tracks) /\ n \in 1..Len(local[p].todo)
    <3>1. n \in 1..Len(local[p].todo) /\ Due(p) = n /\ local[p].todo \in Seq(Tracks)
      BY <1>1, <1>5 DEF AddToFront, Fits, Locals, Due, DueAt
    <3>2. Len(local[p].todo) \in 1..MaxBatch
      BY <1>1, <1>5 DEF AddToFront, Fits
    <3> QED BY <3>1, <3>2, PlaybackAssumption
  <2>2. Len(Queue') = Len(Queue) + 1
    <3>1. local[p].todo[n] \in Tracks
      BY <2>1, ElementOfSeq
    <3>2. CASE Queue = <<>>
      BY <1>5, <3>2 DEF AddToFront, AddSongToFront
    <3>3. CASE Queue # <<>>
      <4>1. /\ Tail(Queue) \in Seq(Tracks) /\ Len(Tail(Queue)) = Len(Queue) - 1
            /\ Head(Queue) \in Tracks
        BY <1>1, <3>3, HeadTailProperties
      <4>2. <<Head(Queue), local[p].todo[n]>> \in Seq(Tracks)
            /\ Len(<<Head(Queue), local[p].todo[n]>>) = 2
        BY <3>1, <4>1
      <4>3. Queue' = <<Head(Queue), local[p].todo[n]>> \o Tail(Queue)
        BY <1>5, <3>3 DEF AddToFront, AddSongToFront
      <4> QED BY <1>1, <4>1, <4>2, <4>3, ConcatProperties
    <3> QED BY <3>2, <3>3
  <2>3. CASE n > 1 /\ Goto(p, "addFront", WithCount(p, n - 1))
    <3>1. n - 1 \in Nat
      BY <2>1
    <3>2. WithCount(p, n - 1).count = n - 1
      BY <3>1, WithType DEF TypeInv
    <3>3. DueAt("addFront", WithCount(p, n - 1).count) = n - 1
      BY <3>2 DEF DueAt
    <3> QED BY <2>1, <2>2, <2>3, <3>1, <3>3, SpendDue
  <2>4. CASE \E label \in Labels \ Owing : \E l : Goto(p, label, l)
    <3>1. PICK label \in Labels \ Owing : \E l : Goto(p, label, l)
      BY <2>4
    <3>2. PICK l : Goto(p, label, l)
      BY <3>1
    <3>3. DueAt(label, l.count) \in 0..(Due(p) - 1)
      BY <1>2, <2>1
    <3> QED BY <2>1, <2>2, <3>2, <3>3, SpendDue
  <2> QED BY <1>3, <1>5, <2>3, <2>4 DEF AddToFront, StartFirst, Return
<1>6. CASE Recommended(p)
  <2>1. PICK t \in Tracks : AddSong(t) /\ Goto(p, "send", WithSong(p, t))
    BY <1>6, ChatQueueAssumption DEF Recommended
  <2>2. Len(Queue') = Len(Queue) + 1
    <3>1. <<t>> \in Seq(Tracks) /\ Len(<<t>>) = 1
      OBVIOUS
    <3> QED BY <1>1, <2>1, <3>1, ConcatProperties DEF AddSong, AddSongs
  <2>3. Due(p) = 1
    BY <1>6 DEF Recommended, Due, DueAt, Single
  <2>4. DueAt("send", WithSong(p, t).count) = 0
    BY <1>2, <1>3
  <2> QED BY <2>1, <2>2, <2>3, <2>4, SpendDue
<1> QED BY <1>4, <1>5, <1>6

-----------------------------------------------------------------------------
LEMMA BoundStep == TypeInv /\ BoundInv /\ [Next]_vars => BoundInv'
<1> SUFFICES ASSUME TypeInv, BoundInv, [Next]_vars PROVE BoundInv'
  OBVIOUS
<1> DEFINE K == MaxBatch * Cardinality(Procs)
<1>1. K \in Nat /\ MaxQueueLength \in Nat
  BY SlotsFinite, PlaybackAssumption
<1>2. /\ IsFiniteSet(Slots) /\ Cardinality(Slots) \in Nat
      /\ Slots' \in SUBSET (Procs \X (1..MaxBatch))
      /\ IsFiniteSet(Slots') /\ Cardinality(Slots') \in Nat /\ Cardinality(Slots') <= K
  <2>1. Slots \in SUBSET (Procs \X (1..MaxBatch)) /\ Slots' \in SUBSET (Procs \X (1..MaxBatch))
    BY DEF Slots
  <2> QED BY <2>1, SlotsFinite
<1>3. Len(Queue) \in Nat /\ Len(Queue) + Cardinality(Slots) < MaxQueueLength + K
  BY DEF TypeInv, ChatTypeOK, BoundInv
<1>4. SUFFICES Len(Queue') + Cardinality(Slots') < MaxQueueLength + K
  BY DEF BoundInv
<1> HIDE DEF K
<1>5. CASE Quiet
  <2>1. Cardinality(Slots') <= Cardinality(Slots)
    BY <1>2, <1>5, FS_Subset DEF Quiet
  <2> QED BY <1>1, <1>2, <1>3, <1>5, <2>1 DEF Quiet
<1>6. CASE Len(Queue') \in Nat /\ Len(Queue') < MaxQueueLength
  BY <1>1, <1>2, <1>6
<1>7. CASE \E n \in Nat : Spends(n)
  <2>1. PICK n \in Nat, S \in SUBSET Slots :
           Len(Queue') = Len(Queue) + n /\ Cardinality(S) = n /\ Slots' \subseteq Slots \ S
    BY <1>7 DEF Spends
  <2>2. IsFiniteSet(Slots \ S) /\ Cardinality(Slots \ S) = Cardinality(Slots) - n
    <3>1. Slots \cap S = S
      OBVIOUS
    <3> QED BY <1>2, <2>1, <3>1, FS_Difference
  <2>3. Cardinality(Slots') <= Cardinality(Slots \ S)
    BY <2>1, <2>2, FS_Subset
  <2> QED BY <1>1, <1>2, <1>3, <2>1, <2>2, <2>3
<1>8. CASE UNCHANGED vars
  <2>1. Slots' = Slots /\ Queue' = Queue
    BY <1>8 DEF vars, chatVars, Slots, Due
  <2> QED BY <1>3, <2>1
<1>9. ASSUME NEW p \in Procs, Command(p) \/ Step(p) \/ StreamEnd(p)
      PROVE  Quiet \/ (Len(Queue') \in Nat /\ Len(Queue') < MaxQueueLength)
             \/ \E n \in Nat : Spends(n)
  BY <1>9, QuietHandlers, QuietCommands, PromiseStep, AddStep DEF Command, Step
<1>10. CASE ChatCleared \/ CallDiscarded
  <2>1. Slots' = Slots
    BY <1>10 DEF ChatCleared, CallDiscarded, Slots, Due
  <2>2. Len(Queue') \in Nat /\ Len(Queue') <= Len(Queue)
    BY <1>10, NotLonger DEF ChatCleared, CallDiscarded, TypeInv
  <2> QED BY <1>5, <2>1, <2>2 DEF Quiet
<1>11. ASSUME NEW t \in Tracks, Collected(t) PROVE Quiet
  <2>1. Slots' = Slots
    BY <1>11 DEF Collected, Slots, Due
  <2> QED BY <1>3, <1>11, <2>1 DEF Collected, Quiet
<1> QED BY <1>5, <1>6, <1>7, <1>8, <1>9, <1>10, <1>11 DEF Next

LEMMA BoundInit == Init => BoundInv
<1> SUFFICES ASSUME Init PROVE BoundInv
  OBVIOUS
<1>1. \A p \in Procs : Due(p) = 0
  BY DEF Init, Due, DueAt, Single
<1>2. Slots = {}
  BY <1>1, PlaybackAssumption DEF Slots
<1>3. Cardinality(Slots) = 0 /\ Len(Queue) = 0
  BY <1>2, FS_EmptySet DEF Init, ChatInit
<1> QED BY <1>3, SlotsFinite, PlaybackAssumption DEF BoundInv

\* However many handlers pass the length check together, the queue stays below
\* the limit plus one batch per goroutine.
THEOREM QueueBounded == Spec => []QueueBound
<1>1. TypeInv /\ BoundInv => QueueBound
  <2> SUFFICES ASSUME TypeInv, BoundInv PROVE QueueBound
    OBVIOUS
  <2>1. Cardinality(Slots) \in Nat /\ MaxBatch * Cardinality(Procs) \in Nat
    BY SlotsFinite DEF Slots
  <2>2. Len(Queue) \in Nat
    BY DEF TypeInv, ChatTypeOK
  <2> QED BY <2>1, <2>2, PlaybackAssumption DEF BoundInv, QueueBound
<1>2. Spec => []BoundInv
  BY TypeInvariant, BoundInit, BoundStep, PTL DEF Spec
<1> QED BY <1>1, <1>2, TypeInvariant, PTL

-----------------------------------------------------------------------------
(***************************************************************************)
(* Which tracks are where: for every number of handlers, commands and      *)
(* faults a track is added to the queue once, moves forward in it, and     *)
(* never comes back once it has been at the head.                          *)
(*                                                                         *)
(* A request holds tracks it has still to add, and nobody else knows them. *)
(* A step of a handler moves tracks one way only: from the unallocated     *)
(* ones to a request, from there into the queue, in the queue to the head  *)
(* and from the head out of it.                                            *)
(***************************************************************************)
Adding == {"add", "addFront"}

\* The tracks a request has still to add.
Open(p) == IF pc[p] \in Adding THEN {local[p].todo[i] : i \in 1..local[p].count} ELSE {}

Apart(p) ==
    pc[p] \in Adding =>
        \A i, j \in 1..local[p].count : local[p].todo[i] = local[p].todo[j] => i = j

Queued == {Queue[i] : i \in DOMAIN Queue}
Behind == {Queue[i] : i \in DOMAIN Queue \ {1}}

Distinct(s) == \A i, j \in DOMAIN s : s[i] = s[j] => i = j

OnceInv ==
    /\ Distinct(Queue)
    /\ Queued \subseteq used
    /\ LastYouTubeTrack = None \/ LastYouTubeTrack \in used \ Queued
    /\ \A p \in Procs : /\ Apart(p)
                        /\ Open(p) \subseteq used \ Queued
                        /\ LastYouTubeTrack \notin Open(p)
    /\ \A p, q \in Procs : p # q => Open(p) \cap Open(q) = {}

\* A track that has been allocated and that nobody will move forward any more.
Past(t) == t \in used \ Behind /\ \A q \in Procs : t \notin Open(q)

\* What an operation that adds the tracks T does to the queue.
Moves(T) ==
    /\ Distinct(Queue')
    /\ Queued' \subseteq Queued \cup T
    /\ Behind' \subseteq Behind \cup T
    /\ LastYouTubeTrack' \in {None, LastYouTubeTrack} \cup (Queued \ Queued')

\* A step of p that allocates N, adds T and keeps the rest to itself.
Turn(p, T, N) ==
    /\ N \cap used = {} /\ used' = used \cup N
    /\ T \subseteq Open(p) \cup N
    /\ Moves(T)
    /\ Open(p)' \subseteq (Open(p) \cup N) \ T
    /\ Apart(p)'
    /\ \A q \in Procs \ {p} : pc'[q] = pc[q] /\ local'[q] = local[q]

-----------------------------------------------------------------------------
LEMMA TurnOnce ==
    ASSUME OnceInv, NEW p \in Procs, NEW T, NEW N, Turn(p, T, N), None \notin used'
    PROVE  OnceInv'
<1>1. \A q \in Procs \ {p} : Open(q)' = Open(q) /\ (Apart(q) => Apart(q)')
  BY DEF Turn, Open, Apart
<1>2. T \cap Queued = {} /\ LastYouTubeTrack \notin T
  BY DEF Turn, OnceInv
<1>3. Queued' \subseteq used'
  BY <1>2 DEF Turn, Moves, OnceInv
<1>4. LastYouTubeTrack' = None \/ LastYouTubeTrack' \in used' \ Queued'
  BY <1>2 DEF Turn, Moves, OnceInv
<1>5. \A q \in Procs : Open(q)' \subseteq used' \ Queued' /\ LastYouTubeTrack' \notin Open(q)'
  <2>1. Open(p)' \cap Queued' = {} /\ Open(p)' \subseteq used'
    BY DEF Turn, Moves, OnceInv
  <2>2. LastYouTubeTrack' \notin Open(p)'
    BY <2>1 DEF Turn, Moves, OnceInv
  <2>3. ASSUME NEW q \in Procs \ {p}
        PROVE  Open(q)' \subseteq used' \ Queued' /\ LastYouTubeTrack' \notin Open(q)'
    <3>1. Open(q)' = Open(q) /\ Open(q) \cap T = {} /\ Open(q) \subseteq used \ Queued
      BY <1>1 DEF Turn, OnceInv
    <3>2. LastYouTubeTrack' \in {None, LastYouTubeTrack} \cup Queued
      BY DEF Turn, Moves
    <3> QED BY <3>1, <3>2 DEF Turn, Moves, OnceInv
  <2> QED BY <2>1, <2>2, <2>3
<1>6. \A q, r \in Procs : q # r => Open(q)' \cap Open(r)' = {}
  <2>1. \A q \in Procs \ {p} : Open(q)' \cap Open(p)' = {}
    BY <1>1 DEF Turn, OnceInv
  <2> QED BY <1>1, <2>1 DEF OnceInv
<1>7. \A q \in Procs : Apart(q)'
  BY <1>1 DEF Turn, OnceInv
<1>8. Distinct(Queue')
  BY DEF Turn, Moves
<1> QED BY <1>3, <1>4, <1>5, <1>6, <1>7, <1>8 DEF OnceInv

\* A track that is past stays so.
LEMMA TurnPast ==
    ASSUME NEW p \in Procs, NEW T, NEW N, Turn(p, T, N), NEW t, Past(t)
    PROVE  Past(t)'
<1>1. \A q \in Procs \ {p} : Open(q)' = Open(q)
  BY DEF Turn, Open
<1>2. t \in used' /\ t \notin T /\ t \notin N
  BY DEF Turn, Past
<1>3. t \notin Behind' /\ t \notin Open(p)'
  BY <1>2 DEF Turn, Moves, Past
<1> QED BY <1>1, <1>2, <1>3 DEF Past

LEMMA ConcatElements ==
    ASSUME NEW a \in Seq(Tracks), NEW b \in Seq(Tracks)
    PROVE  /\ Len(a \o b) = Len(a) + Len(b) /\ DOMAIN (a \o b) = 1..(Len(a) + Len(b))
           /\ \A i \in 1..(Len(a) + Len(b)) :
                (a \o b)[i] = IF i <= Len(a) THEN a[i] ELSE b[i - Len(a)]
BY ConcatProperties

\* The operations that add nothing.
LEMMA MovesNothing ==
    ASSUME ChatTypeOK, Distinct(Queue),
           \/ RemoveCurrentSong \/ ClearChat \/ UNCHANGED <<Queue, LastYouTubeTrack>>
           \/ \E index \in Nat : RemoveTrack(index)
    PROVE  Moves({})
<1>1. Queue \in Seq(Tracks)
  BY DEF ChatTypeOK
<1>2. CASE UNCHANGED <<Queue, LastYouTubeTrack>>
  BY <1>2 DEF Moves, Queued, Behind, Distinct
<1>3. CASE ClearChat
  BY <1>3 DEF ClearChat, Moves, Queued, Behind, Distinct
<1>4. CASE RemoveCurrentSong
  <2>1. CASE Queue = <<>>
    BY <1>4, <2>1 DEF RemoveCurrentSong, Moves, Queued, Behind, Distinct, IsActive
  <2>2. CASE Queue # <<>>
    <3>1. Queue' = Tail(Queue) /\ Len(Queue) \in Nat \ {0}
          /\ LastYouTubeTrack' \in {LastYouTubeTrack, Head(Queue)}
      BY <1>1, <1>4, <2>2 DEF RemoveCurrentSong
    <3>2. Len(Queue') = Len(Queue) - 1 /\ Head(Queue) = Queue[1]
          /\ \A i \in 1..(Len(Queue) - 1) : Queue'[i] = Queue[i + 1]
          /\ DOMAIN Queue' = 1..(Len(Queue) - 1) /\ DOMAIN Queue = 1..Len(Queue)
      BY <1>1, <2>2, <3>1, HeadTailProperties
    <3>3. /\ \A i \in DOMAIN Queue' : i + 1 \in DOMAIN Queue \ {1}
          /\ \A i, j \in DOMAIN Queue' : i + 1 = j + 1 => i = j
          /\ 1 \in DOMAIN Queue
      <4> DEFINE n == Len(Queue)
      <4>1. n \in Nat \ {0} /\ DOMAIN Queue' = 1..(n - 1) /\ DOMAIN Queue = 1..n
        <5>1. n \in Nat \ {0}
          BY <3>1
        <5>2. DOMAIN Queue' = 1..(n - 1) /\ DOMAIN Queue = 1..n
          BY <3>2
        <5> QED BY <5>1, <5>2
      <4> HIDE DEF n
      <4> QED BY <4>1
    <3>4. Distinct(Queue')
      <4>1. \A i \in DOMAIN Queue' : Queue'[i] = Queue[i + 1]
        BY <3>2
      <4> QED BY <3>3, <4>1 DEF Distinct
    <3>5. Queued' \subseteq Behind /\ Behind' \subseteq Behind
      BY <3>2, <3>3 DEF Queued, Behind
    <3>6. Behind \subseteq Queued /\ Queue[1] \in Queued \ Behind
      BY <3>3 DEF Queued, Behind, Distinct
    <3> QED BY <3>1, <3>2, <3>4, <3>5, <3>6 DEF Moves
  <2> QED BY <2>1, <2>2
<1>5. ASSUME NEW index \in Nat, RemoveTrack(index) PROVE Moves({})
  <2>1. CASE index < Len(Queue)
    <3>1. Queue' = RemoveAt(Queue, index + 1) /\ LastYouTubeTrack' = LastYouTubeTrack
      BY <1>5, <2>1 DEF RemoveTrack
    <3> DEFINE from(i) == IF i <= index THEN i ELSE i + 1
    <3>2. /\ DOMAIN Queue' = 1..(Len(Queue) - 1)
          /\ \A i \in DOMAIN Queue' : Queue'[i] = Queue[from(i)]
      <4> DEFINE a == SubSeq(Queue, 1, index)
                 b == SubSeq(Queue, index + 2, Len(Queue))
                 n == Len(Queue)
      <4>1. a \in Seq(Tracks) /\ Len(a) = index /\ \A i \in 1..index : a[i] = Queue[i]
        BY <1>1, <2>1, ElementOfSeq, SubSeqProperties
      <4>2. /\ b \in Seq(Tracks) /\ Len(b) = n - index - 1
            /\ \A i \in 1..(n - index - 1) : b[i] = Queue[i + index + 1]
        BY <1>1, <2>1, ElementOfSeq, SubSeqProperties
      <4>3. Queue' = a \o b
        <5>1. Queue' = SubSeq(Queue, 1, (index + 1) - 1)
                         \o SubSeq(Queue, (index + 1) + 1, Len(Queue))
          BY <3>1 DEF RemoveAt
        <5>2. (index + 1) - 1 = index /\ (index + 1) + 1 = index + 2
          OBVIOUS
        <5> QED BY <5>1, <5>2
      <4>0. n \in Nat /\ index < n
        BY <1>1, <2>1
      <4> HIDE DEF a, b, n
      <4>4. /\ Len(Queue') = Len(a) + Len(b) /\ DOMAIN Queue' = 1..(Len(a) + Len(b))
            /\ \A i \in 1..(Len(a) + Len(b)) :
                 Queue'[i] = IF i <= Len(a) THEN a[i] ELSE b[i - Len(a)]
        BY <4>1, <4>2, <4>3, ConcatElements
      <4>5. Len(a) + Len(b) = n - 1
        BY <4>0, <4>1, <4>2
      <4>6. ASSUME NEW i \in 1..(n - 1) PROVE Queue'[i] = Queue[from(i)]
        <5>1. Queue'[i] = IF i <= index THEN a[i] ELSE b[i - index]
          BY <4>1, <4>4, <4>5
        <5>2. CASE i <= index
          <6>1. i \in 1..index
            BY <4>0, <5>2
          <6> QED BY <4>1, <5>1, <5>2, <6>1
        <5>3. CASE i > index
          <6>1. i - index \in 1..(n - index - 1) /\ (i - index) + index + 1 = i + 1
                /\ ~(i <= index)
            BY <4>0, <5>3
          <6>2. b[i - index] = Queue[(i - index) + index + 1]
            BY <4>2, <6>1
          <6> QED BY <5>1, <6>1, <6>2
        <5> QED BY <4>0, <5>2, <5>3
      <4> HIDE DEF from
      <4> QED BY <4>4, <4>5, <4>6 DEF n
    <3>3. /\ \A i \in DOMAIN Queue' : from(i) \in DOMAIN Queue
          /\ \A i \in DOMAIN Queue' : i # 1 => from(i) # 1
          /\ \A i, j \in DOMAIN Queue' : from(i) = from(j) => i = j
      BY <1>1, <3>2
    <3> HIDE DEF from
    <3>4. Distinct(Queue')
      BY <3>2, <3>3 DEF Distinct
    <3>5. Queued' \subseteq Queued /\ Behind' \subseteq Behind
      BY <3>2, <3>3 DEF Queued, Behind
    <3> QED BY <3>1, <3>4, <3>5 DEF Moves
  <2>2. CASE ~(index < Len(Queue))
    <3>1. UNCHANGED <<Queue, LastYouTubeTrack>>
      BY <1>5, <2>2 DEF RemoveTrack
    <3> QED BY <1>2, <3>1
  <2> QED BY <2>1, <2>2
<1> QED BY <1>2, <1>3, <1>4, <1>5

\* AddSongs of tracks that are not queued.
LEMMA MovesBatch ==
    ASSUME ChatTypeOK, Distinct(Queue), NEW ts \in Seq(Tracks), Distinct(ts), AddSongs(ts),
           NEW T, T = {ts[i] : i \in DOMAIN ts}, T \cap Queued = {}
    PROVE  Moves(T)
<1> DEFINE n == Len(Queue)
<1>1. /\ Queue \in Seq(Tracks) /\ n \in Nat /\ Len(ts) \in Nat
      /\ DOMAIN Queue = 1..n /\ DOMAIN ts = 1..Len(ts)
      /\ Queue' = Queue \o ts /\ LastYouTubeTrack' = LastYouTubeTrack
  BY DEF ChatTypeOK, AddSongs
<1>2. /\ Len(Queue') = n + Len(ts) /\ DOMAIN Queue' = 1..(n + Len(ts))
      /\ \A i \in 1..(n + Len(ts)) :
            Queue'[i] = IF i <= n THEN Queue[i] ELSE ts[i - n]
  BY <1>1, ConcatProperties
<1>3. \A i \in DOMAIN Queue' : \/ i \in DOMAIN Queue /\ Queue'[i] = Queue[i]
                               \/ i - n \in DOMAIN ts /\ i \notin DOMAIN Queue /\ Queue'[i] = ts[i - n]
  BY <1>1, <1>2
<1>4. \A i, j \in DOMAIN Queue' : i - n = j - n => i = j
  BY <1>1, <1>2
<1> HIDE DEF n
<1>5. \A i \in DOMAIN Queue, j \in DOMAIN ts : Queue[i] # ts[j]
  BY DEF Queued
<1>6. Distinct(Queue')
  BY <1>3, <1>4, <1>5 DEF Distinct
<1>7. Queued' \subseteq Queued \cup T /\ Behind' \subseteq Behind \cup T
  BY <1>3 DEF Queued, Behind
<1> QED BY <1>1, <1>6, <1>7 DEF Moves

LEMMA MovesFront ==
    ASSUME ChatTypeOK, Distinct(Queue), NEW t \in Tracks, AddSongToFront(t), t \notin Queued
    PROVE  Moves({t})
<1>1. Queue \in Seq(Tracks) /\ LastYouTubeTrack' = LastYouTubeTrack
  BY DEF ChatTypeOK, AddSongToFront
<1>2. CASE Queue = <<>>
  <2>1. Queue' = <<t>>
    BY <1>2 DEF AddSongToFront
  <2>2. DOMAIN Queue' = {1} /\ Queue'[1] = t
    BY <2>1
  <2> QED BY <1>1, <2>2 DEF Moves, Queued, Behind, Distinct
<1>3. CASE Queue # <<>>
  <2>1. Queue' = <<Head(Queue), t>> \o Tail(Queue)
    BY <1>3 DEF AddSongToFront
  <2>2. /\ Tail(Queue) \in Seq(Tracks) /\ Len(Tail(Queue)) = Len(Queue) - 1
        /\ Head(Queue) \in Tracks /\ Head(Queue) = Queue[1]
        /\ \A i \in 1..(Len(Queue) - 1) : Tail(Queue)[i] = Queue[i + 1]
        /\ Len(Queue) \in Nat \ {0} /\ DOMAIN Queue = 1..Len(Queue)
    BY <1>1, <1>3, HeadTailProperties
  <2>3. <<Head(Queue), t>> \in Seq(Tracks) /\ Len(<<Head(Queue), t>>) = 2
        /\ <<Head(Queue), t>>[1] = Head(Queue) /\ <<Head(Queue), t>>[2] = t
    BY <2>2
  <2>4. /\ Len(Queue') = Len(Queue) + 1 /\ DOMAIN Queue' = 1..(Len(Queue) + 1)
        /\ Queue'[1] = Queue[1] /\ Queue'[2] = t
        /\ \A i \in 3..(Len(Queue) + 1) : Queue'[i] = Tail(Queue)[i - 2]
    BY <2>1, <2>2, <2>3, ConcatProperties
  <2>5. \A i \in 3..(Len(Queue) + 1) : Queue'[i] = Queue[i - 1] /\ i - 1 \in DOMAIN Queue \ {1}
    <3> SUFFICES ASSUME NEW i \in 3..(Len(Queue) + 1)
                 PROVE  Queue'[i] = Queue[i - 1] /\ i - 1 \in DOMAIN Queue \ {1}
      OBVIOUS
    <3>1. i - 2 \in 1..(Len(Queue) - 1) /\ (i - 2) + 1 = i - 1
      BY <2>2
    <3>2. Tail(Queue)[i - 2] = Queue[(i - 2) + 1]
      BY <2>2, <3>1
    <3> QED BY <2>2, <2>4, <3>1, <3>2
  <2>6. \A i \in DOMAIN Queue' : i \in {1, 2} \/ i \in 3..(Len(Queue) + 1)
    BY <2>2, <2>4
  <2>7. 1 \in DOMAIN Queue /\ \A i, j \in 3..(Len(Queue) + 1) : i - 1 = j - 1 => i = j
    BY <2>2
  <2>8. Distinct(Queue')
    BY <2>4, <2>5, <2>6, <2>7 DEF Distinct, Queued
  <2>9. Queued' \subseteq Queued \cup {t} /\ Behind' \subseteq Behind \cup {t}
    BY <2>4, <2>5, <2>6, <2>7 DEF Queued, Behind
  <2> QED BY <1>1, <2>8, <2>9 DEF Moves
<1> QED BY <1>2, <1>3

-----------------------------------------------------------------------------
\* What is known of the track a skip is to replace.

Onward == {"advance", "send", "fetch", "fetching", "play"}

SkipFits(label, l) ==
    /\ label = "current" => l.count > 0
    /\ label \in Onward /\ l.skips # None /\ l.count = 0 => l.song # l.skips

SkipInv ==
    \A p \in Procs : /\ local[p].skips # None => Past(local[p].skips)
                     /\ SkipFits(pc[p], local[p])

Others(p) == \A q \in Procs \ {p} : pc'[q] = pc[q] /\ local'[q] = local[q]

\* A step that allocates and adds nothing, and may take the playing track for
\* the one to replace.
Settles(p) ==
    /\ used' = used /\ Moves({})
    /\ Others(p) /\ pc'[p] \notin Adding
    /\ SkipFits(pc'[p], local'[p])
    /\ local'[p].skips \in {None, local[p].skips, GetPlayingTrack}

LEMMA GotoAt ==
    ASSUME PcTypeOK, NEW p \in Procs, NEW label, NEW l, Goto(p, label, l)
    PROVE  pc'[p] = label /\ local'[p] = l /\ Others(p)
BY DEF PcTypeOK, Goto, Others

LEMMA Fields ==
    ASSUME PcTypeOK, NEW p \in Procs
    PROVE  /\ \A t : WithSong(p, t).song = t /\ WithSong(p, t).count = local[p].count
                     /\ WithSong(p, t).skips = local[p].skips
           /\ \A n : WithCount(p, n).count = n /\ WithCount(p, n).skips = local[p].skips
                     /\ WithCount(p, n).song = local[p].song
           /\ \A t : [local[p] EXCEPT !.skips = t].skips = t
BY DEF PcTypeOK, Locals, WithSong, WithCount

LEMMA FreshFields ==
    /\ \A t : [Fresh EXCEPT !.skips = t].skips = t
    /\ \A t : [Fresh EXCEPT !.song = t].skips = None
    /\ Fresh.skips = None
BY DEF Fresh

\* The labels a goroutine can move to with its local variables as they are:
\* from nowhere else does anybody get onto the way to the air.
LEMMA JumpSettles ==
    ASSUME PcTypeOK, SkipInv, NEW p \in Procs, used' = used, Moves({}),
           \/ Return(p)
           \/ \E label \in Labels \ (Adding \cup Onward \cup {"current"}) : Jump(p, label)
           \/ \E label \in Onward : pc[p] \in Onward /\ Jump(p, label)
    PROVE  Settles(p)
<1>1. SkipFits(pc[p], local[p])
  BY DEF SkipInv
<1>2. CASE Return(p)
  <2>1. pc'[p] = "idle" /\ local'[p] = Fresh /\ Others(p) /\ Fresh.skips = None
    BY <1>2, GotoAt, FreshFields DEF Return
  <2>2. SkipFits(pc'[p], local'[p])
    BY <2>1 DEF SkipFits, Onward
  <2> QED BY <2>1, <2>2 DEF Settles, Adding
<1>3. ASSUME NEW label \in Labels \ (Adding \cup Onward \cup {"current"}), Jump(p, label)
      PROVE  Settles(p)
  <2>1. pc'[p] = label /\ local'[p] = local[p] /\ Others(p)
    BY <1>3, GotoAt DEF Jump
  <2>2. SkipFits(pc'[p], local'[p])
    BY <2>1 DEF SkipFits
  <2> QED BY <2>1, <2>2 DEF Settles
<1>4. ASSUME NEW label \in Onward, pc[p] \in Onward, Jump(p, label) PROVE Settles(p)
  <2>1. pc'[p] = label /\ local'[p] = local[p] /\ Others(p)
    BY <1>4, GotoAt DEF Jump
  <2>2. SkipFits(pc'[p], local'[p])
    BY <1>1, <1>4, <2>1 DEF SkipFits, Onward
  <2> QED BY <2>1, <2>2 DEF Settles, Onward, Adding
<1> QED BY <1>2, <1>3, <1>4

\* Moves off that way with new local variables.
LEMMA GotoSettles ==
    ASSUME PcTypeOK, NEW p \in Procs, used' = used, Moves({}),
           NEW label \in Labels \ (Adding \cup Onward \cup {"current"}), NEW l, Goto(p, label, l),
           l.skips \in {None, local[p].skips, GetPlayingTrack}
    PROVE  Settles(p)
<1>1. pc'[p] = label /\ local'[p] = l /\ Others(p)
  BY GotoAt
<1>2. SkipFits(pc'[p], local'[p])
  BY <1>1 DEF SkipFits
<1> QED BY <1>1, <1>2 DEF Settles

LEMMA QuietMoves ==
    ASSUME TypeInv, OnceInv, NEW p \in Procs,
           \/ NotFound(p) \/ PlayRequest(p) \/ LoopFirst(p) \/ Downloaded(p) \/ DownloadFailed(p)
           \/ Undo(p) \/ MediaStarted(p) \/ MediaFailed(p) \/ ReadLoop(p) \/ LowerLoop(p)
           \/ ReadCurrent(p) \/ ReadUpcoming(p) \/ Advance(p) \/ Drain(p) \/ ReadSeed(p)
           \/ ReadAutoplay(p) \/ NoRecommendation(p) \/ Announced(p) \/ AnnounceFailed(p)
           \/ ReadFilePath(p) \/ Fetched(p) \/ FetchFailed(p) \/ AutoplayOff(p) \/ Clear(p)
           \/ HangUp(p) \/ HangUpFails(p) \/ StopCommand(p) \/ StreamEnd(p) \/ SkipCommand(p) \/ LoopCommand(p)
           \/ StoreLoop(p) \/ RemoveCommand(p) \/ RemoveNumbered(p) \/ AutoplayCommand(p)
           \/ ReadToggle(p) \/ StoreToggle(p) \/ SeekCommand(p) \/ ReadPosition(p)
    PROVE  used' = used /\ Moves({})
<1> USE DEF chatVars, unqueued
<1>1. ChatTypeOK /\ Distinct(Queue) /\ local[p].count \in Nat
  BY DEF TypeInv, OnceInv, PcTypeOK, Locals
<1>2. CASE NotFound(p) \/ PlayRequest(p) \/ LoopFirst(p) \/ Downloaded(p) \/ DownloadFailed(p)
           \/ MediaStarted(p) \/ ReadLoop(p) \/ LowerLoop(p)
           \/ ReadCurrent(p) \/ ReadUpcoming(p) \/ ReadSeed(p)
           \/ ReadAutoplay(p) \/ NoRecommendation(p) \/ Announced(p) \/ AnnounceFailed(p)
           \/ ReadFilePath(p) \/ Fetched(p) \/ FetchFailed(p) \/ AutoplayOff(p)
           \/ HangUp(p) \/ HangUpFails(p)
  <2>1. UNCHANGED <<Queue, LastYouTubeTrack, used>>
    BY <1>2 DEF NotFound, PlayRequest, LoopFirst, Downloaded, DownloadFailed, MediaStarted,
          ReadLoop, LowerLoop, ReadCurrent, ReadUpcoming, ReadSeed, ReadAutoplay,
          NoRecommendation, Announced, AnnounceFailed, ReadFilePath, Fetched, FetchFailed,
          AutoplayOff, HangUp, HangUpFails, SetLoopCount, SetAutoplay
  <2> QED BY <1>1, <2>1, MovesNothing
<1>3. CASE \/ StopCommand(p) \/ StreamEnd(p) \/ SkipCommand(p) \/ LoopCommand(p) \/ StoreLoop(p)
           \/ RemoveCommand(p) \/ AutoplayCommand(p) \/ ReadToggle(p) \/ StoreToggle(p)
           \/ SeekCommand(p) \/ ReadPosition(p)
  <2>1. UNCHANGED <<Queue, LastYouTubeTrack, used>>
    BY <1>3 DEF StopCommand, StreamEnd, SkipCommand, LoopCommand, StoreLoop, RemoveCommand,
          AutoplayCommand, ReadToggle, StoreToggle, SeekCommand, ReadPosition, SetLoopCount,
          SetAutoplay
  <2> QED BY <1>1, <2>1, MovesNothing
<1>4. CASE Undo(p) \/ Advance(p) \/ Drain(p)
  BY <1>1, <1>4, MovesNothing DEF Undo, Advance, Drain
<1>5. CASE MediaFailed(p) \/ Clear(p)
  BY <1>1, <1>5, MovesNothing DEF MediaFailed, Clear
<1>6. CASE RemoveNumbered(p)
  BY <1>1, <1>6, MovesNothing DEF RemoveNumbered
<1> QED BY <1>2, <1>3, <1>4, <1>5, <1>6

LEMMA QuietSettles ==
    ASSUME TypeInv, OnceInv, SkipInv, NEW p \in Procs, used' = used, Moves({}),
           \/ NotFound(p) \/ PlayRequest(p) \/ LoopFirst(p) \/ Downloaded(p) \/ DownloadFailed(p)
           \/ Undo(p) \/ MediaStarted(p) \/ MediaFailed(p) \/ ReadLoop(p) \/ LowerLoop(p)
           \/ ReadCurrent(p) \/ ReadUpcoming(p) \/ Advance(p) \/ Drain(p) \/ ReadSeed(p)
           \/ ReadAutoplay(p) \/ NoRecommendation(p) \/ Announced(p) \/ AnnounceFailed(p)
           \/ ReadFilePath(p) \/ Fetched(p) \/ FetchFailed(p) \/ AutoplayOff(p) \/ Clear(p)
           \/ HangUp(p) \/ HangUpFails(p) \/ StopCommand(p) \/ StreamEnd(p) \/ SkipCommand(p) \/ LoopCommand(p)
           \/ StoreLoop(p) \/ RemoveCommand(p) \/ RemoveNumbered(p) \/ AutoplayCommand(p)
           \/ ReadToggle(p) \/ StoreToggle(p) \/ SeekCommand(p) \/ ReadPosition(p)
    PROVE  Settles(p)
<1> USE DEF At
<1>1. PcTypeOK /\ ChatTypeOK /\ Fits(pc[p], local[p]) /\ local[p].count \in Nat
  BY DEF TypeInv, PcTypeOK, LocalsFit, Locals
<1> DEFINE Off == Labels \ (Adding \cup Onward \cup {"current"})
<1>2. Off = {"idle", "search", "download", "start", "undo", "loopFirst", "next", "replay",
             "upcoming", "drain", "seed", "mix", "recommend", "stop", "clear", "hangUp", "loop",
             "remove", "toggle", "toggled", "position", "seek"}
  BY DEF Labels, Adding, Onward
<1>3. Onward = {"advance", "send", "fetch", "fetching", "play"}
  BY DEF Onward
<1>4. \A label \in Off : Jump(p, label) => Settles(p)
  BY <1>1, JumpSettles
<1>5. \A label \in Onward : pc[p] \in Onward /\ Jump(p, label) => Settles(p)
  BY <1>1, JumpSettles
<1>6. Return(p) => Settles(p)
  BY <1>1, JumpSettles
<1> HIDE DEF Off
<1>7. CASE NotFound(p) \/ PlayRequest(p) \/ LoopFirst(p) \/ Downloaded(p) \/ DownloadFailed(p)
           \/ Undo(p) \/ MediaStarted(p)
  BY <1>2, <1>4, <1>6, <1>7 DEF NotFound, PlayRequest, LoopFirst, Downloaded, DownloadFailed, Undo,
                                MediaStarted
<1>8. CASE MediaFailed(p)
  BY <1>2, <1>3, <1>4, <1>5, <1>6, <1>8 DEF MediaFailed, MediaLabels
<1>9. CASE \/ Advance(p) \/ Announced(p) \/ AnnounceFailed(p) \/ ReadFilePath(p) \/ Fetched(p)
           \/ FetchFailed(p)
  BY <1>2, <1>3, <1>4, <1>5, <1>6, <1>9
     DEF Advance, Announced, AnnounceFailed, ReadFilePath, Fetched, FetchFailed
<1>10. CASE Drain(p) \/ ReadSeed(p) \/ ReadAutoplay(p) \/ NoRecommendation(p) \/ AutoplayOff(p)
            \/ Clear(p) \/ HangUp(p) \/ HangUpFails(p) \/ StopCommand(p) \/ StreamEnd(p)
  BY <1>2, <1>4, <1>6, <1>10 DEF Drain, ReadSeed, ReadAutoplay, NoRecommendation, AutoplayOff,
                                 Clear, HangUp, HangUpFails, StopCommand, StreamEnd
<1>11. CASE StoreLoop(p) \/ RemoveNumbered(p) \/ AutoplayCommand(p) \/ StoreToggle(p)
            \/ ReadPosition(p)
  BY <1>2, <1>4, <1>6, <1>11 DEF StoreLoop, RemoveNumbered, AutoplayCommand, StoreToggle,
                                 ReadPosition
<1>12. \A label \in {"replay", "upcoming", "loop", "remove", "toggled"}, n \in Nat :
         Goto(p, label, WithCount(p, n)) => Settles(p)
  <2> SUFFICES ASSUME NEW label \in {"replay", "upcoming", "loop", "remove", "toggled"},
                      NEW n \in Nat, Goto(p, label, WithCount(p, n))
               PROVE  Settles(p)
    OBVIOUS
  <2>1. WithCount(p, n).skips = local[p].skips /\ label \in Off
    BY <1>1, <1>2, Fields
  <2> QED BY <1>1, <2>1, GotoSettles DEF Off
<1>13. CASE ReadLoop(p)
  <2>1. GetLoopCount \in Nat
    <3>1. GetLoopCount \in 0..MaxLoop
      <4>1. Queue # <<>> => Loop[Head(Queue)] \in 0..MaxLoop
        <5>1. Queue # <<>> => Head(Queue) \in Tracks
          BY <1>1, HeadTailProperties DEF ChatTypeOK
        <5>2. Loop \in [Tracks -> 0..MaxLoop]
          BY <1>1 DEF ChatTypeOK
        <5> QED BY <5>1, <5>2
      <4>2. 0 \in 0..MaxLoop
        BY ChatQueueAssumption
      <4> QED BY <4>1, <4>2 DEF GetLoopCount
    <3> QED BY <3>1, ChatQueueAssumption
  <2> QED BY <1>12, <1>13, <2>1 DEF ReadLoop
<1>14. CASE LoopCommand(p) \/ RemoveCommand(p) \/ ReadToggle(p)
  <2>1. Len(Queue) \in Nat /\ MaxLoop \in Nat
    BY <1>1, ChatQueueAssumption DEF ChatTypeOK
  <2>2. PICK label \in {"replay", "upcoming", "loop", "remove", "toggled"}, n \in Nat :
           Goto(p, label, WithCount(p, n))
    BY <1>14, <2>1 DEF LoopCommand, RemoveCommand, ReadToggle
  <2> QED BY <1>12, <2>2
<1>15. CASE SkipCommand(p)
  <2>1. [local[p] EXCEPT !.skips = GetPlayingTrack].skips = GetPlayingTrack /\ "next" \in Off
    BY <1>1, <1>2, Fields
  <2> QED BY <1>1, <1>15, <2>1, GotoSettles DEF SkipCommand, Off
<1>16. CASE SeekCommand(p)
  <2>1. WithSong(p, GetPlayingTrack).skips = local[p].skips /\ "position" \in Off
    BY <1>1, <1>2, Fields
  <2> QED BY <1>1, <1>16, <2>1, GotoSettles DEF SeekCommand, Off
<1>17. CASE LowerLoop(p)
  <2>1. pc'[p] = "current" /\ local'[p] = local[p] /\ Others(p)
    BY <1>1, <1>17, GotoAt DEF LowerLoop, Jump
  <2>2. local[p].count > 0
    BY <1>1, <1>17, ChatQueueAssumption DEF LowerLoop, Fits
  <2>3. SkipFits(pc'[p], local'[p])
    BY <2>1, <2>2 DEF SkipFits, Onward
  <2> QED BY <2>1, <2>3 DEF Settles, Adding
<1>18. CASE ReadCurrent(p)
  <2>1. local[p].count > 0
    BY <1>18 DEF ReadCurrent, SkipInv, SkipFits
  <2>2. CASE Goto(p, "send", WithSong(p, GetPlayingTrack))
    <3>1. pc'[p] = "send" /\ local'[p].count > 0 /\ local'[p].skips = local[p].skips /\ Others(p)
      BY <1>1, <2>1, <2>2, GotoAt, Fields
    <3>2. SkipFits(pc'[p], local'[p])
      BY <3>1 DEF SkipFits
    <3> QED BY <3>1, <3>2 DEF Settles, Adding
  <2> QED BY <1>2, <1>4, <1>18, <2>2 DEF ReadCurrent
<1>19. CASE ReadUpcoming(p)
  <2>1. CASE GetUpcomingTrack # None /\ Goto(p, "advance", WithSong(p, GetUpcomingTrack))
    <3>1. /\ pc'[p] = "advance" /\ local'[p].song = GetUpcomingTrack
          /\ local'[p].skips = local[p].skips /\ Others(p)
      BY <1>1, <2>1, GotoAt, Fields
    <3>2. GetUpcomingTrack \in Behind
      <4>1. ~(Len(Queue) < 2) /\ GetUpcomingTrack = Queue[2]
        BY <2>1 DEF GetUpcomingTrack
      <4>2. 2 \in DOMAIN Queue \ {1}
        BY <1>1, <4>1 DEF ChatTypeOK
      <4> QED BY <4>1, <4>2 DEF Behind
    <3>3. local[p].skips # None => local[p].skips \notin Behind
      BY DEF SkipInv, Past
    <3>4. SkipFits(pc'[p], local'[p])
      BY <3>1, <3>2, <3>3 DEF SkipFits
    <3> QED BY <3>1, <3>4 DEF Settles, Adding
  <2> QED BY <1>2, <1>4, <1>19, <2>1 DEF ReadUpcoming
<1> QED BY <1>7, <1>8, <1>9, <1>10, <1>11, <1>13, <1>14, <1>15, <1>16, <1>17, <1>18, <1>19

\* A step of p that keeps what the skips are about.
Keeps(p) ==
    /\ \E T, N \in SUBSET Tracks : Turn(p, T, N)
    /\ SkipFits(pc'[p], local'[p])
    /\ local'[p].skips # None => Past(local'[p].skips)

LEMMA HeadIsPast ==
    ASSUME TypeInv, OnceInv, Queue # <<>>
    PROVE  Past(Head(Queue))
<1>1. /\ Queue \in Seq(Tracks) /\ Len(Queue) \in Nat \ {0} /\ Head(Queue) = Queue[1]
      /\ DOMAIN Queue = 1..Len(Queue)
  BY HeadTailProperties DEF TypeInv, ChatTypeOK
<1>2. 1 \in DOMAIN Queue
  BY <1>1
<1>3. Queue[1] \in Queued \ Behind
  BY <1>2 DEF Queued, Behind, OnceInv, Distinct
<1> QED BY <1>1, <1>3 DEF Past, OnceInv

LEMMA SettlesKeeps ==
    ASSUME TypeInv, OnceInv, SkipInv, NEW p \in Procs, Settles(p)
    PROVE  Keeps(p)
<1>1. Open(p)' = {} /\ Apart(p)'
  BY DEF Settles, Open, Apart
<1>2. Turn(p, {}, {})
  BY <1>1 DEF Turn, Settles, Others
<1>3. GetPlayingTrack # None => Past(GetPlayingTrack)
  BY HeadIsPast DEF GetPlayingTrack
<1>4. local[p].skips # None => Past(local[p].skips)
  BY DEF SkipInv
<1> QED BY <1>2, <1>3, <1>4 DEF Keeps, Settles

LEMMA OrderStep ==
    ASSUME TypeInv, TypeInv', OnceInv, SkipInv, NEW p \in Procs, Keeps(p)
    PROVE  OnceInv' /\ SkipInv'
<1>1. PICK T, N \in SUBSET Tracks : Turn(p, T, N)
  BY DEF Keeps
<1>2. None \notin used'
  BY ChatQueueAssumption DEF TypeInv, RestTypeOK
<1>3. OnceInv'
  BY <1>1, <1>2, TurnOnce
<1>4. \A t : Past(t) => Past(t)'
  BY <1>1, TurnPast
<1>5. \A q \in Procs \ {p} : pc'[q] = pc[q] /\ local'[q] = local[q]
  BY <1>1 DEF Turn
<1>6. \A q \in Procs : local'[q].skips # None => Past(local'[q].skips)
  BY <1>5 DEF Keeps, SkipInv
<1>7. ASSUME NEW q \in Procs, local'[q].skips # None PROVE Past(local[q].skips)'
  <2>1. PICK t : t = local'[q].skips
    OBVIOUS
  <2>2. Past(t)
    BY <1>6, <1>7, <2>1
  <2>3. t \in used' \ Behind' /\ \A r \in Procs : t \notin Open(r)'
    BY <1>4, <2>2 DEF Past
  <2> QED BY <2>1, <2>3 DEF Past
<1>8. \A q \in Procs : SkipFits(pc'[q], local'[q])
  BY <1>5 DEF Keeps, SkipInv
<1> QED BY <1>3, <1>7, <1>8 DEF SkipInv

-----------------------------------------------------------------------------
\* The steps that allocate or add tracks.

LEMMA FoundKeeps ==
    ASSUME TypeInv, OnceInv, SkipInv, NEW p \in Procs, Found(p)
    PROVE  Keeps(p)
<1>1. PICK n \in 1..MaxBatch : \E ts0 \in [1..n -> Tracks \ used] :
         Allocate(ts0) /\ \E label0 \in Adding : Goto(p, label0, Request(ts0))
  BY DEF Found, Adding
<1>2. PICK ts \in [1..n -> Tracks \ used], label \in Adding :
         Allocate(ts) /\ Goto(p, label, Request(ts))
  BY <1>1
<1> DEFINE N == {ts[i] : i \in DOMAIN ts}
<1>3. N \subseteq Tracks /\ N \cap used = {} /\ used' = used \cup N
  BY <1>2 DEF Allocate
<1>4. Distinct(ts)
  <2>1. \A i, j \in 1..n : i < j => ts[i] # ts[j]
    BY <1>2 DEF Allocate
  <2>2. \A i, j \in 1..n : i = j \/ i < j \/ j < i
    OBVIOUS
  <2> QED BY <2>1, <2>2 DEF Distinct
<1>5. /\ pc'[p] = label /\ local'[p] = Request(ts) /\ Others(p)
      /\ Request(ts).todo = ts /\ Request(ts).count = n /\ Request(ts).skips = None
  <2>1. Len(ts) = n /\ n \in Nat
    OBVIOUS
  <2>2. Request(ts).todo = ts /\ Request(ts).count = Len(ts) /\ Request(ts).skips = None
    BY DEF Request
  <2> QED BY <1>2, <2>1, <2>2, GotoAt DEF TypeInv
<1>6. Open(p)' = N /\ Apart(p)'
  BY <1>2, <1>4, <1>5 DEF Open, Apart, Distinct
<1>7. Moves({})
  <2>1. UNCHANGED <<Queue, LastYouTubeTrack>>
    BY DEF Found, chatVars
  <2> QED BY <2>1, MovesNothing DEF TypeInv, OnceInv
<1>8. Turn(p, {}, N)
  BY <1>3, <1>5, <1>6, <1>7 DEF Turn, Others
<1>9. SkipFits(pc'[p], local'[p])
  BY <1>2, <1>5 DEF SkipFits, Onward, Adding
<1> HIDE DEF N
<1> QED BY <1>3, <1>5, <1>8, <1>9 DEF Keeps

\* What starts playing with its first track skips nothing.
LEMMA StartFits ==
    ASSUME PcTypeOK, NEW p \in Procs, NEW todo, StartFirst(p, todo) \/ Return(p)
    PROVE  /\ pc'[p] \notin Adding /\ Others(p) /\ SkipFits(pc'[p], local'[p])
           /\ local'[p].skips = None
<1>1. PICK label \in {"download", "loopFirst", "idle"} :
         Goto(p, label, [Fresh EXCEPT !.song = Head(todo)]) \/ Goto(p, label, Fresh)
  BY DEF StartFirst, Return
<1>2. pc'[p] = label /\ Others(p)
  BY <1>1, GotoAt
<1>3. local'[p] = [Fresh EXCEPT !.song = Head(todo)] \/ local'[p] = Fresh
  BY <1>1, GotoAt
<1>4. local'[p].skips = None
  BY <1>3, FreshFields
<1> QED BY <1>2, <1>4 DEF SkipFits, Onward, Adding

LEMMA AddToQueueKeeps ==
    ASSUME TypeInv, OnceInv, SkipInv, NEW p \in Procs, AddToQueue(p)
    PROVE  Keeps(p)
<1> DEFINE todo == local[p].todo
           T == {todo[i] : i \in DOMAIN todo}
<1>1. /\ pc[p] = "add" /\ todo \in Seq(Tracks) /\ AddSongs(todo) /\ used' = used
      /\ local[p].count = Len(todo) /\ DOMAIN todo = 1..Len(todo)
  BY DEF AddToQueue, At, TypeInv, PcTypeOK, LocalsFit, Fits, Locals
<1>2. Open(p) = T /\ Distinct(todo) /\ T \in SUBSET Tracks
  <2>1. Apart(p)
    BY DEF OnceInv
  <2>2. \A i \in DOMAIN todo : todo[i] \in Tracks
    BY <1>1, ElementOfSeq
  <2> QED BY <1>1, <2>1, <2>2 DEF Open, Adding, Apart, Distinct
<1> HIDE DEF T, todo
<1>3. Moves(T)
  <2>1. T \cap Queued = {}
    BY <1>2 DEF OnceInv
  <2> QED BY <1>1, <1>2, <2>1, MovesBatch DEF T, TypeInv, OnceInv
<1>4. StartFirst(p, todo) \/ Return(p)
  BY DEF AddToQueue, todo
<1>5. /\ pc'[p] \notin Adding /\ Others(p) /\ SkipFits(pc'[p], local'[p])
      /\ local'[p].skips = None
  BY <1>4, StartFits DEF TypeInv
<1>6. Open(p)' = {} /\ Apart(p)'
  BY <1>5 DEF Open, Apart
<1>7. Turn(p, T, {})
  BY <1>1, <1>2, <1>3, <1>5, <1>6 DEF Turn, Others
<1> QED BY <1>2, <1>5, <1>7 DEF Keeps

LEMMA AddToFrontKeeps ==
    ASSUME TypeInv, OnceInv, SkipInv, NEW p \in Procs, AddToFront(p)
    PROVE  Keeps(p)
<1> DEFINE todo == local[p].todo
           n == local[p].count
           t == todo[n]
<1>1. /\ pc[p] = "addFront" /\ todo \in Seq(Tracks) /\ AddSongToFront(t) /\ used' = used
      /\ n \in 1..Len(todo) /\ DOMAIN todo = 1..Len(todo)
  BY DEF AddToFront, At, TypeInv, PcTypeOK, LocalsFit, Fits, Locals
<1>2. Len(todo) \in Nat /\ n \in Nat
  BY <1>1
<1>3. t \in Tracks
  BY <1>1, ElementOfSeq
<1>4. Open(p) = {todo[i] : i \in 1..n} /\ \A i, j \in 1..n : todo[i] = todo[j] => i = j
  <2>1. Apart(p)
    BY DEF OnceInv
  <2> QED BY <1>1, <2>1 DEF Open, Adding, Apart
<1>5. t \in Open(p) /\ t \notin Queued
  BY <1>1, <1>2, <1>4 DEF OnceInv
<1>6. Moves({t})
  BY <1>1, <1>3, <1>5, MovesFront DEF TypeInv, OnceInv
<1>7. CASE n > 1 /\ Goto(p, "addFront", WithCount(p, n - 1))
  <2>1. /\ pc'[p] = "addFront" /\ local'[p].count = n - 1 /\ local'[p].todo = todo
        /\ local'[p].skips = local[p].skips /\ Others(p)
    <3>1. n - 1 \in Nat
      BY <1>2, <1>7
    <3> QED BY <1>7, <3>1, GotoAt, Fields, WithType DEF TypeInv
  <2>2. Open(p)' = {todo[i] : i \in 1..(n - 1)}
    BY <2>1 DEF Open, Adding
  <2>3. \A i \in 1..(n - 1) : i \in 1..n /\ i # n
    BY <1>2, <1>7
  <2>4. n \in 1..n
    BY <1>1, <1>2
  <2>5. Apart(p)'
    BY <1>4, <2>1, <2>3 DEF Apart
  <2>6. Open(p)' \subseteq Open(p) \ {t}
    BY <1>4, <2>2, <2>3, <2>4
  <2>7. Turn(p, {t}, {})
    BY <1>1, <1>5, <1>6, <2>1, <2>5, <2>6 DEF Turn, Others
  <2>8. SkipFits(pc'[p], local'[p])
    BY <2>1 DEF SkipFits, Onward
  <2> QED BY <1>3, <2>1, <2>7, <2>8 DEF Keeps, SkipInv
<1>8. CASE Queue # <<>> /\ Goto(p, "next", [Fresh EXCEPT !.skips = Head(Queue)])
  <2>1. pc'[p] = "next" /\ local'[p].skips = Head(Queue) /\ Others(p)
    <3>1. pc'[p] = "next" /\ local'[p] = [Fresh EXCEPT !.skips = Head(Queue)] /\ Others(p)
      BY <1>8, GotoAt DEF TypeInv
    <3>2. [Fresh EXCEPT !.skips = Head(Queue)].skips = Head(Queue)
      BY FreshFields
    <3> QED BY <3>1, <3>2
  <2>2. Open(p)' = {} /\ Apart(p)'
    BY <2>1 DEF Open, Apart, Adding
  <2>3. Turn(p, {t}, {})
    BY <1>1, <1>5, <1>6, <2>1, <2>2 DEF Turn, Others
  <2>4. Past(Head(Queue))
    BY <1>8, HeadIsPast
  <2>5. SkipFits(pc'[p], local'[p])
    BY <2>1 DEF SkipFits, Onward
  <2> QED BY <1>3, <2>1, <2>3, <2>4, <2>5 DEF Keeps
<1>9. CASE StartFirst(p, todo) \/ Return(p)
  <2>1. /\ pc'[p] \notin Adding /\ Others(p) /\ SkipFits(pc'[p], local'[p])
        /\ local'[p].skips = None
    BY <1>9, StartFits DEF TypeInv
  <2>2. Open(p)' = {} /\ Apart(p)'
    BY <2>1 DEF Open, Apart
  <2>3. Turn(p, {t}, {})
    BY <1>1, <1>5, <1>6, <2>1, <2>2 DEF Turn, Others
  <2> QED BY <1>3, <2>1, <2>3 DEF Keeps
<1>10. Len(Queue) + 1 - Len(todo) > 0 => Queue # <<>>
  <2>1. Len(todo) >= 1 /\ Len(todo) \in Int
    BY <1>1, <1>2
  <2> HIDE DEF todo
  <2> QED BY <2>1
<1> QED BY <1>7, <1>8, <1>9, <1>10 DEF AddToFront

LEMMA RecommendedKeeps ==
    ASSUME TypeInv, OnceInv, SkipInv, NEW p \in Procs, Recommended(p)
    PROVE  Keeps(p)
<1>1. PICK t \in YouTube \ used :
         Allocate(<<t>>) /\ AddSong(t) /\ Goto(p, "send", WithSong(p, t))
  BY DEF Recommended
<1>2. t \in Tracks /\ t \notin Queued
  BY ChatQueueAssumption DEF OnceInv
<1>3. used' = used \cup {t}
  <2>1. used' = used \cup {<<t>>[i] : i \in DOMAIN <<t>>}
    BY <1>1 DEF Allocate
  <2>2. DOMAIN <<t>> = {1} /\ <<t>>[1] = t
    OBVIOUS
  <2> QED BY <2>1, <2>2
<1>4. Moves({t})
  <2>1. <<t>> \in Seq(Tracks) /\ DOMAIN <<t>> = {1} /\ <<t>>[1] = t
    BY <1>2
  <2>2. Distinct(<<t>>) /\ {t} = {<<t>>[i] : i \in DOMAIN <<t>>}
    BY <2>1 DEF Distinct
  <2>3. AddSongs(<<t>>)
    BY <1>1 DEF AddSong
  <2> QED BY <1>2, <2>1, <2>2, <2>3, MovesBatch DEF TypeInv, OnceInv
<1>5. pc'[p] = "send" /\ local'[p].song = t /\ local'[p].skips = local[p].skips /\ Others(p)
  BY <1>1, GotoAt, Fields DEF TypeInv
<1>6. Open(p)' = {} /\ Apart(p)'
  BY <1>5 DEF Open, Apart, Adding
<1>7. Turn(p, {t}, {t})
  BY <1>3, <1>4, <1>5, <1>6 DEF Turn, Others
<1>8. local[p].skips # None => Past(local[p].skips)
  BY DEF SkipInv
<1>9. SkipFits(pc'[p], local'[p])
  BY <1>5, <1>8 DEF SkipFits, Past
<1> QED BY <1>2, <1>5, <1>7, <1>8, <1>9 DEF Keeps

-----------------------------------------------------------------------------
LEMMA OrderInit == Init => OnceInv /\ SkipInv
<1> SUFFICES ASSUME Init PROVE OnceInv /\ SkipInv
  OBVIOUS
<1>1. DOMAIN Queue = {} /\ LastYouTubeTrack = None
  BY DEF Init, ChatInit
<1>2. \A p \in Procs : Open(p) = {} /\ Apart(p)
  BY DEF Init, Open, Apart, Adding
<1>3. OnceInv
  BY <1>1, <1>2, ChatQueueAssumption DEF OnceInv, Distinct, Queued
<1>4. SkipInv
  BY DEF Init, SkipInv, SkipFits, Fresh, Onward
<1> QED BY <1>3, <1>4

\* The name of a track that nothing refers to.
LEMMA CollectedKeeps ==
    ASSUME TypeInv, OnceInv, SkipInv, NEW t \in Tracks, Collected(t)
    PROVE  OnceInv' /\ SkipInv'
<1>1. /\ UNCHANGED <<Queue, LastYouTubeTrack, pc, local>> /\ used' = used \ {t}
      /\ t \notin ToSet(Queue) /\ t # LastYouTubeTrack
      /\ \A p \in Procs : t # local[p].skips /\ t \notin ToSet(local[p].todo)
  BY DEF Collected, Held
<1>2. t \notin Queued
  BY <1>1 DEF ToSet, Queued
<1>3. ASSUME NEW p \in Procs PROVE t \notin Open(p)
  <2>1. CASE pc[p] \in Adding
    <3>1. local[p].count \in 1..Len(local[p].todo) /\ local[p].todo \in Seq(Tracks)
      BY <2>1 DEF TypeInv, PcTypeOK, LocalsFit, Fits, Locals, Adding
    <3>2. \A i \in 1..local[p].count : i \in DOMAIN local[p].todo
      BY <3>1
    <3> QED BY <1>1, <3>2 DEF Open, ToSet
  <2> QED BY <2>1 DEF Open
<1>4. Queued' = Queued /\ Behind' = Behind /\ \A p \in Procs : Open(p)' = Open(p) /\ Apart(p)' = Apart(p)
  BY <1>1 DEF Queued, Behind, Open, Apart
<1>5. OnceInv'
  BY <1>1, <1>2, <1>3, <1>4 DEF OnceInv
<1>6. \A u : Past(u) /\ u # t => Past(u)'
  BY <1>1, <1>4 DEF Past
<1>7. SkipInv'
  BY <1>1, <1>6 DEF SkipInv, SkipFits
<1> QED BY <1>5, <1>7

LEMMA OrderNext == TypeInv /\ TypeInv' /\ OnceInv /\ SkipInv /\ [Next]_vars => OnceInv' /\ SkipInv'
<1> SUFFICES ASSUME TypeInv, TypeInv', OnceInv, SkipInv, [Next]_vars PROVE OnceInv' /\ SkipInv'
  OBVIOUS
<1>1. ASSUME NEW p \in Procs, Command(p) \/ Step(p) \/ StreamEnd(p) PROVE OnceInv' /\ SkipInv'
  <2>1. CASE Found(p) \/ AddToQueue(p) \/ AddToFront(p) \/ Recommended(p)
    BY <2>1, FoundKeeps, AddToQueueKeeps, AddToFrontKeeps, RecommendedKeeps, OrderStep
  <2>2. CASE ~(Found(p) \/ AddToQueue(p) \/ AddToFront(p) \/ Recommended(p))
    <3>1. used' = used /\ Moves({})
      BY <1>1, <2>2, QuietMoves DEF Command, Step
    <3>2. Settles(p)
      BY <1>1, <2>2, <3>1, QuietSettles DEF Command, Step
    <3> QED BY <3>2, SettlesKeeps, OrderStep
  <2> QED BY <2>1, <2>2
<1>2. CASE ChatCleared \/ CallDiscarded \/ UNCHANGED vars
  <2>1. ClearChat \/ UNCHANGED <<Queue, LastYouTubeTrack>>
    BY <1>2 DEF ChatCleared, CallDiscarded, vars, chatVars
  <2>2. Moves({})
    BY <2>1, MovesNothing DEF TypeInv, OnceInv
  <2>3. UNCHANGED <<pc, local, used>>
    BY <1>2 DEF ChatCleared, CallDiscarded, vars, unqueued
  <2>4. ASSUME NEW p \in Procs PROVE OnceInv' /\ SkipInv'
    <3>1. Open(p)' = Open(p) /\ (Apart(p) => Apart(p)')
      BY <2>3 DEF Open, Apart
    <3>2. Turn(p, {}, {})
      BY <2>2, <2>3, <3>1 DEF Turn, OnceInv
    <3>3. Keeps(p)
      BY <2>3, <3>2 DEF Keeps, SkipInv
    <3> QED BY <3>3, OrderStep
  <2>5. CASE Procs = {}
    <3>1. None \notin used
      BY ChatQueueAssumption DEF TypeInv, RestTypeOK
    <3> QED BY <2>2, <2>3, <2>5, <3>1 DEF OnceInv, SkipInv, Moves
  <2> QED BY <2>4, <2>5
<1>3. ASSUME NEW t \in Tracks, Collected(t) PROVE OnceInv' /\ SkipInv'
  BY <1>3, CollectedKeeps
<1> QED BY <1>1, <1>2, <1>3 DEF Next

LEMMA OrderInvariant == Spec => [](OnceInv /\ SkipInv)
BY TypeInvariant, OrderInit, OrderNext, PTL DEF Spec

\* However handlers interleave and whatever fails, no pointer is queued twice,
\* and autoplay's seed is not queued.
THEOREM TracksQueuedOnce == Spec => []QueuedOnce
<1>1. TypeInv /\ OnceInv => QueuedOnce
  <2> SUFFICES ASSUME TypeInv, OnceInv PROVE QueuedOnce
    OBVIOUS
  <2>1. \A i \in DOMAIN Queue : Queue[i] # None
    BY ElementOfSeq, ChatQueueAssumption DEF TypeInv, ChatTypeOK
  <2> QED BY <2>1 DEF OnceInv, QueuedOnce, Distinct, Queued
<1> QED BY <1>1, TypeInvariant, OrderInvariant, PTL

\* Not only with one handler: a skip that finds no repeat left goes to another
\* track whatever the other handlers of the chat do meanwhile.
THEOREM SkipsSwitch == Spec => []SkipSwitches
<1>1. SkipInv => SkipSwitches
  BY DEF SkipInv, SkipFits, SkipSwitches, Onward
<1> QED BY <1>1, OrderInvariant, PTL
=============================================================================
