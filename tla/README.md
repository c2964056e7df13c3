# TgMusicBot: TLA+ models, model checking and proofs

TgMusicBot plays music in Telegram voice chats.  A *bot* client (gotdbot) takes
commands; one or more *assistant* user accounts (gogram and the native ntgcalls
engine) join the calls and stream.  Every update is handled in a goroutine of
its own, stream ends and timers have theirs, and almost nothing serialises the
goroutines that work on one chat: the locks protect single operations on maps
and queues.  What can go wrong, then, is between operations, and that is what
the modules below are about.

Paths are relative to the repository's `src/` directory (`vc/calls.go` stands
for `src/vc/calls.go` below the repository's root).

## 1. Inventory

| Component | State | Operations | Talks to |
|---|---|---|---|
| Chat queue cache, `core/cache/chat_cache.go` | per chat: `Queue`, `Autoplay`, `LastYouTubeTrack`; `Loop` in each track | AddSong(s), AddSongToFront, RemoveCurrentSong, RemoveTrack, SetAutoplay, SetLoopCount, ClearChat, readers, GetQueue's copy | called by every handler and by PlayNext |
| Playback engine, `handlers/{play,skip,stop,loop,remove,autoplay,seek,callbacks,watcher}.go`, `vc/{calls,helpers,play}.go` | the goroutines' local variables, the call's stream | /play, /fplay, playlists, /skip, /stop, /loop, /remove, /autoplay, /seek; PlayNext, playSong, PlayMedia, Stop; stream end; service messages | queue cache, downloaders, assistants, prefetcher |
| Prefetcher, `vc/prefetch.go` | one timer per chat, the guard's set, `FilePath` of tracks | schedulePrefetch, cancelPrefetch, prefetchNextTrack, tryStart, finish | called by playSong and Stop; reads the queue |
| TTL cache and janitor, `core/cache/cache.go` | map with expirations; list of caches, stop channel, running flag | Get, Set, Delete, Clear, Close; register, unregister, sweep | under every database and membership cache |
| Assistant connection, `vc/assistant.go` | `inputGroupCalls`, `waitConnect`, `pendingConnections`, `mutedByAdmin`, the native call | Play, connectCall, stopCall, handlers of group-call, participants and connection updates | ntgcalls, MTProto |
| Assistant choice and rotation, `vc/calls.go`, `vc/play.go`, `core/db/assistant.go` | the chat's assignment in MongoDB and its cache | getClientIndex, AssignAssistant, SetAssistant, RemoveAssistant, PlayMedia's retry and rotation | assistants, membership |
| Membership, `vc/userbot.go`, `handlers/participant.go` | caches of member status and invite links | joinAssistant, joinUb, recoverBannedAssistant, member updates | Telegram, queue cache, Stop |
| Leave and join all, `vc/leave_all.go`, `vc/join_all.go` | the mark of assistants that are leaving | LeaveAll, LeaveAllForClient, auto-leave, JoinAllAssistants | dialogs, queue cache |
| Settings store, `core/db/{chats,users,auth,lang,logger}.go`, `handlers/{settings,auth,start}.go` | MongoDB documents and a cache in front of each collection | get, add, set, remove, GetAll | TTL cache, MongoDB |
| Admin cache and permissions, `core/cache/admin_cache.go`, `handlers/{filters,admins}.go` | list of admins per chat, reload rate limit | GetAdmins, UpdateAdminCache, ClearAdminCache, /reload, adminMode, playMode | TTL cache, Telegram, settings |
| Playlists, `core/db/playlist.go`, `handlers/playlist.go` | playlist documents | create, delete, add song, remove song | MongoDB |
| Broadcast, `handlers/broadcast.go` | in-progress and cancel flags | start, cancel, the sending goroutine | settings store, Telegram |
| Backup, `core/db/backup.go`, `handlers/backup.go` | the collections, the backup file | backup (command or clock), restore | MongoDB under every store |
| Downloaders, `core/dl` | files in the downloads directory, the media cache's connection | DownloadCachedTrack: YouTube, Spotify, Telegram, direct | network, ffmpeg, yt-dlp, MongoDB |
| Download statistics, `core/dl/arcstats.go` | counters | record, /ytstats, reset | downloaders |
| ntgcalls binding, `vc/ntgcalls` | a future per native call | wait with timeout | native engine |
| Menus, statistics, start-up, configuration, developer commands | - | I/O and formatting | - |

What makes each correct, and what is hard about it:

* **Queue**: tracks leave from the front, enter at the back or in second place,
  nothing is lost or doubled; a snapshot stays what it was.  Hard: a Go slice
  whose window slides over a shared array, entries deleted and re-created.
* **Playback**: a queued track is played in its turn; a skip switches; Stop
  stops; autoplay ends with the queue; one request of several starts an idle
  chat; nobody waits for a track that no one will play.  Hard: PlayNext takes
  up to six separately locked operations and may call itself; a download or
  search lies between reading the queue and acting on it.
* **Prefetcher**: one timer per chat, none after Stop, one download per track.
  Hard: timers that have fired cannot be stopped; map, timer and guard are
  updated apart.
* **TTL cache**: a hit was in the cache and unexpired during the call; eviction
  is invisible; one janitor; expired entries go.  Hard: Get and the janitor act
  on an old look at the map with an old clock; a stopped janitor may still be
  sweeping when the next starts.
* **Assistants and connection**: the cached assistant of a chat is the stored one; a Stop
  takes the assistant out and nothing brings it back; every wait ends; one
  goroutine at a time makes an assistant leave its chats.  Hard: two goroutines
  may connect one chat, updates arrive late and in any order, each of the
  dozen requests of a join can fail and each failure leaves something else
  behind.
* **Settings, permissions, admin cache**: a cached value is the stored one, and a
  command gets through only for those whom the stored settings allow.  Hard:
  read-then-fill against write-then-drop; lists edited without a lock; errors
  that read as absent documents.
* **Playlists, broadcast, backup**: limits hold up to the number of commands at
  work, a cancelled broadcast stops, a reported restore is a restore.  Hard:
  tests and writes are separate requests, and handlers work on during a restore.
* **Downloads**: what is handed out is a whole file.  Hard: all downloads of a
  track use the same file names, and an encoder can die half way.

`PROJECT.json` lists the hazards one by one at the line where they bite.

## 2. Modules

```
ChatQueue <--- Playback <--------------- Prefetch        TTLCache
    ^              ^                        ^                ^
    | Implements   | proofs                 | proofs         | proofs
SliceQueue    PlaybackProof                 |           TTLCacheProof
    ^              ^                        |
    | proofs       |                        |
SliceProof    PlaybackSerial <--------- PrefetchProof
```

```
Connection <- Assistants         Handlers <- Documents <- AdminCache <- Permissions <-+
                  ^                 ^            ^----- Broadcast <------------------+
                  | proofs          |            ^----- Backup <---------------------+- Store
            AssistantsProof         +--- Playlists <---------------------------------+    ^
                  ^                 +--- Downloads <---------------------------------+    | proofs
              StopProof                                                              StoreProof
```

`MC*.tla` instantiate the modules for TLC; they define symmetry sets, a view and
the workloads, nothing else.  Operators named `Bug...` are mutants: plausible slips in the
code, used to make sure that each checked property can fail.

### ChatQueue

One chat's entry as callers see it.  Each method of `ChatCacher` holds the lock
throughout, so each is one operator.  A track is a number (its pointer); of its
fields only `Loop` changes while it is queued.  Chats share nothing but the
mutex, so one chat is modelled.  A chat without an entry and one with a zero
`ChatData` look alike to every reader; SliceQueue shows that.

### SliceQueue

The same methods as the code has them: an entry in the map or none, a slice as
array, offset and length, `append` writing into spare capacity when it
suffices and moving to a new array (with any number of spare slots, the Go
runtime's choice) when not.  A caller of GetQueue keeps the slice it got.
`Implements` is the refinement: with `Queue <- Elements(queue)` and the flags
read only if there is an entry, every step is a step of `ChatQueue!ChatNext`
or changes nothing there.

### Playback

The engine of one chat.  `pc[p]` and `local[p]` are goroutine p's place and
variables; it is `"idle"` until a command or a stream end gives it work.  One
step is one operation on shared state, or one call that can fail.  The map
from code to steps:

| Code | Steps |
|---|---|
| `handlePlay` .. `handleMultipleTracks` | PlayRequest (length check), Found / NotFound (search), AddToQueue or AddToFront, then for a request that finds the chat idle: Downloaded / DownloadFailed, MediaStarted / MediaFailed, Undo; or LoopFirst and PlayNext |
| `PlayNext` | ReadLoop, LowerLoop, ReadCurrent; ReadUpcoming, Advance; Drain, ReadSeed, ReadAutoplay |
| `handleAutoplay` | Recommended / NoRecommendation |
| `playSong` | Announced / AnnounceFailed, ReadFilePath, Fetched / FetchFailed, MediaStarted / MediaFailed |
| `Stop` | AutoplayOff, Clear, HangUp / HangUpFails |
| /skip, /stop, /loop, /remove, autoplay button, /seek | a first step that looks at the queue, a second that acts |
| `OnStreamEnd` | StreamEnd |
| video chat started/ended, assistant gone | ChatCleared |
| `updateGroupCall` discarded | CallDiscarded |

Abstractions.  The three ways `handlePlay` adds a track (media, single track,
playlist) differ only in what follows the adding and are told apart by the
number of tracks.  Permissions, texts and argument parsing are left out.
`PlayMedia` is one call that succeeds, or fails after clearing the chat, and
may be tried again with the same or another assistant (`"rotate"`); which
assistant, and its connection, are the subject of Assistants, and at
least one assistant is logged in, so `Stop` always gets as far as the call.
The duplicate check by TrackID is part of NotFound: distinct allocations are
distinct tracks.  Pause, resume, mute and unmute do not touch the modelled
state.  `stream` is what the native call plays; a call that ends by itself
produces StreamEnd, one that is stopped does not.  A native stop may fail (the
fault `"hangup"`): Stop then reports an error that `/stop` and the end of the
queue drop, and the stream goes on.  Four history variables
(`halted`, `survivor`, `tried`, and `skips` in `local`) serve the properties.
A track is a name, and names are finitely many; autoplay is not.  So a YouTube
track nothing refers to any more may be *Collected* and its name used for
another, and recommendations end only if a search fails.

### Prefetch

Playback with the code of `vc/prefetch.go`: the timer in the map, the timers
armed, the goroutine each firing starts, the guard's set and the tracks whose
`FilePath` is set.  schedulePrefetch's cancel, create and store are separate
steps; a timer that has fired is out of Stop's reach.  The steps of Playback
that read or write `FilePath` are replaced by versions that do; all others are
taken over unchanged.

### TTLCache

Caches, `Get` (read, look at the clock, delete under a second lock), the
janitor's `register`/`unregister`, and any number of janitor goroutines:
`runWith` copies the list, and `evictExpired` takes the time, scans and deletes
in three steps.  A goroutine and its stop channel are named after the cache
whose registration started them.  The order of the list is abstracted to a set.
An entry may expire between a Get's read and its look at the clock; a Get can
therefore miss although its key held a live entry at every moment of the call
(the old one read, then replaced, then the clock passes its expiration).  No
caller relies on the opposite, and HitWasHeld states the direction that holds.

### Connection

The voice connection of one chat, per assistant: the fields of `Assistant` that
concern the chat (`inputGroupCall`, `waitConnect` with what the channel holds,
`pendingConnection`, `mutedByAdmin`), and, external, the engine's call with its
mode and the requests it has not met in time, Telegram's video chat, who is in
it and who is a member of the group.

| Code | Steps |
|---|---|
| `Play` | PlayExisting, SetSources; or PlayNew, connectCall, CheckPresentation |
| `connectCall` | Register, CreateCall, SetMedia, JoinGroupCall, Connect, ReadMode, Await, Unregister; Abort where an error stops the native call again |
| `getInputGroupCall` | Lookup, AskGroupCall, NoteGroupCall, RereadGroupCall |
| `stopCall` | ForgetCall, StopNative, LeaveGroupCall |
| `onConnectionChange` | OnConnectionChange |
| handlers of group call and participants | OnGroupCallObj, OnGroupCallDiscarded, StopDiscarded; ReadPending, connectCall, ForgetPending; NoteMuted, NoteUnmuted, Unmute; OtherCall |

Peculiarities kept: getInputGroupCall can store "closed" over a newer update; an
ended video chat deletes the entry whichever call it names; the re-connection in
the participants handler calls CreateCall on a call that exists, which fails and
stops it; stopCall does not leave the video chat if the native stop fails.  A
late answer of `Calls()` and a chat without a call look alike to Play.  A native
call that times out is not cancelled (`vc/ntgcalls/future.go`): it stays in
`abandoned`, and NativeCatchesUp may carry it out at any later time, or never.
`joinPresentation` is only its check: the screen source that its join branch wants is never set.

### Assistants

Two assistants and one chat around Connection.

| Code | Steps |
|---|---|
| `getClientIndex`, `GetAssistant`, `AssignAssistant` | LookupAssistant, FindAssistant, FillCache; or FindNone, AssignAssistant, NoteAssigned |
| `joinAssistant`, `checkUserStats` | CheckStatus, NoteStatus |
| `recoverBannedAssistant` | Recover |
| `joinUb`, `resolveInviteLink`, `handleJoinError` | ResolveCached / CreateLink, NoteLink, JoinChat / JoinExpired, NoteJoined, NoteExpired |
| `PlayMedia`, `rotateAndPlay`, `evictAssistant` | PlayFailed (the retry), RemoveAssistant, DropEntry, Rotate, SetAssistant, NoteSet |
| `/clearass` | ClearAllAssistants, ClearCache |
| `JoinAllAssistants` | JoinNext and the steps of a join |
| `LeaveAll`, `LeaveAllForClient`, `leaveAssistantDialogs` | LeaveNext, LeavePicked, LeaveAllForClient, LeaveChannel, LeftChats |
| `handleParticipant`, `dispatchStatusChange` | HandleParticipant, the choice of the assistant, NoteMember; HandleBotRemoved and Stop |

Updates are a bag: each is handled by a goroutine of its own, in any order.  The
chat's record in the database (`assigned`) and its entry in `assistantCache`
(`cachedAssistant`) are apart: a method of `core/db/assistant.go` is one step for
its request, which may be met and not confirmed, and one for its entry, and
the entry expires after any time.  Work that LeaveAll or an eviction
starts in the background (`spawned`) is done by any goroutine that is idle, one
for commands or one for updates; two starts of the same kind for the same
assistant are not told apart.  LeaveChannel stands for one
chat's turn in the loop over the dialogs; LeaveAll's comparison of dialogs with
active chats uses an id under which no queue is kept, so chats that play are
left too, and the model leaves them.  A join that needs approval is not noted in
the status cache; CHANNEL_PRIVATE notes the assistant as having left.  Updates
about other assistants than the chat's are dropped.  The group has no public
name, which would take the place of the link.  `quiet`, `departed`, `alone` and
`outrun` are history.

### Handlers, Documents

Handlers has goroutines, labels and local variables.  Documents adds the database
and the caches in front of it: two chats, the chat's authorised users, a user,
the logger switch.  A read is Lookup, Find, Fill; a write is one database step
and then Drop (chats, auth) or Put (users, logger), if the database confirmed.
A write that is not confirmed may have happened.  GetAllChats and GetAllUsers
read and cache document by document.  The insertion of an absent chat is
`$setOnInsert`.  Two history variables: `outdated`, entries that a change has
outrun, and `dirty`, backups and restores that a write has overlapped.

### AdminCache, Permissions

The admin list with roles "none", "limited" (an admin without the right that is
asked for) and "admin".  GetAdmins is a look, a request and a store; /reload tests
and sets its rate limit in two steps, clears and fetches; UpdateAdminCache reads
and stores in two.  Only updates about the bot itself reach UpdateAdminCache
(`participant.go:43` drops the others), so a user's entry is wrong after a
promotion until it expires.  Its handler may return before it comes there, when
the assistant or the chat cannot be read (DropBotRole): the update is lost, and
`outdated` notes `"dropped"`.  Permissions follows a command through checkBotAdmin,
adminMode or playMode, then the settings buttons, with the second look at the
list and the three reads of the chat for the new keyboard, and /auth, /unauth.

### Playlists, Broadcast, Backup

Playlists: every command reads first and writes later, each a request of its
own.  The songs of a playlist are a bag, since their order only says which of
them a number means.  GetUserPlaylists takes a cursor that breaks off for the
end, songExists an error for "no"; `misread` notes it.

Broadcast: test of the flag, reads of all chats and users, two stores of the
flags, the sending goroutine, the cancel.  A flood wait costs the target it hit.

Backup: one step per collection written, dropped, and per document inserted.
A document made anew during a restore is a duplicate key, which ends that
collection; caches are not told.  The collections' order is fixed by a CHOOSE,
as in the code by the server and the file.  Documents are kept as relaxed
extended JSON, which may change a number's integer type but not its value; a
document read back is taken for the one written.

### Downloads

DownloadCachedTrack for a direct link, a Telegram file, a YouTube track (media
cache, job API, yt-dlp), a Spotify track and any other.  What matters are the
files two goroutines can share: the ArcMusic file and its .part (by inode: who
truncated it last, whether that one has copied everything), the Spotify track's
temporary files and its .ogg, TDLib's file.  The counters of `arcstats.go` are
here, because resolve keeps them.  `mixed` notes files two downloads have
mixed up, and counters a reset has put out of step.

### Store

Composes the last seven modules.  A *workload* says which commands and events
come, how many, and how many goroutines are at work at once; every group of
commands is explored with what can disturb it, instead of all with all, since
playlists and downloads share no state with the rest.  Initially the database is
empty or in use, the caches empty (after a restart) or filled, the backup file
absent or an older one.  Which idle goroutine takes a command makes no
difference and is fixed by a CHOOSE.

## 3. What is checked

All runs are exhaustive but the four that stop at a violation; the longest take two to
three minutes with two workers.

| Run | Instance | States | Shows |
|---|---|---|---|
| `playback_serial` | one handler, 4 tracks (2 from YouTube), limit 3, playlists of 2, every command, every fault but a failed announcement | 175 thousand | the promises of the commands, and liveness |
| `playback_race` | two handlers, 4 tracks, limit 2, service messages at any moment | 5.3 million | QueuedOnce, QueueBound |
| `playback_start` | three requests and /remove, 4 tracks, nothing interrupts | 29 thousand | OneDriver, HeadIsStreaming |
| `playback_stop` | two handlers, 2 tracks | - | StopHalts is violated |
| `playback_fplaylist` | one handler, a playlist of 2, nothing fails | - | TurnKept is violated |
| `slices` | 2 tracks, up to 3 queued, batches of 0..2, spare capacity 0..2, 3 arrays | 54 thousand | Implements, CopyStable, NothingRetained |
| `caches` | two caches of one key, one Get, one tick of the clock, all janitors | 138 thousand | safety and liveness of the cache |
| `prefetch` | one handler, 3 tracks, 3 timers, faults | 117 thousand | guard, timer and Stop |
| `prefetch_guard` | the same, no service messages | - | OneDownload is violated |
| `voice` | two assistants, one goroutine for commands and one for updates, 2 video chats, one invite link; with everything able to fail one input, with the fault that causes an eviction, or with native calls that time out, two | 1.4 million | safety of assignment, connection and leaving; every handler returns |
| `voice_retry` | one /play, the join fails once | - | RetryJoins is violated |
| `store` | three goroutines, two users, seven workloads of two to four inputs, everything able to fail | 1.4 million | what documents, caches, flags and files keep true |

Properties:

* *HeadIsStreaming*: when no handler is at work and a track is queued, the head
  is on the air.  It relates the queue, moved by PlayNext, to the call.
* *StopHalts*: from the return of a Stop to the next request nothing starts to
  play, and nothing is on the air but a stream that this Stop failed to end.
* *SkipSwitches*: a skip or force-play that finds no repeats goes to another
  track.  (With repeats left both replay the head.)
* *TurnKept*: PlayNext takes off the head only a track somebody set out to play.
* *AutoplayEndsWithQueue*, *HandlersReturn*, *QueuedServed*: autoplay is off when
  the queue is empty; every handler returns, unless autoplay finds one
  recommendation after another of which none can be downloaded (the code's
  recursion has no bound); a queued track is reached or taken out once no more
  repeats are asked for.
* *OneDriver*: of several requests to an idle chat one starts it.
* *QueuedOnce*, *QueueBound*: what holds whatever interleaves: no pointer is
  queued twice or is both queued and autoplay's seed; the queue exceeds its
  limit by less than one request per handler (not at all, says the code's
  comment: see the disagreements).
* *Implements*, *CopyStable*, *NothingRetained*: section 2, SliceQueue.
* *EvictionInvisible*: no step of a Get or a janitor changes what is live.
  *HitWasHeld*, *OneJanitor*, *StoppedExits*, *ExpiredEvicted*.
* *GuardExact*: the guard holds exactly the tracks being prefetched, each by one
  goroutine.  *OneTimer*, *StopCancels*: one armed timer, none after Stop.
* *WaitersGone*: a registered channel is that of a goroutine still inside
  connectCall for that assistant.  *OneLeaver*: one goroutine at a time leaves
  an assistant's chats, and its mark is set meanwhile.
* *StopLeaves*: after a Stop that reported success, overlapped nothing and found
  no abandoned request in the engine, the assistant has no call and no pending
  connection until something is played; and it is out of the video chat (`departed`),
  but for the three cases in which the code reports success without making it
  leave: the engine had no call, no group call was known, the bot was removed.
* *AssignmentCached*: the cached assistant differs from the stored one only
  between a write and its entry, or when a write came between some
  method's request and its entry or was not confirmed (`outrun`), until an
  undisturbed entry or the expiry.
  *CommandsReturn*: again and again no goroutine is at work.
* *StaleOnlyAfterRace*: a cached value differs from the stored one only between a
  write and its drop, or when a write outran a read under way, was unconfirmed
  or came from a restore; likewise the bot's entry in the admin list, where an
  update lost by its handler is a further exception.
* *GateHonest*: undisturbed, a command gets through only if the stored settings,
  the authorised users and Telegram's roles allow it, with two exceptions the
  code has: an unreadable chat is one where everyone may play, and the list says
  what it said before a lost update of the bot's role.
* *RestoreExact*: a restore reported complete brings back what was stored when
  the backup began.  *CancelStops*: after "Broadcast stopped" at most one
  message is sent.  *PlaylistsBounded*: copies of a song, and playlists beyond
  the limit, are at most as many as the commands at work.
* *DownloadsWhole*: a path handed out is a whole file's.  *ArcBalance*: attempts
  are successes, failures and downloads under way.

AssignmentCached and the seven after CommandsReturn have escape clauses (`outrun`,
`outdated`, `dirty`, `overlap`, `misread`, `mixed`).  They name the races the code
does have: a Fill after a Drop, a second broadcast begun between test and set, two downloads that truncate one .part file,
an encoder that left a truncated .ogg.  Each is recorded by the step that
commits it, so that the property says: this, and nothing else, goes wrong.

**Which promises survive concurrency.**  Most of the serial run's properties do
not hold with two handlers, and the project does not claim they do: PlayNext
reads the upcoming track and removes the head in two critical sections, so a
skip together with a stream end drops a track; a starter whose download fails
leaves the tracks queued behind it waiting; a stream can start after Stop.
`playback_stop` exhibits the last, because a comment of the code promises the
opposite; `playback_race` checks what does survive.  Likewise OneTimer and
StopCancels are claims about one handler at a time.  A failed announcement
(`"send"`) breaks HeadIsStreaming even with one handler, since playSong returns
and no stream end will follow; that fault is enabled in the race run and left
out of the serial one.

**Bounds.**  Two handlers suffice for a check of one and an action of another to
interleave at every point, three requests for a starter, a second and a
bystander.  Queue limits of 2 and 3 with batches of 2 let requests overshoot,
and make second place, middle and end of the queue different positions.  A track
is allocated once, so `Tracks` bounds the requests of a behaviour; tracks of
both platforms exist because only YouTube's seed autoplay.  `MaxLoop` is 1: the
code's 10 only repeats the step.  In `slices` three arrays are the entry's old
one, its new one and a caller's.  In `caches` a TTL of 0 and one tick make
expiry happen between any two steps; two caches let the last one close while
the other opens.  Three timers are one in the map, one fired and one being
created.  In `playback_serial` two YouTube tracks are enough for autoplay without
end, since a collected track's name is used again.

In `voice` two assistants are what a rotation and a wrong choice need, one
goroutine for commands and one for updates let a re-connection overlap a play,
and two video chats let one replace the other.  The inputs (commands and
outside events) are bounded: one where every fault but the database's can happen
(a join that is retried or rotated included), one where the database does not
answer and an assistant is evicted, two with evictions, which start work in the
background, and two where native calls time out or the assistant lacks rights.
A link that expires twice in one join (the last branch of JoinExpired's retry)
would need a third.  MaxLinks is 1, so a second link is refused, which the code
treats as any other error.  In `store` each workload is two to four inputs and two or three goroutines: enough for a
reader, a writer and a third party between any two of their steps.
MaxPlaylists is 2 of the code's 10, with a user one short of it; two cycles of
the job API and two tries of TDLib are a first and a last one.

**Fairness.**  Playback: a handler that has begun takes its next step (its calls
return or time out; weak fairness of Step), and the end of a stream is
delivered in a goroutine of its own whatever else goes on (strong fairness of
StreamEnd).  Commands need not come.  TTLCache: a ticker ticks, a started
goroutine runs, and `select` chooses at random among ready cases, so it does not
prefer one for ever (strong fairness of TakeTick and Exit).  Nothing is assumed
of callers or the clock.  Assistants: while some goroutine can go on, some
goroutine does (weak fairness of the disjunction, less than each for itself),
because each of its requests returns, fails or times out; nothing is assumed of
the engine, whose answer may never come, nor of updates and commands.  Store
states safety only.

**Deadlock** is not checked: the bot may be idle, and behaviours end when the
tracks or the inputs are used up.

### Disagreements between code and documents

1. `playback_stop`: `vc/calls.go:147` says Stop halts playback and clears the
   chat.  A handler between its look at the queue and PlayMedia starts its
   stream after Stop, in a chat whose queue is empty.
2. `playback_fplaylist`: a playlist force-played in an idle chat is inserted
   back to front, which leaves its *last* track at the head; setting `Loop = 1`
   on the first and calling PlayNext drops that head unplayed
   (`handlers/play.go:434-454` against `handlers/help.go:75-78`).
3. `prefetch_guard`: `vc/prefetch.go:108-111` names the very case of a user
   skipping into a track being prefetched; downloadAndPrepareSong never asks
   the guard, and both download.
4. `voice_retry`: `vc/play.go:19` describes errRetryOnce as "retry the same
   assistant once (e.g. participants race)".  The join that failed leaves the
   native call it created; the retry finds it, only sets its sources, reports
   success and never joins the video chat.
5. `handlers/play.go:76-77` calls MaxQueueLength "the maximum number of tracks
   allowed in a single chat's queue at once", and line 84 tells the user "Queue
   is full (max %d tracks)".  The length is checked once, before the search, and a
   playlist is then added whole: one request that finds the queue one short of
   the limit exceeds it by all but one of its playlist's tracks, and handlers that passed the
   check together exceed it together.  It has no run of its own; QueueBound
   is the bound that the code does keep, and with MaxQueueLength in its place
   `playback_race` fails.

## 4. What is proved

Eight modules prove 37 theorems, for every value of the constants under the
modules' ASSUMEs: finitely many handlers, goroutines and timers; a queue limit
above 1, a loop limit and a batch of at least 1; some video chat at all;
playlists numbered from 1 and a limit they can reach; None distinct from tracks,
users, goroutines and numbers.  Every safety invariant and every action property
the passing runs check is among them.  Where a
theorem has a hypothesis of its own, it says which behaviours the code keeps its
promise in; no hypothesis is a restriction of the data.

### Playback: `PlaybackProof`, whatever interleaves

* *TypeCorrect*.  TypeOK is not inductive: that /loop's store and PlayNext's
  decrement keep `Loop` in range depends on what was read in an earlier step,
  so `TypeInv` adds `LocalsFit`: at each label the local variables are what the
  step at that label needs (a song in hand where one is played, a count above 0
  where it is lowered, a position of `todo` where one is added).
* *QueueBounded*.  The length alone is not inductive either: a handler that has
  passed the check will add its tracks later.  `BoundInv` says that the queue
  together with what handlers past the check may still add stays below
  `MaxQueueLength + MaxBatch * Cardinality(Procs)`.  The sum over the handlers is
  the cardinality of a set of promised slots, so it needs no induction.
* *TracksQueuedOnce*.  `OnceInv`: the tracks handlers still have to add (`Open`),
  those queued and autoplay's seed are disjoint, and no two handlers have one in
  common.  A step moves tracks one way only, from a handler to the queue to the
  seed, and what has left the queue does not come back.
* *SkipsSwitch*.  `SkipInv`: the track a skip wants rid of is `Past`, that is
  allocated, not behind the head and with no handler that could add it.  What is
  past stays past, while the track PlayNext moves on to comes from behind the head
  or from a handler.

### Playback: `PlaybackSerial`, the promises that need a handler to itself

Here `Serial` (one handler) is a hypothesis, because section 3 shows the promises
broken without it.  The invariants are of one kind: for each label, what the
earlier steps of PlayNext's chain of separately locked reads and writes have
established and a later one relies on.

| Theorem | Hypotheses beside Serial | Why |
|---|---|---|
| *StopsHalt* | none | `HaltInv`: after a Stop queue and seed stay empty, and a stream that the Stop failed to end leads only to another Stop; holds for all commands, faults and service messages |
| *AutoplayEnds* | no `"cleared"` | a service message that clears the chat in the middle of PlayNext leaves the flag to whoever reads it next |
| *HeadStreams* | no `"send"` fault, no `"cleared"`, `"discarded"` | an announcement that fails, a chat cleared or a call hung up behind the handler's back |
| *TurnsKept* | no `"send"` fault, no `"fplaylist"` | the same, and the divergence `playback_fplaylist` shows |
| *OneStarts*, *HeadStreamsConcurrently* | not Serial; operations among play, remove, autoplay, faults among `"search"` | any number of requests: `StartInv` says that at most one goroutine is between seeing the chat idle and the stream, that there is none while the queue is empty, and that the head is what it brings |

### `PrefetchProof`

*PrefetchImplementsPlayback*: every step of Prefetch is a step of Playback or leaves
its variables alone; hence *PrefetchQueueBounded*.  *GuardAlwaysExact* (`GuardInv`)
and *PrefetchTypeCorrect* (`PrefetchInv`: a goroutine past the nil check has a track)
hold for any handlers and timers.  *OneTimerPending* and *StopCancelsTimers* need
Serial: `TimerInv` says for each step of schedulePrefetch which timers may be armed
and which of them CancelPrefetch would find.  StopCancels also needs to know
that nobody schedules after a Stop; that is Playback's `HaltInv`, carried
over by the refinement.

### `TTLCacheProof`

*TypeCorrect*.  *OneJanitorAlways*: `JanitorInv`, on which stop channels are closed and
which goroutines were started.  *EvictionInvisibleAlways*: a stamp taken by a
sweep is never ahead of the clock.  *HitsWereHeld*: with the history `held`, what
each Get's key has held since the call began, `HeldInv` says that the item a Get
has read is in it.

### `SliceProof`

`SliceInv` conjoins the type (*SlicesInBounds*), that the entry and a caller's copy
never share an array (`Apart`), that every slot of the entry's window holds a
track (`Window`) and the properties of *CopiesStable* and *NothingIsRetained*: no
method that shifts, slides or appends in place reaches a copy because of
Apart, and the slots it leaves behind were set to nil.  *SliceIsQueue* is the
refinement of ChatQueue, for every capacity and any spare capacity.

### `AssistantsProof`, `StopProof`

* *TypeCorrect*.  `TypeInv` adds `ControlInv` (the label fits what the goroutine is
  about: connecting, joining, stopping, leaving) and `UpdatesOK` (each
  waiting update names what its handler will look up).
* *NoWaiterLeft* is inductive with it: the step that registers a channel is in the
  same call as the one that unregisters it, on every path out, Abort's included.
* *LeaversApart*: `LeaverInv` adds that a LeaveAll spawned but not begun holds its
  assistant's mark too.
* *AssignmentIsCached*: `AssignmentInv`.  Unless `outrun`, every method of
  `core/db/assistant.go` that is between its request and its entry holds what the
  record says, so whichever of them writes the entry last leaves it right, and the
  entry differs from the record only while one of them has yet to write it.
* *StopsLeave*: `StopInv`.  While some assistant is quiet or some stop undisturbed no
  goroutine is on its way to a play (`AllPlayless`).  A quiet assistant, one that a
  Stop has reported stopped, has no call and is
  `Silent`: no pending connection, no request left in the engine but stops,
  no goroutine dialling for it.  These are the three ways in which it could
  be brought back, and a departed one that has left the video chat stays out of it.
  The rest is the progress of the undisturbed Stop through its steps, the ways
  past leaving included.

### `StoreProof`

One invariant for each part of the store, each with `Shape` (which fields a
goroutine has) and a lemma that the steps of the other parts leave it alone:

* *CancelHolds* (`CancelInv`): a goroutine that has sent one message since the cancel
  has seen no unset flag, so its next look ends it.
* *ArcBalanced* (`ArcInv`): the downloads under way are the cardinality of the
  goroutines inside resolve, and while a reset is under way nobody is there,
  unless the two have overlapped (`mixed`).
* *DownloadsAreWhole*: `SavedInv` on the .part file's inode (unless `mixed`, one writer,
  which truncated it last and has copied it all once it renames), `OggInv` on the
  Spotify track's stages, `TdInv`.
* *StaleOnlyAfterRaces*: `DocInv`, what every reader and writer holds of a document that
  no change has outrun, and `BotInv`, the same for the bot's role, of which no
  update has been dropped.
* *RestoresAreExact*: `RestoreInv`, what has been written, dropped and inserted so far
  by every backup and restore under way that no write has overlapped.
* *PlaylistsStayBounded*: `ListInv` counts the goroutines between test and write
  (`Adders`, `Creators`) with what they are about to add; together they never
  grow past the limit except by the number of goroutines.
* *GatesAreHonest*: `GateInv` follows an undisturbed command through its checks,
  with `DocInv`, `BotInv` and `MembersInv` for the caches they read.
* *TypesAreKept*: TypeOK is not inductive: what a goroutine writes or caches was
  chosen several steps before.  `TypedInv` says what it has in hand at each
  label, and on the way to one (a document to look up, a value of that
  document's type, an archive with what a restore takes from it); the parts
  that other variables need are in the invariants above, the flags and files
  that are only given values out of hand in `PlainInv`.

### Only model-checked

The liveness properties HandlersReturn, QueuedServed, StoppedExits, ExpiredEvicted
and CommandsReturn: their proofs would need ENABLED and reasoning under
fairness.  The proofs use no recursive operator; where
the model folds or counts (bags of songs, goroutines at work) they use the
library's facts about finite sets.

## 5. Not modelled, and why

* Menus, help, statistics, queue display and guest mode format what they read; what
  /start writes is in Documents.
* Start-up, configuration, /shell and other developer commands, and the
  cgo marshalling of the binding are run once or consist of I/O.  An engine that
  never answers again (the deadlock `vc/ntgcalls/future.go` describes) is the
  case in which every native call times out.
* YouTube search and parsing, cookies, HTTP retries inside one request, a body
  without a length, and what yt-dlp does with its own files.
* Methods without a caller: SetPlayType, RemoveUser, IsUserExist, SetLanguage, the
  blacklist's.  Reading the language is one more read of the kind Documents has.
* Two backups within one second share a file name (`core/db/backup.go:84`).
* Pause, resume, mute, played time: requests passed to the engine.

## 6. Plan

Modelled as planned: the queue, playback, prefetching, the TTL cache, assistants
and connection, store, downloads.  Proved: all the invariants and action properties
that the passing runs check.  What is left:

1. `PrefetchProof`: the remaining theorems of PlaybackSerial carried over to
   prefetching by the refinement, as QueueBounded is.
2. Weaker hypotheses for HeadStreams and TurnsKept: which pairs of operations may
   overlap without breaking them.
