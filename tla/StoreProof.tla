------------------------------ MODULE StoreProof ------------------------------
(***************************************************************************)
(* Theorems about Store for every number of goroutines, users, playlists   *)
(* and songs, and every set of workloads.                                  *)
(***************************************************************************)
EXTENDS Store, TLAPS, FiniteSetTheorems

-----------------------------------------------------------------------------
\* The labels a read of a document, and one of the admin list, can go on at.
Thens == {"idle", "chatRead", "loggerRead", "playGate", "adminGate", "authGate", "authTarget",
          "toggle", "redraw"}
Uses == {"idle", "botGate", "playAdmins", "authSender", "settings", "rights"}

Shape ==
    /\ DOMAIN pc = Procs /\ DOMAIN local = Procs
    /\ \A p \in Procs : /\ DOMAIN local[p] = DOMAIN Fresh
                        /\ local[p].then \in Thens
                        /\ local[p].use \in Uses

\* Only p goes on, from a label of one set to a label of another.
Moves(p, from, to) ==
    /\ pc[p] \in from /\ pc'[p] \in to
    /\ \A q \in Procs \ {p} : pc'[q] = pc[q] /\ local'[q] = local[q]

\* The labels of the five parts of the program.
\* "allowed" is the label of a command that got through.
AdminLabels == {"admins", "fetch", "keepAdmins", "note", "noteWrite", "reload", "reloadMark",
                "clearAdmins"}
DocumentLabels == {"lookup", "find", "fill", "setField", "addAuth", "removeAuth", "drop", "setLogger",
                   "put", "addChat", "addUser", "scan", "scanPut"}
GateLabels == ({"allowed"} \cup Thens \cup Uses) \ {"idle"}
ChatLabels == AdminLabels \cup DocumentLabels \cup GateLabels
ListLabels == {"count", "create", "deletePlaylist", "addSong", "songExists", "changeSongs",
               "removeSong"}
SendLabels == {"clearCancel", "setProgress", "check", "send", "ended", "cancel"}
ArchiveLabels == {"backup", "restore", "insert"}
FileLabels == {"delivered", "remote", "track", "attempt", "ogg", "tdlib", "media", "job", "poll",
               "request", "open", "copy", "size", "rename", "arrived", "ytdlp", "cdn", "decrypt",
               "encode", "encoding", "remove", "reset"}

\* Going on at a label with local variables of the right shape.
LEMMA GotoMoves ==
    ASSUME Shape, NEW p \in Procs, NEW label, NEW l, Goto(p, label, l),
           label # "idle" => DOMAIN l = DOMAIN Fresh /\ l.then \in Thens /\ l.use \in Uses
    PROVE  /\ Shape'
           /\ pc'[p] = label
           /\ local'[p] = IF label = "idle" THEN Fresh ELSE l
           /\ \A q \in Procs \ {p} : pc'[q] = pc[q] /\ local'[q] = local[q]
<1>1. DOMAIN pc' = Procs /\ DOMAIN local' = Procs
  BY DEF Goto, Shape
<1>2. /\ pc'[p] = label
      /\ local'[p] = IF label = "idle" THEN Fresh ELSE l
      /\ \A q \in Procs \ {p} : pc'[q] = pc[q] /\ local'[q] = local[q]
  BY DEF Goto, Shape
<1>3. DOMAIN Fresh = DOMAIN Fresh /\ Fresh.then \in Thens /\ Fresh.use \in Uses
  BY DEF Fresh, Thens, Uses
<1>4. \A q \in Procs : /\ DOMAIN local'[q] = DOMAIN Fresh
                       /\ local'[q].then \in Thens
                       /\ local'[q].use \in Uses
  BY <1>2, <1>3 DEF Shape
<1> QED BY <1>1, <1>2, <1>4 DEF Shape

LEMMA JumpMoves ==
    ASSUME Shape, NEW p \in Procs, NEW label, Jump(p, label)
    PROVE  /\ Shape' /\ pc'[p] = label
           /\ label # "idle" => local'[p] = local[p]
           /\ \A q \in Procs \ {p} : pc'[q] = pc[q] /\ local'[q] = local[q]
BY GotoMoves DEF Jump, Shape

LEMMA ReturnMoves ==
    ASSUME Shape, NEW p \in Procs, Return(p)
    PROVE  /\ Shape' /\ pc'[p] = "idle"
           /\ \A q \in Procs \ {p} : pc'[q] = pc[q] /\ local'[q] = local[q]
BY JumpMoves DEF Return

LEMMA FailMoves ==
    ASSUME Shape, NEW p \in Procs, NEW label, Fail(p, label)
    PROVE  /\ Shape' /\ pc'[p] = label
           /\ \A q \in Procs \ {p} : pc'[q] = pc[q] /\ local'[q] = local[q]
<1> DEFINE l == [local[p] EXCEPT !.failed = TRUE]
<1>1. DOMAIN l = DOMAIN Fresh /\ l.then \in Thens /\ l.use \in Uses
  BY DEF Shape, Fresh
<1> QED BY <1>1, GotoMoves DEF Fail

-----------------------------------------------------------------------------
\* The handlers that read and write documents, the admin list and permissions.
LEMMA WriteMoves ==
    ASSUME Shape, NEW p \in Procs, NEW d, NEW v, NEW next, Write(p, d, v, next)
    PROVE  /\ Shape' /\ pc'[p] \in {next} \cup Thens
           /\ \A q \in Procs \ {p} : pc'[q] = pc[q] /\ local'[q] = local[q]
<1> DEFINE l == [local[p] EXCEPT !.doc = d]
<1>1. DOMAIN l = DOMAIN Fresh /\ l.then \in Thens /\ l.use \in Uses /\ local[p].then \in Thens
  BY DEF Shape, Fresh
<1>2. CASE Goto(p, next, l)
  BY <1>1, <1>2, GotoMoves
<1>3. CASE Fail(p, local[p].then)
  BY <1>1, <1>3, FailMoves
<1> QED BY <1>2, <1>3 DEF Write

LEMMA DocumentMoves ==
    ASSUME Shape, NEW p \in Procs, DocumentStep(p)
    PROVE  Shape' /\ Moves(p, DocumentLabels \cup GateLabels, DocumentLabels \cup Thens)
<1>1. local[p].then \in Thens /\ local[p].use \in Uses /\ DOMAIN local[p] = DOMAIN Fresh
  BY DEF Shape
<1>2. CASE ReadThrough(p)
  <2>1. CASE Lookup(p)
    BY <1>1, <2>1, GotoMoves, JumpMoves DEF Lookup, Answer, At, Moves, DocumentLabels, GateLabels, Thens, Fresh
  <2>2. CASE Find(p)
    BY <1>1, <2>2, GotoMoves DEF Find, Answer, At, Moves, DocumentLabels, GateLabels, Thens, Fresh
  <2>3. CASE Fill(p)
    BY <1>1, <2>3, JumpMoves DEF Fill, At, Moves, DocumentLabels, GateLabels, Thens
  <2> QED BY <1>2, <2>1, <2>2, <2>3 DEF ReadThrough
<1>3. CASE SetPlayMode(p) \/ SetAdminMode(p) \/ SetCmdDelete(p)
  BY <1>3, WriteMoves DEF SetPlayMode, SetAdminMode, SetCmdDelete, SetField, At, Moves,
                          DocumentLabels
<1>4. CASE AddAuthUser(p) \/ RemoveAuthUser(p) \/ SetLoggerStatus(p)
  BY <1>4, WriteMoves DEF AddAuthUser, RemoveAuthUser, SetLoggerStatus, At, Moves, DocumentLabels, GateLabels, Thens
<1>5. CASE Drop(p) \/ Put(p)
  BY <1>1, <1>5, JumpMoves DEF Drop, Put, At, Moves, DocumentLabels, GateLabels, Thens
<1>6. CASE LoggerRead(p)
  BY <1>1, <1>6, GotoMoves DEF LoggerRead, At, Moves, DocumentLabels, GateLabels, Thens, Fresh
<1>7. CASE AddChat(p)
  <2>1. CASE At(p, "chatRead")
    BY <1>1, <1>7, <2>1, GotoMoves, ReturnMoves DEF AddChat, At, Moves, DocumentLabels, GateLabels, Thens, Fresh
  <2>2. CASE At(p, "addChat")
    BY <1>7, <2>2, WriteMoves DEF AddChat, At, Moves, DocumentLabels, GateLabels, Thens
  <2> QED BY <1>7, <2>1, <2>2 DEF AddChat
<1>8. CASE AddUser(p)
  <2>1. /\ pc[p] = "addUser"
        /\ (Jump(p, local[p].then) \/ Write(p, "user", TRUE, "put"))
    BY <1>8 DEF AddUser, At
  <2>2. CASE Jump(p, local[p].then)
    BY <1>1, <2>1, <2>2, JumpMoves DEF Moves, DocumentLabels, GateLabels, Thens
  <2>3. CASE Write(p, "user", TRUE, "put")
    <3>1. PICK v : Write(p, "user", v, "put")
      BY <2>3, Zenon
    <3> QED BY <2>1, <3>1, WriteMoves DEF Moves, DocumentLabels, GateLabels, Thens
  <2> QED BY <2>1, <2>2, <2>3
<1>9. CASE ScanRead(p)
  <2>1. PICK d : \/ Goto(p, "scanPut", [local[p] EXCEPT !.doc = d, !.got = stored[d]])
                 \/ Goto(p, "scan", [local[p] EXCEPT !.todo = @ \ {d}])
                 \/ Goto(p, "scan", [local[p] EXCEPT !.todo = @ \ Class(d),
                                                     !.targets = @ \ Class(d)])
    BY <1>9 DEF ScanRead
  <2>2. CASE Goto(p, "scanPut", [local[p] EXCEPT !.doc = d, !.got = stored[d]])
    BY <1>1, <1>9, <2>2, GotoMoves DEF ScanRead, At, Moves, DocumentLabels, Fresh
  <2>3. CASE Goto(p, "scan", [local[p] EXCEPT !.todo = @ \ {d}])
    BY <1>1, <1>9, <2>3, GotoMoves DEF ScanRead, At, Moves, DocumentLabels, Fresh
  <2>4. CASE Goto(p, "scan", [local[p] EXCEPT !.todo = @ \ Class(d), !.targets = @ \ Class(d)])
    BY <1>1, <1>9, <2>4, GotoMoves DEF ScanRead, At, Moves, DocumentLabels, Fresh
  <2> QED BY <2>1, <2>2, <2>3, <2>4
<1>10. CASE ScanPut(p)
  BY <1>1, <1>10, GotoMoves DEF ScanPut, At, Moves, DocumentLabels, GateLabels, Thens, Fresh
<1> QED BY <1>2, <1>3, <1>4, <1>5, <1>6, <1>7, <1>8, <1>9, <1>10
        DEF DocumentStep, getChat, GetAuthUsers, GetLoggerStatus, GetAllChats, GetAllUsers

LEMMA AdminMoves ==
    ASSUME Shape, NEW p \in Procs, AdminStep(p)
    PROVE  Shape' /\ Moves(p, AdminLabels, AdminLabels \cup Uses)
<1>1. local[p].then \in Thens /\ local[p].use \in Uses /\ DOMAIN local[p] = DOMAIN Fresh
  BY DEF Shape
<1>2. CASE GetAdmins(p) \/ KeepAdmins(p)
  BY <1>1, <1>2, GotoMoves, JumpMoves
     DEF GetAdmins, KeepAdmins, At, Moves, AdminLabels, Uses, Fresh
<1>3. CASE FetchAdmins(p)
  BY <1>1, <1>3, GotoMoves DEF FetchAdmins, At, Moves, AdminLabels, Uses, Fresh
<1>4. CASE ReloadAllowed(p) \/ ReloadMark(p)
  BY <1>4, JumpMoves, ReturnMoves DEF ReloadAllowed, ReloadMark, At, Moves, AdminLabels, Uses
<1>5. CASE ClearAdminCache(p)
  BY <1>1, <1>5, GotoMoves DEF ClearAdminCache, Admins, At, Moves, AdminLabels, Uses, Fresh
<1>6. CASE NoteRead(p)
  BY <1>1, <1>6, GotoMoves, ReturnMoves DEF NoteRead, At, Moves, AdminLabels, Uses, Fresh
<1>7. CASE NoteWrite(p)
  BY <1>7, ReturnMoves DEF NoteWrite, At, Moves, AdminLabels, Uses
<1> QED BY <1>2, <1>3, <1>4, <1>5, <1>6, <1>7
        DEF AdminStep, reloadAdminCacheHandler, UpdateAdminCache

LEMMA PermissionMoves ==
    ASSUME Shape, NEW p \in Procs, PermissionStep(p)
    PROVE  Shape' /\ Moves(p, GateLabels, {"admins", "lookup", "setField", "addAuth", "removeAuth",
                                                 "authTarget", "allowed", "idle"})
<1>1. local[p].then \in Thens /\ local[p].use \in Uses /\ DOMAIN local[p] = DOMAIN Fresh
  BY DEF Shape
<1>2. ASSUME NEW d, NEW then \in Thens, Asking(p, d, then)
      PROVE  /\ Shape' /\ pc'[p] = "lookup"
             /\ \A q \in Procs \ {p} : pc'[q] = pc[q] /\ local'[q] = local[q]
  BY <1>1, <1>2, GotoMoves DEF Asking, Fresh
<1>3. ASSUME NEW use \in Uses, Admins(p, use, FALSE)
      PROVE  /\ Shape' /\ pc'[p] = "admins"
             /\ \A q \in Procs \ {p} : pc'[q] = pc[q] /\ local'[q] = local[q]
  BY <1>1, <1>3, GotoMoves DEF Admins, Fresh
<1>4. CASE checkBotAdmin(p)
  BY <1>2, <1>4, ReturnMoves DEF checkBotAdmin, At, Moves, GateLabels, Thens, Uses
<1>5. CASE adminMode(p)
  BY <1>2, <1>5, JumpMoves DEF adminMode, IsAuthUser, At, Moves, GateLabels, Thens, Uses
<1>6. CASE playMode(p)
  BY <1>3, <1>6, JumpMoves DEF playMode, At, Moves, GateLabels, Thens, Uses
<1>7. CASE PlayAdmins(p)
  BY <1>2, <1>7, JumpMoves, ReturnMoves DEF PlayAdmins, IsAuthUser, At, Moves, GateLabels, Thens, Uses
<1>8. CASE AuthGate(p)
  BY <1>8, JumpMoves, ReturnMoves DEF AuthGate, At, Moves, GateLabels, Thens, Uses
<1>9. CASE Allowed(p)
  BY <1>3, <1>9, ReturnMoves DEF Allowed, At, Moves, GateLabels, Thens, Uses
<1>10. CASE AuthSender(p)
  <2>1. CASE Return(p)
    BY <1>10, <2>1, ReturnMoves DEF AuthSender, At, Moves, GateLabels, Thens, Uses
  <2>2. CASE ~Return(p)
    <3> DEFINE l(u) == [local[p] EXCEPT !.value = u]
               a(u) == [l(u) EXCEPT !.got = {u}]
               b(u) == [l(u) EXCEPT !.doc = "auth", !.then = "authTarget"]
    <3>1. PICK u : Goto(p, "authTarget", a(u)) \/ Goto(p, "lookup", b(u))
      BY <1>10, <2>2 DEF AuthSender
    <3>2. DOMAIN a(u) = DOMAIN Fresh /\ a(u).then \in Thens /\ a(u).use \in Uses
      BY <1>1 DEF Fresh
    <3>3. DOMAIN b(u) = DOMAIN Fresh /\ b(u).then \in Thens /\ b(u).use \in Uses
      BY <1>1 DEF Fresh, Thens
    <3>4. pc[p] \in Uses \ {"idle"}
      BY <1>10 DEF AuthSender, At, Uses
    <3> HIDE DEF a, b
    <3> QED BY <3>1, <3>2, <3>3, <3>4, GotoMoves DEF Moves, GateLabels, Thens, Uses
  <2> QED BY <2>1, <2>2
<1>11. CASE addAuthHandler(p) \/ removeAuthHandler(p)
  BY <1>1, <1>11, GotoMoves, ReturnMoves
     DEF addAuthHandler, removeAuthHandler, At, Moves, GateLabels, Thens, Uses, Fresh
<1>12. CASE settingsCallbackHandler(p)
  <2>1. CASE At(p, "settings") \/ At(p, "rights")
    <3>1. \/ Return(p) \/ Admins(p, "rights", FALSE) \/ Asking(p, "chat", "toggle")
      BY <1>12, <2>1 DEF settingsCallbackHandler, At
    <3>2. pc[p] \in {"settings", "rights"}
      BY <2>1 DEF At
    <3>3. CASE Return(p)
      BY <3>2, <3>3, ReturnMoves DEF Moves, GateLabels, Thens, Uses
    <3>4. CASE Admins(p, "rights", FALSE)
      BY <1>3, <3>2, <3>4 DEF Moves, GateLabels, Thens, Uses
    <3>5. CASE Asking(p, "chat", "toggle")
      BY <1>2, <3>2, <3>5 DEF Moves, GateLabels, Thens, Uses
    <3> QED BY <3>1, <3>3, <3>4, <3>5
  <2>2. CASE At(p, "toggle")
    <3>1. PICK on : Goto(p, "setField", [local[p] EXCEPT !.value = on, !.then = "redraw", !.left = 3])
      BY <1>12, <2>2 DEF settingsCallbackHandler, At
    <3> DEFINE l == [local[p] EXCEPT !.value = on, !.then = "redraw", !.left = 3]
    <3>2. DOMAIN l = DOMAIN Fresh /\ l.then \in Thens /\ l.use \in Uses
      BY <1>1 DEF Fresh, Thens
    <3> HIDE DEF l
    <3>3. Goto(p, "setField", l)
      BY <3>1 DEF l
    <3> QED BY <2>2, <3>2, <3>3, GotoMoves DEF At, Moves, GateLabels, Thens, Uses
  <2>3. CASE At(p, "redraw")
    <3>1. PICK l : /\ Goto(p, "lookup", l)
                   /\ DOMAIN l = DOMAIN Fresh /\ l.then \in {"idle", "redraw"} /\ l.use \in Uses
      <4> DEFINE m == [Fresh EXCEPT !.cmd = "settings", !.doc = "chat",
                                    !.left = local[p].left - 1,
                                    !.then = IF local[p].left = 1 THEN "idle" ELSE "redraw"]
      <4>1. Goto(p, "lookup", m)
        BY <1>12, <2>3 DEF settingsCallbackHandler, At
      <4>2. DOMAIN m = DOMAIN Fresh /\ m.then \in {"idle", "redraw"} /\ m.use \in Uses
        BY DEF Fresh, Uses
      <4> HIDE DEF m
      <4> QED BY <4>1, <4>2
    <3>2. l.then \in Thens
      BY <3>1 DEF Thens
    <3> QED BY <2>3, <3>1, <3>2, GotoMoves DEF At, Moves, GateLabels, Thens, Uses
  <2> QED BY <1>12, <2>1, <2>2, <2>3 DEF settingsCallbackHandler
<1> QED BY <1>4, <1>5, <1>6, <1>7, <1>8, <1>9, <1>10, <1>11, <1>12 DEF PermissionStep

-----------------------------------------------------------------------------
\* The other parts.
LEMMA PlaylistMoves ==
    ASSUME Shape, NEW p \in Procs, PlaylistStep(p)
    PROVE  Shape' /\ Moves(p, ListLabels, ListLabels \cup {"idle"})
<1>1. local[p].then \in Thens /\ local[p].use \in Uses /\ DOMAIN local[p] = DOMAIN Fresh
  BY DEF Shape
<1>2. CASE createPlaylistHandler(p)
  BY <1>2, JumpMoves, ReturnMoves DEF createPlaylistHandler, At, Moves, ListLabels
<1>3. CASE CreatePlaylist(p) \/ deletePlaylistHandler(p)
  BY <1>3, ReturnMoves DEF CreatePlaylist, deletePlaylistHandler, Broken, At, Moves, ListLabels
<1>4. CASE addToPlaylistHandler(p)
  BY <1>1, <1>4, GotoMoves, ReturnMoves
     DEF addToPlaylistHandler, At, Moves, ListLabels, Fresh
<1>5. CASE songExists(p)
  BY <1>5, JumpMoves, ReturnMoves DEF songExists, At, Moves, ListLabels
<1>6. CASE AddSongToPlaylist(p) \/ RemoveSongFromPlaylist(p)
  BY <1>6, ReturnMoves DEF AddSongToPlaylist, RemoveSongFromPlaylist, ChangeSongs, Broken, At, Moves,
                           ListLabels
<1>7. CASE removeFromPlaylistHandler(p)
  BY <1>1, <1>7, GotoMoves, ReturnMoves
     DEF removeFromPlaylistHandler, At, Moves, ListLabels, Fresh
<1> QED BY <1>2, <1>3, <1>4, <1>5, <1>6, <1>7 DEF PlaylistStep

LEMMA BackupMoves ==
    ASSUME Shape, NEW p \in Procs, BackupStep(p)
    PROVE  Shape' /\ Moves(p, ArchiveLabels, ArchiveLabels \cup {"idle"})
<1>1. local[p].then \in Thens /\ local[p].use \in Uses /\ DOMAIN local[p] = DOMAIN Fresh
  BY DEF Shape
<1>2. CASE backupOneCollection(p)
  <2>1. PICK a, b, c : Goto(p, "backup", [local[p] EXCEPT !.todo = a, !.failed = b, !.list = c])
    BY <1>2 DEF backupOneCollection
  <2> QED BY <1>1, <1>2, <2>1, GotoMoves DEF backupOneCollection, At, Moves, ArchiveLabels, Fresh
<1>3. CASE runBackup(p) \/ RestoreReported(p)
  BY <1>3, ReturnMoves DEF runBackup, RestoreReported, At, Moves, ArchiveLabels
<1>4. CASE DropCollection(p)
  <2>1. PICK a, b : \/ Goto(p, "insert", [local[p] EXCEPT !.todo = a, !.targets = b])
                    \/ Goto(p, "restore", [local[p] EXCEPT !.todo = a, !.failed = b])
    BY <1>4 DEF DropCollection
  <2> QED BY <1>1, <1>4, <2>1, GotoMoves DEF DropCollection, At, Moves, ArchiveLabels, Fresh
<1>5. CASE InsertDocument(p)
  <2>1. PICK a : \/ Goto(p, "insert", [local[p] EXCEPT !.targets = a])
                 \/ Goto(p, "restore", [local[p] EXCEPT !.targets = {}, !.failed = TRUE])
    BY <1>5 DEF InsertDocument
  <2> QED BY <1>1, <1>5, <2>1, GotoMoves DEF InsertDocument, At, Moves, ArchiveLabels, Fresh
<1>6. CASE Restored(p)
  BY <1>6, JumpMoves DEF Restored, At, Moves, ArchiveLabels
<1> QED BY <1>2, <1>3, <1>4, <1>5, <1>6 DEF BackupStep, restoreOneCollection

LEMMA BroadcastMoves ==
    ASSUME Shape, NEW p \in Procs, BroadcastStep(p)
    PROVE  Shape' /\ Moves(p, SendLabels \cup {"scan"}, SendLabels \cup {"idle"})
<1>1. local[p].then \in Thens /\ local[p].use \in Uses /\ DOMAIN local[p] = DOMAIN Fresh
  BY DEF Shape
<1>2. CASE FindTargets(p)
  <2>1. \A a : LET l == [Fresh EXCEPT !.cmd = "broadcast", !.targets = a] IN
                 DOMAIN l = DOMAIN Fresh /\ l.then \in Thens /\ l.use \in Uses
    BY DEF Fresh, Thens, Uses
  <2> QED BY <1>2, <2>1, GotoMoves, ReturnMoves DEF FindTargets, At, Moves, SendLabels
<1>3. CASE ClearCancel(p) \/ SetProgress(p) \/ CheckCancel(p)
  BY <1>3, JumpMoves DEF ClearCancel, SetProgress, CheckCancel, At, Moves, SendLabels
<1>4. CASE Send(p)
  BY <1>1, <1>4, GotoMoves DEF Send, At, Moves, SendLabels, Fresh
<1>5. CASE EndBroadcast(p) \/ cancelBroadcastHandler(p)
  BY <1>5, ReturnMoves DEF EndBroadcast, cancelBroadcastHandler, At, Moves, SendLabels
<1> QED BY <1>2, <1>3, <1>4, <1>5 DEF BroadcastStep, broadcastHandler, BroadcastLoop

LEMMA DownloadMoves ==
    ASSUME Shape, NEW p \in Procs, DownloadStep(p)
    PROVE  Shape' /\ Moves(p, FileLabels, FileLabels \cup {"idle"})
<1>1. local[p].then \in Thens /\ local[p].use \in Uses /\ DOMAIN local[p] = DOMAIN Fresh
  BY DEF Shape
<1>2. ASSUME NEW name, Deliver(p, name)
      PROVE  /\ Shape' /\ pc'[p] = "delivered"
             /\ \A q \in Procs \ {p} : pc'[q] = pc[q] /\ local'[q] = local[q]
  BY <1>1, <1>2, GotoMoves DEF Deliver, Fresh
<1>3. ASSUME CycleFails(p)
      PROVE  /\ Shape' /\ pc'[p] \in {"ytdlp", "job"}
             /\ \A q \in Procs \ {p} : pc'[q] = pc[q] /\ local'[q] = local[q]
  BY <1>1, <1>3, GotoMoves, JumpMoves DEF CycleFails, Fresh
<1>4. CASE downloadViaWrapper(p) \/ Delivered(p)
  BY <1>2, <1>4, JumpMoves, ReturnMoves DEF downloadViaWrapper, Delivered, At, Moves, FileLabels
<1>5. CASE downloadTelegramFile(p) \/ retryTelegramDownload(p)
  BY <1>1, <1>2, <1>5, GotoMoves, ReturnMoves
     DEF downloadTelegramFile, retryTelegramDownload, Retry, At, Moves, FileLabels, Fresh
<1>6. CASE resolve(p)
  BY <1>1, <1>6, GotoMoves DEF resolve, At, Moves, FileLabels, Fresh
<1>7. CASE getMediaCollection(p)
  BY <1>7 DEF getMediaCollection, goVars, Shape, At, Moves, FileLabels
<1>8. CASE lookupDirectDb(p) \/ createJob(p) \/ pollJob(p)
  BY <1>3, <1>8, JumpMoves DEF lookupDirectDb, createJob, pollJob, At, Moves, FileLabels
<1>9. CASE RequestFile(p) \/ writeToFile(p) \/ CheckSize(p) \/ RenamePart(p)
  BY <1>3, <1>9, JumpMoves
     DEF RequestFile, writeToFile, CheckSize, RenamePart, At, Moves, FileLabels
<1>10. CASE OpenPart(p)
  BY <1>1, <1>10, GotoMoves DEF OpenPart, At, Moves, FileLabels, Fresh
<1>11. CASE recordArcSuccess(p) \/ downloadWithYtDlp(p)
  BY <1>2, <1>11, ReturnMoves DEF recordArcSuccess, downloadWithYtDlp, At, Moves, FileLabels
<1>12. CASE processSpotify(p) \/ RemoveTemporary(p)
  BY <1>2, <1>12, JumpMoves, ReturnMoves DEF processSpotify, RemoveTemporary, At, Moves, FileLabels
<1>13. CASE FetchEncrypted(p) \/ decryptAudioFile(p) \/ fixOGG(p)
  BY <1>13, JumpMoves, FailMoves
     DEF FetchEncrypted, decryptAudioFile, fixOGG, StartEncoder, EndEncoder, At, Moves, FileLabels
<1>14. CASE ResetArcStats(p)
  BY <1>14, ReturnMoves DEF ResetArcStats, At, Moves, FileLabels
<1> QED BY <1>4, <1>5, <1>6, <1>7, <1>8, <1>9, <1>10, <1>11, <1>12, <1>13, <1>14
        DEF DownloadStep, YouTubeStep, downloadFileWithTimeout, SpotifyStep

-----------------------------------------------------------------------------
\* A step is one of five parts of the program, or an outside event.
ChatPart(p) ==
    /\ \/ ChatCommand(p) \/ UpdateArrives(p)
       \/ DocumentStep(p) /\ UNCHANGED adminVars
       \/ AdminStep(p) \/ PermissionStep(p)
    /\ UNCHANGED <<playlistVars, broadcastVars, archive, downloadVars>>

ListPart(p) ==
    /\ ListCommand(p) \/ PlaylistStep(p)
    /\ UNCHANGED <<docVars, adminVars, broadcastVars, archive, downloadVars>>

SendPart(p) ==
    /\ BeginBroadcast(p) \/ BeginCancel(p) \/ BroadcastStep(p)
    /\ UNCHANGED <<adminVars, playlistVars, archive, downloadVars>>

ArchivePart(p) ==
    /\ StartBackup(p) \/ restoreHandler(p) \/ BackupStep(p)
    /\ UNCHANGED <<adminVars, playlistVars, broadcastVars, downloadVars>>

FilePart(p) ==
    /\ (\E platform : DownloadCachedTrack(p, platform)) \/ BeginReset(p) \/ DownloadStep(p)
    /\ UNCHANGED <<docVars, adminVars, playlistVars, broadcastVars, archive>>

LEMMA StepParts ==
    ASSUME Next
    PROVE  Event \/ \E p \in Procs : ChatPart(p) \/ ListPart(p) \/ SendPart(p) \/ ArchivePart(p)
                                    \/ FilePart(p)
<1>1. ASSUME NEW p \in Procs, Command(p)
      PROVE  ChatPart(p) \/ ListPart(p) \/ SendPart(p) \/ ArchivePart(p) \/ FilePart(p)
  <2>1. CASE ChatCommand(p)
    BY <2>1 DEF ChatCommand, ChatPart
  <2>2. CASE ListCommand(p)
    BY <2>2 DEF ListCommand, ListPart
  <2>3. CASE OwnerCommand(p)
    BY <2>3 DEF OwnerCommand, SendPart, ArchivePart
  <2>4. CASE Download(p)
    BY <2>4 DEF Download, FilePart
  <2> QED BY <1>1, <2>1, <2>2, <2>3, <2>4 DEF Command
<1>2. ASSUME NEW p \in Procs, UpdateArrives(p) PROVE ChatPart(p)
  BY <1>2 DEF UpdateArrives, ChatPart
<1>3. ASSUME NEW p \in Procs, Work(p)
      PROVE  ChatPart(p) \/ ListPart(p) \/ SendPart(p) \/ ArchivePart(p) \/ FilePart(p)
  BY <1>3 DEF Work, ChatPart, ListPart, SendPart, ArchivePart, FilePart
<1> QED BY <1>1, <1>2, <1>3 DEF Next

LEMMA ChatMoves ==
    ASSUME Shape, NEW p \in Procs, ChatPart(p)
    PROVE  Shape' /\ Moves(p, ChatLabels \cup {"idle"}, ChatLabels \cup {"idle"})
<1>1. DOMAIN Fresh = DOMAIN Fresh /\ Fresh.then \in Thens /\ Fresh.use \in Uses
  BY DEF Fresh, Thens, Uses
<1>2. CASE ChatCommand(p)
  <2> DEFINE a(s, u) == [Fresh EXCEPT !.cmd = "settings", !.user = u, !.setting = s, !.use = "settings"]
             b(cmd, u) == [Fresh EXCEPT !.cmd = cmd, !.user = u, !.use = "botGate"]
             c(d, on, then) == [Fresh EXCEPT !.doc = d, !.value = on, !.then = then]
             e(d, then) == [Fresh EXCEPT !.doc = d, !.then = then]
             f(d, on) == [Fresh EXCEPT !.doc = d, !.value = on]
             m(l, cmd) == [l EXCEPT !.cmd = cmd]
             Sound(l) == DOMAIN l = DOMAIN Fresh /\ l.then \in Thens /\ l.use \in Uses
  <2>1. \A x, y : Sound(a(x, y)) /\ Sound(b(x, y)) /\ Sound(f(x, y))
    BY DEF Fresh, Thens, Uses
  <2>2. \A x, y, z : z \in Thens => Sound(c(x, y, z)) /\ Sound(e(x, z))
    BY DEF Fresh, Thens, Uses
  <2>3. \A l, cmd : Sound(l) => Sound(m(l, cmd))
    BY DEF Fresh
  <2>4. Sound(Fresh)
    BY <1>1
  <2> HIDE DEF a, b, c, e, f, m
  <2>5. ASSUME NEW label \in ChatLabels, NEW l, Sound(l), At(p, "idle"), Goto(p, label, l)
        PROVE  Shape' /\ Moves(p, {"idle"}, ChatLabels)
    BY <2>5, GotoMoves DEF At, Moves
  <2> HIDE DEF Sound
  <2>6. {"admins", "lookup", "addUser", "reload"} \subseteq ChatLabels
        /\ {"chatRead", "loggerRead"} \subseteq Thens
    BY DEF ChatLabels, AdminLabels, DocumentLabels, Thens
  <2>7. CASE \E s \in Settings, u \in Users : BeginSettings(p, s, u)
    <3>1. PICK s, u : At(p, "idle") /\ Goto(p, "admins", a(s, u))
      BY <2>7 DEF BeginSettings, a
    <3> QED BY <2>1, <2>5, <2>6, <3>1 DEF Moves
  <2>8. CASE \E cmd \in GatedByAdmins \cup GatedByPlay, u \in Users : BeginGate(p, cmd, u)
    <3>1. PICK cmd, u : At(p, "idle") /\ Goto(p, "admins", b(cmd, u))
      BY <2>8 DEF BeginGate, b
    <3> QED BY <2>1, <2>5, <2>6, <3>1 DEF Moves
  <2>9. CASE reload(p)
    <3>1. At(p, "idle") /\ Goto(p, "reload", m(Fresh, "reload"))
      BY <2>9 DEF reload, Begin, m
    <3> QED BY <2>3, <2>4, <2>5, <2>6, <3>1 DEF Moves
  <2>10. CASE \E d \in Chats : Begin(p, "start", "lookup", [Fresh EXCEPT !.doc = d, !.then = "chatRead"])
    <3>1. PICK d : At(p, "idle") /\ Goto(p, "lookup", m(e(d, "chatRead"), "start"))
      BY <2>10 DEF Begin, e, m
    <3> QED BY <2>2, <2>3, <2>5, <2>6, <3>1 DEF Moves
  <2>11. CASE Begin(p, "start", "addUser", [Fresh EXCEPT !.doc = "user", !.value = TRUE])
    <3>1. At(p, "idle") /\ Goto(p, "addUser", m(f("user", TRUE), "start"))
      BY <2>11 DEF Begin, f, m
    <3> QED BY <2>1, <2>3, <2>5, <2>6, <3>1 DEF Moves
  <2>12. CASE loggerHandler(p)
    <3>1. PICK on : At(p, "idle") /\ Goto(p, "lookup", m(c("logger", on, "loggerRead"), "logger"))
      BY <2>12 DEF loggerHandler, Begin, c, m
    <3> QED BY <2>2, <2>3, <2>5, <2>6, <3>1 DEF Moves
  <2> QED BY <1>2, <2>7, <2>8, <2>9, <2>10, <2>11, <2>12 DEF ChatCommand, startHandler
<1>3. CASE UpdateArrives(p)
  BY <1>1, <1>3, GotoMoves
     DEF UpdateArrives, HandleBotRole, At, Moves, ChatLabels, AdminLabels, Fresh
<1>4. /\ DocumentLabels \cup GateLabels \subseteq ChatLabels
      /\ DocumentLabels \cup Thens \subseteq ChatLabels \cup {"idle"}
      /\ AdminLabels \cup Uses \subseteq ChatLabels \cup {"idle"}
      /\ {"admins", "lookup", "setField", "addAuth", "removeAuth", "authTarget", "allowed", "idle"}
           \subseteq ChatLabels \cup {"idle"}
  BY DEF ChatLabels, DocumentLabels, AdminLabels, GateLabels, Thens
<1>5. ASSUME DocumentStep(p) \/ AdminStep(p) \/ PermissionStep(p)
      PROVE  Shape' /\ Moves(p, ChatLabels, ChatLabels \cup {"idle"})
  BY <1>4, <1>5, DocumentMoves, AdminMoves, PermissionMoves DEF Moves, ChatLabels
<1> QED BY <1>2, <1>3, <1>5 DEF ChatPart, Moves

LEMMA ListMoves ==
    ASSUME Shape, NEW p \in Procs, ListPart(p)
    PROVE  Shape' /\ Moves(p, ListLabels \cup {"idle"}, ListLabels \cup {"idle"})
<1>1. DOMAIN Fresh = DOMAIN Fresh /\ Fresh.then \in Thens /\ Fresh.use \in Uses
  BY DEF Fresh, Thens, Uses
<1>2. ASSUME NEW u \in Users, GetUserPlaylists(p, "createPlaylist", u)
      PROVE  Shape' /\ Moves(p, {"idle"}, ListLabels)
  BY <1>1, <1>2, GotoMoves DEF GetUserPlaylists, At, Moves, ListLabels, Fresh
<1>3. ASSUME NEW cmd \in {"deletePlaylist", "addSong", "removeSong"}, NEW u \in Users,
             NEW id \in PlaylistIds, GetPlaylist(p, cmd, u, id)
      PROVE  Shape' /\ Moves(p, {"idle"}, ListLabels)
  BY <1>1, <1>3, GotoMoves DEF GetPlaylist, At, Moves, ListLabels, Fresh
<1> QED BY <1>2, <1>3, PlaylistMoves DEF ListPart, ListCommand, Moves

LEMMA SendMoves ==
    ASSUME Shape, NEW p \in Procs, SendPart(p)
    PROVE  Shape' /\ Moves(p, SendLabels \cup {"scan", "idle"}, SendLabels \cup {"scan", "idle"})
<1>1. DOMAIN Fresh = DOMAIN Fresh /\ Fresh.then \in Thens /\ Fresh.use \in Uses
  BY DEF Fresh, Thens, Uses
<1>2. CASE BeginBroadcast(p)
  <2>1. CASE UNCHANGED goVars
    BY <1>2, <2>1 DEF BeginBroadcast, goVars, Shape, At, Moves
  <2>2. CASE ~UNCHANGED goVars
    BY <1>1, <1>2, <2>2, GotoMoves DEF BeginBroadcast, At, Moves, Fresh
  <2> QED BY <2>1, <2>2
<1>3. CASE BeginCancel(p)
  BY <1>1, <1>3, GotoMoves DEF BeginCancel, At, Moves, SendLabels, Fresh
<1> QED BY <1>2, <1>3, BroadcastMoves DEF SendPart, Moves

LEMMA ArchiveMoves ==
    ASSUME Shape, NEW p \in Procs, ArchivePart(p)
    PROVE  Shape' /\ Moves(p, ArchiveLabels \cup {"idle"}, ArchiveLabels \cup {"idle"})
<1>1. DOMAIN Fresh = DOMAIN Fresh /\ Fresh.then \in Thens /\ Fresh.use \in Uses
  BY DEF Fresh, Thens, Uses
<1>2. CASE StartBackup(p) \/ restoreHandler(p)
  BY <1>1, <1>2, GotoMoves DEF StartBackup, restoreHandler, At, Moves, ArchiveLabels, Fresh
<1> QED BY <1>2, BackupMoves DEF ArchivePart, Moves

LEMMA FileMoves ==
    ASSUME Shape, NEW p \in Procs, FilePart(p)
    PROVE  Shape' /\ Moves(p, FileLabels \cup {"idle"}, FileLabels \cup {"idle"})
<1>1. DOMAIN Fresh = DOMAIN Fresh /\ Fresh.then \in Thens /\ Fresh.use \in Uses
  BY DEF Fresh, Thens, Uses
<1>2. ASSUME NEW platform, DownloadCachedTrack(p, platform)
      PROVE  Shape' /\ Moves(p, {"idle"}, FileLabels)
  BY <1>1, <1>2, GotoMoves DEF DownloadCachedTrack, At, Moves, FileLabels, Fresh
<1>3. CASE BeginReset(p)
  BY <1>1, <1>3, GotoMoves DEF BeginReset, At, Moves, FileLabels, Fresh
<1> QED BY <1>2, <1>3, DownloadMoves DEF FilePart, Moves

LEMMA EventStays ==
    ASSUME Event
    PROVE  UNCHANGED <<goVars, playlistVars, broadcastVars, archive, downloadVars>>
BY DEF Event, RoleChanges, EntryExpires, AdminsExpire, CoolingExpires, DropBotRole

LEMMA ShapeInit == Init => Shape
BY DEF Init, HandlersInit, Shape, Fresh, Thens, Uses

LEMMA ShapeStep == Shape /\ [Next]_vars => Shape'
<1>1. ASSUME Shape, Next PROVE Shape'
  BY <1>1, StepParts, EventStays, ChatMoves, ListMoves, SendMoves, ArchiveMoves, FileMoves
     DEF goVars, Shape
<1>2. ASSUME Shape, UNCHANGED vars PROVE Shape'
  BY <1>2 DEF vars, goVars, Shape
<1> QED BY <1>1, <1>2

LEMMA ShapeAlways == Spec => []Shape
BY ShapeInit, ShapeStep, PTL DEF Spec

-----------------------------------------------------------------------------
\* /cancelbroadcast.  Unless two broadcasts have overlapped, the flag stays set
\* while a broadcast that was told to stop is still sending, so that it sends
\* no second message.
CancelInv ==
    /\ late \in [Procs -> {None} \cup 0..2]
    /\ \A p \in Procs : late[p] # None => Sending(p)
    /\ overlap \/ \A p \in Procs :
        /\ late[p] # 2
        /\ late[p] # None => broadcastCancelFlag
        /\ late[p] = 1 => pc[p] # "send"

LEMMA SendElsewhere ==
    ASSUME Shape, [Next]_vars
    PROVE  \/ \E p \in Procs : SendPart(p)
           \/ /\ UNCHANGED broadcastVars
              /\ \A q \in Procs : pc[q] \in SendLabels => pc'[q] = pc[q]
<1>1. CASE UNCHANGED vars
  BY <1>1 DEF vars, goVars
<1>2. CASE Event
  BY <1>2, EventStays DEF goVars
<1>3. ASSUME NEW p \in Procs, ChatPart(p)
      PROVE  UNCHANGED broadcastVars /\ \A q \in Procs : pc[q] \in SendLabels => pc'[q] = pc[q]
  BY <1>3, ChatMoves
     DEF ChatPart, Moves, ChatLabels, AdminLabels, DocumentLabels, GateLabels, SendLabels, Thens, Uses
<1>4. ASSUME NEW p \in Procs, ListPart(p) \/ ArchivePart(p) \/ FilePart(p)
      PROVE  UNCHANGED broadcastVars /\ \A q \in Procs : pc[q] \in SendLabels => pc'[q] = pc[q]
  BY <1>4, ListMoves, ArchiveMoves, FileMoves
     DEF ListPart, ArchivePart, FilePart, Moves, ListLabels, ArchiveLabels, FileLabels, SendLabels
<1> QED BY <1>1, <1>2, <1>3, <1>4, StepParts

LEMMA CancelStep == Shape /\ CancelInv /\ [Next]_vars => CancelInv'
<1> SUFFICES ASSUME Shape, CancelInv, [Next]_vars PROVE CancelInv'
  OBVIOUS
<1>1. None \notin 0..2 /\ None # 0 /\ None # 1 /\ None # 2
  BY HandlersAssumption
<1>2. CASE UNCHANGED broadcastVars /\ \A q \in Procs : pc[q] \in SendLabels => pc'[q] = pc[q]
  <2>1. late' = late /\ broadcastCancelFlag' = broadcastCancelFlag /\ overlap' = overlap
    BY <1>2 DEF broadcastVars
  <2>2. \A q \in Procs : Sending(q) => Sending(q)' /\ pc'[q] = pc[q]
    BY <1>2 DEF Sending, SendLabels
  <2> QED BY <1>1, <2>1, <2>2 DEF CancelInv
<1>3. ASSUME NEW p \in Procs, SendPart(p) PROVE CancelInv'
  <2>1. \A q \in Procs \ {p} : pc'[q] = pc[q]
    BY <1>3, SendMoves DEF Moves
  <2>2. CASE BeginBroadcast(p) \/ BeginCancel(p) \/ FindTargets(p)
    <3>1. ~Sending(p) /\ UNCHANGED broadcastVars
      BY <2>2 DEF BeginBroadcast, BeginCancel, FindTargets, At, Sending
    <3>2. late' = late /\ broadcastCancelFlag' = broadcastCancelFlag /\ overlap' = overlap
      BY <3>1 DEF broadcastVars
    <3>3. \A q \in Procs : Sending(q) => Sending(q)' /\ pc'[q] = pc[q]
      BY <2>1, <3>1 DEF Sending
    <3> QED BY <1>1, <3>2, <3>3 DEF CancelInv
  <2>3. CASE ClearCancel(p) \/ SetProgress(p)
    <3>1. /\ ~Sending(p) /\ late' = late
          /\ (broadcastCancelFlag' # broadcastCancelFlag => At(p, "clearCancel"))
          /\ overlap' = (overlap \/ \E q \in Procs : Sending(q))
      BY <2>3 DEF ClearCancel, SetProgress, At, Sending
    <3>2. ~overlap' => \A q \in Procs : late[q] = None
      BY <3>1 DEF CancelInv
    <3> QED BY <1>1, <2>1, <3>1, <3>2 DEF CancelInv, Sending
  <2>4. CASE CheckCancel(p)
    <3>1. /\ UNCHANGED broadcastVars /\ pc[p] = "check"
          /\ pc'[p] \in {"ended", "send"} /\ (broadcastCancelFlag => pc'[p] = "ended")
      BY <2>4, JumpMoves DEF CheckCancel, At
    <3> QED BY <1>1, <2>1, <3>1 DEF CancelInv, broadcastVars, Sending
  <2>5. CASE Send(p)
    <3>1. /\ pc[p] = "send" /\ pc'[p] = "check"
          /\ UNCHANGED <<broadcastCancelFlag, overlap>>
          /\ late' = [late EXCEPT ![p] = IF @ \in {0, 1} THEN @ + 1 ELSE @]
      BY <2>5 DEF Send, Goto, At, Shape
    <3>2. late'[p] = (IF late[p] \in {0, 1} THEN late[p] + 1 ELSE late[p])
          /\ \A q \in Procs \ {p} : late'[q] = late[q]
      BY <3>1 DEF CancelInv
    <3>3. late' \in [Procs -> {None} \cup 0..2]
      BY <3>1 DEF CancelInv
    <3>4. late'[p] # None => late[p] # None
      BY <1>1, <3>2
    <3>5. ~overlap => late'[p] # 2
      BY <1>1, <3>1, <3>2 DEF CancelInv
    <3> QED BY <2>1, <3>1, <3>2, <3>3, <3>4, <3>5 DEF CancelInv, Sending
  <2>6. CASE EndBroadcast(p)
    <3>1. /\ late' = [late EXCEPT ![p] = None]
          /\ UNCHANGED <<broadcastCancelFlag, overlap>>
      BY <2>6 DEF EndBroadcast
    <3> QED BY <1>1, <2>1, <3>1 DEF CancelInv, Sending
  <2>7. CASE cancelBroadcastHandler(p)
    <3>1. /\ late' = [q \in Procs |-> IF Sending(q) /\ late[q] = None THEN 0 ELSE late[q]]
          /\ broadcastCancelFlag' = TRUE /\ overlap' = overlap /\ pc[p] = "cancel"
      BY <2>7 DEF cancelBroadcastHandler, At
    <3>2. \A q \in Procs : Sending(q) => q # p /\ pc'[q] = pc[q]
      BY <2>1, <3>1 DEF Sending
    <3> QED BY <1>1, <3>1, <3>2 DEF CancelInv, Sending
  <2> QED BY <1>3, <2>2, <2>3, <2>4, <2>5, <2>6, <2>7
          DEF SendPart, BroadcastStep, broadcastHandler, BroadcastLoop
<1> QED BY <1>2, <1>3, SendElsewhere

LEMMA CancelInit == Init => CancelInv
BY HandlersAssumption DEF Init, BroadcastInit, CancelInv

\* After a cancel has been answered, a broadcast sends at most the message it
\* was about to, however many broadcasts and cancels come, unless two of the
\* broadcasts have overlapped (handlers/broadcast.go).
THEOREM CancelHolds == Spec => []CancelStops
<1>1. Init => CancelInv
  BY CancelInit
<1>2. CancelInv => CancelStops
  BY DEF CancelInv, CancelStops
<1> QED BY <1>1, <1>2, ShapeAlways, CancelStep, PTL DEF Spec

-----------------------------------------------------------------------------
\* The downloads.
LEMMA FilesElsewhere ==
    ASSUME Shape, [Next]_vars
    PROVE  \/ \E p \in Procs : FilePart(p)
           \/ /\ UNCHANGED downloadVars
              /\ \A q \in Procs : pc[q] \in FileLabels \/ pc'[q] \in FileLabels
                                  => pc'[q] = pc[q] /\ local'[q] = local[q]
<1>1. CASE UNCHANGED vars
  BY <1>1 DEF vars, goVars
<1>2. CASE Event
  BY <1>2, EventStays DEF goVars
<1>3. ASSUME NEW p \in Procs, ChatPart(p)
      PROVE  /\ UNCHANGED downloadVars
             /\ \A q \in Procs : pc[q] \in FileLabels \/ pc'[q] \in FileLabels
                                 => pc'[q] = pc[q] /\ local'[q] = local[q]
  <2>1. pc[p] \notin FileLabels /\ pc'[p] \notin FileLabels
    BY <1>3, ChatMoves
       DEF Moves, ChatLabels, AdminLabels, DocumentLabels, GateLabels, FileLabels, Thens, Uses
  <2> QED BY <1>3, <2>1, ChatMoves DEF ChatPart, Moves
<1>4. ASSUME NEW p \in Procs, ListPart(p) \/ ArchivePart(p) \/ SendPart(p)
      PROVE  /\ UNCHANGED downloadVars
             /\ \A q \in Procs : pc[q] \in FileLabels \/ pc'[q] \in FileLabels
                                 => pc'[q] = pc[q] /\ local'[q] = local[q]
  <2>1. pc[p] \notin FileLabels /\ pc'[p] \notin FileLabels
    BY <1>4, ListMoves, ArchiveMoves, SendMoves
       DEF Moves, ListLabels, ArchiveLabels, FileLabels, SendLabels
  <2> QED BY <1>4, <2>1, ListMoves, ArchiveMoves, SendMoves
          DEF ListPart, ArchivePart, SendPart, Moves
<1> QED BY <1>1, <1>2, <1>3, <1>4, StepParts

LEMMA FilesBegin ==
    ASSUME Shape, NEW p \in Procs, \E platform : DownloadCachedTrack(p, platform)
    PROVE  /\ pc[p] = "idle" /\ UNCHANGED downloadVars
           /\ \/ pc'[p] \in {"remote", "track"}
              \/ pc'[p] = "delivered" /\ local'[p].doc = "link"
<1> DEFINE l(x) == [Fresh EXCEPT !.cmd = "download", !.value = x]
<1>1. PICK platform : DownloadCachedTrack(p, platform)
  OBVIOUS
<1>2. DOMAIN l(platform) = DOMAIN Fresh /\ "doc" \in DOMAIN Fresh
  BY DEF Fresh
<1>3. \/ Goto(p, "delivered", [l(platform) EXCEPT !.doc = "link"])
      \/ Goto(p, "remote", l(platform)) \/ Goto(p, "track", l(platform))
  BY <1>1 DEF DownloadCachedTrack
<1> HIDE DEF l
<1>4. \/ pc'[p] \in {"remote", "track"}
      \/ pc'[p] = "delivered" /\ local'[p].doc = "link"
  BY <1>2, <1>3 DEF Goto, Shape
<1> QED BY <1>1, <1>4 DEF DownloadCachedTrack, At

\* The labels between the count of an attempt and the count of its end.
ArcLabels == {"media", "job", "poll", "request", "open", "copy", "size", "rename", "arrived"}

Resetting == {p \in Procs : pc[p] = "reset"}

\* The counters are in balance, or a reset is under way that nothing has
\* overlapped.
ArcInv ==
    /\ stats \in [Counters -> Nat]
    /\ \/ "stats" \in mixed
       \/ /\ Resetting = {}
          /\ stats["attempts"] = stats["success"] + stats["failed"] + Cardinality(Resolving)
          /\ stats["success"] = stats["hits"] + stats["api"]
       \/ Resetting # {} /\ Resolving = {} /\ stats["attempts"] = 0

LEMMA ResolvingCount ==
    ASSUME NEW p \in Procs, \A q \in Procs \ {p} : pc'[q] = pc[q]
    PROVE  /\ Cardinality(Resolving) \in Nat
           /\ (pc[p] \in ArcLabels <=> pc'[p] \in ArcLabels) => Resolving' = Resolving
           /\ pc[p] \notin ArcLabels /\ pc'[p] \in ArcLabels
              => Cardinality(Resolving') = Cardinality(Resolving) + 1
           /\ pc[p] \in ArcLabels /\ pc'[p] \notin ArcLabels
              => Cardinality(Resolving') = Cardinality(Resolving) - 1
<1>1. Resolving = {q \in Procs : pc[q] \in ArcLabels} /\ Resolving' = {q \in Procs : pc'[q] \in ArcLabels}
  BY DEF Resolving, ArcLabels
<1>2. IsFiniteSet(Resolving)
  <2>1. IsFiniteSet(Procs) /\ Resolving \in SUBSET Procs
    BY <1>1, HandlersAssumption
  <2> QED BY <2>1, FS_Subset
<1>3. Cardinality(Resolving) \in Nat
  BY <1>2, FS_CardinalityType
<1>4. ASSUME pc[p] \in ArcLabels <=> pc'[p] \in ArcLabels PROVE Resolving' = Resolving
  BY <1>1, <1>4
<1>5. ASSUME pc[p] \notin ArcLabels, pc'[p] \in ArcLabels
      PROVE  Cardinality(Resolving') = Cardinality(Resolving) + 1
  <2>1. Resolving' = Resolving \cup {p} /\ p \notin Resolving
    BY <1>1, <1>5
  <2> QED BY <1>2, <2>1, FS_AddElement
<1>6. ASSUME pc[p] \in ArcLabels, pc'[p] \notin ArcLabels
      PROVE  Cardinality(Resolving') = Cardinality(Resolving) - 1
  <2>1. Resolving' = Resolving \ {p} /\ p \in Resolving
    BY <1>1, <1>6
  <2> QED BY <1>2, <2>1, FS_RemoveElement
<1> QED BY <1>3, <1>4, <1>5, <1>6

\* A step that leaves counters and resets alone, and neither begins nor ends an
\* attempt.
LEMMA ArcQuiet ==
    ASSUME ArcInv, NEW p \in Procs, \A q \in Procs \ {p} : pc'[q] = pc[q],
           stats' = stats, "stats" \in mixed => "stats" \in mixed',
           pc[p] \in ArcLabels <=> pc'[p] \in ArcLabels,
           pc[p] = "reset" <=> pc'[p] = "reset"
    PROVE  ArcInv'
<1>1. Resolving' = Resolving
  BY ResolvingCount
<1>2. Resetting' = Resetting
  BY DEF Resetting
<1> QED BY <1>1, <1>2 DEF ArcInv

\* The end of an attempt is counted.
LEMMA ArcEnds ==
    ASSUME ArcInv, NEW p \in Procs, \A q \in Procs \ {p} : pc'[q] = pc[q],
           Count({"failed"}) \/ Count({"success", "hits"}) \/ Count({"success", "api"}),
           mixed' = mixed, pc[p] \in ArcLabels, pc'[p] \notin ArcLabels \cup {"reset"}
    PROVE  ArcInv'
<1>1. /\ Cardinality(Resolving) \in Nat /\ p \in Resolving
      /\ Cardinality(Resolving') = Cardinality(Resolving) - 1
  BY ResolvingCount DEF Resolving, ArcLabels
<1>2. Resetting' = Resetting
  BY DEF Resetting, ArcLabels
<1>3. stats' \in [Counters -> Nat]
  BY DEF ArcInv, Count
<1>4. /\ {"attempts", "success", "failed", "hits", "api"} \subseteq Counters
      /\ \A c \in {"attempts", "success", "failed", "hits", "api"} : stats[c] \in Nat
  BY DEF ArcInv, Counters
<1>5. /\ stats'["attempts"] = stats["attempts"]
      /\ \/ /\ stats'["success"] = stats["success"] /\ stats'["failed"] = stats["failed"] + 1
            /\ stats'["hits"] = stats["hits"] /\ stats'["api"] = stats["api"]
         \/ /\ stats'["success"] = stats["success"] + 1 /\ stats'["failed"] = stats["failed"]
            /\ \/ stats'["hits"] = stats["hits"] + 1 /\ stats'["api"] = stats["api"]
               \/ stats'["hits"] = stats["hits"] /\ stats'["api"] = stats["api"] + 1
  BY <1>4 DEF Count
<1>6. ASSUME "stats" \notin mixed
      PROVE  /\ Resetting = {}
             /\ stats'["attempts"] = stats'["success"] + stats'["failed"] + Cardinality(Resolving')
             /\ stats'["success"] = stats'["hits"] + stats'["api"]
  <2>1. /\ Resetting = {}
        /\ stats["attempts"] = stats["success"] + stats["failed"] + Cardinality(Resolving)
        /\ stats["success"] = stats["hits"] + stats["api"]
    BY <1>1, <1>6 DEF ArcInv
  <2> HIDE DEF Resolving
  <2> QED BY <1>1, <1>4, <1>5, <2>1
<1> QED BY <1>2, <1>3, <1>6 DEF ArcInv

LEMMA ArcStep == Shape /\ ArcInv /\ [Next]_vars => ArcInv'
<1> SUFFICES ASSUME Shape, ArcInv, [Next]_vars PROVE ArcInv'
  OBVIOUS
<1>1. CASE /\ UNCHANGED downloadVars
           /\ \A q \in Procs : pc[q] \in FileLabels \/ pc'[q] \in FileLabels
                               => pc'[q] = pc[q] /\ local'[q] = local[q]
  <2>1. stats' = stats /\ mixed' = mixed
    BY <1>1 DEF downloadVars
  <2>2. Resolving' = Resolving /\ Resetting' = Resetting
    BY <1>1 DEF Resolving, Resetting, FileLabels
  <2> QED BY <2>1, <2>2 DEF ArcInv
<1>2. ASSUME NEW p \in Procs, FilePart(p) PROVE ArcInv'
  <2>1. Shape' /\ \A q \in Procs \ {p} : pc'[q] = pc[q]
    BY <1>2, FileMoves DEF Moves
  <2>2. CASE \E platform : DownloadCachedTrack(p, platform)
    <3>1. pc[p] = "idle" /\ pc'[p] \in {"delivered", "remote", "track"} /\ UNCHANGED downloadVars
      BY <2>2, FilesBegin
    <3> QED BY <2>1, <3>1, ArcQuiet DEF downloadVars, ArcLabels
  <2>3. CASE BeginReset(p)
    <3>1. /\ pc[p] = "idle" /\ pc'[p] = "reset" /\ stats' = [stats EXCEPT !["attempts"] = 0]
          /\ mixed' = IF Resolving = {} THEN mixed ELSE mixed \cup {"stats"}
      BY <2>3 DEF BeginReset, OutOfStep, Goto, At, Shape
    <3>2. Resolving' = Resolving /\ p \in Resetting'
      BY <2>1, <3>1, ResolvingCount DEF ArcLabels, Resetting
    <3>3. stats' \in [Counters -> Nat] /\ stats'["attempts"] = 0
      BY <3>1 DEF ArcInv, Counters
    <3> QED BY <3>1, <3>2, <3>3 DEF ArcInv
  <2>4. CASE ResetArcStats(p)
    <3>1. /\ pc[p] = "reset" /\ pc'[p] = "idle"
          /\ stats' = [c \in Counters |-> IF c = "attempts" THEN stats[c] ELSE 0]
          /\ mixed' = IF Resolving = {} THEN mixed ELSE mixed \cup {"stats"}
      BY <2>4, ReturnMoves DEF ResetArcStats, OutOfStep, At
    <3>2. Resolving' = Resolving /\ p \in Resetting
      BY <2>1, <3>1, ResolvingCount DEF ArcLabels, Resetting
    <3>3. /\ stats' \in [Counters -> Nat] /\ stats'["attempts"] = stats["attempts"]
          /\ \A c \in {"success", "failed", "hits", "api"} : stats'[c] = 0
      BY <3>1 DEF ArcInv, Counters
    <3>4. Resolving = {} => Cardinality(Resolving) = 0
      BY FS_EmptySet
    <3> HIDE DEF Resolving
    <3> QED BY <3>1, <3>2, <3>3, <3>4 DEF ArcInv
  <2>5. CASE resolve(p)
    <3>1. /\ pc[p] = "attempt" /\ pc'[p] = "media" /\ Count({"attempts"})
          /\ mixed' = IF Resetting = {} THEN mixed ELSE mixed \cup {"stats"}
      BY <2>5 DEF resolve, Goto, At, Shape, Resetting
    <3>2. /\ Cardinality(Resolving) \in Nat
          /\ Cardinality(Resolving') = Cardinality(Resolving) + 1
          /\ Resetting' = Resetting
      BY <2>1, <3>1, ResolvingCount DEF ArcLabels, Resetting
    <3>3. /\ stats' \in [Counters -> Nat] /\ stats'["attempts"] = stats["attempts"] + 1
          /\ \A c \in {"success", "failed", "hits", "api"} : stats'[c] = stats[c]
          /\ \A c \in {"attempts", "success", "failed", "hits", "api"} : stats[c] \in Nat
      BY <3>1 DEF ArcInv, Counters, Count
    <3> HIDE DEF Resolving
    <3> QED BY <3>1, <3>2, <3>3 DEF ArcInv
  <2>6. ASSUME CycleFails(p), mixed' = mixed, pc[p] \in ArcLabels PROVE ArcInv'
    <3>1. CASE Count({"failed"}) /\ Jump(p, "ytdlp")
      BY <2>1, <2>6, <3>1, JumpMoves, ArcEnds DEF ArcLabels
    <3>2. CASE UNCHANGED stats /\ pc'[p] = "job"
      BY <2>1, <2>6, <3>2, ArcQuiet DEF ArcLabels
    <3> QED BY <2>6, <3>1, <3>2 DEF CycleFails, Goto, Shape
  <2>7. ASSUME NEW label \in ArcLabels, Jump(p, label), UNCHANGED stats, mixed' = mixed,
               pc[p] \in ArcLabels
        PROVE  ArcInv'
    BY <2>1, <2>7, JumpMoves, ArcQuiet DEF ArcLabels
  <2>8. CASE getMediaCollection(p)
    BY <2>1, <2>8, ArcQuiet DEF getMediaCollection, goVars
  <2>9. CASE lookupDirectDb(p)
    <3>1. /\ pc[p] = "media" /\ mixed' = mixed
          /\ \/ Count({"success", "hits"}) /\ Jump(p, "remote")
             \/ Jump(p, "job") /\ UNCHANGED stats
             \/ Count({"failed"}) /\ Jump(p, "ytdlp")
      BY <2>9 DEF lookupDirectDb, At
    <3> QED BY <2>1, <2>7, <3>1, JumpMoves, ArcEnds DEF ArcLabels
  <2>10. CASE createJob(p) \/ pollJob(p) \/ RequestFile(p) \/ writeToFile(p) \/ CheckSize(p)
              \/ RenamePart(p)
    <3>1. /\ pc[p] \in ArcLabels /\ mixed' = mixed
          /\ CycleFails(p) \/ \E label \in ArcLabels : Jump(p, label) /\ UNCHANGED stats
      BY <2>10 DEF createJob, pollJob, RequestFile, writeToFile, CheckSize, RenamePart, At, ArcLabels
    <3> QED BY <2>6, <2>7, <3>1
  <2>11. CASE OpenPart(p)
    <3>1. /\ pc[p] = "open" /\ pc'[p] = "copy" /\ stats' = stats
          /\ "stats" \in mixed => "stats" \in mixed'
      BY <2>11 DEF OpenPart, Goto, At, Shape
    <3> QED BY <2>1, <3>1, ArcQuiet DEF ArcLabels
  <2>12. CASE recordArcSuccess(p)
    <3>1. /\ pc[p] = "arrived" /\ pc'[p] = "delivered" /\ mixed' = mixed
          /\ Count({"success", "api"})
      BY <2>12 DEF recordArcSuccess, Deliver, Goto, At, Shape
    <3> QED BY <2>1, <3>1, ArcEnds DEF ArcLabels
  <2>13. CASE downloadWithYtDlp(p)
    <3>1. /\ pc[p] = "ytdlp" /\ pc'[p] \in {"delivered", "idle"} /\ mixed' = mixed
          /\ Count({"fallbacks"})
      BY <2>13, ReturnMoves DEF downloadWithYtDlp, Deliver, Goto, At, Shape
    <3>2. Resolving' = Resolving /\ Resetting' = Resetting
      BY <2>1, <3>1, ResolvingCount DEF ArcLabels, Resetting
    <3>3. /\ stats' \in [Counters -> Nat]
          /\ \A c \in {"attempts", "success", "failed", "hits", "api"} : stats'[c] = stats[c]
      BY <3>1 DEF ArcInv, Counters, Count
    <3> HIDE DEF Resolving, Resetting
    <3> QED BY <3>1, <3>2, <3>3 DEF ArcInv
  <2>14. CASE downloadViaWrapper(p) \/ Delivered(p) \/ downloadTelegramFile(p)
              \/ retryTelegramDownload(p) \/ SpotifyStep(p)
    <3>1. /\ pc[p] \in FileLabels \ (ArcLabels \cup {"reset", "ytdlp"})
          /\ pc'[p] \in FileLabels \cup {"idle"} /\ pc'[p] \notin ArcLabels \cup {"reset"}
          /\ stats' = stats /\ ("stats" \in mixed => "stats" \in mixed')
      <4>1. CASE downloadViaWrapper(p) \/ Delivered(p)
        BY <4>1, JumpMoves, ReturnMoves
           DEF downloadViaWrapper, Delivered, Deliver, Goto, At, Shape, FileLabels, ArcLabels,
               downloadVars
      <4>2. CASE downloadTelegramFile(p) \/ retryTelegramDownload(p)
        BY <4>2, ReturnMoves
           DEF downloadTelegramFile, retryTelegramDownload, Retry, Deliver, Goto, At, Shape,
               FileLabels, ArcLabels, downloadVars
      <4>3. CASE processSpotify(p) \/ RemoveTemporary(p)
        BY <4>3, JumpMoves, ReturnMoves
           DEF processSpotify, RemoveTemporary, Deliver, Goto, At, Shape, FileLabels, ArcLabels
      <4>4. CASE FetchEncrypted(p) \/ decryptAudioFile(p) \/ fixOGG(p)
        BY <4>4, JumpMoves, FailMoves
           DEF FetchEncrypted, decryptAudioFile, fixOGG, StartEncoder, EndEncoder, At, FileLabels,
               ArcLabels
      <4> QED BY <2>14, <4>1, <4>2, <4>3, <4>4 DEF SpotifyStep
    <3> QED BY <2>1, <3>1, ArcQuiet DEF ArcLabels
  <2> QED BY <1>2, <2>2, <2>3, <2>4, <2>5, <2>8, <2>9, <2>10, <2>11, <2>12, <2>13, <2>14
          DEF FilePart, DownloadStep, YouTubeStep, downloadFileWithTimeout
<1> QED BY <1>1, <1>2, FilesElsewhere

LEMMA ArcInit == Init => ArcInv
<1> SUFFICES ASSUME Init PROVE ArcInv
  OBVIOUS
<1>1. Resolving = {} /\ Resetting = {}
  BY DEF Init, HandlersInit, Resolving, Resetting
<1>2. Cardinality(Resolving) = 0
  BY <1>1, FS_EmptySet
<1>3. stats = [c \in Counters |-> 0]
  BY DEF Init, DownloadsInit
<1> HIDE DEF Resolving
<1> QED BY <1>1, <1>2, <1>3 DEF ArcInv, Counters

\* However many downloads, failures and resets interleave, every attempt is
\* counted once as a success or a failure when it is over, unless a reset came
\* in between (core/dl/arcstats.go).
THEOREM ArcBalanced == Spec => []ArcBalance
<1>1. Init => ArcInv
  BY ArcInit
<1>2. ArcInv => ArcBalance
  <2> HIDE DEF Resolving
  <2> QED BY DEF ArcInv, ArcBalance, Resetting, At
<1> QED BY <1>1, <1>2, ShapeAlways, ArcStep, PTL DEF Spec

-----------------------------------------------------------------------------
\* The ArcMusic file.  Unless two downloads have opened the same .part file, at
\* most one goroutine is between opening and renaming it: the inode it writes is
\* the one under that name, and is not the one under the file's own name.
Writing == {"copy", "size", "rename"}

InodeType == [by : Procs \cup {None}, end : BOOLEAN, whole : BOOLEAN]

SavedInv ==
    /\ inodes \in [Inodes -> InodeType]
    /\ saved \in Inodes \cup {None} /\ part \in Inodes \cup {None}
    /\ \A p \in Procs : At(p, "arrived") \/ (At(p, "delivered") /\ local[p].doc = "saved")
                        => saved # None
    /\ \/ "saved" \in mixed
       \/ /\ saved # None => inodes[saved].whole /\ saved # part
          /\ \A p, q \in Procs : pc[p] \in Writing /\ pc[q] \in Writing => p = q
          /\ part # None => \E p \in Procs : pc[p] \in Writing
          /\ \A p \in Procs : pc[p] \in Writing =>
               /\ part # None /\ local[p].got = part
               /\ pc[p] = "copy" => inodes[part].by = p
               /\ pc[p] # "copy" => inodes[part].whole

\* There is an inode for one more file.
LEMMA InodeFree ==
    ASSUME NEW p \in Procs, part = None
    PROVE  FreeInode \in Inodes /\ FreeInode # saved /\ \A q \in Procs : FreeInode # local[q].got
<1> DEFINE gots == {local[q].got : q \in Procs}
           n == Cardinality(Procs)
           holder == [i \in Inodes |-> IF i = saved THEN None
                                       ELSE CHOOSE q \in Procs : local[q].got = i]
<1>1. IsFiniteSet(Procs) /\ n \in Nat
  BY HandlersAssumption, FS_CardinalityType
<1>2. n # 0
  BY <1>1, FS_EmptySet
<1>3. IsFiniteSet(Procs \cup {None}) /\ Cardinality(Procs \cup {None}) = n + 1
  BY <1>1, HandlersAssumption, FS_AddElement
<1>4. IsFiniteSet(Inodes) /\ Cardinality(Inodes) = 2 * n + 1
  BY <1>1, FS_Interval DEF Inodes
<1>5. Cardinality(Procs \cup {None}) < Cardinality(Inodes)
  <2> HIDE DEF n
  <2> QED BY <1>1, <1>2, <1>3, <1>4
<1>6. ASSUME Inodes \subseteq gots \cup {saved} PROVE FALSE
  <2>1. \A i \in Inodes \ {saved} : \E q \in Procs : local[q].got = i
    BY <1>6
  <2>2. \A i \in Inodes \ {saved} : holder[i] \in Procs /\ local[holder[i]].got = i
    BY <2>1
  <2>3. saved \in Inodes => holder[saved] = None
    OBVIOUS
  <2>4. holder \in [Inodes -> Procs \cup {None}]
    BY <2>2, <2>3
  <2> HIDE DEF holder
  <2>5. PICK x, y \in Inodes : x # y /\ holder[x] = holder[y]
    BY <1>3, <1>4, <1>5, <2>4, FS_PigeonHole
  <2> QED BY <2>2, <2>3, <2>5, HandlersAssumption
<1>7. None \notin Inodes
  BY <1>1, HandlersAssumption DEF Inodes
<1>8. \E i \in Inodes : i \notin {saved, part} \cup gots
  BY <1>6, <1>7
<1>9. FreeInode \in Inodes /\ FreeInode \notin {saved, part} \cup gots
  BY <1>8 DEF FreeInode
<1> QED BY <1>9

\* A step of p that leaves the files alone and does not write, or goes from one
\* label to another of those at which it does not.
LEMMA SavedQuiet ==
    ASSUME SavedInv, NEW p \in Procs,
           \A q \in Procs \ {p} : pc'[q] = pc[q] /\ local'[q] = local[q],
           saved' = saved, part' = part, inodes' = inodes, "saved" \in mixed => "saved" \in mixed',
           pc[p] \notin Writing, pc'[p] \notin Writing,
           At(p, "arrived")' => saved # None,
           At(p, "delivered")' => local'[p].doc # "saved" \/ saved # None
    PROVE  SavedInv'
<1>1. \A q \in Procs : pc[q] \in Writing <=> pc'[q] \in Writing
  OBVIOUS
<1>2. \A q \in Procs : pc[q] \in Writing => pc'[q] = pc[q] /\ local'[q] = local[q]
  OBVIOUS
<1>3. inodes' \in [Inodes -> InodeType] /\ saved' \in Inodes \cup {None}
      /\ part' \in Inodes \cup {None}
  BY DEF SavedInv
<1>4. \A q \in Procs : At(q, "arrived")' \/ (At(q, "delivered")' /\ local'[q].doc = "saved")
                       => saved' # None
  BY DEF SavedInv, At
<1>5. ASSUME "saved" \notin mixed'
      PROVE  /\ saved' # None => inodes'[saved'].whole /\ saved' # part'
             /\ \A x, y \in Procs : pc'[x] \in Writing /\ pc'[y] \in Writing => x = y
             /\ part' # None => \E q \in Procs : pc'[q] \in Writing
             /\ \A q \in Procs : pc'[q] \in Writing =>
                  /\ part' # None /\ local'[q].got = part'
                  /\ pc'[q] = "copy" => inodes'[part'].by = q
                  /\ pc'[q] # "copy" => inodes'[part'].whole
  BY <1>1, <1>2, <1>5 DEF SavedInv
<1> QED BY <1>3, <1>4, <1>5 DEF SavedInv

\* A writer that gives up takes the .part file with it, whosever it is.
LEMMA SavedGivesUp ==
    ASSUME SavedInv, NEW p \in Procs,
           \A q \in Procs \ {p} : pc'[q] = pc[q] /\ local'[q] = local[q],
           saved' = saved, part' = None, inodes' = inodes, mixed' = mixed,
           pc[p] \in Writing, pc'[p] \in {"ytdlp", "job"}
    PROVE  SavedInv'
<1>1. \A q \in Procs : At(q, "arrived")' \/ (At(q, "delivered")' /\ local'[q].doc = "saved")
                       => saved' # None
  BY DEF SavedInv, At
<1>2. pc'[p] \notin Writing
  BY DEF Writing
<1>3. \A q \in Procs \ {p} : "saved" \notin mixed => pc[q] \notin Writing
  BY DEF SavedInv
<1>4. inodes' \in [Inodes -> InodeType] /\ saved' \in Inodes \cup {None}
      /\ part' \in Inodes \cup {None}
  BY DEF SavedInv
<1>5. \A q \in Procs : "saved" \notin mixed' => pc'[q] \notin Writing
  BY <1>2, <1>3
<1>6. "saved" \notin mixed' /\ saved' # None => inodes'[saved'].whole /\ saved' # part'
  BY DEF SavedInv
<1> QED BY <1>1, <1>4, <1>5, <1>6 DEF SavedInv

LEMMA SavedStep == Shape /\ SavedInv /\ [Next]_vars => SavedInv'
<1> SUFFICES ASSUME Shape, SavedInv, [Next]_vars PROVE SavedInv'
  OBVIOUS
<1>1. CASE /\ UNCHANGED downloadVars
           /\ \A q \in Procs : pc[q] \in FileLabels \/ pc'[q] \in FileLabels
                               => pc'[q] = pc[q] /\ local'[q] = local[q]
  <2>1. saved' = saved /\ part' = part /\ inodes' = inodes /\ mixed' = mixed
    BY <1>1 DEF downloadVars, fileVars
  <2>2. \A q \in Procs : pc[q] \in Writing \/ pc'[q] \in Writing \/ At(q, "arrived")'
                         \/ At(q, "delivered")'
                         => pc'[q] = pc[q] /\ local'[q] = local[q]
    BY <1>1 DEF Writing, FileLabels, At
  <2> QED BY <2>1, <2>2 DEF SavedInv, At
<1>2. ASSUME NEW p \in Procs, FilePart(p) PROVE SavedInv'
  <2>1. Shape' /\ \A q \in Procs \ {p} : pc'[q] = pc[q] /\ local'[q] = local[q]
    BY <1>2, FileMoves DEF Moves
  <2>2. ASSUME pc[p] \notin Writing, pc'[p] \notin Writing \cup {"delivered", "arrived"},
               saved' = saved, part' = part, inodes' = inodes,
               "saved" \in mixed => "saved" \in mixed'
        PROVE  SavedInv'
    BY <2>1, <2>2, SavedQuiet DEF At
  <2>3. ASSUME NEW name, Deliver(p, name), name # "saved" \/ saved # None, pc[p] \notin Writing,
               saved' = saved, part' = part, inodes' = inodes,
               "saved" \in mixed => "saved" \in mixed'
        PROVE  SavedInv'
    <3>1. pc'[p] = "delivered" /\ local'[p].doc = name
      BY <2>3 DEF Deliver, Goto, Shape, Fresh
    <3> QED BY <2>1, <2>3, <3>1, SavedQuiet DEF At, Writing
  <2>4. ASSUME CycleFails(p) PROVE pc'[p] \in {"ytdlp", "job"}
    BY <2>4, JumpMoves DEF CycleFails, Goto, Shape
  <2>5. CASE \E platform : DownloadCachedTrack(p, platform)
    <3>1. /\ pc[p] = "idle" /\ UNCHANGED downloadVars
          /\ \/ pc'[p] \in {"remote", "track"}
             \/ pc'[p] = "delivered" /\ local'[p].doc = "link"
      BY <2>5, FilesBegin
    <3> QED BY <2>1, <3>1, SavedQuiet DEF downloadVars, fileVars, Writing, At
  <2>6. CASE BeginReset(p) \/ ResetArcStats(p)
    <3>1. pc[p] \in {"idle", "reset"} /\ pc'[p] \in {"idle", "reset"}
      BY <2>6, ReturnMoves DEF BeginReset, ResetArcStats, Goto, At, Shape
    <3> QED BY <2>2, <2>6, <3>1 DEF BeginReset, ResetArcStats, OutOfStep, fileVars, Writing
  <2>7. CASE downloadViaWrapper(p) \/ Delivered(p)
    <3>1. /\ pc[p] \in {"track", "delivered"} /\ UNCHANGED downloadVars
          /\ pc'[p] \in {"attempt", "ogg", "idle"} \/ Deliver(p, "link")
      BY <2>7, JumpMoves, ReturnMoves DEF downloadViaWrapper, Delivered, At
    <3> QED BY <2>2, <2>3, <3>1 DEF downloadVars, fileVars, Writing
  <2>8. CASE downloadTelegramFile(p) \/ retryTelegramDownload(p)
    <3>1. /\ pc[p] \in {"remote", "tdlib"} /\ UNCHANGED <<saved, part, inodes, mixed>>
          /\ pc'[p] \in {"tdlib", "idle"} \/ Deliver(p, "tdFile")
      BY <2>8, ReturnMoves
         DEF downloadTelegramFile, retryTelegramDownload, Retry, Goto, At, Shape, downloadVars, fileVars
    <3> QED BY <2>2, <2>3, <3>1 DEF Writing
  <2>9. CASE resolve(p) \/ getMediaCollection(p) \/ lookupDirectDb(p)
    <3>1. /\ pc[p] \in {"attempt", "media"} /\ pc'[p] \in {"media", "remote", "job", "ytdlp"}
          /\ "saved" \in mixed => "saved" \in mixed'
          /\ UNCHANGED <<saved, part, inodes>>
      BY <2>9, JumpMoves
         DEF resolve, getMediaCollection, lookupDirectDb, Goto, At, Shape, goVars, fileVars
    <3> QED BY <2>2, <3>1 DEF Writing
  <2>10. CASE createJob(p) \/ pollJob(p)
    <3>1. /\ pc[p] \in {"job", "poll"} /\ pc'[p] \in {"poll", "request", "job", "ytdlp"}
          /\ UNCHANGED <<saved, part, inodes, mixed>>
      BY <2>4, <2>10, JumpMoves DEF createJob, pollJob, At, fileVars
    <3> QED BY <2>2, <3>1 DEF Writing
  <2>11. CASE RequestFile(p)
    <3>1. /\ pc[p] = "request" /\ UNCHANGED <<saved, part, inodes, mixed>>
          /\ pc'[p] \in {"open", "job", "ytdlp"} \/ (pc'[p] = "arrived" /\ saved # None)
      BY <2>4, <2>11, JumpMoves DEF RequestFile, At, fileVars
    <3> QED BY <2>1, <3>1, SavedQuiet DEF Writing, At
  <2>12. CASE OpenPart(p)
    <3> DEFINE i == IF part = None THEN FreeInode ELSE part
               new == [by |-> p, end |-> FALSE, whole |-> FALSE]
    <3>1. i \in Inodes /\ (part = None => i # saved) /\ new \in InodeType /\ new.by = p
      BY InodeFree DEF SavedInv, InodeType
    <3>2. /\ pc[p] = "open" /\ pc'[p] = "copy" /\ local'[p].got = i
          /\ saved' = saved /\ part' = i /\ inodes' = [inodes EXCEPT ![i] = new]
          /\ mixed' = IF part = None THEN mixed ELSE mixed \cup {"saved"}
      BY <2>12 DEF OpenPart, Goto, At, Shape, Fresh
    <3> HIDE DEF i, new
    <3>3. inodes' \in [Inodes -> InodeType] /\ inodes'[i] = new
          /\ \A k \in Inodes \ {i} : inodes'[k] = inodes[k]
      BY <3>1, <3>2 DEF SavedInv
    <3>4. saved' \in Inodes \cup {None} /\ part' \in Inodes \cup {None} /\ part' # None
      BY <3>1, <3>2, HandlersAssumption DEF SavedInv, Inodes
    <3>5. \A q \in Procs : At(q, "arrived")' \/ (At(q, "delivered")' /\ local'[q].doc = "saved")
                           => saved' # None
      BY <2>1, <3>2 DEF SavedInv, At
    <3>6. ASSUME "saved" \notin mixed'
          PROVE  /\ part = None /\ \A q \in Procs : pc[q] \notin Writing
                 /\ saved # None => inodes[saved].whole /\ saved \in Inodes
      BY <3>2, <3>6 DEF SavedInv
    <3>7. ASSUME "saved" \notin mixed'
          PROVE  /\ saved' # None => inodes'[saved'].whole /\ saved' # part'
                 /\ \A q \in Procs : pc'[q] \in Writing <=> q = p
      BY <2>1, <3>1, <3>2, <3>3, <3>6, <3>7 DEF Writing
    <3> QED BY <3>1, <3>2, <3>3, <3>4, <3>5, <3>7 DEF SavedInv
  <2>13. CASE writeToFile(p)
    <3> DEFINE g == local[p].got
    <3>1. pc[p] = "copy" /\ saved' = saved /\ mixed' = mixed /\ pc[p] \in Writing
      BY <2>13 DEF writeToFile, At, Writing
    <3>2. CASE part' = None /\ CycleFails(p) /\ UNCHANGED inodes
      BY <2>1, <2>4, <3>1, <3>2, SavedGivesUp
    <3>3. CASE /\ inodes' = [inodes EXCEPT ![g].end = TRUE,
                                           ![g].whole = @ \/ inodes[g].by = p]
               /\ Jump(p, "size") /\ part' = part
      <4>1. pc'[p] = "size" /\ local'[p] = local[p]
        BY <3>3, JumpMoves
      <4>2. /\ inodes' \in [Inodes -> InodeType]
            /\ \A k \in Inodes \ {g} : inodes'[k] = inodes[k]
            /\ g \in Inodes /\ inodes[g].by = p => inodes'[g].whole
        BY <3>3 DEF SavedInv, InodeType
      <4>3. \A q \in Procs : At(q, "arrived")' \/ (At(q, "delivered")' /\ local'[q].doc = "saved")
                             => saved' # None
        BY <2>1, <3>1, <4>1 DEF SavedInv, At
      <4>4. ASSUME "saved" \notin mixed
            PROVE  /\ part = g /\ g \in Inodes /\ part # None /\ inodes[g].by = p
                   /\ \A q \in Procs : pc[q] \in Writing <=> q = p
                   /\ saved # None => inodes[saved].whole /\ saved # part /\ saved \in Inodes
        BY <3>1, <4>4 DEF SavedInv
      <4>5. \A q \in Procs : pc'[q] \in Writing <=> pc[q] \in Writing
        BY <2>1, <3>1, <4>1 DEF Writing
      <4> HIDE DEF g
      <4>6. /\ saved' \in Inodes \cup {None} /\ part' \in Inodes \cup {None} /\ part' = part
        BY <3>1, <3>3 DEF SavedInv
      <4>7. ASSUME "saved" \notin mixed'
            PROVE  /\ saved' # None => inodes'[saved'].whole /\ saved' # part'
                   /\ \A q \in Procs : pc'[q] \in Writing <=> q = p
                   /\ local'[p].got = part' /\ inodes'[part'].whole /\ part' # None
        BY <3>1, <4>1, <4>2, <4>4, <4>5, <4>6, <4>7 DEF g
      <4> QED BY <4>1, <4>2, <4>3, <4>6, <4>7 DEF SavedInv
    <3> QED BY <2>13, <3>2, <3>3 DEF writeToFile
  <2>14. CASE CheckSize(p)
    <3>1. /\ pc[p] = "size" /\ saved' = saved /\ mixed' = mixed /\ inodes' = inodes
          /\ pc[p] \in Writing
      BY <2>14 DEF CheckSize, At, Writing
    <3>2. CASE part' = None /\ CycleFails(p)
      BY <2>1, <2>4, <3>1, <3>2, SavedGivesUp
    <3>3. CASE Jump(p, "rename") /\ part' = part
      <4>1. pc'[p] = "rename" /\ local'[p] = local[p]
        BY <3>3, JumpMoves
      <4>2. \A q \in Procs : local'[q] = local[q] /\ (pc'[q] = "copy" <=> pc[q] = "copy")
                             /\ (pc'[q] \in Writing <=> pc[q] \in Writing)
                             /\ (pc'[q] = "arrived" <=> pc[q] = "arrived")
                             /\ (pc'[q] = "delivered" <=> pc[q] = "delivered")
        BY <2>1, <3>1, <4>1 DEF Writing
      <4> QED BY <3>1, <3>3, <4>2 DEF SavedInv, At
    <3> QED BY <2>14, <3>2, <3>3 DEF CheckSize
  <2>15. CASE RenamePart(p)
    <3>1. /\ pc[p] = "rename" /\ inodes' = inodes /\ mixed' = mixed /\ pc[p] \in Writing
      BY <2>15 DEF RenamePart, At, Writing
    <3>2. CASE part # None
      <4>1. saved' = part /\ part' = None /\ pc'[p] = "arrived"
        BY <2>15, <3>2, JumpMoves DEF RenamePart
      <4>2. saved' \in Inodes \cup {None} /\ part' \in Inodes \cup {None} /\ saved' # None
            /\ inodes' \in [Inodes -> InodeType]
        BY <3>1, <3>2, <4>1 DEF SavedInv
      <4>3. ASSUME "saved" \notin mixed
            PROVE  inodes[part].whole /\ \A q \in Procs : pc'[q] \notin Writing
        BY <2>1, <3>1, <4>1, <4>3 DEF SavedInv, Writing
      <4> QED BY <3>1, <3>2, <4>1, <4>2, <4>3 DEF SavedInv
    <3>3. CASE part = None
      <4>1. CycleFails(p) /\ saved' = saved /\ part' = None
        BY <2>15, <3>3 DEF RenamePart
      <4> QED BY <2>1, <2>4, <3>1, <4>1, SavedGivesUp
    <3> QED BY <3>2, <3>3
  <2>16. CASE recordArcSuccess(p)
    <3>1. pc[p] = "arrived" /\ saved # None /\ Deliver(p, "saved")
          /\ UNCHANGED <<saved, part, inodes, mixed>>
      BY <2>16 DEF recordArcSuccess, At, fileVars, SavedInv
    <3> QED BY <2>3, <3>1 DEF Writing
  <2>17. CASE downloadWithYtDlp(p)
    <3>1. /\ pc[p] = "ytdlp" /\ UNCHANGED <<saved, part, inodes, mixed>>
          /\ pc'[p] = "idle" \/ Deliver(p, "ytdlp")
      BY <2>17, ReturnMoves DEF downloadWithYtDlp, At, fileVars
    <3> QED BY <2>2, <2>3, <3>1 DEF Writing
  <2>18. CASE SpotifyStep(p)
    <3>1. CASE processSpotify(p) \/ RemoveTemporary(p)
      <4>1. /\ pc[p] \in {"ogg", "remove"} /\ UNCHANGED <<saved, part, inodes>>
            /\ "saved" \in mixed => "saved" \in mixed'
            /\ pc'[p] \in {"cdn", "idle"} \/ Deliver(p, "ogg")
        BY <3>1, JumpMoves, ReturnMoves DEF processSpotify, RemoveTemporary, At, fileVars
      <4> QED BY <2>2, <2>3, <4>1 DEF Writing
    <3>2. CASE FetchEncrypted(p) \/ decryptAudioFile(p) \/ fixOGG(p)
      <4>1. /\ pc[p] \in {"cdn", "decrypt", "encode", "encoding"} /\ UNCHANGED <<saved, part, inodes>>
            /\ "saved" \in mixed => "saved" \in mixed'
            /\ pc'[p] \in {"decrypt", "remove", "encode", "encoding"}
        BY <3>2, JumpMoves, FailMoves
           DEF FetchEncrypted, decryptAudioFile, fixOGG, StartEncoder, EndEncoder, At
      <4> QED BY <2>2, <4>1 DEF Writing
    <3> QED BY <2>18, <3>1, <3>2 DEF SpotifyStep
  <2> QED BY <1>2, <2>5, <2>6, <2>7, <2>8, <2>9, <2>10, <2>11, <2>12, <2>13, <2>14, <2>15, <2>16,
             <2>17, <2>18
          DEF FilePart, DownloadStep, YouTubeStep, downloadFileWithTimeout
<1> QED BY <1>1, <1>2, FilesElsewhere

LEMMA SavedInit == Init => SavedInv
<1> SUFFICES ASSUME Init PROVE SavedInv
  OBVIOUS
<1>1. saved = None /\ part = None /\ \A p \in Procs : pc[p] = "idle"
  BY DEF Init, DownloadsInit, HandlersInit
<1>2. inodes = [i \in Inodes |-> [by |-> None, end |-> FALSE, whole |-> FALSE]]
  BY DEF Init, DownloadsInit
<1>3. inodes \in [Inodes -> InodeType]
  BY <1>2 DEF InodeType
<1> QED BY <1>1, <1>3 DEF SavedInv, Writing, At

\* The Spotify track.  Unless two goroutines have worked on it at once, or an
\* encoder has failed half way, the file is absent until an encoder writes it,
\* and whole once it has ended.
OggInv ==
    \/ "ogg" \in mixed
    \/ /\ \A p, q \in Procs : pc[p] \in SpotifyLabels /\ pc[q] \in SpotifyLabels => p = q
       /\ ogg = "partial" => \E p \in Procs : pc[p] = "encoding"
       /\ ogg \in Contents
       /\ \A p \in Procs :
            /\ pc[p] \in {"cdn", "decrypt", "encode"} => ogg = "none"
            /\ pc[p] = "encoding" => ogg = "partial"
            /\ pc[p] = "remove" /\ ~local[p].failed => ogg = "whole"
            /\ At(p, "delivered") /\ local[p].doc = "ogg" => ogg = "whole"

\* The file TDLib keeps is handed out when it is whole, and stays so.
TdInv == \A p \in Procs : At(p, "delivered") /\ local[p].doc = "tdFile" => tdFile = "whole"

\* A step of p outside the Spotify track, or one that fails with a file that is
\* not half written.
LEMMA OggQuiet ==
    ASSUME OggInv, NEW p \in Procs,
           \A q \in Procs \ {p} : pc'[q] = pc[q] /\ local'[q] = local[q],
           ogg' = ogg, "ogg" \in mixed => "ogg" \in mixed', pc[p] # "encoding",
           pc[p] \in SpotifyLabels \/ pc'[p] \notin SpotifyLabels, pc'[p] # "encoding",
           pc'[p] \in {"cdn", "decrypt", "encode"} => ogg = "none",
           pc'[p] = "remove" => local'[p].failed,
           At(p, "delivered")' => local'[p].doc # "ogg" \/ "ogg" \in mixed' \/ ogg = "whole"
    PROVE  OggInv'
<1>1. CASE "ogg" \in mixed'
  BY <1>1 DEF OggInv
<1>2. CASE "ogg" \notin mixed'
  <2>1. \A q \in Procs : pc'[q] \in SpotifyLabels => pc[q] \in SpotifyLabels
    OBVIOUS
  <2>2. \A x, y \in Procs : pc'[x] \in SpotifyLabels /\ pc'[y] \in SpotifyLabels => x = y
    BY <1>2, <2>1 DEF OggInv
  <2>3. ogg' = "partial" => \E q \in Procs : pc'[q] = "encoding"
    BY <1>2 DEF OggInv
  <2>4. \A q \in Procs :
            /\ pc'[q] \in {"cdn", "decrypt", "encode"} => ogg' = "none"
            /\ pc'[q] = "encoding" => ogg' = "partial"
            /\ pc'[q] = "remove" /\ ~local'[q].failed => ogg' = "whole"
            /\ At(q, "delivered")' /\ local'[q].doc = "ogg" => ogg' = "whole"
    BY <1>2 DEF OggInv, At
  <2>5. ogg' \in Contents
    BY <1>2 DEF OggInv
  <2> QED BY <2>2, <2>3, <2>4, <2>5 DEF OggInv
<1> QED BY <1>1, <1>2

LEMMA OggStep == Shape /\ OggInv /\ TdInv /\ [Next]_vars => OggInv' /\ TdInv'
<1> SUFFICES ASSUME Shape, OggInv, TdInv, [Next]_vars PROVE OggInv' /\ TdInv'
  OBVIOUS
<1>1. CASE /\ UNCHANGED downloadVars
           /\ \A q \in Procs : pc[q] \in FileLabels \/ pc'[q] \in FileLabels
                               => pc'[q] = pc[q] /\ local'[q] = local[q]
  <2>1. ogg' = ogg /\ tdFile' = tdFile /\ mixed' = mixed
    BY <1>1 DEF downloadVars, fileVars
  <2>2. \A q \in Procs : pc[q] \in SpotifyLabels \cup {"delivered"}
                         \/ pc'[q] \in SpotifyLabels \cup {"delivered"}
                         => pc'[q] = pc[q] /\ local'[q] = local[q]
    BY <1>1 DEF SpotifyLabels, FileLabels
  <2>3. TdInv'
    BY <2>1, <2>2 DEF TdInv, At
  <2>4. \A q \in Procs : pc[q] = "encoding" => pc'[q] = "encoding"
    BY <2>2 DEF SpotifyLabels
  <2>5. \A q \in Procs : /\ pc'[q] \in SpotifyLabels => pc'[q] = pc[q] /\ local'[q] = local[q]
                         /\ pc'[q] = "delivered" => pc'[q] = pc[q] /\ local'[q] = local[q]
    BY <2>2
  <2>6. OggInv'
    BY <2>1, <2>4, <2>5 DEF OggInv, At, SpotifyLabels
  <2> QED BY <2>3, <2>6
<1>2. ASSUME NEW p \in Procs, FilePart(p) PROVE OggInv' /\ TdInv'
  <2>1. Shape' /\ \A q \in Procs \ {p} : pc'[q] = pc[q] /\ local'[q] = local[q]
    BY <1>2, FileMoves DEF Moves
  <2>2. ASSUME pc[p] \notin SpotifyLabels, pc'[p] \notin SpotifyLabels,
               ogg' = ogg, tdFile = "whole" => tdFile' = "whole", "ogg" \in mixed => "ogg" \in mixed',
               At(p, "delivered")' => \/ local'[p].doc \notin {"ogg", "tdFile"}
                                      \/ local'[p].doc = "tdFile" /\ tdFile' = "whole"
        PROVE  OggInv' /\ TdInv'
    <3>1. OggInv'
      BY <2>1, <2>2, OggQuiet DEF SpotifyLabels
    <3>2. TdInv'
      BY <2>1, <2>2 DEF TdInv, At
    <3> QED BY <3>1, <3>2
  <2>3. ASSUME NEW name, Deliver(p, name) PROVE pc'[p] = "delivered" /\ local'[p].doc = name
    BY <2>3 DEF Deliver, Goto, Shape, Fresh
  <2>4. ASSUME CycleFails(p) PROVE pc'[p] \in {"ytdlp", "job"}
    BY <2>4, JumpMoves DEF CycleFails, Goto, Shape
  <2>5. CASE \E platform : DownloadCachedTrack(p, platform)
    <3>1. /\ pc[p] = "idle" /\ UNCHANGED downloadVars
          /\ \/ pc'[p] \in {"remote", "track"}
             \/ pc'[p] = "delivered" /\ local'[p].doc = "link"
      BY <2>5, FilesBegin
    <3> QED BY <2>2, <3>1 DEF downloadVars, fileVars, SpotifyLabels, At
  <2>6. CASE BeginReset(p) \/ ResetArcStats(p)
    <3>1. pc[p] \in {"idle", "reset"} /\ pc'[p] \in {"idle", "reset"}
      BY <2>6, ReturnMoves DEF BeginReset, ResetArcStats, Goto, At, Shape
    <3> QED BY <2>2, <2>6, <3>1 DEF BeginReset, ResetArcStats, OutOfStep, fileVars, SpotifyLabels, At
  <2>7. CASE downloadViaWrapper(p) \/ Delivered(p)
    <3>1. /\ pc[p] \in {"track", "delivered"} /\ UNCHANGED downloadVars
          /\ pc'[p] \in {"attempt", "ogg", "idle"} \/ Deliver(p, "link")
      BY <2>7, JumpMoves, ReturnMoves DEF downloadViaWrapper, Delivered, At
    <3> QED BY <2>2, <2>3, <3>1 DEF downloadVars, fileVars, SpotifyLabels, At
  <2>8. CASE downloadTelegramFile(p)
    <3>1. /\ pc[p] = "remote" /\ UNCHANGED downloadVars /\ pc'[p] \in {"tdlib", "idle"}
      BY <2>8, ReturnMoves DEF downloadTelegramFile, Goto, At, Shape
    <3> QED BY <2>2, <3>1 DEF downloadVars, fileVars, SpotifyLabels, At
  <2>9. CASE retryTelegramDownload(p)
    <3>1. /\ pc[p] = "tdlib" /\ UNCHANGED <<ogg, mixed>> /\ (tdFile = "whole" => tdFile' = "whole")
          /\ pc'[p] \in {"tdlib", "idle"} \/ (tdFile' = "whole" /\ Deliver(p, "tdFile"))
      BY <2>9, ReturnMoves DEF retryTelegramDownload, Retry, Goto, At, Shape
    <3> QED BY <2>2, <2>3, <3>1 DEF SpotifyLabels, At
  <2>10. CASE YouTubeStep(p)
    <3>1. UNCHANGED <<ogg, tdFile>> /\ ("ogg" \in mixed => "ogg" \in mixed')
      BY <2>10 DEF YouTubeStep, resolve, getMediaCollection, lookupDirectDb, createJob, pollJob,
           downloadFileWithTimeout, RequestFile, OpenPart, writeToFile, CheckSize, RenamePart,
           recordArcSuccess, downloadWithYtDlp, fileVars
    <3>2. pc[p] \in ArcLabels \cup {"attempt", "ytdlp"}
      BY <2>10 DEF YouTubeStep, resolve, getMediaCollection, lookupDirectDb, createJob, pollJob,
           downloadFileWithTimeout, RequestFile, OpenPart, writeToFile, CheckSize, RenamePart,
           recordArcSuccess, downloadWithYtDlp, ArcLabels, At
    <3>3. \/ pc'[p] \in ArcLabels \cup {"remote", "ytdlp", "idle"}
          \/ Deliver(p, "saved") \/ Deliver(p, "ytdlp")
      <4>1. CASE resolve(p) \/ OpenPart(p)
        BY <4>1 DEF resolve, OpenPart, Goto, Shape, ArcLabels
      <4>2. CASE getMediaCollection(p)
        BY <4>2 DEF getMediaCollection, At, goVars, ArcLabels
      <4>3. CASE lookupDirectDb(p) \/ createJob(p) \/ pollJob(p) \/ RequestFile(p)
                 \/ writeToFile(p) \/ CheckSize(p) \/ RenamePart(p)
        BY <2>4, <4>3, JumpMoves DEF lookupDirectDb, createJob, pollJob, RequestFile, writeToFile,
             CheckSize, RenamePart, ArcLabels
      <4>4. CASE recordArcSuccess(p) \/ downloadWithYtDlp(p)
        BY <4>4, ReturnMoves DEF recordArcSuccess, downloadWithYtDlp
      <4> QED BY <2>10, <4>1, <4>2, <4>3, <4>4 DEF YouTubeStep, downloadFileWithTimeout
    <3>4. At(p, "delivered")' => local'[p].doc \notin {"ogg", "tdFile"}
      BY <2>3, <3>3 DEF At, ArcLabels
    <3>5. pc[p] \notin SpotifyLabels /\ pc'[p] \notin SpotifyLabels
      BY <2>3, <3>2, <3>3 DEF SpotifyLabels, ArcLabels
    <3> QED BY <2>2, <3>1, <3>4, <3>5
  <2>11. ASSUME SpotifyStep(p), pc'[p] # "delivered" \/ local'[p].doc = "ogg" PROVE TdInv'
    <3>1. tdFile' = tdFile
      BY <2>11 DEF SpotifyStep, processSpotify, FetchEncrypted, decryptAudioFile, fixOGG,
           StartEncoder, EndEncoder, RemoveTemporary, fileVars
    <3> QED BY <2>1, <2>11, <3>1 DEF TdInv, At
  <2>12. CASE processSpotify(p)
    <3>1. /\ pc[p] = "ogg" /\ ogg' = ogg
          /\ mixed' = IF \E q \in Procs : pc[q] \in SpotifyLabels THEN mixed \cup {"ogg"} ELSE mixed
          /\ \/ pc'[p] = "delivered" /\ local'[p].doc = "ogg" /\ ogg # "none"
             \/ pc'[p] = "cdn" /\ ogg = "none"
      BY <2>3, <2>12, JumpMoves DEF processSpotify, At, fileVars
    <3>2. TdInv'
      BY <2>11, <2>12, <3>1 DEF SpotifyStep
    <3>3. CASE \E q \in Procs : pc[q] \in SpotifyLabels
      <4>1. "ogg" \in mixed'
        BY <3>1, <3>3
      <4> QED BY <3>2, <4>1 DEF OggInv
    <3>4. CASE \A q \in Procs : pc[q] \notin SpotifyLabels
      <4>1. mixed' = mixed
        BY <3>1, <3>4
      <4>2. "ogg" \notin mixed => ogg \in {"none", "whole"}
        BY <3>4 DEF OggInv, SpotifyLabels, Contents
      <4>3. \A q \in Procs : pc'[q] \in SpotifyLabels => q = p /\ pc'[p] = "cdn"
        BY <2>1, <3>1, <3>4 DEF SpotifyLabels
      <4>4. CASE "ogg" \in mixed
        <5>1. "ogg" \in mixed'
          BY <4>1, <4>4
        <5> QED BY <3>2, <5>1 DEF OggInv
      <4>5. CASE "ogg" \notin mixed
        <5>1. \A q \in Procs : pc'[q] = "cdn" \/ pc'[q] \notin {"decrypt", "encode", "encoding", "remove"}
          BY <4>3 DEF SpotifyLabels
        <5>2. \A q \in Procs : pc'[q] = "cdn" => ogg = "none"
          BY <3>1, <4>3 DEF SpotifyLabels
        <5>3. \A q \in Procs : At(q, "delivered")' /\ local'[q].doc = "ogg" => ogg = "whole"
          BY <2>1, <3>1, <4>2, <4>5 DEF OggInv, At
        <5>4. \A x, y \in Procs : pc'[x] \in SpotifyLabels /\ pc'[y] \in SpotifyLabels => x = y
          BY <4>3
        <5>5. ogg' \in Contents /\ ogg' \in {"none", "whole"}
          BY <3>1, <4>2, <4>5 DEF Contents
        <5>6. OggInv'
          BY <3>1, <4>3, <5>1, <5>2, <5>3, <5>4, <5>5 DEF OggInv, SpotifyLabels
        <5> QED BY <3>2, <5>6
      <4> QED BY <3>2, <4>4, <4>5
    <3> QED BY <3>2, <3>3, <3>4
  <2>13. CASE FetchEncrypted(p) \/ decryptAudioFile(p)
    <3>1. /\ pc[p] \in {"cdn", "decrypt"} /\ ogg' = ogg /\ mixed' = mixed
          /\ pc'[p] \in {"decrypt", "encode"} \/ (pc'[p] = "remove" /\ local'[p].failed)
      BY <2>13, JumpMoves DEF FetchEncrypted, decryptAudioFile, Fail, Goto, At, Shape, Fresh
    <3>2. OggInv'
      <4>1. CASE "ogg" \in mixed
        BY <3>1, <4>1 DEF OggInv
      <4>2. CASE "ogg" \notin mixed
        <5>1. ogg = "none"
          BY <3>1, <4>2 DEF OggInv
        <5> QED BY <2>1, <3>1, <5>1, OggQuiet DEF SpotifyLabels, At
      <4> QED BY <4>1, <4>2
    <3> QED BY <2>11, <2>13, <3>1, <3>2 DEF SpotifyStep
  <2>14. CASE StartEncoder(p)
    <3>1. /\ pc[p] = "encode" /\ mixed' = mixed
          /\ \/ pc'[p] = "remove" /\ local'[p].failed /\ ogg' = ogg
             \/ pc'[p] = "encoding" /\ ogg' = "partial"
      BY <2>14, JumpMoves DEF StartEncoder, Fail, Goto, At, Shape, Fresh
    <3>2. TdInv'
      BY <2>11, <2>14, <3>1 DEF SpotifyStep, fixOGG
    <3>3. CASE ogg' = ogg /\ pc'[p] = "remove"
      BY <2>1, <2>11, <2>14, <3>1, <3>3, OggQuiet DEF SpotifyStep, fixOGG, SpotifyLabels, At
    <3>4. CASE ogg' = "partial" /\ pc'[p] = "encoding"
      <4>1. CASE "ogg" \in mixed
        <5>1. "ogg" \in mixed'
          BY <3>1, <4>1
        <5> QED BY <3>2, <5>1 DEF OggInv
      <4>2. CASE "ogg" \notin mixed
        <5>1. ogg = "none" /\ \A q \in Procs \ {p} : pc[q] \notin SpotifyLabels
          BY <3>1, <4>2 DEF OggInv, SpotifyLabels
        <5>2. \A q \in Procs : pc'[q] \in SpotifyLabels => q = p
          BY <2>1, <5>1
        <5>3. \A q \in Procs : ~(At(q, "delivered")' /\ local'[q].doc = "ogg")
          BY <2>1, <3>4, <4>2, <5>1 DEF OggInv, At
        <5>4. OggInv'
          BY <3>4, <5>2, <5>3 DEF OggInv, SpotifyLabels, Contents
        <5> QED BY <3>2, <5>4
      <4> QED BY <4>1, <4>2
    <3> QED BY <3>1, <3>3, <3>4
  <2>15. CASE EndEncoder(p)
    <3>1. /\ pc[p] = "encoding" /\ pc'[p] = "remove"
          /\ \/ ogg' = "whole" /\ mixed' = mixed
             \/ ogg' = "none" /\ mixed' = mixed /\ local'[p].failed
             \/ mixed' = mixed \cup {"ogg"}
      BY <2>15, JumpMoves DEF EndEncoder, Fail, Goto, At, Shape, Fresh
    <3>2. CASE "ogg" \in mixed'
      BY <2>11, <2>15, <3>1, <3>2 DEF OggInv, SpotifyStep, fixOGG
    <3>3. CASE "ogg" \notin mixed'
      <4>1. /\ \A q \in Procs \ {p} : pc[q] \notin SpotifyLabels
            /\ \A q \in Procs : ~(At(q, "delivered") /\ local[q].doc = "ogg")
            /\ ogg' \in {"whole", "none"} /\ (ogg' = "none" => local'[p].failed)
        BY <3>1, <3>3 DEF OggInv, SpotifyLabels
      <4>2. \A q \in Procs : pc'[q] \in SpotifyLabels => q = p
        BY <2>1, <4>1
      <4>3. \A q \in Procs : ~(At(q, "delivered")' /\ local'[q].doc = "ogg")
        BY <2>1, <3>1, <4>1 DEF At
      <4>4. OggInv'
        BY <3>1, <4>1, <4>2, <4>3 DEF OggInv, SpotifyLabels, Contents
      <4> QED BY <2>11, <2>15, <3>1, <4>4 DEF SpotifyStep, fixOGG
    <3> QED BY <3>2, <3>3
  <2>16. CASE RemoveTemporary(p)
    <3>1. /\ pc[p] = "remove" /\ ogg' = ogg /\ mixed' = mixed
          /\ \/ pc'[p] = "idle"
             \/ pc'[p] = "delivered" /\ local'[p].doc = "ogg" /\ ~local[p].failed
      BY <2>3, <2>16, ReturnMoves DEF RemoveTemporary, At
    <3>2. "ogg" \notin mixed /\ ~local[p].failed => ogg = "whole"
      BY <3>1 DEF OggInv
    <3>3. OggInv'
      BY <2>1, <3>1, <3>2, OggQuiet DEF SpotifyLabels, At
    <3> QED BY <2>11, <2>16, <3>1, <3>3 DEF SpotifyStep
  <2> QED BY <1>2, <2>5, <2>6, <2>7, <2>8, <2>9, <2>10, <2>12, <2>13, <2>14, <2>15, <2>16
          DEF FilePart, DownloadStep, SpotifyStep, fixOGG
<1> QED BY <1>1, <1>2, FilesElsewhere

\* Of downloads that interleave, fail and are retried, none hands out the path
\* of a file that is not whole, unless two of the track have mixed up their
\* files or an encoder has failed half way (core/dl).
THEOREM DownloadsAreWhole == Spec => []DownloadsWhole
<1>1. Init => SavedInv
  BY SavedInit
<1>2. Init => OggInv /\ TdInv
  BY DEF Init, DownloadsInit, HandlersInit, OggInv, TdInv, SpotifyLabels, At, Contents
<1>3. SavedInv /\ OggInv /\ TdInv => DownloadsWhole
  BY DEF SavedInv, OggInv, TdInv, DownloadsWhole, At
<1> QED BY <1>1, <1>2, <1>3, ShapeAlways, SavedStep, OggStep, PTL DEF Spec

-----------------------------------------------------------------------------
\* The caches.  A cached value that no change has outrun is the stored one, and
\* so is a value that is about to be cached; the goroutine of a write that the
\* cache has not heard of yet is at drop or put.
DocInv ==
    /\ DOMAIN stored = Docs /\ DOMAIN cached = Docs
    /\ \A q \in Procs : /\ pc[q] = "addUser" => local[q].value = TRUE
                        /\ pc[q] = "drop" => local[q].doc \in Docs
    /\ \A d \in Docs \ outdated :
        /\ cached[d] \notin {None, stored[d]} =>
             \E q \in Procs : pc[q] \in {"drop", "put"} /\ local[q].doc = d
        /\ \A q \in Procs : local[q].doc = d =>
             /\ pc[q] \in {"fill", "scanPut"} => local[q].got = stored[d]
             /\ pc[q] = "put" => local[q].value = stored[d]

\* A change of the documents that spares the caches, or none.
LEMMA DocKeeps ==
    ASSUME DocInv, NEW p \in Procs,
           \A q \in Procs \ {p} : pc'[q] = pc[q] /\ local'[q] = local[q],
           pc[p] \notin {"drop", "put"}, pc'[p] \notin {"fill", "scanPut", "addUser"},
           pc'[p] = "drop" => local'[p].doc \in Docs,
           cached' = cached, DOMAIN stored' = Docs,
           \A d \in Docs \ outdated' :
             /\ d \notin outdated
             /\ pc'[p] = "put" /\ local'[p].doc = d => local'[p].value = stored'[d]
             /\ \/ stored'[d] = stored[d]
                \/ /\ ~Pending(p, d)
                   /\ \/ cached[d] \in {None, stored'[d]} \/ stored[d] = None
                      \/ pc'[p] \in {"drop", "put"} /\ local'[p].doc = d
    PROVE  DocInv'
<1>1. \A q \in Procs : /\ pc'[q] = "addUser" => local'[q].value = TRUE
                    /\ pc'[q] = "drop" => local'[q].doc \in Docs
  BY DEF DocInv
<1>2. ASSUME NEW d \in Docs \ outdated', cached[d] \notin {None, stored'[d]}
      PROVE  \E q \in Procs : pc'[q] \in {"drop", "put"} /\ local'[q].doc = d
  <2>1. CASE pc'[p] \in {"drop", "put"} /\ local'[p].doc = d
    BY <2>1
  <2>2. CASE ~(pc'[p] \in {"drop", "put"} /\ local'[p].doc = d)
    <3>1. cached[d] \notin {None, stored[d]}
      BY <1>2, <2>2
    <3>2. PICK q \in Procs : pc[q] \in {"drop", "put"} /\ local[q].doc = d
      BY <3>1 DEF DocInv
    <3> QED BY <3>2
  <2> QED BY <2>1, <2>2
<1>3. ASSUME NEW d \in Docs \ outdated', NEW q \in Procs, local'[q].doc = d
      PROVE  /\ pc'[q] \in {"fill", "scanPut"} => local'[q].got = stored'[d]
             /\ pc'[q] = "put" => local'[q].value = stored'[d]
  <2>1. CASE q = p
    BY <1>3, <2>1
  <2>2. CASE q # p
    <3>1. pc[q] \in {"fill", "scanPut", "put"} => stored'[d] = stored[d]
      BY <1>3, <2>2 DEF Pending
    <3> QED BY <1>3, <2>2, <3>1 DEF DocInv
  <2> QED BY <2>1, <2>2
<1> QED BY <1>1, <1>2, <1>3 DEF DocInv

\* The documents are as they were, and nothing is about to be cached.
LEMMA DocQuiet ==
    ASSUME DocInv, NEW p \in Procs,
           \A q \in Procs \ {p} : pc'[q] = pc[q] /\ local'[q] = local[q],
           pc[p] \notin {"drop", "put"}, pc'[p] \notin {"fill", "scanPut", "put", "drop", "addUser"},
           UNCHANGED <<stored, cached>>, \A d \in Docs : d \in outdated => d \in outdated'
    PROVE  DocInv'
<1>1. DOMAIN stored' = Docs
  BY DEF DocInv
<1> QED BY <1>1, DocKeeps

\* A value that is the stored one, or outdated already, is cached.
LEMMA DocCached ==
    ASSUME DocInv, NEW p \in Procs, NEW d, NEW v,
           \A q \in Procs \ {p} : pc'[q] = pc[q] /\ local'[q] = local[q],
           local[p].doc = d, pc'[p] \notin {"fill", "scanPut", "put", "drop", "addUser"},
           cached' = [cached EXCEPT ![d] = v], UNCHANGED <<stored, outdated>>,
           d \in Docs \ outdated => v = stored[d]
    PROVE  DocInv'
<1>1. DOMAIN cached' = Docs /\ \A e \in Docs : cached'[e] = IF e = d THEN v ELSE cached[e]
  BY DEF DocInv
<1>2. ASSUME NEW e \in Docs \ outdated, cached'[e] \notin {None, stored[e]}
      PROVE  \E q \in Procs : pc'[q] \in {"drop", "put"} /\ local'[q].doc = e
  <2>1. e # d /\ cached[e] \notin {None, stored[e]}
    BY <1>1, <1>2
  <2>2. PICK q \in Procs : pc[q] \in {"drop", "put"} /\ local[q].doc = e
    BY <2>1 DEF DocInv
  <2> QED BY <2>1, <2>2
<1> QED BY <1>1, <1>2 DEF DocInv

\* The cached value of d is gone.
LEMMA DocVanishes ==
    ASSUME DocInv, NEW d, NEW p, Vanishes(p, d), UNCHANGED stored,
           \A q \in Procs \ {p} : pc'[q] = pc[q] /\ local'[q] = local[q],
           p \in Procs => /\ local[p].doc = d
                          /\ pc'[p] \notin {"fill", "scanPut", "put", "drop", "addUser"}
    PROVE  DocInv'
<1>1. DOMAIN cached' = Docs /\ \A e \in Docs : cached'[e] = IF e = d THEN None ELSE cached[e]
  BY DEF DocInv, Vanishes
<1>2. \A e \in Docs \ outdated' : e # d => e \notin outdated
  BY DEF Vanishes
<1>3. ASSUME NEW e \in Docs \ outdated', cached'[e] \notin {None, stored[e]}
      PROVE  \E q \in Procs : pc'[q] \in {"drop", "put"} /\ local'[q].doc = e
  <2>1. e # d /\ cached[e] \notin {None, stored[e]} /\ e \notin outdated
    BY <1>1, <1>2, <1>3
  <2>2. PICK q \in Procs : pc[q] \in {"drop", "put"} /\ local[q].doc = e
    BY <2>1 DEF DocInv
  <2> QED BY <2>1, <2>2
<1>4. ASSUME NEW e \in Docs \ outdated', NEW q \in Procs, local'[q].doc = e
      PROVE  /\ pc'[q] \in {"fill", "scanPut"} => local'[q].got = stored[e]
             /\ pc'[q] = "put" => local'[q].value = stored[e]
  <2>1. CASE q = p
    BY <2>1
  <2>2. CASE q # p /\ e \notin outdated
    BY <1>4, <2>2 DEF DocInv
  <2>3. CASE q # p /\ e \in outdated
    BY <1>2, <1>4, <2>3 DEF Vanishes, Pending
  <2> QED BY <2>1, <2>2, <2>3
<1>5. \A q \in Procs : /\ pc'[q] = "addUser" => local'[q].value = TRUE
                    /\ pc'[q] = "drop" => local'[q].doc \in Docs
  BY DEF DocInv
<1> QED BY <1>1, <1>3, <1>4, <1>5 DEF DocInv

\* A write, whose cache operation follows or which needs none.
LEMMA DocWritten ==
    ASSUME Shape, DocInv, NEW p \in Procs, NEW d, NEW v, NEW next \in {"drop", "put", "idle"},
           Write(p, d, v, next), pc[p] \notin {"drop", "put"},
           next = "put" => local[p].value = v, next = "drop" => d \in Docs,
           next = "idle" => stored[d] \in {None, v}
    PROVE  DocInv'
<1>1. \A q \in Procs \ {p} : pc'[q] = pc[q] /\ local'[q] = local[q]
  BY WriteMoves
<1>2. cached' = cached /\ local[p].then \in Thens /\ DOMAIN local[p] = DOMAIN Fresh
  BY DEF Write, Shape
<1>3. CASE /\ stored' = [stored EXCEPT ![d] = v] /\ Outrun(p, {d})
           /\ Goto(p, next, [local[p] EXCEPT !.doc = d])
  <2>1. DOMAIN stored' = Docs /\ \A e \in Docs : stored'[e] = IF e = d THEN v ELSE stored[e]
    BY <1>3 DEF DocInv
  <2>2. pc'[p] = next /\ (next # "idle" => local'[p].doc = d /\ local'[p].value = local[p].value)
    BY <1>2, <1>3 DEF Goto, Shape, Fresh
  <2>3. \A e \in Docs \ outdated' : e \notin outdated /\ (e = d => ~Pending(p, d))
    BY <1>3 DEF Outrun
  <2>4. ASSUME NEW e \in Docs \ outdated'
        PROVE  /\ e \notin outdated
               /\ pc'[p] = "put" /\ local'[p].doc = e => local'[p].value = stored'[e]
               /\ \/ stored'[e] = stored[e]
                  \/ /\ ~Pending(p, e)
                     /\ \/ cached[e] \in {None, stored'[e]} \/ stored[e] = None
                        \/ pc'[p] \in {"drop", "put"} /\ local'[p].doc = e
    <3>1. CASE e = d
      BY <2>1, <2>2, <2>3, <3>1
    <3>2. CASE e # d
      BY <2>1, <2>2, <2>3, <3>2
    <3> QED BY <3>1, <3>2
  <2>5. pc'[p] \notin {"fill", "scanPut", "addUser"} /\ (pc'[p] = "drop" => local'[p].doc \in Docs)
    BY <2>2
  <2> QED BY <1>1, <1>2, <2>1, <2>4, <2>5, DocKeeps
<1>4. CASE Fail(p, local[p].then) /\ UNCHANGED <<stored, outdated>>
  <2>1. pc'[p] \in Thens
    BY <1>2, <1>4, FailMoves
  <2> QED BY <1>1, <1>2, <1>4, <2>1, DocQuiet DEF Thens
<1>5. CASE /\ Fail(p, local[p].then) /\ stored' = [stored EXCEPT ![d] = v]
           /\ outdated' = outdated \cup Remembered(p, {d})
  <2>1. pc'[p] \in Thens
    BY <1>2, <1>5, FailMoves
  <2>2. DOMAIN stored' = Docs /\ \A e \in Docs : stored'[e] = IF e = d THEN v ELSE stored[e]
    BY <1>5 DEF DocInv
  <2>3. \A e \in Docs \ outdated' : e \notin outdated /\ (e = d => ~Pending(p, d) /\ cached[d] = None)
    BY <1>5 DEF Remembered
  <2> QED BY <1>1, <1>2, <2>1, <2>2, <2>3, DocKeeps DEF Thens
<1> QED BY <1>3, <1>4, <1>5 DEF Write

LEMMA DocWork ==
    ASSUME Shape, DocInv, NEW p \in Procs, DocumentStep(p)
    PROVE  DocInv'
<1>1. /\ \A q \in Procs \ {p} : pc'[q] = pc[q] /\ local'[q] = local[q]
      /\ local[p].then \in Thens /\ DOMAIN local[p] = DOMAIN Fresh
  BY DocumentMoves DEF Moves, Shape
<1>2. CASE Lookup(p)
  <2>1. pc'[p] \in Thens \cup {"find"}
    BY <1>1, <1>2, GotoMoves, JumpMoves DEF Lookup, Answer, Shape, Fresh
  <2> QED BY <1>1, <1>2, <2>1, DocQuiet DEF Lookup, At, docVars, Thens
<1>3. CASE Find(p)
  <2>1. \/ pc'[p] \in Thens
        \/ pc'[p] = "fill" /\ local'[p].got = stored[local'[p].doc]
    BY <1>1, <1>3 DEF Find, Answer, Goto, Shape, Fresh
  <2>2. pc[p] = "find" /\ UNCHANGED docVars
    BY <1>3 DEF Find, At
  <2>3. CASE pc'[p] \in Thens
    BY <1>1, <2>2, <2>3, DocQuiet DEF docVars, Thens
  <2>4. CASE pc'[p] = "fill" /\ local'[p].got = stored[local'[p].doc]
    BY <1>1, <2>2, <2>4 DEF DocInv, docVars
  <2> QED BY <2>1, <2>3, <2>4
<1>4. CASE Fill(p)
  <2>1. pc'[p] \in Thens
    BY <1>1, <1>4, JumpMoves DEF Fill
  <2>2. local[p].doc \in Docs \ outdated => local[p].got = stored[local[p].doc]
    BY <1>4 DEF Fill, At, DocInv
  <2> QED BY <1>1, <1>4, <2>1, <2>2, DocCached DEF Fill, Thens
<1>5. CASE SetPlayMode(p) \/ SetAdminMode(p) \/ SetCmdDelete(p)
  <2>1. PICK v : Write(p, "chat", v, "drop")
    BY <1>5 DEF SetPlayMode, SetAdminMode, SetCmdDelete, SetField
  <2> QED BY <1>5, <2>1, DocWritten DEF SetPlayMode, SetAdminMode, SetCmdDelete, SetField, At, Docs
<1>6. CASE AddAuthUser(p) \/ RemoveAuthUser(p)
  <2>1. PICK v : Write(p, "auth", v, "drop")
    BY <1>6 DEF AddAuthUser, RemoveAuthUser
  <2> QED BY <1>6, <2>1, DocWritten DEF AddAuthUser, RemoveAuthUser, At, Docs
<1>7. CASE Drop(p)
  <2>1. pc'[p] \in Thens
    BY <1>1, <1>7, JumpMoves DEF Drop
  <2> QED BY <1>1, <1>7, <2>1, DocVanishes DEF Drop, Thens
<1>8. CASE LoggerRead(p)
  <2>1. pc'[p] = "setLogger"
    BY <1>1, <1>8 DEF LoggerRead, Goto, Shape
  <2> QED BY <1>1, <1>8, <2>1, DocQuiet DEF LoggerRead, At, docVars
<1>9. CASE SetLoggerStatus(p)
  BY <1>9, DocWritten DEF SetLoggerStatus, At
<1>10. CASE Put(p)
  <2>1. pc'[p] \in Thens
    BY <1>1, <1>10, JumpMoves DEF Put
  <2>2. local[p].doc \in Docs \ outdated => local[p].value = stored[local[p].doc]
    BY <1>10 DEF Put, At, DocInv
  <2> QED BY <1>1, <1>10, <2>1, <2>2, DocCached DEF Put, Thens
<1>11. CASE AddChat(p)
  <2>1. CASE At(p, "chatRead")
    <3>1. pc'[p] \in {"idle", "addChat"} /\ UNCHANGED docVars
      BY <1>1, <1>11, <2>1 DEF AddChat, Return, Jump, Goto, At, Shape
    <3> QED BY <1>1, <2>1, <3>1, DocQuiet DEF At, docVars
  <2>2. CASE At(p, "addChat")
    <3> DEFINE d == local[p].doc
               v == IF stored[d] = None THEN Blank ELSE stored[d]
    <3>1. Write(p, d, v, "idle")
      BY <1>11, <2>2 DEF AddChat, At
    <3>2. stored[d] \in {None, v}
      OBVIOUS
    <3> HIDE DEF v
    <3> QED BY <2>2, <3>1, <3>2, DocWritten DEF At
  <2> QED BY <1>11, <2>1, <2>2 DEF AddChat
<1>12. CASE AddUser(p)
  <2>1. pc[p] = "addUser" /\ local[p].value = TRUE
    BY <1>12 DEF AddUser, At, DocInv
  <2>2. CASE Jump(p, local[p].then) /\ UNCHANGED docVars
    <3>1. pc'[p] \in Thens
      BY <1>1, <2>2, JumpMoves
    <3> QED BY <1>1, <2>1, <2>2, <3>1, DocQuiet DEF Thens, docVars
  <2>3. CASE Write(p, "user", TRUE, "put")
    <3>1. PICK v : v = TRUE /\ Write(p, "user", v, "put")
      BY <2>3, Zenon
    <3> QED BY <2>1, <3>1, DocWritten
  <2> QED BY <1>12, <2>2, <2>3 DEF AddUser
<1>13. CASE ScanRead(p)
  <2>1. pc[p] = "scan" /\ UNCHANGED docVars
    BY <1>13 DEF ScanRead, At
  <2>2. \/ pc'[p] = "scan"
        \/ pc'[p] = "scanPut" /\ local'[p].got = stored[local'[p].doc]
    <3>1. PICK d : \/ Goto(p, "scanPut", [local[p] EXCEPT !.doc = d, !.got = stored[d]])
                   \/ Goto(p, "scan", [local[p] EXCEPT !.todo = @ \ {d}])
                   \/ Goto(p, "scan", [local[p] EXCEPT !.todo = @ \ Class(d),
                                                       !.targets = @ \ Class(d)])
      BY <1>13 DEF ScanRead
    <3>2. CASE Goto(p, "scanPut", [local[p] EXCEPT !.doc = d, !.got = stored[d]])
      BY <1>1, <3>2 DEF Goto, Shape, Fresh
    <3>3. CASE ~Goto(p, "scanPut", [local[p] EXCEPT !.doc = d, !.got = stored[d]])
      BY <1>1, <3>1, <3>3 DEF Goto, Shape
    <3> QED BY <3>2, <3>3
  <2>3. CASE pc'[p] = "scan"
    BY <1>1, <2>1, <2>3, DocQuiet DEF docVars
  <2>4. CASE pc'[p] = "scanPut" /\ local'[p].got = stored[local'[p].doc]
    BY <1>1, <2>1, <2>4 DEF DocInv, docVars
  <2> QED BY <2>2, <2>3, <2>4
<1>14. CASE ScanPut(p)
  <2>1. pc'[p] = "scan"
    BY <1>1, <1>14 DEF ScanPut, Goto, Shape
  <2>2. local[p].doc \in Docs \ outdated => local[p].got = stored[local[p].doc]
    BY <1>14 DEF ScanPut, At, DocInv
  <2> QED BY <1>1, <1>14, <2>1, <2>2, DocCached DEF ScanPut
<1> QED BY <1>2, <1>3, <1>4, <1>5, <1>6, <1>7, <1>8, <1>9, <1>10, <1>11, <1>12, <1>13, <1>14
        DEF DocumentStep, getChat, GetAuthUsers, GetLoggerStatus, GetAllChats, GetAllUsers, ReadThrough

\* The other steps of the chat's handlers.
LEMMA DocElsewhere ==
    ASSUME Shape, DocInv, NEW p \in Procs, ChatPart(p), ~DocumentStep(p)
    PROVE  DocInv'
<1>1. /\ \A q \in Procs \ {p} : pc'[q] = pc[q] /\ local'[q] = local[q]
      /\ local[p].then \in Thens /\ DOMAIN local[p] = DOMAIN Fresh
  BY ChatMoves DEF Moves, Shape
<1>2. CASE ChatCommand(p)
  <2>1. pc[p] = "idle" /\ UNCHANGED docVars
    BY <1>2 DEF ChatCommand, BeginSettings, BeginGate, reload, startHandler, loggerHandler, Begin, At
  <2>2. CASE Begin(p, "start", "addUser", [Fresh EXCEPT !.doc = "user", !.value = TRUE])
    <3>1. pc'[p] = "addUser" /\ local'[p].value = TRUE
      BY <2>2 DEF Begin, Goto, Shape, Fresh
    <3> QED BY <1>1, <2>1, <3>1 DEF DocInv, docVars
  <2>3. CASE ~Begin(p, "start", "addUser", [Fresh EXCEPT !.doc = "user", !.value = TRUE])
    <3>1. pc'[p] \in {"admins", "reload", "lookup"}
      BY <1>2, <2>3
         DEF ChatCommand, BeginSettings, BeginGate, reload, startHandler, loggerHandler, Begin, Goto,
             Shape
    <3> QED BY <1>1, <2>1, <3>1, DocQuiet DEF docVars
  <2> QED BY <2>2, <2>3
<1>3. CASE UpdateArrives(p)
  <2>1. pc[p] = "idle" /\ pc'[p] = "note" /\ UNCHANGED docVars
    BY <1>3 DEF UpdateArrives, HandleBotRole, Goto, At, Shape
  <2> QED BY <1>1, <2>1, DocQuiet DEF docVars
<1>4. CASE AdminStep(p)
  <2>1. pc[p] \in AdminLabels /\ pc'[p] \in AdminLabels \cup Uses
    BY <1>4, AdminMoves DEF Moves
  <2>2. UNCHANGED <<stored, cached>> /\ \A d \in Docs : d \in outdated => d \in outdated'
    BY <1>4 DEF AdminStep, GetAdmins, FetchAdmins, KeepAdmins, reloadAdminCacheHandler, ReloadAllowed,
                ReloadMark, ClearAdminCache, ListVanishes, UpdateAdminCache, NoteRead, NoteWrite,
                docVars, Docs
  <2> QED BY <1>1, <2>1, <2>2, DocQuiet DEF AdminLabels, Uses
<1>5. CASE PermissionStep(p)
  <2>1. /\ pc[p] \in GateLabels
        /\ pc'[p] \in {"admins", "lookup", "setField", "addAuth", "removeAuth", "authTarget",
                       "allowed", "idle"}
    BY <1>5, PermissionMoves DEF Moves
  <2>2. UNCHANGED docVars
    BY <1>5 DEF PermissionStep, checkBotAdmin, adminMode, playMode, PlayAdmins, AuthGate, Allowed,
                AuthSender, addAuthHandler, removeAuthHandler, settingsCallbackHandler
  <2> QED BY <1>1, <2>1, <2>2, DocQuiet DEF GateLabels, Thens, Uses, docVars
<1> QED BY <1>2, <1>3, <1>4, <1>5 DEF ChatPart

LEMMA DocArchive ==
    ASSUME Shape, DocInv, NEW p \in Procs, ArchivePart(p)
    PROVE  DocInv'
<1>1. /\ \A q \in Procs \ {p} : pc'[q] = pc[q] /\ local'[q] = local[q]
      /\ pc[p] \in ArchiveLabels \cup {"idle"} /\ pc'[p] \in ArchiveLabels \cup {"idle"}
  BY ArchiveMoves DEF Moves
<1>2. CASE UNCHANGED <<stored, cached, outdated>>
  BY <1>1, <1>2, DocQuiet DEF ArchiveLabels
<1>3. ASSUME NEW ds, Overwrite(p, ds), DOMAIN stored' = Docs,
             \A d \in Docs \ ds : stored'[d] = stored[d]
      PROVE  DocInv'
  <2>1. cached' = cached
    BY <1>3 DEF Overwrite
  <2>2. \A d \in Docs \ outdated' :
          d \notin outdated /\ (d \in ds => cached[d] = None /\ ~Pending(p, d))
    BY <1>3 DEF Overwrite, Remembered
  <2> QED BY <1>1, <1>3, <2>1, <2>2, DocKeeps DEF ArchiveLabels
<1>4. CASE DropCollection(p) /\ ~UNCHANGED <<stored, cached, outdated>>
  <2>1. PICK c : /\ stored' = [d \in Docs |-> IF d \in In(c) THEN None ELSE stored[d]]
                 /\ Overwrite(p, In(c))
    BY <1>4 DEF DropCollection, docVars
  <2> QED BY <1>3, <2>1
<1>5. CASE InsertDocument(p) /\ ~UNCHANGED <<stored, cached, outdated>>
  <2>1. PICK d, v : stored' = [stored EXCEPT ![d] = v] /\ Overwrite(p, {d})
    BY <1>5 DEF InsertDocument, docVars
  <2> QED BY <1>3, <2>1 DEF DocInv
<1> QED BY <1>2, <1>4, <1>5
        DEF ArchivePart, StartBackup, restoreHandler, BackupStep, backupOneCollection, runBackup,
            restoreOneCollection, Restored, RestoreReported, docVars

LEMMA DocEvent ==
    ASSUME Shape, DocInv, Event
    PROVE  DocInv'
<1>1. UNCHANGED <<pc, local>>
  BY EventStays DEF goVars
<1>2. ASSUME UNCHANGED <<stored, cached>>, \A d \in Docs : d \in outdated => d \in outdated'
      PROVE  DocInv'
  BY <1>1, <1>2 DEF DocInv
<1>3. ASSUME NEW d \in Docs, EntryExpires(d)
      PROVE  DocInv'
  BY <1>1, <1>3, DocVanishes, HandlersAssumption DEF EntryExpires
<1>4. ASSUME NEW m, RoleChanges(m)
      PROVE  DocInv'
  BY <1>2, <1>4 DEF RoleChanges
<1>5. CASE AdminsExpire \/ CoolingExpires
  BY <1>2, <1>5 DEF AdminsExpire, CoolingExpires, ListVanishes, Docs, docVars
<1>6. ASSUME NEW role, DropBotRole(role)
      PROVE  DocInv'
  BY <1>2, <1>6 DEF DropBotRole
<1> QED BY <1>3, <1>4, <1>5, <1>6 DEF Event

LEMMA DocInit == Init => DocInv
<1> SUFFICES ASSUME Init PROVE DocInv
  OBVIOUS
<1> DEFINE newer == CHOOSE docs \in InUse : docs["logger"] /\ docs["auth"] # None
           l(on, a) == [chat |-> [s \in Settings |-> on], other |-> Blank, auth |-> a, user |-> TRUE,
                        logger |-> on]
<1>1. \A docs \in InUse : DOMAIN docs = Docs
  BY DEF InUse, Docs
<1>2. newer \in InUse
  <2>1. l(TRUE, Users \ {Creator}) \in InUse
    <3>1. InUse = {l(on, a) : on \in BOOLEAN, a \in {None, Users \ {Creator}}}
      BY DEF InUse
    <3>2. TRUE \in BOOLEAN /\ Users \ {Creator} \in {None, Users \ {Creator}}
      OBVIOUS
    <3> HIDE DEF l
    <3>3. \A on \in BOOLEAN, a \in {None, Users \ {Creator}} : l(on, a) \in InUse
      BY <3>1
    <3> QED BY <3>2, <3>3
  <2>2. l(TRUE, Users \ {Creator})["logger"] /\ l(TRUE, Users \ {Creator})["auth"] # None
    BY StoreAssumption
  <2> HIDE DEF l
  <2> QED BY <2>1, <2>2
<1>3. DOMAIN Later = Docs
  <2>1. Later = [newer EXCEPT !["other"] = None]
    BY DEF Later
  <2> HIDE DEF newer
  <2> QED BY <1>1, <1>2, <2>1
<1>4. DOMAIN Nothing = Docs
  BY DEF Nothing
<1>5. DOMAIN stored = Docs /\ cached \in {Nothing, stored}
  BY <1>1, <1>3, <1>4 DEF Init
<1>6. \A d \in Docs : cached[d] \in {None, stored[d]}
  BY <1>5 DEF Nothing
<1>7. \A q \in Procs : pc[q] = "idle"
  BY DEF Init, HandlersInit
<1> QED BY <1>4, <1>5, <1>6, <1>7 DEF DocInv

LEMMA DocStep == Shape /\ DocInv /\ [Next]_vars => DocInv'
<1> SUFFICES ASSUME Shape, DocInv, [Next]_vars PROVE DocInv'
  OBVIOUS
<1>1. CASE UNCHANGED vars
  BY <1>1 DEF vars, goVars, docVars, DocInv
<1>2. ASSUME NEW p \in Procs, ListPart(p) \/ SendPart(p) \/ FilePart(p)
      PROVE  DocInv'
  <2>1. UNCHANGED docVars
    BY <1>2 DEF ListPart, SendPart, FilePart, BeginBroadcast, BeginCancel, BroadcastStep,
         broadcastHandler, FindTargets, ClearCancel, SetProgress, BroadcastLoop, CheckCancel, Send,
         EndBroadcast, cancelBroadcastHandler
  <2>2. \A q \in Procs \ {p} : pc'[q] = pc[q] /\ local'[q] = local[q]
    BY <1>2, ListMoves, SendMoves, FileMoves DEF Moves
  <2>3. pc[p] \notin {"drop", "put"} /\ pc'[p] \notin {"fill", "scanPut", "put", "drop", "addUser"}
    <3>1. CASE ListPart(p)
      BY <3>1, ListMoves DEF Moves, ListLabels
    <3>2. CASE SendPart(p)
      BY <3>2, SendMoves DEF Moves, SendLabels
    <3>3. CASE FilePart(p)
      BY <3>3, FileMoves DEF Moves, FileLabels
    <3> QED BY <1>2, <3>1, <3>2, <3>3
  <2> QED BY <2>1, <2>2, <2>3, DocQuiet DEF docVars
<1>3. ASSUME NEW p \in Procs, ChatPart(p) PROVE DocInv'
  BY <1>3, DocWork, DocElsewhere
<1> QED BY <1>1, <1>2, <1>3, DocArchive, DocEvent, StepParts

-----------------------------------------------------------------------------
\* The list of the administrators.  Unless a role change met another one, or a
\* list being stored, every update under way and every handler of one have the
\* bot's present role, and so have the list about to be cached and the one that
\* is cached.
BotInv ==
    /\ roles \in [Members -> Roles]
    /\ adminCache \in [Members -> Roles] \cup {None}
    /\ \A q \in Procs : Storing(q) => local[q].list \in [Members -> Roles]
    /\ \A q \in Procs : pc[q] \in {"note", "noteWrite"} => local[q].value \in Roles
    /\ BagToSet(updates) \subseteq Roles
    /\ "bot" \in outdated \/
        /\ \A r \in BagToSet(updates) : r = roles[Bot]
        /\ \A q \in Procs :
            /\ pc[q] \in {"note", "noteWrite"} => local[q].value = roles[Bot]
            /\ pc[q] = "keepAdmins" => local[q].list[Bot] = roles[Bot]
        /\ BotRoleFresh

LEMMA BotQuiet ==
    ASSUME BotInv, NEW p \in Procs,
           \A q \in Procs \ {p} : pc'[q] = pc[q] /\ local'[q] = local[q],
           pc[p] \notin {"note", "noteWrite"}, pc'[p] \notin {"note", "noteWrite", "keepAdmins"},
           UNCHANGED <<roles, updates, adminCache>>, outdated \cap {"bot", "dropped"} \subseteq outdated'
    PROVE  BotInv'
<1>1. \A q \in Procs : Storing(q)' => q # p /\ Storing(q)
  BY DEF Storing
<1>2. \A q \in Procs : At(q, "note") \/ At(q, "noteWrite") => (At(q, "note") \/ At(q, "noteWrite"))'
  BY DEF At
<1>3. /\ roles' \in [Members -> Roles]
      /\ adminCache' \in [Members -> Roles] \cup {None}
      /\ \A q \in Procs : Storing(q)' => local'[q].list \in [Members -> Roles]
      /\ \A q \in Procs : pc'[q] \in {"note", "noteWrite"} => local'[q].value \in Roles
      /\ BagToSet(updates') \subseteq Roles
  BY <1>1 DEF BotInv
<1>4. ASSUME "bot" \notin outdated'
      PROVE  /\ \A r \in BagToSet(updates') : r = roles'[Bot]
             /\ \A q \in Procs :
                 /\ pc'[q] \in {"note", "noteWrite"} => local'[q].value = roles'[Bot]
                 /\ pc'[q] = "keepAdmins" => local'[q].list[Bot] = roles'[Bot]
             /\ BotRoleFresh'
  <2>1. /\ \A r \in BagToSet(updates) : r = roles[Bot]
        /\ \A q \in Procs :
            /\ pc[q] \in {"note", "noteWrite"} => local[q].value = roles[Bot]
            /\ pc[q] = "keepAdmins" => local[q].list[Bot] = roles[Bot]
        /\ BotRoleFresh
    BY <1>4 DEF BotInv
  <2>2. BotRoleFresh'
    BY <1>2, <1>4, <2>1 DEF BotRoleFresh
  <2> QED BY <2>1, <2>2
<1> QED BY <1>3, <1>4 DEF BotInv

\* The list is gone.
LEMMA BotVanishes ==
    ASSUME BotInv, NEW p, ListVanishes(p), UNCHANGED <<roles, updates>>,
           \A q \in Procs \ {p} : pc'[q] = pc[q] /\ local'[q] = local[q],
           p \in Procs => pc'[p] \notin {"note", "noteWrite", "keepAdmins"}
    PROVE  BotInv'
<1>1. /\ roles' \in [Members -> Roles]
      /\ adminCache' \in [Members -> Roles] \cup {None}
      /\ \A q \in Procs : Storing(q)' => local'[q].list \in [Members -> Roles]
      /\ \A q \in Procs : pc'[q] \in {"note", "noteWrite"} => local'[q].value \in Roles
      /\ BagToSet(updates') \subseteq Roles
  BY DEF BotInv, Storing, ListVanishes
<1>2. BotRoleFresh'
  BY DEF ListVanishes, BotRoleFresh
<1>3. CASE outdated' = outdated
  <2>1. ASSUME "bot" \notin outdated
        PROVE  /\ \A r \in BagToSet(updates') : r = roles'[Bot]
               /\ \A q \in Procs :
                   /\ pc'[q] \in {"note", "noteWrite"} => local'[q].value = roles'[Bot]
                   /\ pc'[q] = "keepAdmins" => local'[q].list[Bot] = roles'[Bot]
    BY <2>1 DEF BotInv
  <2> QED BY <1>1, <1>2, <1>3, <2>1 DEF BotInv
<1>4. CASE updates = EmptyBag /\ \A q \in Procs \ {p} : ~Storing(q) /\ ~At(q, "note")
  <2>1. BagToSet(updates') = {}
    BY <1>4 DEF EmptyBag, BagToSet, SetToBag
  <2>2. \A q \in Procs : pc'[q] \notin {"note", "noteWrite", "keepAdmins"}
    BY <1>4 DEF Storing, At
  <2> QED BY <1>1, <1>2, <2>1, <2>2 DEF BotInv
<1> QED BY <1>3, <1>4 DEF ListVanishes

LEMMA BotArrives ==
    ASSUME Shape, BotInv, NEW p \in Procs, UpdateArrives(p)
    PROVE  BotInv'
<1>1. PICK role \in Roles : HandleBotRole(p, role)
  BY DEF UpdateArrives
<1>2. role \in BagToSet(updates) /\ BagToSet(updates') \subseteq BagToSet(updates)
  BY <1>1 DEF HandleBotRole, BagRemove, BagToSet
<1>3. /\ \A q \in Procs \ {p} : pc'[q] = pc[q] /\ local'[q] = local[q]
      /\ pc'[p] = "note" /\ local'[p].value = role
      /\ UNCHANGED <<docVars, roles, adminCache>>
  BY <1>1 DEF HandleBotRole, Goto, Shape, Fresh
<1>4. BotRoleFresh'
  BY <1>3 DEF BotRoleFresh, At
<1>5. \A q \in Procs : Storing(q)' => q # p /\ Storing(q)
  BY <1>3 DEF Storing
<1>6. /\ roles' \in [Members -> Roles]
      /\ adminCache' \in [Members -> Roles] \cup {None}
      /\ \A q \in Procs : Storing(q)' => local'[q].list \in [Members -> Roles]
      /\ \A q \in Procs : pc'[q] \in {"note", "noteWrite"} => local'[q].value \in Roles
      /\ BagToSet(updates') \subseteq Roles
  BY <1>2, <1>3, <1>5 DEF BotInv
<1>7. ASSUME "bot" \notin outdated'
      PROVE  /\ \A r \in BagToSet(updates') : r = roles'[Bot]
             /\ \A q \in Procs :
                 /\ pc'[q] \in {"note", "noteWrite"} => local'[q].value = roles'[Bot]
                 /\ pc'[q] = "keepAdmins" => local'[q].list[Bot] = roles'[Bot]
  BY <1>2, <1>3, <1>7 DEF BotInv, docVars
<1> QED BY <1>4, <1>6, <1>7 DEF BotInv

LEMMA BotWork ==
    ASSUME Shape, BotInv, NEW p \in Procs, AdminStep(p)
    PROVE  BotInv'
<1>1. /\ \A q \in Procs \ {p} : pc'[q] = pc[q] /\ local'[q] = local[q]
      /\ local[p].use \in Uses /\ DOMAIN local[p] = DOMAIN Fresh
  BY AdminMoves DEF Moves, Shape
<1>2. CASE GetAdmins(p)
  <2>1. pc'[p] \in Uses \cup {"fetch"}
    BY <1>1, <1>2 DEF GetAdmins, Jump, Goto, Shape
  <2> QED BY <1>1, <1>2, <2>1, BotQuiet DEF GetAdmins, At, adminVars, docVars, Uses
<1>3. CASE FetchAdmins(p)
  <2>1. pc[p] = "fetch" /\ UNCHANGED <<outdated, roles, updates, adminCache>>
    BY <1>3 DEF FetchAdmins, At, docVars, adminVars
  <2>2. pc'[p] \in Uses \/ (pc'[p] = "keepAdmins" /\ local'[p].list = roles)
    BY <1>1, <1>3 DEF FetchAdmins, Goto, Shape, Fresh
  <2>3. CASE pc'[p] \in Uses
    BY <1>1, <2>1, <2>3, BotQuiet DEF Uses
  <2>4. CASE pc'[p] = "keepAdmins" /\ local'[p].list = roles
    <3>1. \A q \in Procs : Storing(q)' => local'[q].list \in [Members -> Roles]
      BY <1>1, <2>4 DEF BotInv, Storing
    <3>2. \A q \in Procs : At(q, "note") \/ At(q, "noteWrite") => (At(q, "note") \/ At(q, "noteWrite"))'
      BY <1>1, <2>1 DEF At
    <3>3. BotRoleFresh => BotRoleFresh'
      BY <2>1, <3>2 DEF BotRoleFresh
    <3>4. \A q \in Procs : pc'[q] \in {"note", "noteWrite"} => q # p
      BY <2>4
    <3> QED BY <1>1, <2>1, <2>4, <3>1, <3>3, <3>4 DEF BotInv
  <2> QED BY <2>2, <2>3, <2>4
<1>4. CASE KeepAdmins(p)
  <2>1. /\ pc[p] = "keepAdmins" /\ adminCache' = local[p].list
        /\ UNCHANGED <<outdated, roles, updates>>
    BY <1>4 DEF KeepAdmins, At, docVars
  <2>2. pc'[p] \in Uses
    BY <1>1, <1>4, JumpMoves DEF KeepAdmins
  <2>3. \A q \in Procs : pc'[q] \in {"note", "noteWrite", "keepAdmins"} => q # p
    BY <2>2 DEF Uses
  <2>4. local[p].list \in [Members -> Roles]
    BY <2>1 DEF BotInv, Storing
  <2>5. "bot" \notin outdated => BotRoleFresh'
    BY <2>1 DEF BotInv, BotRoleFresh
  <2>6. \A q \in Procs : Storing(q)' => q # p /\ Storing(q)
    BY <1>1, <2>3 DEF Storing
  <2> QED BY <1>1, <2>1, <2>3, <2>4, <2>5, <2>6 DEF BotInv
<1>5. CASE ReloadAllowed(p) \/ ReloadMark(p)
  <2>1. pc'[p] \in {"reloadMark", "clearAdmins", "idle"}
    BY <1>1, <1>5 DEF ReloadAllowed, ReloadMark, Return, Jump, Goto, Shape
  <2> QED BY <1>1, <1>5, <2>1, BotQuiet DEF ReloadAllowed, ReloadMark, At, adminVars, docVars
<1>6. CASE ClearAdminCache(p)
  <2>1. pc'[p] = "admins"
    BY <1>6 DEF ClearAdminCache, Admins, Goto, Shape
  <2> QED BY <1>1, <1>6, <2>1, BotVanishes DEF ClearAdminCache
<1>7. CASE NoteRead(p)
  <2>1. pc[p] = "note" /\ UNCHANGED <<outdated, roles, updates, adminCache>>
    BY <1>7 DEF NoteRead, At, docVars, adminVars
  <2>2. \/ pc'[p] = "idle" /\ adminCache = None
        \/ /\ pc'[p] = "noteWrite" /\ adminCache # None
           /\ local'[p].list = adminCache /\ local'[p].value = local[p].value
    BY <1>1, <1>7 DEF NoteRead, Return, Jump, Goto, Shape, Fresh
  <2>3. \A q \in Procs : Storing(q)' => local'[q].list \in [Members -> Roles]
    BY <1>1, <2>2 DEF BotInv, Storing
  <2>4. BotRoleFresh'
    BY <2>1, <2>2 DEF BotRoleFresh, At
  <2>5. \A q \in Procs : pc'[q] \in {"note", "noteWrite"} =>
          pc[q] \in {"note", "noteWrite"} /\ local'[q].value = local[q].value
    BY <1>1, <2>1, <2>2
  <2>6. \A q \in Procs : pc'[q] = "keepAdmins" => pc[q] = "keepAdmins" /\ local'[q].list = local[q].list
    BY <1>1, <2>1, <2>2
  <2> QED BY <2>1, <2>3, <2>4, <2>5, <2>6 DEF BotInv
<1>8. CASE NoteWrite(p)
  <2>1. /\ pc[p] = "noteWrite" /\ adminCache' = [local[p].list EXCEPT ![Bot] = local[p].value]
        /\ UNCHANGED <<outdated, roles, updates>>
    BY <1>8 DEF NoteWrite, At, docVars
  <2>2. pc'[p] = "idle"
    BY <1>1, <1>8, ReturnMoves DEF NoteWrite
  <2>3. local[p].list \in [Members -> Roles] /\ local[p].value \in Roles /\ Bot \in Members
    BY <2>1 DEF BotInv, Storing, Members
  <2>4. adminCache' \in [Members -> Roles] /\ adminCache'[Bot] = local[p].value
    BY <2>1, <2>3
  <2>5. "bot" \notin outdated => BotRoleFresh'
    BY <2>1, <2>4 DEF BotInv, BotRoleFresh
  <2>6. \A q \in Procs : Storing(q)' => q # p /\ Storing(q)
    BY <1>1, <2>2 DEF Storing
  <2>7. \A q \in Procs : pc'[q] \in {"note", "noteWrite", "keepAdmins"} => q # p
    BY <2>2
  <2> QED BY <1>1, <2>1, <2>4, <2>5, <2>6, <2>7 DEF BotInv
<1> QED BY <1>2, <1>3, <1>4, <1>5, <1>6, <1>7, <1>8
        DEF AdminStep, reloadAdminCacheHandler, UpdateAdminCache

LEMMA BotEvent ==
    ASSUME BotInv, Event
    PROVE  BotInv'
<1>1. UNCHANGED <<pc, local>>
  BY EventStays DEF goVars
<1>2. ASSUME UNCHANGED <<roles, updates, adminCache>>, outdated \cap {"bot", "dropped"} \subseteq outdated'
      PROVE  BotInv'
  BY <1>1, <1>2 DEF BotInv, BotRoleFresh, Storing, At
<1>3. ASSUME NEW m \in Members, RoleChanges(m)
      PROVE  BotInv'
  <2>1. PICK r \in Roles : /\ roles' = [roles EXCEPT ![m] = r]
                           /\ updates' = IF m = Bot THEN BagAdd(updates, r) ELSE updates
    BY <1>3 DEF RoleChanges
  <2>2. adminCache' = adminCache
    BY <1>3 DEF RoleChanges
  <2>3. roles' \in [Members -> Roles] /\ roles'[m] = r /\ (m # Bot => roles'[Bot] = roles[Bot])
    BY <2>1 DEF BotInv, Members
  <2>4. BagToSet(updates') \subseteq Roles
    BY <2>1 DEF BotInv, BagAdd, BagToSet
  <2>5. CASE m # Bot
    <3>1. updates' = updates /\ outdated \subseteq outdated'
      BY <1>3, <2>1, <2>5 DEF RoleChanges
    <3>2. BotRoleFresh => BotRoleFresh'
      BY <1>1, <2>2, <2>3, <2>5, <3>1 DEF BotRoleFresh, At
    <3> QED BY <1>1, <2>2, <2>3, <2>4, <2>5, <3>1, <3>2 DEF BotInv, Storing
  <2>6. CASE m = Bot /\ "bot" \notin outdated'
    <3>1. updates = EmptyBag /\ \A q \in Procs : pc[q] \notin {"note", "noteWrite", "keepAdmins"}
      BY <1>3, <2>6 DEF RoleChanges, Storing, At
    <3>2. BagToSet(updates') = {r}
      BY <2>1, <2>6, <3>1 DEF BagAdd, EmptyBag, SetToBag, BagToSet
    <3>3. updates' # EmptyBag
      BY <3>2 DEF EmptyBag, SetToBag, BagToSet
    <3>4. BotRoleFresh'
      BY <3>3 DEF BotRoleFresh
    <3> QED BY <1>1, <2>2, <2>3, <2>4, <2>6, <3>1, <3>2, <3>4 DEF BotInv, Storing
  <2>7. CASE m = Bot /\ "bot" \in outdated'
    BY <1>1, <2>2, <2>3, <2>4, <2>7 DEF BotInv, Storing
  <2> QED BY <2>5, <2>6, <2>7
<1>4. CASE AdminsExpire
  BY <1>1, <1>4, BotVanishes, HandlersAssumption DEF AdminsExpire
<1>5. CASE CoolingExpires
  BY <1>2, <1>5 DEF CoolingExpires, docVars
<1>6. ASSUME NEW d \in Docs, EntryExpires(d), UNCHANGED adminVars
      PROVE  BotInv'
  BY <1>2, <1>6 DEF EntryExpires, Vanishes, adminVars, Docs
<1>7. ASSUME NEW role, DropBotRole(role)
      PROVE  BotInv'
  <2>1. BagToSet(updates') \subseteq BagToSet(updates)
    BY <1>7 DEF DropBotRole, BagRemove, BagToSet
  <2>2. UNCHANGED <<roles, adminCache>> /\ ("bot" \in outdated => "bot" \in outdated')
    BY <1>7 DEF DropBotRole
  <2>3. BotRoleFresh'
    BY <1>7 DEF DropBotRole, BotRoleFresh
  <2> QED BY <1>1, <2>1, <2>2, <2>3 DEF BotInv, Storing
<1> QED BY <1>3, <1>4, <1>5, <1>6, <1>7 DEF Event

\* A step of p that leaves the roles and the lists of administrators alone.
RolesStay(p) ==
    /\ \A q \in Procs \ {p} : pc'[q] = pc[q] /\ local'[q] = local[q]
    /\ pc[p] \notin {"note", "noteWrite"} /\ pc'[p] \notin {"note", "noteWrite", "keepAdmins"}
    /\ UNCHANGED <<roles, updates, adminCache>>
    /\ outdated \cap {"bot", "members", "dropped"} \subseteq outdated'

LEMMA RolesElsewhere ==
    ASSUME Shape, DocInv, NEW p \in Procs,
           \/ ListPart(p) \/ SendPart(p) \/ ArchivePart(p) \/ FilePart(p)
           \/ ChatPart(p) /\ ~AdminStep(p) /\ ~UpdateArrives(p)
    PROVE  RolesStay(p)
<1>1. CASE ListPart(p) \/ SendPart(p) \/ ArchivePart(p) \/ FilePart(p)
  <2>1. UNCHANGED <<roles, updates, adminCache>>
    BY <1>1 DEF ListPart, SendPart, ArchivePart, FilePart, adminVars
  <2>2. /\ \A q \in Procs \ {p} : pc'[q] = pc[q] /\ local'[q] = local[q]
        /\ pc[p] \notin {"note", "noteWrite"} /\ pc'[p] \notin {"note", "noteWrite", "keepAdmins"}
    <3>1. CASE ListPart(p)
      BY <3>1, ListMoves DEF Moves, ListLabels
    <3>2. CASE SendPart(p)
      BY <3>2, SendMoves DEF Moves, SendLabels
    <3>3. CASE ArchivePart(p)
      BY <3>3, ArchiveMoves DEF Moves, ArchiveLabels
    <3>4. CASE FilePart(p)
      BY <3>4, FileMoves DEF Moves, FileLabels
    <3> QED BY <1>1, <3>1, <3>2, <3>3, <3>4
  <2>3. outdated \subseteq outdated'
    BY <1>1 DEF ListPart, SendPart, ArchivePart, FilePart, BeginBroadcast, BeginCancel, BroadcastStep,
         broadcastHandler, FindTargets, ClearCancel, SetProgress, BroadcastLoop, CheckCancel, Send,
         EndBroadcast, cancelBroadcastHandler, StartBackup, restoreHandler, BackupStep,
         backupOneCollection, runBackup, restoreOneCollection, DropCollection, InsertDocument,
         Overwrite, Restored, RestoreReported, docVars
  <2> QED BY <2>1, <2>2, <2>3 DEF RolesStay
<1>2. CASE ChatCommand(p)
  <2>1. UNCHANGED <<docVars, adminVars>> /\ pc[p] = "idle"
    BY <1>2 DEF ChatCommand, BeginSettings, BeginGate, reload, startHandler, loggerHandler, Begin, At
  <2>2. /\ \A q \in Procs \ {p} : pc'[q] = pc[q] /\ local'[q] = local[q]
        /\ pc'[p] \in {"admins", "reload", "lookup", "addUser"}
    BY <1>2 DEF ChatCommand, BeginSettings, BeginGate, reload, startHandler, loggerHandler, Begin,
         Goto, Shape
  <2> QED BY <2>1, <2>2 DEF RolesStay, docVars, adminVars
<1>3. CASE DocumentStep(p) /\ UNCHANGED adminVars
  <2>1. /\ \A q \in Procs \ {p} : pc'[q] = pc[q] /\ local'[q] = local[q]
        /\ pc[p] \notin {"note", "noteWrite"} /\ pc'[p] \notin {"note", "noteWrite", "keepAdmins"}
    BY <1>3, DocumentMoves DEF Moves, DocumentLabels, GateLabels, Thens, Uses
  <2>2. CASE Drop(p)
    <3>1. local[p].doc \in Docs
      BY <2>2 DEF Drop, At, DocInv
    <3>2. outdated \cap {"bot", "members", "dropped"} \subseteq outdated'
      BY <2>2, <3>1 DEF Drop, Vanishes, Docs
    <3> QED BY <1>3, <2>1, <3>2 DEF RolesStay, adminVars
  <2>3. CASE ~Drop(p)
    <3>1. outdated \subseteq outdated'
      BY <1>3, <2>3 DEF DocumentStep, getChat, GetAuthUsers, GetLoggerStatus, ReadThrough, Lookup,
           Find, Fill, SetPlayMode, SetAdminMode, SetCmdDelete, SetField, AddAuthUser,
           RemoveAuthUser, LoggerRead, SetLoggerStatus, Put, AddChat, AddUser, GetAllChats,
           GetAllUsers, ScanRead, ScanPut, Write, Outrun, docVars
    <3> QED BY <1>3, <2>1, <3>1 DEF RolesStay, adminVars
  <2> QED BY <2>2, <2>3
<1>4. CASE PermissionStep(p)
  <2>1. /\ \A q \in Procs \ {p} : pc'[q] = pc[q] /\ local'[q] = local[q]
        /\ pc[p] \notin {"note", "noteWrite"} /\ pc'[p] \notin {"note", "noteWrite", "keepAdmins"}
    BY <1>4, PermissionMoves DEF Moves, GateLabels, Thens, Uses
  <2>2. UNCHANGED <<docVars, adminVars>>
    BY <1>4 DEF PermissionStep, checkBotAdmin, adminMode, playMode, PlayAdmins, AuthGate, Allowed,
         AuthSender, addAuthHandler, removeAuthHandler, settingsCallbackHandler
  <2> QED BY <2>1, <2>2 DEF RolesStay, docVars, adminVars
<1> QED BY <1>1, <1>2, <1>3, <1>4 DEF ChatPart

LEMMA BotStep == Shape /\ DocInv /\ BotInv /\ [Next]_vars => BotInv'
<1> SUFFICES ASSUME Shape, DocInv, BotInv, [Next]_vars PROVE BotInv'
  OBVIOUS
<1>1. CASE UNCHANGED vars
  BY <1>1 DEF vars, goVars, docVars, adminVars, BotInv, BotRoleFresh, Storing, At
<1>2. ASSUME NEW p \in Procs, RolesStay(p) PROVE BotInv'
  BY <1>2, BotQuiet DEF RolesStay
<1> QED BY <1>1, <1>2, RolesElsewhere, BotArrives, BotWork, BotEvent, StepParts

LEMMA BotInit == Init => BotInv
<1> SUFFICES ASSUME Init PROVE BotInv
  OBVIOUS
<1>1. roles \in [Members -> Roles] /\ adminCache \in {None, roles}
  BY DEF Init, Roles
<1>2. BagToSet(updates) = {}
  BY DEF Init, EmptyBag, SetToBag, BagToSet
<1>3. \A q \in Procs : pc[q] = "idle"
  BY DEF Init, HandlersInit
<1> QED BY <1>1, <1>2, <1>3 DEF BotInv, BotRoleFresh, Storing

\* StaleOnlyAfterRace: a cached chat, authorisation list, user or logger switch
\* differs from the stored one only while a write is on its way to the cache, or
\* after one has outrun a reader or gone unconfirmed, and the bot's own entry in
\* the admin cache is its role but for updates that met one another or a list
\* being stored, or whose handler returned before it came to the list
\* (core/db, core/cache/admin_cache.go, participant.go lines 34 to 55).
THEOREM StaleOnlyAfterRaces == Spec => []StaleOnlyAfterRace
<1>1. Init => DocInv /\ BotInv
  BY DocInit, BotInit
<1>2. Shape /\ Shape' /\ DocInv /\ BotInv /\ [Next]_vars => DocInv' /\ BotInv'
  BY DocStep, BotStep
<1>3. DocInv => DocumentsFresh
  BY DEF DocInv, DocumentsFresh
<1>4. BotInv => BotRoleFresh
  BY DEF BotInv, BotRoleFresh
<1> QED BY <1>1, <1>2, <1>3, <1>4, ShapeAlways, PTL DEF Spec, StaleOnlyAfterRace

-----------------------------------------------------------------------------
\* Backup and restore.  While nothing else is written, a backup's entries hold
\* what is stored, and a restore has made the collections it is done with what
\* they were when the backup began, but for the documents it still has to
\* insert, which are absent.
ArchiveFields == {"entries", "docs", "truth", "whole"}

\* The documents of the entries are those of the time the backup began.
Faithful(a) == \A c \in a.entries : \A d \in In(c) : a.docs[d] = a.truth[d]

BackingUp(p) ==
    pc[p] = "backup" =>
        /\ local[p].cmd = "backup" /\ DOMAIN local[p].list = ArchiveFields
        /\ local[p].failed \/ p \in dirty \/
             /\ local[p].list.truth = stored
             /\ local[p].list.entries \cap local[p].todo = {}
             /\ local[p].list.docs = [d \in Docs |-> IF CollectionOf(d) \in local[p].list.entries
                                                     THEN stored[d] ELSE None]

Restoring(p) ==
    pc[p] \in {"restore", "insert"} =>
        /\ local[p].cmd = "restore"
        /\ local[p].failed \/ p \in dirty \/ ~local[p].list.whole \/
             /\ Faithful(local[p].list)
             /\ \A c \in local[p].list.entries \ local[p].todo : \A d \in In(c) :
                  stored[d] = IF pc[p] = "insert" /\ d \in local[p].targets THEN None
                              ELSE local[p].list.truth[d]

RestoreInv ==
    /\ DOMAIN stored = Docs
    /\ archive # None => DOMAIN archive = ArchiveFields /\ (~archive.whole \/ Faithful(archive))
    /\ \A p \in Procs : BackingUp(p) /\ Restoring(p)

\* A backup or restore that goes on while others do not write, or that they
\* have marked, keeps what it has.
LEMMA ArchiverKeeps ==
    ASSUME NEW q \in Procs, BackingUp(q), Restoring(q),
           pc'[q] = pc[q], local'[q] = local[q], q \in dirty => q \in dirty',
           stored' = stored \/ (Archiving(q) => q \in dirty')
    PROVE  BackingUp(q)' /\ Restoring(q)'
<1>1. CASE stored' = stored
  BY <1>1 DEF BackingUp, Restoring
<1>2. CASE Archiving(q) => q \in dirty'
  BY <1>2 DEF BackingUp, Restoring, Archiving
<1> QED BY <1>1, <1>2

LEMMA RestoreQuiet ==
    ASSUME RestoreInv, NEW p \in Procs, UNCHANGED archive, DOMAIN stored' = Docs,
           \A q \in Procs \ {p} : pc'[q] = pc[q] /\ local'[q] = local[q],
           pc'[p] \notin ArchiveLabels, \A q \in dirty : q # p => q \in dirty',
           stored' = stored \/ \A q \in Procs \ {p} : Archiving(q) => q \in dirty'
    PROVE  RestoreInv'
<1>1. BackingUp(p)' /\ Restoring(p)'
  BY DEF BackingUp, Restoring, ArchiveLabels
<1>2. ASSUME NEW q \in Procs \ {p} PROVE BackingUp(q)' /\ Restoring(q)'
  BY <1>2, ArchiverKeeps DEF RestoreInv
<1> QED BY <1>1, <1>2 DEF RestoreInv

\* A write marks every other backup and restore.
LEMMA WriteMarks ==
    ASSUME RestoreInv, NEW p \in Procs, NEW d, NEW v, NEW next, Write(p, d, v, next)
    PROVE  /\ DOMAIN stored' = Docs /\ dirty \subseteq dirty'
           /\ stored' = stored \/ \A q \in Procs \ {p} : Archiving(q) => q \in dirty'
BY DEF Write, Outrun, RestoreInv

LEMMA DocumentMarks ==
    ASSUME RestoreInv, NEW p \in Procs, DocumentStep(p)
    PROVE  /\ DOMAIN stored' = Docs /\ dirty \subseteq dirty'
           /\ stored' = stored \/ \A q \in Procs \ {p} : Archiving(q) => q \in dirty'
<1>1. ASSUME UNCHANGED <<stored, dirty>>
      PROVE  /\ DOMAIN stored' = Docs /\ dirty \subseteq dirty'
             /\ stored' = stored \/ \A q \in Procs \ {p} : Archiving(q) => q \in dirty'
  BY <1>1 DEF RestoreInv
<1>2. CASE ReadThrough(p) \/ LoggerRead(p) \/ Drop(p) \/ Put(p) \/ ScanRead(p) \/ ScanPut(p)
  BY <1>1, <1>2 DEF ReadThrough, Lookup, Find, Fill, LoggerRead, Drop, Put, ScanRead, ScanPut, docVars
<1>3. CASE SetPlayMode(p) \/ SetAdminMode(p) \/ SetCmdDelete(p)
  <2>1. PICK v : Write(p, "chat", v, "drop")
    BY <1>3 DEF SetPlayMode, SetAdminMode, SetCmdDelete, SetField
  <2> QED BY <2>1, WriteMarks
<1>4. CASE AddAuthUser(p) \/ RemoveAuthUser(p)
  <2>1. PICK v : Write(p, "auth", v, "drop")
    BY <1>4 DEF AddAuthUser, RemoveAuthUser
  <2> QED BY <2>1, WriteMarks
<1>5. CASE SetLoggerStatus(p)
  BY <1>5, WriteMarks DEF SetLoggerStatus
<1>6. CASE AddChat(p)
  <2>1. CASE UNCHANGED docVars
    BY <1>1, <2>1 DEF docVars
  <2>2. CASE ~UNCHANGED docVars
    <3>1. PICK v : Write(p, local[p].doc, v, "idle")
      BY <1>6, <2>2 DEF AddChat
    <3> QED BY <3>1, WriteMarks
  <2> QED BY <2>1, <2>2
<1>7. CASE AddUser(p)
  <2>1. CASE UNCHANGED docVars
    BY <1>1, <2>1 DEF docVars
  <2>2. CASE Write(p, "user", TRUE, "put")
    <3>1. PICK v : Write(p, "user", v, "put")
      BY <2>2, Zenon
    <3> QED BY <3>1, WriteMarks
  <2> QED BY <1>7, <2>1, <2>2 DEF AddUser
<1> QED BY <1>2, <1>3, <1>4, <1>5, <1>6, <1>7
        DEF DocumentStep, getChat, GetAuthUsers, GetLoggerStatus, GetAllChats, GetAllUsers

LEMMA BackupStarts ==
    ASSUME Shape, NEW p \in Procs, StartBackup(p)
    PROVE  BackingUp(p)' /\ Restoring(p)' /\ pc'[p] = "backup"
<1> DEFINE a == [entries |-> {}, docs |-> Nothing, truth |-> stored, whole |-> TRUE]
           l == [Fresh EXCEPT !.cmd = "backup", !.todo = Listing, !.list = a]
<1>1. pc'[p] = "backup" /\ local'[p] = l
  BY DEF StartBackup, Goto, Shape
<1>2. l.cmd = "backup" /\ l.todo = Listing /\ l.list = a
  BY DEF Fresh
<1>3. stored' = stored
  BY DEF StartBackup
<1>4. DOMAIN a = ArchiveFields /\ a.truth = stored /\ a.entries = {}
      /\ a.docs = [d \in Docs |-> IF CollectionOf(d) \in a.entries THEN stored[d] ELSE None]
  BY DEF ArchiveFields, Nothing
<1> HIDE DEF l, a
<1> QED BY <1>1, <1>2, <1>3, <1>4 DEF BackingUp, Restoring

LEMMA BackupGoesOn ==
    ASSUME Shape, NEW p \in Procs, BackingUp(p), backupOneCollection(p)
    PROVE  BackingUp(p)' /\ Restoring(p)'
<1> DEFINE c == Turn(p)
           there == {d \in In(c) : stored[d] # None}
           a == local[p].list
           b(kept) == [a EXCEPT !.entries = @ \cup {c},
                                !.docs = [d \in Docs |-> IF d \in kept THEN stored[d] ELSE @[d]]]
           l(kept) == [local[p] EXCEPT !.todo = @ \ {c}, !.failed = @ \/ kept # there,
                                       !.list = b(kept)]
<1>1. pc[p] = "backup" /\ local[p].todo # {} /\ UNCHANGED docVars
  BY DEF backupOneCollection, At
<1>2. PICK kept \in SUBSET there : Goto(p, "backup", l(kept))
  BY DEF backupOneCollection
<1>3. pc'[p] = "backup" /\ local'[p] = l(kept)
  BY <1>2 DEF Goto, Shape
<1>4. c \in local[p].todo
  BY <1>1 DEF Turn
<1>5. /\ local[p].cmd = "backup" /\ DOMAIN a = ArchiveFields
      /\ local[p].failed \/ p \in dirty \/
           /\ a.truth = stored /\ a.entries \cap local[p].todo = {}
           /\ a.docs = [d \in Docs |-> IF CollectionOf(d) \in a.entries THEN stored[d] ELSE None]
  BY <1>1 DEF BackingUp
<1>6. /\ DOMAIN b(kept) = ArchiveFields /\ b(kept).truth = a.truth
      /\ b(kept).entries = a.entries \cup {c}
      /\ b(kept).docs = [d \in Docs |-> IF d \in kept THEN stored[d] ELSE a.docs[d]]
  BY <1>5 DEF ArchiveFields
<1>7. /\ l(kept).cmd = local[p].cmd /\ l(kept).todo = local[p].todo \ {c}
      /\ l(kept).failed = (local[p].failed \/ kept # there) /\ l(kept).list = b(kept)
  BY DEF Shape, Fresh
<1>8. CASE local[p].failed \/ p \in dirty \/ kept # there
  <2>1. l(kept).failed \/ p \in dirty
    BY <1>7, <1>8
  <2> HIDE DEF l, b, a, c
  <2> QED BY <1>1, <1>3, <1>5, <1>6, <1>7, <2>1 DEF BackingUp, Restoring, docVars
<1>9. CASE ~(local[p].failed \/ p \in dirty \/ kept # there)
  <2>1. ASSUME NEW d \in Docs
        PROVE  b(kept).docs[d] = IF CollectionOf(d) \in b(kept).entries THEN stored[d] ELSE None
    <3> HIDE DEF l, b, a, c
    <3>1. c \notin a.entries
      BY <1>4, <1>5, <1>9
    <3>2. d \in kept <=> (CollectionOf(d) = c /\ stored[d] # None)
      BY <1>9 DEF In
    <3> QED BY <1>5, <1>6, <1>9, <3>1, <3>2
  <2>2. b(kept).entries \cap l(kept).todo = {}
    BY <1>4, <1>5, <1>6, <1>7, <1>9
  <2>3. b(kept).docs = [d \in Docs |-> IF CollectionOf(d) \in b(kept).entries THEN stored[d] ELSE None]
    BY <1>6, <2>1
  <2> HIDE DEF l, b, a, c
  <2> QED BY <1>1, <1>3, <1>5, <1>6, <1>7, <1>9, <2>2, <2>3 DEF BackingUp, Restoring, docVars
<1> QED BY <1>8, <1>9

\* A file that is sent as one that all went well with is faithful.
LEMMA BackupSent ==
    ASSUME Shape, RestoreInv, NEW p \in Procs, runBackup(p), archive' # archive
    PROVE  DOMAIN archive' = ArchiveFields /\ (~archive'.whole \/ Faithful(archive'))
<1> DEFINE a == local[p].list
           ok == ~local[p].failed /\ p \notin dirty
<1>1. pc[p] = "backup" /\ archive' = [a EXCEPT !.whole = ok]
  BY DEF runBackup, At
<1>2. DOMAIN a = ArchiveFields
      /\ (ok => /\ a.truth = stored
                /\ a.docs = [d \in Docs |-> IF CollectionOf(d) \in a.entries THEN stored[d] ELSE None])
  BY <1>1 DEF RestoreInv, BackingUp
<1>3. /\ DOMAIN archive' = ArchiveFields /\ archive'.whole = ok /\ archive'.entries = a.entries
      /\ archive'.docs = a.docs /\ archive'.truth = a.truth
  BY <1>1, <1>2 DEF ArchiveFields
<1>4. ok => Faithful(archive')
  BY <1>2, <1>3 DEF Faithful, In
<1> QED BY <1>3, <1>4

LEMMA RestoreStarts ==
    ASSUME Shape, RestoreInv, NEW p \in Procs, restoreHandler(p)
    PROVE  BackingUp(p)' /\ Restoring(p)'
<1> DEFINE l == [Fresh EXCEPT !.cmd = "restore", !.todo = archive.entries, !.list = archive]
<1>1. pc'[p] = "restore" /\ local'[p] = l /\ archive # None
  BY DEF restoreHandler, Goto, Shape
<1>2. l.cmd = "restore" /\ l.todo = archive.entries /\ l.list = archive
  BY DEF Fresh
<1>3. ~archive.whole \/ Faithful(archive)
  BY <1>1 DEF RestoreInv
<1> HIDE DEF l
<1> QED BY <1>1, <1>2, <1>3 DEF BackingUp, Restoring, Faithful

LEMMA RestoreGoesOn ==
    ASSUME Shape, RestoreInv, NEW p \in Procs, restoreOneCollection(p)
    PROVE  BackingUp(p)' /\ Restoring(p)' /\ DOMAIN stored' = Docs
<1> DEFINE a == local[p].list
           todo == local[p].todo
           c == Turn(p)
<1>1. /\ pc[p] \in {"restore", "insert"} /\ local[p].cmd = "restore" /\ DOMAIN local[p] = DOMAIN Fresh
      /\ DOMAIN stored = Docs
      /\ local[p].failed \/ p \in dirty \/ ~a.whole \/
           /\ Faithful(a)
           /\ \A e \in a.entries \ todo : \A d \in In(e) :
                stored[d] = IF pc[p] = "insert" /\ d \in local[p].targets THEN None ELSE a.truth[d]
  BY DEF restoreOneCollection, DropCollection, InsertDocument, Restored, At, RestoreInv, Restoring, Shape
<1>2. ASSUME local'[p].failed, pc'[p] = "restore", local'[p].cmd = "restore", stored' = stored
      PROVE  BackingUp(p)' /\ Restoring(p)' /\ DOMAIN stored' = Docs
  BY <1>1, <1>2 DEF BackingUp, Restoring
<1>3. CASE DropCollection(p)
  <2> DEFINE left == {d \in In(c) : a.docs[d] # None}
             l == [local[p] EXCEPT !.todo = @ \ {c}, !.targets = left]
             m == [local[p] EXCEPT !.todo = @ \ {c}, !.failed = TRUE]
  <2>1. c \in todo /\ pc[p] = "restore"
    BY <1>3 DEF DropCollection, Turn, At
  <2>2. CASE Goto(p, "restore", m) /\ UNCHANGED docVars
    <3>1. m.failed /\ m.cmd = local[p].cmd
      BY <1>1 DEF Fresh
    <3> HIDE DEF m
    <3>2. pc'[p] = "restore" /\ local'[p] = m
      BY <2>2 DEF Goto, Shape
    <3> QED BY <1>1, <1>2, <2>2, <3>1, <3>2 DEF docVars
  <2>3. CASE /\ stored' = [d \in Docs |-> IF d \in In(c) THEN None ELSE stored[d]]
             /\ Goto(p, "insert", l) /\ Overwrite(p, In(c))
    <3>1. /\ l.todo = todo \ {c} /\ l.targets = left /\ l.cmd = local[p].cmd /\ l.list = a
          /\ l.failed = local[p].failed
      BY <1>1 DEF Fresh
    <3> HIDE DEF l
    <3>2. pc'[p] = "insert" /\ local'[p] = l
      BY <2>3 DEF Goto, Shape
    <3>3. DOMAIN stored' = Docs /\ (p \in dirty => p \in dirty')
      BY <2>3 DEF Overwrite
    <3>4. ASSUME Faithful(a), NEW e \in a.entries \ (todo \ {c}), NEW d \in In(e),
                 \A f \in a.entries \ todo : \A x \in In(f) :
                   stored[x] = IF pc[p] = "insert" /\ x \in local[p].targets THEN None ELSE a.truth[x]
          PROVE  stored'[d] = IF d \in left THEN None ELSE a.truth[d]
      <4>1. CASE e = c
        <5>1. stored'[d] = None /\ a.docs[d] = a.truth[d]
          BY <2>3, <3>4, <4>1 DEF Faithful, In
        <5> QED BY <3>4, <4>1, <5>1
      <4>2. CASE e # c
        <5>1. d \in Docs /\ d \notin In(c) /\ stored'[d] = stored[d]
          BY <2>3, <3>4, <4>2 DEF In
        <5> QED BY <2>1, <3>4, <4>2, <5>1
      <4> QED BY <4>1, <4>2
    <3> HIDE DEF left, a, todo, c
    <3> QED BY <1>1, <3>1, <3>2, <3>3, <3>4 DEF BackingUp, Restoring
  <2> QED BY <1>3, <2>2, <2>3 DEF DropCollection
<1>4. CASE InsertDocument(p)
  <2> DEFINE l(x) == [local[p] EXCEPT !.targets = @ \ {x}]
             m == [local[p] EXCEPT !.targets = {}, !.failed = TRUE]
  <2>1. PICK x \in local[p].targets :
          \/ /\ stored[x] = None /\ stored' = [stored EXCEPT ![x] = a.docs[x]]
             /\ Overwrite(p, {x}) /\ Goto(p, "insert", l(x))
          \/ Goto(p, "restore", m) /\ UNCHANGED docVars
    BY <1>4 DEF InsertDocument
  <2>2. pc[p] = "insert"
    BY <1>4 DEF InsertDocument, At
  <2>3. CASE Goto(p, "restore", m) /\ UNCHANGED docVars
    <3>1. m.failed /\ m.cmd = local[p].cmd
      BY <1>1 DEF Fresh
    <3> HIDE DEF m
    <3>2. pc'[p] = "restore" /\ local'[p] = m
      BY <2>3 DEF Goto, Shape
    <3> QED BY <1>1, <1>2, <2>3, <3>1, <3>2 DEF docVars
  <2>4. CASE /\ stored' = [stored EXCEPT ![x] = a.docs[x]]
             /\ Overwrite(p, {x}) /\ Goto(p, "insert", l(x))
    <3>1. /\ l(x).todo = todo /\ l(x).targets = local[p].targets \ {x} /\ l(x).cmd = local[p].cmd
          /\ l(x).list = a /\ l(x).failed = local[p].failed
      BY <1>1 DEF Fresh
    <3> HIDE DEF l
    <3>2. pc'[p] = "insert" /\ local'[p] = l(x)
      BY <2>4 DEF Goto, Shape
    <3>3. DOMAIN stored' = Docs /\ (p \in dirty => p \in dirty')
      BY <1>1, <2>4 DEF Overwrite
    <3>4. ASSUME Faithful(a), NEW e \in a.entries \ todo, NEW d \in In(e),
                 stored[d] = IF d \in local[p].targets THEN None ELSE a.truth[d]
          PROVE  stored'[d] = IF d \in local[p].targets \ {x} THEN None ELSE a.truth[d]
      <4>1. d \in Docs /\ a.docs[d] = a.truth[d]
        BY <3>4 DEF Faithful, In
      <4> QED BY <1>1, <2>4, <3>4, <4>1
    <3> HIDE DEF a, todo
    <3> QED BY <1>1, <2>2, <3>1, <3>2, <3>3, <3>4 DEF BackingUp, Restoring
  <2> QED BY <2>1, <2>3, <2>4
<1>5. CASE Restored(p)
  <2>1. /\ pc[p] = "insert" /\ local[p].targets = {} /\ pc'[p] = "restore" /\ local'[p] = local[p]
        /\ UNCHANGED docVars
    BY <1>5, JumpMoves DEF Restored, At
  <2> QED BY <1>1, <2>1 DEF BackingUp, Restoring, docVars
<1> QED BY <1>3, <1>4, <1>5 DEF restoreOneCollection

LEMMA RestoreStep == Shape /\ RestoreInv /\ [Next]_vars => RestoreInv'
<1> SUFFICES ASSUME Shape, RestoreInv, [Next]_vars PROVE RestoreInv'
  OBVIOUS
<1>1. CASE UNCHANGED <<pc, local, stored, archive>> /\ dirty \subseteq dirty'
  <2>1. \A q \in Procs : BackingUp(q)' /\ Restoring(q)'
    BY <1>1, ArchiverKeeps DEF RestoreInv
  <2> QED BY <1>1, <2>1 DEF RestoreInv
<1>2. CASE UNCHANGED vars
  BY <1>1, <1>2 DEF vars, goVars, docVars
<1>3. CASE Event
  <2>1. UNCHANGED <<stored, dirty>>
    BY <1>3 DEF Event, RoleChanges, EntryExpires, AdminsExpire, CoolingExpires, DropBotRole, docVars
  <2> QED BY <1>1, <1>3, <2>1, EventStays DEF goVars
<1>4. ASSUME NEW p \in Procs, ListPart(p) \/ SendPart(p) \/ FilePart(p)
      PROVE  RestoreInv'
  <2>1. UNCHANGED docVars /\ UNCHANGED archive
    BY <1>4 DEF ListPart, SendPart, FilePart, BeginBroadcast, BeginCancel, BroadcastStep,
         broadcastHandler, FindTargets, ClearCancel, SetProgress, BroadcastLoop, CheckCancel, Send,
         EndBroadcast, cancelBroadcastHandler
  <2>2. /\ \A q \in Procs \ {p} : pc'[q] = pc[q] /\ local'[q] = local[q]
        /\ pc'[p] \notin ArchiveLabels
    <3>1. CASE ListPart(p)
      BY <3>1, ListMoves DEF Moves, ListLabels, ArchiveLabels
    <3>2. CASE SendPart(p)
      BY <3>2, SendMoves DEF Moves, SendLabels, ArchiveLabels
    <3>3. CASE FilePart(p)
      BY <3>3, FileMoves DEF Moves, FileLabels, ArchiveLabels
    <3> QED BY <1>4, <3>1, <3>2, <3>3
  <2> QED BY <2>1, <2>2, RestoreQuiet DEF docVars, RestoreInv
<1>5. ASSUME NEW p \in Procs, ChatPart(p)
      PROVE  RestoreInv'
  <2>1. /\ \A q \in Procs \ {p} : pc'[q] = pc[q] /\ local'[q] = local[q]
        /\ pc'[p] \notin ArchiveLabels /\ UNCHANGED archive
    BY <1>5, ChatMoves DEF ChatPart, Moves, ChatLabels, AdminLabels, DocumentLabels, GateLabels, Thens,
                           Uses, ArchiveLabels
  <2>2. CASE DocumentStep(p)
    BY <2>1, <2>2, DocumentMarks, RestoreQuiet
  <2>3. CASE ~DocumentStep(p)
    <3>1. UNCHANGED <<stored, dirty>>
      BY <1>5, <2>3 DEF ChatPart, ChatCommand, BeginSettings, BeginGate, reload, startHandler,
           loggerHandler, UpdateArrives, HandleBotRole, AdminStep, GetAdmins, FetchAdmins, KeepAdmins,
           reloadAdminCacheHandler, ReloadAllowed, ReloadMark, ClearAdminCache, UpdateAdminCache,
           NoteRead, NoteWrite, PermissionStep, checkBotAdmin, adminMode, playMode, PlayAdmins,
           AuthGate, Allowed, AuthSender, addAuthHandler, removeAuthHandler, settingsCallbackHandler,
           docVars
    <3> QED BY <2>1, <3>1, RestoreQuiet DEF RestoreInv
  <2> QED BY <2>2, <2>3
<1>6. ASSUME NEW p \in Procs, ArchivePart(p)
      PROVE  RestoreInv'
  <2>1. \A q \in Procs \ {p} : pc'[q] = pc[q] /\ local'[q] = local[q]
    BY <1>6, ArchiveMoves DEF Moves
  <2>2. \A q \in dirty : q # p => q \in dirty'
    BY <1>6 DEF ArchivePart, StartBackup, restoreHandler, BackupStep, backupOneCollection, runBackup,
         restoreOneCollection, DropCollection, InsertDocument, Overwrite, Restored, RestoreReported,
         docVars
  <2>3. stored' = stored \/ \A q \in Procs \ {p} : Archiving(q) => q \in dirty'
    BY <1>6 DEF ArchivePart, StartBackup, restoreHandler, BackupStep, backupOneCollection, runBackup,
         restoreOneCollection, DropCollection, InsertDocument, Overwrite, Restored, RestoreReported,
         docVars
  <2>4. \A q \in Procs \ {p} : BackingUp(q)' /\ Restoring(q)'
    BY <2>1, <2>2, <2>3, ArchiverKeeps DEF RestoreInv
  <2>5. CASE StartBackup(p) \/ restoreHandler(p) \/ backupOneCollection(p)
    <3>1. BackingUp(p)' /\ Restoring(p)'
      BY <2>5, BackupStarts, RestoreStarts, BackupGoesOn DEF RestoreInv
    <3>2. UNCHANGED <<stored, archive>>
      BY <2>5 DEF StartBackup, restoreHandler, backupOneCollection, docVars
    <3> QED BY <2>4, <3>1, <3>2 DEF RestoreInv
  <2>6. CASE runBackup(p)
    <3>1. BackingUp(p)' /\ Restoring(p)'
      BY <2>6, ReturnMoves DEF runBackup, BackingUp, Restoring
    <3>2. stored' = stored
      BY <2>6 DEF runBackup
    <3> QED BY <2>4, <2>6, <3>1, <3>2, BackupSent DEF RestoreInv
  <2>7. CASE restoreOneCollection(p)
    <3>1. UNCHANGED archive
      BY <2>7 DEF restoreOneCollection, DropCollection, InsertDocument, Restored, Overwrite
    <3> QED BY <2>4, <2>7, <3>1, RestoreGoesOn DEF RestoreInv
  <2>8. CASE RestoreReported(p)
    BY <2>1, <2>2, <2>3, <2>8, ReturnMoves, RestoreQuiet DEF RestoreReported, ArchiveLabels, RestoreInv
  <2> QED BY <1>6, <2>5, <2>6, <2>7, <2>8 DEF ArchivePart, BackupStep
<1> QED BY <1>2, <1>3, <1>4, <1>5, <1>6, StepParts

LEMMA RestoreInit == Init => RestoreInv
<1> SUFFICES ASSUME Init PROVE RestoreInv
  OBVIOUS
<1>1. DOMAIN stored = Docs
  BY DocInit DEF DocInv
<1>2. \A p \in Procs : pc[p] = "idle"
  BY DEF Init, HandlersInit
<1>3. archive \in {None, Whole(Older)}
  BY DEF Init
<1>4. DOMAIN Whole(Older) = ArchiveFields /\ Faithful(Whole(Older))
  BY DEF Whole, ArchiveFields, Faithful
<1> QED BY <1>1, <1>2, <1>3, <1>4 DEF RestoreInv, BackingUp, Restoring

\* RestoreExact: a restore reported complete of a backup reported complete has
\* brought back what was stored when the backup began, in every collection that
\* has an entry, if nothing was written during either (core/db/backup.go).
THEOREM RestoresAreExact == Spec => []RestoreExact
<1>1. RestoreInv => RestoreExact
  BY DEF RestoreInv, Restoring, RestoreExact, At
<1> QED BY <1>1, RestoreInit, RestoreStep, ShapeAlways, PTL DEF Spec

-----------------------------------------------------------------------------
\* Bags of songs.
Held(y, B) == IF BagIn(y, B) THEN B[y] ELSE 0

LEMMA AddedCopies ==
    ASSUME NEW B, IsABag(B), NEW x
    PROVE  /\ IsABag(BagAdd(B, x))
           /\ BagToSet(BagAdd(B, x)) = BagToSet(B) \cup {x}
           /\ \A y : Held(y, BagAdd(B, x)) = Held(y, B) + (IF y = x THEN 1 ELSE 0)
<1>1. /\ DOMAIN BagAdd(B, x) = DOMAIN B \cup {x}
      /\ \A y \in DOMAIN B : B[y] \in Nat /\ B[y] > 0
      /\ \A y \in DOMAIN B \cup {x} :
           BagAdd(B, x)[y] = (IF y \in DOMAIN B THEN B[y] ELSE 0) + (IF y = x THEN 1 ELSE 0)
  BY DEF BagAdd, IsABag
<1>2. BagAdd(B, x) = [y \in DOMAIN B \cup {x} |-> BagAdd(B, x)[y]]
  BY DEF BagAdd
<1> DEFINE C == BagAdd(B, x)
<1> HIDE DEF C
<1>3. /\ DOMAIN C = DOMAIN B \cup {x} /\ C = [y \in DOMAIN B \cup {x} |-> C[y]]
      /\ \A y \in DOMAIN C : C[y] = (IF y \in DOMAIN B THEN B[y] ELSE 0) + (IF y = x THEN 1 ELSE 0)
  BY <1>1, <1>2 DEF C
<1>4. \A y \in DOMAIN C : C[y] \in {n \in Nat : n > 0}
  BY <1>1, <1>3
<1>5. C \in [DOMAIN C -> {n \in Nat : n > 0}]
  BY <1>3, <1>4
<1>6. \A y : Held(y, C) = Held(y, B) + (IF y = x THEN 1 ELSE 0)
  <2>1. DOMAIN C = DOMAIN B \cup {x}
    BY <1>3
  <2> SUFFICES ASSUME NEW y PROVE Held(y, C) = Held(y, B) + (IF y = x THEN 1 ELSE 0)
    OBVIOUS
  <2>2. CASE y \in DOMAIN B
    BY <1>1, <1>3, <2>1, <2>2 DEF Held, BagIn, BagToSet
  <2>3. CASE y \notin DOMAIN B
    BY <1>3, <2>1, <2>3 DEF Held, BagIn, BagToSet
  <2> QED BY <2>2, <2>3
<1> QED BY <1>3, <1>5, <1>6 DEF C, IsABag, BagToSet

LEMMA RemovedCopies ==
    ASSUME NEW B, IsABag(B), NEW x
    PROVE  /\ IsABag(BagRemoveAll(B, x))
           /\ BagToSet(BagRemoveAll(B, x)) \subseteq BagToSet(B)
           /\ \A y : Held(y, BagRemoveAll(B, x)) <= Held(y, B)
<1>1. /\ BagRemoveAll(B, x) = [y \in DOMAIN B \ {x} |-> B[y]]
      /\ \A y \in DOMAIN B : B[y] \in Nat /\ B[y] > 0
  BY DEF BagRemoveAll, IsABag
<1> QED BY <1>1 DEF IsABag, BagToSet, Held, BagIn

LEMMA CopiesAreCounted == \A B, y : IsABag(B) => Held(y, B) \in Nat
BY DEF IsABag, Held, BagIn, BagToSet

-----------------------------------------------------------------------------
\* Playlists.  The goroutines that have found a song absent, or the owner short
\* of a playlist, and have not written yet, count as if they had.
Adders(id, song) == {p \in Procs : /\ pc[p] = "changeSongs" /\ local[p].cmd = "addSong"
                                   /\ local[p].id = id /\ local[p].value = song}

Creators(u) == {p \in Procs : /\ pc[p] \in {"count", "create"} /\ local[p].user = u
                              /\ pc[p] = "count" => local[p].left < MaxPlaylists}

ListTyped ==
    /\ DOMAIN playlists = PlaylistIds /\ PlaylistsTypeOK
    /\ \A p \in Procs :
         /\ pc[p] \in {"count", "create"} => local[p].user \in Users /\ local[p].left \in Nat
         /\ pc[p] \in {"deletePlaylist", "addSong", "removeSong", "songExists", "changeSongs"} =>
              local[p].id \in PlaylistIds
         /\ pc[p] = "removeSong" => BagToSet(local[p].got) \subseteq Songs
         /\ pc[p] \in {"songExists", "changeSongs"} => local[p].value \in Songs

ListInv ==
    misread \/
      /\ \A id \in PlaylistIds, song \in Songs :
           Copies(id, song) + Cardinality(Adders(id, song)) <= Cardinality(Procs)
      /\ \A u \in Users :
           Cardinality(PlaylistsOf(u)) + Cardinality(Creators(u)) < MaxPlaylists + Cardinality(Procs)

LEMMA ListFinite ==
    /\ \A id, song : IsFiniteSet(Adders(id, song)) /\ Cardinality(Adders(id, song)) \in Nat
                     /\ Cardinality(Adders(id, song)) <= Cardinality(Procs)
    /\ \A u : IsFiniteSet(Creators(u)) /\ Cardinality(Creators(u)) \in Nat
              /\ Cardinality(Creators(u)) <= Cardinality(Procs)
    /\ \A u : IsFiniteSet(PlaylistsOf(u)) /\ Cardinality(PlaylistsOf(u)) \in Nat
    /\ Cardinality(Procs) \in Nat /\ MaxPlaylists \in Nat /\ MaxPlaylists > 0
    /\ Cardinality(PlaylistIds) \in Nat
<1>1. \A S \in SUBSET Procs : IsFiniteSet(S) /\ Cardinality(S) \in Nat /\ Cardinality(S) <= Cardinality(Procs)
  BY HandlersAssumption, FS_Subset, FS_CardinalityType
<1>2. \A S \in SUBSET PlaylistIds : IsFiniteSet(S) /\ Cardinality(S) \in Nat
  BY PlaylistAssumption, FS_Subset, FS_CardinalityType
<1>3. /\ \A id, song : Adders(id, song) \in SUBSET Procs
      /\ \A u : Creators(u) \in SUBSET Procs
      /\ \A u : PlaylistsOf(u) \in SUBSET PlaylistIds
  BY DEF Adders, Creators, PlaylistsOf
<1>4. Cardinality(Procs) \in Nat /\ Cardinality(PlaylistIds) \in Nat
  BY HandlersAssumption, PlaylistAssumption, FS_CardinalityType
<1>5. MaxPlaylists \in Nat /\ MaxPlaylists > 0
  BY <1>4, PlaylistAssumption
<1> QED BY <1>1, <1>2, <1>3, <1>4, <1>5

\* The steps of the other parts.
LEMMA ListsElsewhere ==
    ASSUME ListTyped, ListInv, UNCHANGED playlistVars,
           \A q \in Procs : pc'[q] \in ListLabels => pc[q] = pc'[q] /\ local'[q] = local[q]
    PROVE  ListTyped' /\ ListInv'
<1>1. UNCHANGED <<playlists, generated, misread>>
  BY DEF playlistVars
<1>2. ListTyped'
  BY <1>1 DEF ListTyped, PlaylistsTypeOK, IsPlaylist, ListLabels
<1>3. /\ \A id, song : Adders(id, song)' \subseteq Adders(id, song)
      /\ \A u : Creators(u)' \subseteq Creators(u)
  BY DEF Adders, Creators, ListLabels
<1>4. /\ \A id, song : Cardinality(Adders(id, song)') <= Cardinality(Adders(id, song))
                       /\ Cardinality(Adders(id, song)') \in Nat
      /\ \A u : Cardinality(Creators(u)') <= Cardinality(Creators(u)) /\ Cardinality(Creators(u)') \in Nat
  BY <1>3, ListFinite, FS_Subset, FS_CardinalityType
<1>5. (\A id, song : Copies(id, song)' = Copies(id, song)) /\ \A u : PlaylistsOf(u)' = PlaylistsOf(u)
  BY <1>1 DEF Copies, PlaylistsOf
<1>6. \A id \in PlaylistIds : \A song : Copies(id, song) \in Nat
  BY CopiesAreCounted DEF Copies, Held, ListTyped, PlaylistsTypeOK, IsPlaylist
<1> QED BY <1>1, <1>2, <1>4, <1>5, <1>6, ListFinite DEF ListInv

LEMMA ListCounts ==
    ASSUME ListTyped, ListInv, ListTyped', NEW p \in Procs, misread => misread',
           \A q \in Procs \ {p} : pc'[q] = pc[q] /\ local'[q] = local[q],
           \A id \in PlaylistIds, song \in Songs :
             \/ misread' \/ Copies(id, song)' = 0
             \/ /\ p \notin Adders(id, song)'
                /\ Copies(id, song)' <= Copies(id, song) + (IF p \in Adders(id, song) THEN 1 ELSE 0),
           \A u \in Users :
             \/ misread' \/ Cardinality(PlaylistsOf(u)') < MaxPlaylists
             \/ /\ p \in Creators(u)' => p \in Creators(u)
                /\ Cardinality(PlaylistsOf(u)') <=
                     Cardinality(PlaylistsOf(u))
                     + (IF p \in Creators(u) /\ p \notin Creators(u)' THEN 1 ELSE 0)
    PROVE  ListInv'
<1> SUFFICES ASSUME ~misread' PROVE ListInv'
  BY DEF ListInv
<1>1. Cardinality(Procs) \in Nat /\ MaxPlaylists \in Nat
  BY ListFinite
<1>2. \A S \in SUBSET Procs : IsFiniteSet(S) /\ Cardinality(S) \in Nat /\ Cardinality(S) <= Cardinality(Procs)
  BY HandlersAssumption, FS_Subset, FS_CardinalityType
<1>3. ASSUME NEW id \in PlaylistIds, NEW song \in Songs
      PROVE  Copies(id, song)' + Cardinality(Adders(id, song)') <= Cardinality(Procs)
  <2>1. Adders(id, song) \in SUBSET Procs /\ Adders(id, song)' \in SUBSET Procs
    BY DEF Adders
  <2>2. Copies(id, song) \in Nat /\ Copies(id, song)' \in Nat
    BY <1>3, CopiesAreCounted DEF Copies, Held, ListTyped, PlaylistsTypeOK, IsPlaylist
  <2>3. CASE Copies(id, song)' = 0
    BY <1>1, <1>2, <2>1, <2>2, <2>3
  <2>4. CASE /\ p \notin Adders(id, song)'
             /\ Copies(id, song)' <= Copies(id, song) + (IF p \in Adders(id, song) THEN 1 ELSE 0)
    <3>1. Adders(id, song)' = Adders(id, song) \ {p}
      BY <2>4 DEF Adders
    <3>2. Cardinality(Adders(id, song)') =
            IF p \in Adders(id, song) THEN Cardinality(Adders(id, song)) - 1
            ELSE Cardinality(Adders(id, song))
      BY <1>2, <2>1, <3>1, FS_RemoveElement
    <3>3. Copies(id, song) + Cardinality(Adders(id, song)) <= Cardinality(Procs)
      BY DEF ListInv
    <3>4. Cardinality(Adders(id, song)) \in Nat
      BY <1>2, <2>1
    <3> HIDE DEF Copies, Adders
    <3> QED BY <1>1, <2>2, <2>4, <3>2, <3>3, <3>4
  <2> QED BY <2>3, <2>4
<1>4. ASSUME NEW u \in Users
      PROVE  Cardinality(PlaylistsOf(u)') + Cardinality(Creators(u)') < MaxPlaylists + Cardinality(Procs)
  <2>1. Creators(u) \in SUBSET Procs /\ Creators(u)' \in SUBSET Procs
    BY DEF Creators
  <2>2. Cardinality(PlaylistsOf(u)) \in Nat /\ Cardinality(PlaylistsOf(u)') \in Nat
    <3>1. \A S \in SUBSET PlaylistIds : Cardinality(S) \in Nat
      BY PlaylistAssumption, FS_Subset, FS_CardinalityType
    <3> QED BY <3>1 DEF PlaylistsOf
  <2>3. CASE Cardinality(PlaylistsOf(u)') < MaxPlaylists
    BY <1>1, <1>2, <2>1, <2>2, <2>3
  <2>4. CASE ~ Cardinality(PlaylistsOf(u)') < MaxPlaylists
    <3>1. /\ p \in Creators(u)' => p \in Creators(u)
          /\ Cardinality(PlaylistsOf(u)') <=
               Cardinality(PlaylistsOf(u))
               + (IF p \in Creators(u) /\ p \notin Creators(u)' THEN 1 ELSE 0)
      BY <2>4
    <3>2. Creators(u)' = IF p \in Creators(u)' THEN Creators(u) ELSE Creators(u) \ {p}
      BY <3>1 DEF Creators
    <3>3. Cardinality(Creators(u)') =
            IF p \in Creators(u) /\ p \notin Creators(u)' THEN Cardinality(Creators(u)) - 1
            ELSE Cardinality(Creators(u))
      BY <1>2, <2>1, <3>1, <3>2, FS_RemoveElement
    <3>4. Cardinality(PlaylistsOf(u)) + Cardinality(Creators(u)) < MaxPlaylists + Cardinality(Procs)
      BY DEF ListInv
    <3>5. Cardinality(Creators(u)) \in Nat
      BY <1>2, <2>1
    <3> HIDE DEF PlaylistsOf, Creators
    <3> QED BY <1>1, <2>2, <3>1, <3>3, <3>4, <3>5
  <2> QED BY <2>3, <2>4
<1> QED BY <1>3, <1>4 DEF ListInv

\* A step that only reads.
LEMMA ListReads ==
    ASSUME ListTyped, ListInv, ListTyped', NEW p \in Procs, misread => misread', playlists' = playlists,
           \A q \in Procs \ {p} : pc'[q] = pc[q] /\ local'[q] = local[q],
           \A id \in PlaylistIds, song \in Songs :
             misread' \/ Copies(id, song) = 0 \/ p \notin Adders(id, song)',
           \A u \in Users : \/ misread' \/ Cardinality(PlaylistsOf(u)) < MaxPlaylists
                            \/ p \in Creators(u)' => p \in Creators(u)
    PROVE  ListInv'
<1>1. /\ \A id, song : Copies(id, song)' = Copies(id, song)
      /\ \A u : PlaylistsOf(u)' = PlaylistsOf(u)
  BY DEF Copies, PlaylistsOf
<1>2. \A id \in PlaylistIds : \A song : Copies(id, song) \in Nat
  BY CopiesAreCounted DEF Copies, Held, ListTyped, PlaylistsTypeOK, IsPlaylist
<1>3. \A u : Cardinality(PlaylistsOf(u)) \in Nat
  BY ListFinite
<1> HIDE DEF Copies, PlaylistsOf, Adders, Creators
<1>4. \A id \in PlaylistIds, song \in Songs :
        \/ misread' \/ Copies(id, song)' = 0
        \/ /\ p \notin Adders(id, song)'
           /\ Copies(id, song)' <= Copies(id, song) + (IF p \in Adders(id, song) THEN 1 ELSE 0)
  BY <1>1, <1>2
<1>5. \A u \in Users :
        \/ misread' \/ Cardinality(PlaylistsOf(u)') < MaxPlaylists
        \/ /\ p \in Creators(u)' => p \in Creators(u)
           /\ Cardinality(PlaylistsOf(u)') <=
                Cardinality(PlaylistsOf(u))
                + (IF p \in Creators(u) /\ p \notin Creators(u)' THEN 1 ELSE 0)
  BY <1>1, <1>3
<1> QED BY <1>4, <1>5, ListCounts

\* A step that writes a playlist and ends its command.
LEMMA ListWrites ==
    ASSUME ListTyped, ListInv, ListTyped', NEW p \in Procs, misread' = misread, pc'[p] = "idle",
           \A q \in Procs \ {p} : pc'[q] = pc[q] /\ local'[q] = local[q],
           \A id \in PlaylistIds, song \in Songs :
             Copies(id, song)' <= Copies(id, song) + (IF p \in Adders(id, song) THEN 1 ELSE 0),
           \A u \in Users : \/ PlaylistsOf(u)' \subseteq PlaylistsOf(u)
                            \/ p \in Creators(u) /\ \E x : PlaylistsOf(u)' \subseteq PlaylistsOf(u) \cup {x}
    PROVE  ListInv'
<1>1. /\ \A id, song : p \notin Adders(id, song)'
      /\ \A u : p \notin Creators(u)'
  BY DEF Adders, Creators
<1>2. ASSUME NEW u \in Users
      PROVE  Cardinality(PlaylistsOf(u)') <=
                Cardinality(PlaylistsOf(u)) + (IF p \in Creators(u) THEN 1 ELSE 0)
  <2>1. IsFiniteSet(PlaylistsOf(u)) /\ Cardinality(PlaylistsOf(u)) \in Nat
    BY ListFinite
  <2>2. CASE PlaylistsOf(u)' \subseteq PlaylistsOf(u)
    <3>1. Cardinality(PlaylistsOf(u)') \in Nat /\ Cardinality(PlaylistsOf(u)') <= Cardinality(PlaylistsOf(u))
      BY <2>1, <2>2, FS_Subset, FS_CardinalityType
    <3> QED BY <2>1, <3>1
  <2>3. CASE p \in Creators(u) /\ \E x : PlaylistsOf(u)' \subseteq PlaylistsOf(u) \cup {x}
    <3>1. PICK x : PlaylistsOf(u)' \subseteq PlaylistsOf(u) \cup {x}
      BY <2>3
    <3> DEFINE S == PlaylistsOf(u) \cup {x}
    <3>2. IsFiniteSet(S) /\ Cardinality(S) \in Nat /\ Cardinality(S) <= Cardinality(PlaylistsOf(u)) + 1
      <4>1. CASE x \in PlaylistsOf(u)
        <5>1. S = PlaylistsOf(u)
          BY <4>1
        <5> HIDE DEF S
        <5> QED BY <2>1, <5>1
      <4>2. CASE x \notin PlaylistsOf(u)
        <5>1. IsFiniteSet(S) /\ Cardinality(S) = Cardinality(PlaylistsOf(u)) + 1
          BY <2>1, <4>2, FS_AddElement
        <5> HIDE DEF S
        <5> QED BY <2>1, <5>1
      <4> QED BY <4>1, <4>2
    <3>3. Cardinality(PlaylistsOf(u)') \in Nat /\ Cardinality(PlaylistsOf(u)') <= Cardinality(S)
      BY <3>1, <3>2, FS_Subset, FS_CardinalityType
    <3> HIDE DEF S
    <3> QED BY <2>1, <2>3, <3>2, <3>3
  <2> QED BY <1>2, <2>2, <2>3
<1> QED BY <1>1, <1>2, ListCounts

LEMMA ListCommandCounts ==
    ASSUME Shape, ListTyped, ListInv, NEW p \in Procs, ListCommand(p)
    PROVE  ListTyped' /\ ListInv'
<1>1. \A q \in Procs \ {p} : pc'[q] = pc[q] /\ local'[q] = local[q]
  <2>1. ListPart(p)
    BY DEF ListPart, ListCommand
  <2> QED BY <2>1, ListMoves DEF Moves
<1>2. CASE \E u \in Users : GetUserPlaylists(p, "createPlaylist", u)
  <2>1. PICK u \in Users : GetUserPlaylists(p, "createPlaylist", u)
    BY <1>2
  <2> DEFINE n == Cardinality(PlaylistsOf(u))
             l(seen) == [Fresh EXCEPT !.cmd = "createPlaylist", !.user = u, !.left = seen]
  <2>2. PICK seen \in 0..n : /\ misread' = (misread \/ seen < n)
                             /\ Goto(p, "count", l(seen))
    BY <2>1 DEF GetUserPlaylists
  <2>3. n \in Nat
    BY ListFinite
  <2>4. l(seen).user = u /\ l(seen).left = seen
    BY DEF Fresh
  <2> HIDE DEF n, l
  <2>5. pc'[p] = "count" /\ local'[p] = l(seen) /\ UNCHANGED <<playlists, generated>>
    BY <2>1, <2>2 DEF Goto, GetUserPlaylists, Shape
  <2>6. misread \in BOOLEAN /\ misread' \in BOOLEAN
    BY <2>2 DEF ListTyped, PlaylistsTypeOK
  <2>7. ListTyped'
    BY <1>1, <2>3, <2>4, <2>5, <2>6 DEF ListTyped, PlaylistsTypeOK, IsPlaylist
  <2>8. \A id, song : p \notin Adders(id, song)'
    BY <2>5 DEF Adders
  <2>9. \A v \in Users : p \in Creators(v)' => v = u /\ seen < MaxPlaylists
    BY <2>4, <2>5 DEF Creators
  <2>10. misread' \/ n < MaxPlaylists \/ \A v \in Users : p \notin Creators(v)'
    <3>1. CASE seen < n
      BY <2>2, <3>1
    <3>2. CASE ~(seen < n)
      <4>1. seen = n
        BY <2>3, <3>2
      <4> QED BY <2>9, <4>1
    <3> QED BY <3>1, <3>2
  <2> QED BY <1>1, <2>2, <2>5, <2>7, <2>8, <2>9, <2>10, ListReads DEF n
<1>3. CASE \E cmd \in {"deletePlaylist", "addSong", "removeSong"}, u \in Users, id \in PlaylistIds :
             GetPlaylist(p, cmd, u, id)
  <2>1. PICK cmd \in {"deletePlaylist", "addSong", "removeSong"}, u \in Users, id \in PlaylistIds :
               GetPlaylist(p, cmd, u, id)
    BY <1>3
  <2> DEFINE l == [Fresh EXCEPT !.cmd = cmd, !.user = u, !.id = id, !.got = playlists[id].songs]
  <2>2. l.id = id /\ l.got = playlists[id].songs
    BY DEF Fresh
  <2> HIDE DEF l
  <2>3. pc'[p] = cmd /\ local'[p] = l /\ UNCHANGED playlistVars
    BY <2>1 DEF GetPlaylist, l, Goto, Shape
  <2>4. BagToSet(playlists[id].songs) \subseteq Songs
    BY <2>1 DEF GetPlaylist, PlaylistsOf, ListTyped, PlaylistsTypeOK, IsPlaylist
  <2>5. ListTyped'
    BY <1>1, <2>2, <2>3, <2>4 DEF ListTyped, PlaylistsTypeOK, IsPlaylist, playlistVars
  <2>6. (\A i, song : p \notin Adders(i, song)') /\ \A v : p \notin Creators(v)'
    BY <2>3 DEF Adders, Creators
  <2> QED BY <1>1, <2>3, <2>5, <2>6, ListReads DEF playlistVars
<1> QED BY <1>2, <1>3 DEF ListCommand

LEMMA ListWorkCounts ==
    ASSUME Shape, ListTyped, ListInv, NEW p \in Procs, PlaylistStep(p)
    PROVE  ListTyped' /\ ListInv'
<1>1. \A q \in Procs \ {p} : pc'[q] = pc[q] /\ local'[q] = local[q]
  BY PlaylistMoves DEF Moves
<1>2. ASSUME pc'[p] = "idle", UNCHANGED <<playlists, generated>>, misread' \in BOOLEAN,
             misread => misread'
      PROVE  ListTyped' /\ ListInv'
  <2>1. ListTyped'
    BY <1>1, <1>2 DEF ListTyped, PlaylistsTypeOK, IsPlaylist
  <2>2. (\A i, song : p \notin Adders(i, song)') /\ \A v : p \notin Creators(v)'
    BY <1>2 DEF Adders, Creators
  <2> QED BY <1>1, <1>2, <2>1, <2>2, ListReads
<1>3. misread \in BOOLEAN
  BY DEF ListTyped, PlaylistsTypeOK
<1>4. CASE createPlaylistHandler(p)
  <2>1. pc[p] = "count" /\ UNCHANGED playlistVars
    BY <1>4 DEF createPlaylistHandler, At
  <2>2. \/ pc'[p] = "idle"
        \/ pc'[p] = "create" /\ local'[p] = local[p] /\ ~(local[p].left >= MaxPlaylists)
    BY <1>4, JumpMoves, ReturnMoves DEF createPlaylistHandler
  <2>3. CASE pc'[p] = "create" /\ local'[p] = local[p] /\ ~(local[p].left >= MaxPlaylists)
    <3>1. local[p].left < MaxPlaylists
      BY <2>1, <2>3, ListFinite DEF ListTyped
    <3>2. ListTyped'
      BY <1>1, <2>1, <2>3 DEF ListTyped, PlaylistsTypeOK, IsPlaylist, playlistVars
    <3>3. (\A i, song : p \notin Adders(i, song)') /\ \A v : p \in Creators(v)' => p \in Creators(v)
      BY <2>1, <2>3, <3>1 DEF Adders, Creators
    <3> QED BY <1>1, <2>1, <3>2, <3>3, ListReads DEF playlistVars
  <2> QED BY <1>2, <1>3, <2>1, <2>2, <2>3 DEF playlistVars
<1>5. CASE CreatePlaylist(p)
  <2>1. pc[p] = "create" /\ pc'[p] = "idle" /\ misread' = misread
    BY <1>5, ReturnMoves DEF CreatePlaylist, Broken, At
  <2>2. CASE UNCHANGED <<playlists, generated>>
    BY <1>2, <1>3, <2>1, <2>2
  <2>3. CASE ~UNCHANGED <<playlists, generated>>
    <3> DEFINE new == [owner |-> local[p].user, songs |-> EmptyBag]
               id == generated + 1
    <3>1. /\ generated < Cardinality(PlaylistIds) /\ generated' = generated + 1
          /\ playlists' = [playlists EXCEPT ![id] = new]
      BY <1>5, <2>3 DEF CreatePlaylist
    <3>2. generated \in Nat /\ generated <= Cardinality(PlaylistIds) /\ Cardinality(PlaylistIds) \in Nat
      BY ListFinite DEF ListTyped, PlaylistsTypeOK
    <3>3. id \in PlaylistIds /\ generated' \in 0..Cardinality(PlaylistIds)
      BY <3>1, <3>2, PlaylistAssumption
    <3>4. IsPlaylist(new) /\ new.owner = local[p].user /\ BagToSet(new.songs) = {}
      BY <2>1 DEF IsPlaylist, EmptyBag, SetToBag, BagToSet, IsABag, ListTyped
    <3> HIDE DEF new, id
    <3>5. /\ DOMAIN playlists' = PlaylistIds
          /\ \A i \in PlaylistIds : playlists'[i] = IF i = id THEN new ELSE playlists[i]
      BY <3>1 DEF ListTyped
    <3>6. ListTyped'
      BY <1>1, <2>1, <3>3, <3>4, <3>5, <1>3 DEF ListTyped, PlaylistsTypeOK
    <3>7. ASSUME NEW i \in PlaylistIds, NEW song \in Songs
          PROVE  Copies(i, song)' <= Copies(i, song) + (IF p \in Adders(i, song) THEN 1 ELSE 0)
      <4>1. Copies(i, song) \in Nat
        BY <3>7, CopiesAreCounted DEF Copies, Held, ListTyped, PlaylistsTypeOK, IsPlaylist
      <4>2. Copies(i, song)' = IF i = id THEN 0 ELSE Copies(i, song)
        BY <3>4, <3>5 DEF Copies, BagIn
      <4> HIDE DEF Copies, Adders
      <4> QED BY <4>1, <4>2
    <3>8. ASSUME NEW u \in Users
          PROVE  \/ PlaylistsOf(u)' \subseteq PlaylistsOf(u)
                 \/ p \in Creators(u) /\ \E x : PlaylistsOf(u)' \subseteq PlaylistsOf(u) \cup {x}
      <4>1. PlaylistsOf(u)' \subseteq PlaylistsOf(u) \cup (IF u = local[p].user THEN {id} ELSE {})
        BY <3>4, <3>5 DEF PlaylistsOf
      <4>2. CASE u = local[p].user
        <5>1. p \in Creators(u)
          BY <2>1, <4>2 DEF Creators
        <5> QED BY <4>1, <4>2, <5>1
      <4> QED BY <4>1, <4>2
    <3> QED BY <1>1, <2>1, <3>6, <3>7, <3>8, ListWrites
  <2> QED BY <2>2, <2>3
<1>6. CASE deletePlaylistHandler(p)
  <2>1. pc[p] = "deletePlaylist" /\ pc'[p] = "idle" /\ UNCHANGED <<generated, misread>>
    BY <1>6, ReturnMoves DEF deletePlaylistHandler, Broken, At
  <2>2. CASE playlists' = playlists
    BY <1>2, <1>3, <2>1, <2>2
  <2>3. CASE playlists' # playlists
    <3>1. playlists' = [playlists EXCEPT ![local[p].id] = None]
      BY <1>6, <2>3 DEF deletePlaylistHandler
    <3>2. /\ DOMAIN playlists' = PlaylistIds
          /\ \A i \in PlaylistIds : playlists'[i] \in {None, playlists[i]}
      BY <3>1 DEF ListTyped
    <3>3. ListTyped'
      BY <1>1, <2>1, <3>2 DEF ListTyped, PlaylistsTypeOK
    <3>4. ASSUME NEW i \in PlaylistIds, NEW song \in Songs
          PROVE  Copies(i, song)' <= Copies(i, song) + (IF p \in Adders(i, song) THEN 1 ELSE 0)
      <4>1. Copies(i, song) \in Nat
        BY <3>4, CopiesAreCounted DEF Copies, Held, ListTyped, PlaylistsTypeOK, IsPlaylist
      <4>2. Copies(i, song)' \in {0, Copies(i, song)}
        BY <3>2 DEF Copies
      <4> HIDE DEF Copies, Adders
      <4> QED BY <4>1, <4>2
    <3>5. \A u : PlaylistsOf(u)' \subseteq PlaylistsOf(u)
      BY <3>2 DEF PlaylistsOf
    <3> QED BY <1>1, <2>1, <3>3, <3>4, <3>5, ListWrites
  <2> QED BY <2>2, <2>3
<1>7. CASE addToPlaylistHandler(p) \/ removeFromPlaylistHandler(p)
  <2>1. pc[p] \in {"addSong", "removeSong"} /\ UNCHANGED playlistVars
    BY <1>7 DEF addToPlaylistHandler, removeFromPlaylistHandler, At
  <2>2. CASE pc'[p] = "idle"
    BY <1>2, <1>3, <2>1, <2>2 DEF playlistVars
  <2>3. CASE pc'[p] # "idle"
    <3>1. PICK song \in Songs : Goto(p, "songExists", [local[p] EXCEPT !.value = song])
      BY <1>7, <2>3, ReturnMoves DEF addToPlaylistHandler, removeFromPlaylistHandler, ListTyped, At
    <3>2. pc'[p] = "songExists" /\ local'[p].value = song /\ local'[p].id = local[p].id
      BY <3>1 DEF Goto, Shape, Fresh
    <3>3. ListTyped'
      BY <1>1, <2>1, <3>2 DEF ListTyped, PlaylistsTypeOK, IsPlaylist, playlistVars
    <3>4. (\A i, s : p \notin Adders(i, s)') /\ \A v : p \notin Creators(v)'
      BY <3>2 DEF Adders, Creators
    <3> QED BY <1>1, <2>1, <3>3, <3>4, ListReads DEF playlistVars
  <2> QED BY <2>2, <2>3
<1>8. CASE songExists(p)
  <2> DEFINE there == Copies(local[p].id, local[p].value) > 0
  <2>1. pc[p] = "songExists" /\ UNCHANGED <<playlists, generated>>
    BY <1>8 DEF songExists, At
  <2>2. PICK answer \in {there, FALSE} :
               /\ misread' = (misread \/ answer # there)
               /\ IF answer = (local[p].cmd = "removeSong") THEN Jump(p, "changeSongs") ELSE Return(p)
    BY <1>8 DEF songExists
  <2>3. misread' \in BOOLEAN /\ (misread => misread')
    BY <1>3, <2>2
  <2>4. CASE Return(p)
    BY <1>2, <2>1, <2>3, <2>4, ReturnMoves
  <2>5. CASE Jump(p, "changeSongs") /\ answer = (local[p].cmd = "removeSong")
    <3>1. pc'[p] = "changeSongs" /\ local'[p] = local[p]
      BY <2>5, JumpMoves
    <3>2. ListTyped'
      BY <1>1, <2>1, <2>3, <3>1 DEF ListTyped, PlaylistsTypeOK, IsPlaylist
    <3>3. ASSUME NEW id \in PlaylistIds, NEW song \in Songs, p \in Adders(id, song)', ~misread'
          PROVE  Copies(id, song) = 0
      <4>1. local[p].id = id /\ local[p].value = song /\ local[p].cmd = "addSong"
        BY <3>1, <3>3 DEF Adders
      <4>2. Copies(id, song) \in Nat
        BY <3>3, CopiesAreCounted DEF Copies, Held, ListTyped, PlaylistsTypeOK, IsPlaylist
      <4>3. ~(Copies(id, song) > 0)
        BY <2>2, <2>5, <3>3, <4>1
      <4> HIDE DEF Copies
      <4> QED BY <4>2, <4>3
    <3>4. \A v : p \notin Creators(v)'
      BY <3>1 DEF Creators
    <3> QED BY <1>1, <2>1, <2>3, <3>2, <3>3, <3>4, ListReads
  <2> QED BY <2>2, <2>4, <2>5
<1>9. CASE AddSongToPlaylist(p) \/ RemoveSongFromPlaylist(p)
  <2> DEFINE id == local[p].id
             song == local[p].value
             old == playlists[id].songs
  <2>1. pc[p] = "changeSongs" /\ pc'[p] = "idle" /\ UNCHANGED <<generated, misread>>
    BY <1>9, ReturnMoves DEF AddSongToPlaylist, RemoveSongFromPlaylist, ChangeSongs, Broken, At
  <2>2. CASE playlists' = playlists
    BY <1>2, <1>3, <2>1, <2>2
  <2>3. CASE playlists' # playlists
    <3>1. /\ playlists[id] # None /\ id \in PlaylistIds /\ song \in Songs
          /\ DOMAIN playlists[id] = {"owner", "songs"} /\ playlists[id].owner \in Users
          /\ IsABag(old) /\ BagToSet(old) \subseteq Songs
      BY <1>9, <2>1, <2>3 DEF AddSongToPlaylist, RemoveSongFromPlaylist, ChangeSongs, ListTyped,
           PlaylistsTypeOK, IsPlaylist
    <3>2. PICK new :
            /\ playlists' = [playlists EXCEPT ![id].songs = new]
            /\ IsABag(new) /\ BagToSet(new) \subseteq Songs
            /\ \A s : Held(s, new) <=
                        Held(s, old) + (IF s = song /\ local[p].cmd = "addSong" THEN 1 ELSE 0)
      <4>1. \A s : Held(s, old) \in Nat
        BY <3>1, CopiesAreCounted
      <4>2. CASE AddSongToPlaylist(p)
        <5>1. playlists' = [playlists EXCEPT ![id].songs = BagAdd(old, song)]
              /\ local[p].cmd = "addSong"
          BY <2>3, <4>2 DEF AddSongToPlaylist, ChangeSongs
        <5>2. /\ IsABag(BagAdd(old, song)) /\ BagToSet(BagAdd(old, song)) \subseteq Songs
              /\ \A s : Held(s, BagAdd(old, song)) = Held(s, old) + (IF s = song THEN 1 ELSE 0)
          BY <3>1, AddedCopies
        <5> HIDE DEF old, id, song
        <5>3. \A s : Held(s, BagAdd(old, song)) <=
                       Held(s, old) + (IF s = song /\ local[p].cmd = "addSong" THEN 1 ELSE 0)
          BY <4>1, <5>1, <5>2
        <5> QED BY <5>1, <5>2, <5>3
      <4>3. CASE RemoveSongFromPlaylist(p)
        <5>1. playlists' = [playlists EXCEPT ![id].songs = BagRemoveAll(old, song)]
          BY <2>3, <4>3 DEF RemoveSongFromPlaylist, ChangeSongs
        <5>2. /\ IsABag(BagRemoveAll(old, song)) /\ BagToSet(BagRemoveAll(old, song)) \subseteq Songs
              /\ \A s : Held(s, BagRemoveAll(old, song)) <= Held(s, old)
          BY <3>1, RemovedCopies
        <5>3. \A s : Held(s, BagRemoveAll(old, song)) \in Nat
          BY <5>2, CopiesAreCounted
        <5> HIDE DEF old, id, song
        <5>4. \A s : Held(s, BagRemoveAll(old, song)) <=
                       Held(s, old) + (IF s = song /\ local[p].cmd = "addSong" THEN 1 ELSE 0)
          BY <4>1, <5>2, <5>3
        <5> QED BY <5>1, <5>2, <5>4
      <4> QED BY <1>9, <4>2, <4>3
    <3>3. /\ DOMAIN playlists' = PlaylistIds
          /\ \A i \in PlaylistIds \ {id} : playlists'[i] = playlists[i]
          /\ DOMAIN playlists'[id] = {"owner", "songs"} /\ playlists'[id].owner = playlists[id].owner
          /\ playlists'[id].songs = new
      BY <3>1, <3>2 DEF ListTyped
    <3>4. IsPlaylist(playlists'[id])
      BY <3>1, <3>2, <3>3 DEF IsPlaylist
    <3>5. ListTyped'
      BY <1>1, <1>3, <2>1, <3>1, <3>3, <3>4 DEF ListTyped, PlaylistsTypeOK
    <3>6. ASSUME NEW i \in PlaylistIds, NEW s \in Songs
          PROVE  Copies(i, s)' <= Copies(i, s) + (IF p \in Adders(i, s) THEN 1 ELSE 0)
      <4>1. Copies(i, s) \in Nat
        BY <3>6, CopiesAreCounted DEF Copies, Held, ListTyped, PlaylistsTypeOK, IsPlaylist
      <4>2. CASE i # id
        <5>1. Copies(i, s)' = Copies(i, s)
          BY <3>3, <4>2 DEF Copies
        <5> HIDE DEF Copies, Adders
        <5> QED BY <4>1, <5>1
      <4>3. CASE i = id
        <5>1. /\ Copies(i, s)' \in {0, Held(s, new)}
              /\ Copies(i, s) = Held(s, old)
          BY <3>1, <3>3, <4>3 DEF Copies, Held
        <5>2. Held(s, new) <= Held(s, old) + (IF s = song /\ local[p].cmd = "addSong" THEN 1 ELSE 0)
          BY <3>2
        <5>3. s = song /\ local[p].cmd = "addSong" => p \in Adders(i, s)
          BY <2>1, <4>3 DEF Adders
        <5>4. Held(s, new) \in Nat
          BY <3>2, CopiesAreCounted
        <5> HIDE DEF Copies, Adders, Held, old, song, id
        <5> QED BY <4>1, <5>1, <5>2, <5>3, <5>4
      <4> QED BY <4>2, <4>3
    <3>7. \A u : PlaylistsOf(u)' \subseteq PlaylistsOf(u)
      BY <3>1, <3>3 DEF PlaylistsOf
    <3> HIDE DEF id, song, old
    <3> QED BY <1>1, <2>1, <3>5, <3>6, <3>7, ListWrites
  <2> QED BY <2>2, <2>3
<1> QED BY <1>4, <1>5, <1>6, <1>7, <1>8, <1>9 DEF PlaylistStep

LEMMA ListStep == Shape /\ ListTyped /\ ListInv /\ [Next]_vars => ListTyped' /\ ListInv'
<1> SUFFICES ASSUME Shape, ListTyped, ListInv, [Next]_vars PROVE ListTyped' /\ ListInv'
  OBVIOUS
<1>1. CASE UNCHANGED <<goVars, playlistVars>>
  BY <1>1, ListsElsewhere DEF goVars
<1>2. CASE UNCHANGED vars
  BY <1>1, <1>2 DEF vars
<1>3. CASE Event
  BY <1>1, <1>3, EventStays
<1>4. ASSUME NEW p \in Procs, ChatPart(p) \/ SendPart(p) \/ ArchivePart(p) \/ FilePart(p)
      PROVE  ListTyped' /\ ListInv'
  <2>1. UNCHANGED playlistVars
    BY <1>4 DEF ChatPart, SendPart, ArchivePart, FilePart
  <2>2. /\ \A q \in Procs \ {p} : pc'[q] = pc[q] /\ local'[q] = local[q]
        /\ pc'[p] \notin ListLabels
    <3>1. CASE ChatPart(p)
      BY <3>1, ChatMoves DEF Moves, ChatLabels, AdminLabels, DocumentLabels, GateLabels, Thens, Uses,
                             ListLabels
    <3>2. CASE SendPart(p)
      BY <3>2, SendMoves DEF Moves, SendLabels, ListLabels
    <3>3. CASE ArchivePart(p)
      BY <3>3, ArchiveMoves DEF Moves, ArchiveLabels, ListLabels
    <3>4. CASE FilePart(p)
      BY <3>4, FileMoves DEF Moves, FileLabels, ListLabels
    <3> QED BY <1>4, <3>1, <3>2, <3>3, <3>4
  <2>3. \A q \in Procs : pc'[q] \in ListLabels => pc[q] = pc'[q] /\ local'[q] = local[q]
    BY <2>2
  <2> QED BY <2>1, <2>3, ListsElsewhere
<1>5. ASSUME NEW p \in Procs, ListPart(p)
      PROVE  ListTyped' /\ ListInv'
  BY <1>5, ListCommandCounts, ListWorkCounts DEF ListPart
<1> QED BY <1>2, <1>3, <1>4, <1>5, StepParts

LEMMA ListInit == Init => ListTyped /\ ListInv
<1> SUFFICES ASSUME Init PROVE ListTyped /\ ListInv
  OBVIOUS
<1> DEFINE first == [owner |-> CHOOSE u \in Users : TRUE, songs |-> EmptyBag]
           given == 1..(MaxPlaylists - 1)
<1>1. \A p \in Procs : pc[p] = "idle"
  BY DEF Init, HandlersInit
<1>2. playlists = [id \in PlaylistIds |-> IF id < MaxPlaylists THEN first ELSE None]
      /\ generated = MaxPlaylists - 1 /\ misread = FALSE
  BY DEF Init, PlaylistsInit
<1>3. MaxPlaylists \in Nat /\ MaxPlaylists > 0 /\ Cardinality(PlaylistIds) \in Nat
      /\ PlaylistIds \subseteq Int /\ MaxPlaylists <= Cardinality(PlaylistIds) + 1
      /\ \A id \in PlaylistIds : id >= 1
  BY ListFinite, PlaylistAssumption
<1>4. IsPlaylist(first) /\ BagToSet(first.songs) = {}
  <2>1. (CHOOSE u \in Users : TRUE) \in Users
    BY StoreAssumption
  <2> QED BY <2>1 DEF IsPlaylist, EmptyBag, SetToBag, BagToSet, IsABag
<1> HIDE DEF first
<1>5. ListTyped
  <2>1. DOMAIN playlists = PlaylistIds /\ \A id \in PlaylistIds : playlists[id] \in {first, None}
    BY <1>2
  <2>2. generated \in 0..Cardinality(PlaylistIds) /\ misread \in BOOLEAN
    <3> DEFINE n == Cardinality(PlaylistIds)
    <3>1. MaxPlaylists \in Nat /\ MaxPlaylists > 0 /\ n \in Nat /\ MaxPlaylists <= n + 1
      BY <1>3
    <3> HIDE DEF n
    <3>2. MaxPlaylists - 1 \in 0..n
      BY <3>1
    <3> QED BY <1>2, <3>2 DEF n
  <2> QED BY <1>1, <1>4, <2>1, <2>2 DEF ListTyped, PlaylistsTypeOK
<1>6. \A id, song : Adders(id, song) = {} /\ \A u : Creators(u) = {}
  BY <1>1 DEF Adders, Creators
<1>7. \A id \in PlaylistIds : \A song : Copies(id, song) = 0
  BY <1>2, <1>4 DEF Copies, BagIn
<1>8. \A u : IsFiniteSet(PlaylistsOf(u)) /\ Cardinality(PlaylistsOf(u)) <= MaxPlaylists - 1
  <2> SUFFICES ASSUME NEW u
               PROVE  IsFiniteSet(PlaylistsOf(u)) /\ Cardinality(PlaylistsOf(u)) <= MaxPlaylists - 1
    OBVIOUS
  <2>1. PlaylistsOf(u) \subseteq given
    <3>1. \A id \in PlaylistsOf(u) : id \in PlaylistIds /\ id < MaxPlaylists
      BY <1>2 DEF PlaylistsOf
    <3>2. \A id \in PlaylistIds : id \in Int /\ id >= 1
      BY <1>3
    <3>3. MaxPlaylists \in Int
      BY <1>3
    <3>4. \A id \in Int : id >= 1 /\ id < MaxPlaylists => id \in 1..(MaxPlaylists - 1)
      BY <3>3
    <3> QED BY <3>1, <3>2, <3>4
  <2>2. IsFiniteSet(given) /\ Cardinality(given) = MaxPlaylists - 1
    <3>1. 1 \in Int /\ MaxPlaylists - 1 \in Int /\ MaxPlaylists - 1 >= 0
      BY <1>3
    <3> DEFINE m == MaxPlaylists - 1
    <3>2. m \in Int /\ m >= 0 /\ given = 1..m
      BY <3>1
    <3> HIDE DEF m
    <3>3. IsFiniteSet(1..m) /\ Cardinality(1..m) = IF 1 > m THEN 0 ELSE m - 1 + 1
      BY <3>2, FS_Interval
    <3>4. Cardinality(1..m) = m
      BY <3>2, <3>3
    <3> QED BY <3>2, <3>3, <3>4 DEF m
  <2> HIDE DEF given
  <2> QED BY <2>1, <2>2, FS_Subset
<1>9. Cardinality({}) = 0
  BY FS_EmptySet
<1>10. Cardinality(Procs) \in Nat /\ Cardinality(Procs) >= 0 /\ \A u : Cardinality(PlaylistsOf(u)) \in Nat
  BY ListFinite
<1> HIDE DEF given
<1>11. ASSUME NEW id \in PlaylistIds, NEW song \in Songs
       PROVE  Copies(id, song) + Cardinality(Adders(id, song)) <= Cardinality(Procs)
  BY <1>6, <1>7, <1>9, <1>10
<1>12. ASSUME NEW u \in Users
       PROVE  Cardinality(PlaylistsOf(u)) + Cardinality(Creators(u)) < MaxPlaylists + Cardinality(Procs)
  <2>1. Cardinality(Creators(u)) = 0
    BY <1>6, <1>9
  <2> QED BY <1>3, <1>8, <1>10, <2>1
<1> QED BY <1>5, <1>11, <1>12 DEF ListInv

\* PlaylistsBounded: unless an error was taken for an answer, no playlist holds
\* a song more often than there are goroutines, and no user has more playlists
\* than the limit allows but for one by each further goroutine: the test and the
\* write of a command are apart, and nothing else exceeds the limits
\* (core/db/playlist.go, handlers/playlist.go).
THEOREM PlaylistsStayBounded == Spec => []PlaylistsBounded
<1>1. ASSUME ListTyped, ListInv PROVE PlaylistsBounded
  <2>1. ASSUME NEW id \in PlaylistIds, NEW song \in Songs,
               Copies(id, song) + Cardinality(Adders(id, song)) <= Cardinality(Procs)
        PROVE  Copies(id, song) <= Cardinality(Procs)
    <3>1. Copies(id, song) \in Nat
      BY <1>1, CopiesAreCounted DEF Copies, Held, ListTyped, PlaylistsTypeOK, IsPlaylist
    <3> QED BY <2>1, <3>1, ListFinite
  <2>2. ASSUME NEW u \in Users,
               Cardinality(PlaylistsOf(u)) + Cardinality(Creators(u)) < MaxPlaylists + Cardinality(Procs)
        PROVE  Cardinality(PlaylistsOf(u)) < MaxPlaylists + Cardinality(Procs)
    BY <2>2, ListFinite
  <2> QED BY <1>1, <2>1, <2>2 DEF ListInv, PlaylistsBounded
<1> QED BY <1>1, ListInit, ListStep, ShapeAlways, PTL DEF Spec

-----------------------------------------------------------------------------
\* Permissions.  Unless a role change met a stored list, the cached list and the
\* lists about to be cached have the present role of every user.
MembersInv ==
    "members" \in outdated \/ \A u \in Users :
        /\ adminCache # None => adminCache[u] = roles[u]
        /\ \A q \in Procs : Storing(q) => local[q].list[u] = roles[u]

\* A step that stores no list.
LEMMA MembersQuiet ==
    ASSUME MembersInv, NEW p \in Procs,
           \A q \in Procs \ {p} : pc'[q] = pc[q] /\ local'[q] = local[q],
           pc'[p] \notin {"keepAdmins", "noteWrite"},
           UNCHANGED <<roles, adminCache>>, "members" \in outdated => "members" \in outdated'
    PROVE  MembersInv'
BY DEF MembersInv, Storing

LEMMA MembersVanish ==
    ASSUME MembersInv, NEW p, ListVanishes(p), UNCHANGED roles,
           \A q \in Procs \ {p} : pc'[q] = pc[q] /\ local'[q] = local[q],
           p \in Procs => pc'[p] \notin {"keepAdmins", "noteWrite"}
    PROVE  MembersInv'
<1>1. \A q \in Procs : Storing(q)' => q # p /\ Storing(q)
  BY DEF Storing
<1> QED BY <1>1 DEF MembersInv, ListVanishes

LEMMA MembersWork ==
    ASSUME Shape, BotInv, MembersInv, NEW p \in Procs, AdminStep(p)
    PROVE  MembersInv'
<1>1. /\ \A q \in Procs \ {p} : pc'[q] = pc[q] /\ local'[q] = local[q]
      /\ local[p].use \in Uses /\ DOMAIN local[p] = DOMAIN Fresh
  BY AdminMoves DEF Moves, Shape
<1>2. CASE GetAdmins(p)
  <2>1. pc'[p] \in Uses \cup {"fetch"}
    BY <1>1, <1>2 DEF GetAdmins, Jump, Goto, Shape
  <2> QED BY <1>1, <1>2, <2>1, MembersQuiet DEF GetAdmins, adminVars, docVars, Uses
<1>3. CASE FetchAdmins(p)
  <2>1. UNCHANGED <<outdated, roles, adminCache>>
    BY <1>3 DEF FetchAdmins, docVars, adminVars
  <2>2. pc'[p] \in Uses \/ (pc'[p] = "keepAdmins" /\ local'[p].list = roles)
    BY <1>1, <1>3 DEF FetchAdmins, Goto, Shape, Fresh
  <2>3. \A q \in Procs \ {p} : Storing(q)' => Storing(q)
    BY <1>1 DEF Storing
  <2>4. CASE pc'[p] \in Uses
    BY <1>1, <2>1, <2>4, MembersQuiet DEF Uses
  <2>5. CASE pc'[p] = "keepAdmins" /\ local'[p].list = roles
    BY <1>1, <2>1, <2>3, <2>5 DEF MembersInv
  <2> QED BY <2>2, <2>4, <2>5
<1>4. CASE KeepAdmins(p)
  <2>1. Storing(p) /\ adminCache' = local[p].list /\ UNCHANGED <<outdated, roles>>
    BY <1>4 DEF KeepAdmins, At, docVars, Storing
  <2>2. pc'[p] \in Uses
    BY <1>1, <1>4, JumpMoves DEF KeepAdmins
  <2>3. \A q \in Procs : Storing(q)' => q # p /\ Storing(q)
    BY <1>1, <2>2 DEF Storing, Uses
  <2> QED BY <1>1, <2>1, <2>3 DEF MembersInv
<1>5. CASE ReloadAllowed(p) \/ ReloadMark(p)
  <2>1. pc'[p] \in {"reloadMark", "clearAdmins", "idle"}
    BY <1>1, <1>5 DEF ReloadAllowed, ReloadMark, Return, Jump, Goto, Shape
  <2> QED BY <1>1, <1>5, <2>1, MembersQuiet DEF ReloadAllowed, ReloadMark, adminVars, docVars
<1>6. CASE ClearAdminCache(p)
  <2>1. pc'[p] = "admins"
    BY <1>6 DEF ClearAdminCache, Admins, Goto, Shape
  <2> QED BY <1>1, <1>6, <2>1, MembersVanish DEF ClearAdminCache
<1>7. CASE NoteRead(p)
  <2>1. UNCHANGED <<outdated, roles, adminCache>>
    BY <1>7 DEF NoteRead, docVars, adminVars
  <2>2. \/ pc'[p] = "idle"
        \/ pc'[p] = "noteWrite" /\ adminCache # None /\ local'[p].list = adminCache
    BY <1>1, <1>7 DEF NoteRead, Return, Jump, Goto, Shape, Fresh
  <2>3. \A q \in Procs \ {p} : Storing(q)' => Storing(q)
    BY <1>1 DEF Storing
  <2>4. CASE pc'[p] = "idle"
    BY <1>1, <2>1, <2>4, MembersQuiet
  <2>5. CASE pc'[p] = "noteWrite" /\ adminCache # None /\ local'[p].list = adminCache
    BY <1>1, <2>1, <2>3, <2>5 DEF MembersInv
  <2> QED BY <2>2, <2>4, <2>5
<1>8. CASE NoteWrite(p)
  <2>1. /\ Storing(p) /\ adminCache' = [local[p].list EXCEPT ![Bot] = local[p].value]
        /\ UNCHANGED <<outdated, roles>>
    BY <1>8 DEF NoteWrite, At, docVars, Storing
  <2>2. pc'[p] = "idle"
    BY <1>1, <1>8, ReturnMoves DEF NoteWrite
  <2>3. \A q \in Procs : Storing(q)' => q # p /\ Storing(q)
    BY <1>1, <2>2 DEF Storing
  <2>4. \A u \in Users : adminCache'[u] = local[p].list[u]
    BY <2>1, StoreAssumption DEF BotInv, Members
  <2> QED BY <1>1, <2>1, <2>3, <2>4 DEF MembersInv
<1> QED BY <1>2, <1>3, <1>4, <1>5, <1>6, <1>7, <1>8
        DEF AdminStep, reloadAdminCacheHandler, UpdateAdminCache

LEMMA MembersEvent ==
    ASSUME BotInv, MembersInv, Event
    PROVE  MembersInv'
<1>1. UNCHANGED <<pc, local>>
  BY EventStays DEF goVars
<1>2. ASSUME UNCHANGED <<roles, adminCache>>, "members" \in outdated => "members" \in outdated'
      PROVE  MembersInv'
  BY <1>1, <1>2 DEF MembersInv, Storing
<1>3. ASSUME NEW m \in Members, RoleChanges(m)
      PROVE  MembersInv'
  <2>1. PICK r \in Roles : roles' = [roles EXCEPT ![m] = r]
    BY <1>3 DEF RoleChanges
  <2>2. adminCache' = adminCache /\ ("members" \in outdated => "members" \in outdated')
    BY <1>3 DEF RoleChanges
  <2>3. \A u \in Users : u # m => roles'[u] = roles[u]
    BY <2>1 DEF BotInv, Members
  <2>4. CASE m = Bot
    <3>1. \A u \in Users : roles'[u] = roles[u]
      BY <2>3, <2>4, StoreAssumption
    <3> QED BY <1>1, <2>2, <3>1 DEF MembersInv, Storing
  <2>5. CASE m # Bot
    <3>1. "members" \in outdated' \/ (adminCache = None /\ \A q \in Procs : ~Storing(q))
      BY <1>3, <2>5 DEF RoleChanges
    <3> QED BY <1>1, <2>2, <3>1 DEF MembersInv, Storing
  <2> QED BY <2>4, <2>5
<1>4. CASE AdminsExpire
  BY <1>1, <1>4, MembersVanish, HandlersAssumption DEF AdminsExpire
<1>5. CASE CoolingExpires
  BY <1>2, <1>5 DEF CoolingExpires, docVars
<1>6. ASSUME NEW d \in Docs, EntryExpires(d), UNCHANGED adminVars
      PROVE  MembersInv'
  BY <1>2, <1>6 DEF EntryExpires, Vanishes, adminVars, Docs
<1>7. ASSUME NEW role, DropBotRole(role)
      PROVE  MembersInv'
  BY <1>2, <1>7 DEF DropBotRole
<1> QED BY <1>3, <1>4, <1>5, <1>6, <1>7 DEF Event

LEMMA MembersStep == Shape /\ DocInv /\ BotInv /\ MembersInv /\ [Next]_vars => MembersInv'
<1> SUFFICES ASSUME Shape, DocInv, BotInv, MembersInv, [Next]_vars PROVE MembersInv'
  OBVIOUS
<1>1. CASE UNCHANGED vars
  BY <1>1 DEF vars, goVars, docVars, adminVars, MembersInv, Storing
<1>2. ASSUME NEW p \in Procs, RolesStay(p) PROVE MembersInv'
  <2>1. pc[p] # "noteWrite" /\ pc'[p] \notin {"keepAdmins", "noteWrite"}
    BY <1>2 DEF RolesStay
  <2> QED BY <1>2, <2>1, MembersQuiet DEF RolesStay
<1>3. ASSUME NEW p \in Procs, UpdateArrives(p) PROVE MembersInv'
  <2>1. PICK role \in Roles : HandleBotRole(p, role)
    BY <1>3 DEF UpdateArrives
  <2>2. /\ \A q \in Procs \ {p} : pc'[q] = pc[q] /\ local'[q] = local[q]
        /\ pc'[p] = "note" /\ UNCHANGED <<docVars, roles, adminCache>>
    BY <2>1 DEF HandleBotRole, Goto, Shape
  <2> QED BY <2>2, MembersQuiet DEF docVars
<1> QED BY <1>1, <1>2, <1>3, RolesElsewhere, MembersWork, MembersEvent, StepParts

LEMMA MembersInit == Init => MembersInv
<1> SUFFICES ASSUME Init PROVE MembersInv
  OBVIOUS
<1>1. adminCache \in {None, roles} /\ \A q \in Procs : pc[q] = "idle"
  BY DEF Init, HandlersInit
<1> QED BY <1>1 DEF MembersInv, Storing

-----------------------------------------------------------------------------
\* A command on its way through the checks.  Whether p is at one of the labels S,
\* or reads a document or the admin list to go on at one.
Reads == {"lookup", "find", "fill"}
Asks == {"admins", "fetch", "keepAdmins"}
Writers == {"setField", "addAuth", "removeAuth", "drop", "setLogger", "put", "addChat", "addUser"}
Gates == {"playGate", "playAdmins", "adminGate", "authGate"}

Toward(p, S) ==
    \/ pc[p] \in S
    \/ pc[p] \in Reads /\ local[p].then \in S
    \/ pc[p] \in Asks /\ local[p].use \in S

\* What the local variables are at each check.
GateShape(p) ==
    /\ Toward(p, {"botGate"} \cup Gates) =>
         local[p].cmd \in GatedByAdmins \cup GatedByPlay /\ local[p].user \in Users
    /\ Toward(p, {"playGate"}) => local[p].cmd \in GatedByPlay
    /\ Toward(p, {"adminGate"}) => local[p].cmd \in GatedByAdmins
    /\ pc[p] \in Reads /\ local[p].then \in {"playGate", "adminGate"} => local[p].doc = "chat"
    /\ pc[p] \in Reads /\ local[p].then = "authGate" => local[p].doc = "auth"
    /\ pc[p] \in Writers => local[p].then \in {"idle", "redraw"}

\* What a command that nothing disturbs has found out.
GateTrue(p) ==
    /\ Toward(p, Gates \cup {"allowed"}) => roles[Bot] = "admin"
    /\ pc[p] = "botGate" /\ local[p].list # None => local[p].list[Bot] = roles[Bot]
    /\ pc[p] \in {"playGate", "adminGate"} =>
         local[p].got = stored["chat"] \/ (local[p].got = None /\ local[p].failed)
    /\ pc[p] = "authGate" => local[p].got \in {None, stored["auth"]}
    /\ pc[p] = "playAdmins" /\ local[p].list # None => \A m \in Members : local[p].list[m] = roles[m]
    /\ pc[p] = "allowed" =>
         Entitled(local[p].cmd, local[p].user) \/ (local[p].cmd \in GatedByPlay /\ local[p].failed)

Calm == updates = EmptyBag /\ outdated \cap {"chat", "auth", "bot", "members", "dropped"} = {}

\* Nothing has disturbed p since it began, and nothing else is at work.
Lone(p) == alone = p /\ \A q \in Procs \ {p} : pc[q] = "idle"

\* What a step of p preserves.
GateHolds(p) == GateShape(p) /\ (Lone(p) /\ Calm => GateTrue(p))

\* The labels that neither the checks nor the writes know.
LEMMA GateQuiet ==
    ASSUME NEW p \in Procs,
           \/ pc'[p] \notin Reads \cup Asks \cup Writers \cup Gates \cup {"botGate", "allowed"}
           \/ pc'[p] \in Writers /\ local'[p].then \in {"idle", "redraw"}
           \/ pc'[p] \in Reads /\ local'[p].then \notin Gates \cup {"botGate", "allowed"}
           \/ pc'[p] \in Asks /\ local'[p].use \notin Gates \cup {"botGate", "allowed"}
    PROVE  GateHolds(p)'
BY DEF GateHolds, GateShape, GateTrue, Toward, Reads, Asks, Writers, Gates

LEMMA GateReads ==
    ASSUME Shape, DocInv, NEW p \in Procs, GateHolds(p), ReadThrough(p),
           UNCHANGED <<roles, alone>>, Calm' => Calm
    PROVE  GateHolds(p)'
<1>1. /\ local[p].then \in Thens /\ DOMAIN local[p] = DOMAIN Fresh
      /\ DOMAIN pc = Procs /\ DOMAIN local = Procs
  BY DEF Shape
<1>2. pc[p] \in Reads /\ UNCHANGED stored /\ \A q \in Procs \ {p} : pc'[q] = pc[q]
  BY <1>1 DEF ReadThrough, Lookup, Find, Fill, At, Answer, Jump, Goto, docVars, Reads
<1> DEFINE d == local[p].doc
           then == local[p].then
           a(v) == [local[p] EXCEPT !.got = v]
           b == [local[p] EXCEPT !.got = None, !.failed = TRUE]
           Same(l) == l.cmd = local[p].cmd /\ l.user = local[p].user /\ l.then = then /\ l.doc = d
<1>3. /\ \A v : Same(a(v)) /\ a(v).got = v /\ a(v).failed = local[p].failed
      /\ Same(b) /\ b.got = None /\ b.failed /\ Same(local[p])
  BY <1>1 DEF Fresh
<1> HIDE DEF a, b
<1>4. ASSUME NEW label, NEW l, Goto(p, label, l)
      PROVE  pc'[p] = label /\ (label # "idle" => local'[p] = l)
  BY <1>1, <1>4 DEF Goto
<1>5. \/ pc'[p] \in {"idle", "find"} /\ (pc'[p] = "find" => local'[p] = local[p])
      \/ /\ pc'[p] = "fill" /\ local'[p] = a(stored[d])
      \/ /\ pc'[p] = then
         /\ \/ local'[p] = a(cached[d]) /\ cached[d] # None /\ pc[p] = "lookup"
            \/ local'[p] = a(None) /\ stored[d] = None
            \/ local'[p] = b
            \/ local'[p] = local[p] /\ pc[p] = "fill"
  <2>1. CASE Lookup(p)
    BY <1>4, <2>1 DEF Lookup, Answer, Jump, At, a
  <2>2. CASE Find(p)
    BY <1>4, <2>2 DEF Find, Answer, At, a, b
  <2>3. CASE Fill(p)
    BY <1>4, <2>3 DEF Fill, Jump, At
  <2> QED BY <2>1, <2>2, <2>3 DEF ReadThrough
<1>6. CASE pc'[p] = "idle"
  BY <1>6, GateQuiet DEF Reads, Asks, Writers, Gates
<1>7. CASE pc'[p] # "idle"
  <2>1. pc'[p] \in {"find", "fill", then} /\ Same(local'[p])
    BY <1>3, <1>5, <1>7
  <2>2. \A S \in SUBSET ({"botGate", "allowed"} \cup Gates) : Toward(p, S)' => Toward(p, S)
    BY <1>1, <1>2, <2>1 DEF Toward, Reads, Asks, Gates, Thens
  <2>3. GateShape(p)'
    BY <1>1, <1>2, <2>1, <2>2 DEF GateHolds, GateShape, Gates, Writers, Reads, Thens
  <2>4. ASSUME Lone(p)', Calm' PROVE GateTrue(p)'
    <3>1. Lone(p) /\ Calm /\ GateTrue(p)
      BY <1>2, <2>4 DEF Lone, GateHolds
    <3>2. ASSUME pc'[p] \in {"playGate", "adminGate", "authGate"}
          PROVE  /\ d = IF pc'[p] = "authGate" THEN "auth" ELSE "chat"
                 /\ local'[p].got = stored[d] \/ (local'[p].got = None /\ local'[p].failed)
      <4>1. pc'[p] = then /\ d = IF pc'[p] = "authGate" THEN "auth" ELSE "chat"
        BY <1>2, <2>1, <3>2 DEF GateHolds, GateShape
      <4>2. d \in Docs \ outdated /\ \A q \in Procs : pc[q] \notin {"drop", "put"}
        BY <1>2, <3>1, <4>1 DEF Docs, Calm, Lone, Reads
      <4>3. cached[d] \in {None, stored[d]} /\ (pc[p] = "fill" => local[p].got = stored[d])
        BY <4>2 DEF DocInv
      <4> QED BY <1>3, <1>5, <3>2, <4>1, <4>3
    <3> QED BY <1>1, <1>2, <2>1, <2>2, <3>1, <3>2 DEF GateTrue, Gates, Thens, Reads
  <2> QED BY <2>3, <2>4 DEF GateHolds
<1> QED BY <1>6, <1>7

LEMMA GateAdmins ==
    ASSUME Shape, BotInv, MembersInv, NEW p \in Procs, GateHolds(p),
           GetAdmins(p) \/ FetchAdmins(p) \/ KeepAdmins(p), UNCHANGED alone, Calm' => Calm
    PROVE  GateHolds(p)'
<1>1. /\ local[p].use \in Uses /\ DOMAIN local[p] = DOMAIN Fresh
      /\ DOMAIN pc = Procs /\ DOMAIN local = Procs
  BY DEF Shape
<1>2. pc[p] \in Asks /\ UNCHANGED <<stored, roles>> /\ \A q \in Procs \ {p} : pc'[q] = pc[q]
  BY <1>1 DEF GetAdmins, FetchAdmins, KeepAdmins, At, Jump, Goto, docVars, adminVars, Asks
<1> DEFINE use == local[p].use
           a(v) == [local[p] EXCEPT !.list = v]
           b == [local[p] EXCEPT !.list = None, !.failed = TRUE]
           Same(l) == l.cmd = local[p].cmd /\ l.user = local[p].user /\ l.use = use
<1>3. (\A v : Same(a(v)) /\ a(v).list = v) /\ Same(b) /\ b.list = None /\ Same(local[p])
  BY <1>1 DEF Fresh
<1> HIDE DEF a, b
<1>4. ASSUME NEW label, NEW l, Goto(p, label, l)
      PROVE  pc'[p] = label /\ (label # "idle" => local'[p] = l)
  BY <1>1, <1>4 DEF Goto
<1>5. \/ pc'[p] = "idle"
      \/ pc'[p] = "fetch" /\ local'[p] = local[p]
      \/ pc'[p] = "keepAdmins" /\ local'[p] = a(roles)
      \/ /\ pc'[p] = use
         /\ \/ local'[p] = a(adminCache) /\ adminCache # None
            \/ local'[p] = b
            \/ local'[p] = local[p] /\ pc[p] = "keepAdmins"
  <2>1. CASE GetAdmins(p)
    BY <1>4, <2>1 DEF GetAdmins, Jump, At, a
  <2>2. CASE FetchAdmins(p)
    BY <1>4, <2>2 DEF FetchAdmins, At, a, b
  <2>3. CASE KeepAdmins(p)
    BY <1>4, <2>3 DEF KeepAdmins, Jump, At
  <2> QED BY <2>1, <2>2, <2>3
<1>6. CASE pc'[p] = "idle"
  BY <1>6, GateQuiet DEF Reads, Asks, Writers, Gates
<1>7. CASE pc'[p] # "idle"
  <2>1. pc'[p] \in {"fetch", "keepAdmins", use} /\ Same(local'[p])
    BY <1>3, <1>5, <1>7
  <2>2. \A S \in SUBSET ({"botGate", "allowed"} \cup Gates) : Toward(p, S)' => Toward(p, S)
    BY <1>1, <1>2, <2>1 DEF Toward, Asks, Reads, Gates, Uses
  <2>3. GateShape(p)'
    BY <1>1, <1>2, <2>1, <2>2 DEF GateHolds, GateShape, Gates, Writers, Reads, Asks, Uses
  <2>4. ASSUME Lone(p)', Calm' PROVE GateTrue(p)'
    <3>1. Lone(p) /\ Calm /\ GateTrue(p)
      BY <1>2, <2>4 DEF Lone, GateHolds
    <3>2. ASSUME pc'[p] = use, local'[p].list # None, NEW m \in Members
          PROVE  local'[p].list[m] = roles[m]
      <4>1. \A q \in Procs : pc[q] \notin {"note", "noteWrite"}
        BY <1>2, <3>1 DEF Lone, Asks
      <4>2. \/ local'[p].list = adminCache /\ adminCache # None
            \/ local'[p].list = local[p].list /\ pc[p] = "keepAdmins"
        BY <1>3, <1>5, <1>7, <3>2, <1>1 DEF Uses
      <4>3. m = Bot => local'[p].list[m] = roles[m]
        BY <3>1, <4>1, <4>2 DEF BotInv, BotRoleFresh, Calm, At
      <4>4. m \in Users => local'[p].list[m] = roles[m]
        BY <3>1, <4>2 DEF MembersInv, Calm, Storing
      <4> QED BY <4>3, <4>4 DEF Members
    <3>3. Bot \in Members
      BY DEF Members
    <3> QED BY <1>1, <1>2, <2>1, <2>2, <3>1, <3>2, <3>3 DEF GateTrue, Gates, Uses
  <2> QED BY <2>3, <2>4 DEF GateHolds
<1> QED BY <1>6, <1>7

LEMMA GatePermissions ==
    ASSUME Shape, DocInv, BotInv, MembersInv, NEW p \in Procs, GateHolds(p), PermissionStep(p),
           UNCHANGED alone
    PROVE  GateHolds(p)'
<1>1. UNCHANGED <<docVars, adminVars>>
  BY DEF PermissionStep, checkBotAdmin, adminMode, playMode, PlayAdmins, AuthGate, Allowed,
     AuthSender, addAuthHandler, removeAuthHandler, settingsCallbackHandler
<1>2. /\ local[p].then \in Thens /\ local[p].use \in Uses /\ DOMAIN local[p] = DOMAIN Fresh
      /\ DOMAIN pc = Procs /\ DOMAIN local = Procs
  BY DEF Shape
<1>3. /\ \A q \in Procs \ {p} : pc'[q] = pc[q]
      /\ Lone(p)' = Lone(p) /\ Calm' = Calm /\ roles' = roles /\ stored' = stored
  BY <1>1, PermissionMoves DEF Moves, Lone, Calm, docVars, adminVars
<1> DEFINE a(d, then) == [local[p] EXCEPT !.doc = d, !.then = then, !.list = None]
           b(use) == [local[p] EXCEPT !.use = use, !.force = FALSE]
           c(then) == [local[p] EXCEPT !.then = then]
           Same(l) == l.cmd = local[p].cmd /\ l.user = local[p].user
<1>4. /\ \A d, then : Same(a(d, then)) /\ a(d, then).doc = d /\ a(d, then).then = then
      /\ \A use : Same(b(use)) /\ b(use).use = use
      /\ \A then : c(then).then = then
  BY <1>2 DEF Fresh
<1> HIDE DEF a, b, c
<1>5. ASSUME NEW label, NEW l, Goto(p, label, l)
      PROVE  pc'[p] = label /\ (label # "idle" => local'[p] = l)
  BY <1>2, <1>5 DEF Goto
<1>6. ASSUME NEW d, NEW then, Asking(p, d, then)
      PROVE  pc'[p] = "lookup" /\ Same(local'[p]) /\ local'[p].doc = d /\ local'[p].then = then
  <2>1. Goto(p, "lookup", a(d, then))
    BY <1>6 DEF Asking, a
  <2> QED BY <1>4, <1>5, <2>1
<1>7. ASSUME NEW use, Admins(p, use, FALSE)
      PROVE  pc'[p] = "admins" /\ Same(local'[p]) /\ local'[p].use = use
  <2>1. Goto(p, "admins", b(use))
    BY <1>7 DEF Admins, b
  <2> QED BY <1>4, <1>5, <2>1
<1>8. ASSUME NEW label, Jump(p, label)
      PROVE  pc'[p] = label /\ (label # "idle" => local'[p] = local[p])
  BY <1>5, <1>8 DEF Jump
<1>9. CASE Return(p)
  BY <1>8, <1>9, GateQuiet DEF Return, Reads, Asks, Writers, Gates
\* An administrator, by a list nothing has outrun, is entitled.
<1>10. ASSUME Lone(p), Calm, pc[p] \notin {"note", "noteWrite"}, adminCache # None, NEW u \in Users
       PROVE  adminCache[u] = roles[u]
  BY <1>10 DEF MembersInv, Calm
<1>11. ASSUME IsAuthUser(p), pc[p] \in {"adminGate", "playAdmins"}
       PROVE  GateHolds(p)'
  <2>1. Toward(p, Gates) /\ Toward(p, {"botGate"} \cup Gates) /\ Toward(p, Gates \cup {"allowed"})
    BY <1>11 DEF Toward, Gates
  <2>2. local[p].cmd \in GatedByAdmins \cup GatedByPlay /\ local[p].user \in Users
    BY <2>1 DEF GateHolds, GateShape
  <2>3. CASE local[p].user \in GetChatAdminIDs /\ Jump(p, "allowed")
    <3>1. pc'[p] = "allowed" /\ local'[p] = local[p]
      BY <1>8, <2>3
    <3>2. GateShape(p)'
      BY <3>1 DEF GateShape, Toward, Gates, Reads, Asks, Writers
    <3>3. ASSUME Lone(p), Calm PROVE GateTrue(p)'
      <4>1. roles[Bot] = "admin"
        BY <2>1, <3>3 DEF GateHolds, GateTrue
      <4>2. roles[local[p].user] # "none"
        BY <1>10, <1>11, <2>2, <2>3, <3>3 DEF GetChatAdminIDs
      <4>3. Entitled(local[p].cmd, local[p].user)'
        BY <1>3, <3>1, <4>2 DEF Entitled
      <4> QED BY <1>3, <3>1, <4>1, <4>3 DEF GateTrue
    <3> QED BY <1>3, <3>2, <3>3 DEF GateHolds
  <2>4. CASE Asking(p, "auth", "authGate")
    <3>1. pc'[p] = "lookup" /\ Same(local'[p]) /\ local'[p].doc = "auth" /\ local'[p].then = "authGate"
      BY <1>6, <2>4
    <3>2. GateShape(p)'
      BY <2>2, <3>1 DEF GateShape, Toward, Gates, Reads, Asks, Writers
    <3>3. ASSUME Lone(p), Calm PROVE GateTrue(p)'
      BY <1>3, <2>1, <3>1, <3>3 DEF GateHolds, GateTrue
    <3> QED BY <1>3, <3>2, <3>3 DEF GateHolds
  <2> QED BY <1>11, <2>3, <2>4 DEF IsAuthUser
\* A check passed by what was read.
<1>12. ASSUME Jump(p, "allowed"), pc[p] \in Gates,
              Lone(p) /\ Calm => \/ Entitled(local[p].cmd, local[p].user)
                                 \/ local[p].cmd \in GatedByPlay /\ local[p].failed
       PROVE  GateHolds(p)'
  <2>1. Toward(p, Gates \cup {"allowed"})
    BY <1>12 DEF Toward
  <2>2. pc'[p] = "allowed" /\ local'[p] = local[p]
    BY <1>8, <1>12
  <2>3. GateShape(p)'
    BY <2>2 DEF GateShape, Toward, Gates, Reads, Asks, Writers
  <2>4. ASSUME Lone(p), Calm PROVE GateTrue(p)'
    <3>1. roles[Bot] = "admin"
      BY <2>1, <2>4 DEF GateHolds, GateTrue
    <3>2. Entitled(local[p].cmd, local[p].user)' = Entitled(local[p].cmd, local[p].user)
      BY <1>3, <2>2 DEF Entitled
    <3> QED BY <1>3, <1>12, <2>2, <2>4, <3>1, <3>2 DEF GateTrue
  <2> QED BY <1>3, <2>3, <2>4 DEF GateHolds
<1>13. CASE checkBotAdmin(p) /\ ~Return(p)
  <2> DEFINE g == IF local[p].cmd \in GatedByPlay THEN "playGate" ELSE "adminGate"
  <2>1. pc[p] = "botGate" /\ local[p].list # None /\ local[p].list[Bot] = "admin" /\ Asking(p, "chat", g)
    BY <1>13 DEF checkBotAdmin, At
  <2>2. local[p].cmd \in GatedByAdmins \cup GatedByPlay /\ local[p].user \in Users
    BY <2>1 DEF GateHolds, GateShape, Toward
  <2>3. pc'[p] = "lookup" /\ Same(local'[p]) /\ local'[p].doc = "chat" /\ local'[p].then = g
    BY <1>6, <2>1
  <2>4. GateShape(p)'
    BY <2>2, <2>3 DEF GateShape, Toward, Gates, Reads, Asks, Writers
  <2>5. ASSUME Lone(p), Calm PROVE GateTrue(p)'
    <3>1. roles[Bot] = "admin"
      BY <2>1, <2>5 DEF GateHolds, GateTrue
    <3> QED BY <1>3, <2>3, <3>1 DEF GateTrue
  <2> QED BY <1>3, <2>4, <2>5 DEF GateHolds
<1>14. CASE adminMode(p)
  <2>1. pc[p] = "adminGate"
    BY <1>14 DEF adminMode, At
  <2>2. CASE EveryoneMode(local[p].got) /\ Jump(p, "allowed")
    <3>1. local[p].cmd \in GatedByAdmins
      BY <2>1 DEF GateHolds, GateShape, Toward
    <3>2. Lone(p) /\ Calm => Entitled(local[p].cmd, local[p].user)
      BY <2>1, <2>2, <3>1 DEF GateHolds, GateTrue, EveryoneMode, Entitled
    <3> QED BY <1>12, <2>1, <2>2, <3>2 DEF Gates
  <2>3. CASE IsAuthUser(p)
    BY <1>11, <2>1, <2>3
  <2> QED BY <1>14, <2>2, <2>3 DEF adminMode
<1>15. CASE playMode(p)
  <2>1. pc[p] = "playGate"
    BY <1>15 DEF playMode, At
  <2>2. local[p].cmd \in GatedByPlay
    BY <2>1 DEF GateHolds, GateShape, Toward
  <2>3. CASE ~GetPlayMode(local[p].got) /\ Jump(p, "allowed")
    <3>1. Lone(p) /\ Calm => \/ Entitled(local[p].cmd, local[p].user)
                             \/ local[p].cmd \in GatedByPlay /\ local[p].failed
      BY <2>1, <2>2, <2>3 DEF GateHolds, GateTrue, GetPlayMode, Entitled
    <3> QED BY <1>12, <2>1, <2>3, <3>1 DEF Gates
  <2>4. CASE Admins(p, "playAdmins", FALSE)
    <3>1. pc'[p] = "admins" /\ Same(local'[p]) /\ local'[p].use = "playAdmins"
      BY <1>7, <2>4
    <3>2. Toward(p, {"botGate"} \cup Gates) /\ Toward(p, Gates \cup {"allowed"})
      BY <2>1 DEF Toward, Gates
    <3>3. GateShape(p)'
      BY <3>1, <3>2 DEF GateHolds, GateShape, Toward, Gates, Reads, Asks, Writers
    <3>4. ASSUME Lone(p), Calm PROVE GateTrue(p)'
      BY <1>3, <3>1, <3>2, <3>4 DEF GateHolds, GateTrue
    <3> QED BY <1>3, <3>3, <3>4 DEF GateHolds
  <2> QED BY <1>15, <2>3, <2>4 DEF playMode
<1>16. CASE PlayAdmins(p) /\ ~Return(p)
  <2>1. /\ pc[p] = "playAdmins" /\ local[p].list # None
        /\ (Listed(p, local[p].user) /\ Jump(p, "allowed")) \/ IsAuthUser(p)
    <3> DEFINE none == local[p].list = None
               listed == Listed(p, local[p].user)
    <3>1. listed => ~none
      BY DEF Listed
    <3>2. /\ pc[p] = "playAdmins"
          /\ CASE none -> Return(p) [] listed -> Jump(p, "allowed") [] OTHER -> IsAuthUser(p)
      BY <1>16 DEF PlayAdmins, At
    <3> HIDE DEF none, listed
    <3>3. CASE none
      BY <1>16, <3>1, <3>2, <3>3
    <3>4. CASE ~none
      BY <3>1, <3>2, <3>4 DEF none, listed
    <3> QED BY <3>3, <3>4
  <2>2. local[p].user \in Users
    BY <2>1 DEF GateHolds, GateShape, Toward, Gates
  <2>3. CASE Listed(p, local[p].user) /\ Jump(p, "allowed")
    <3>1. Lone(p) /\ Calm => Entitled(local[p].cmd, local[p].user)
      BY <2>1, <2>2, <2>3 DEF GateHolds, GateTrue, Listed, Entitled, Members
    <3> QED BY <1>12, <2>1, <2>3, <3>1 DEF Gates
  <2> QED BY <1>11, <2>1, <2>3
<1>17. CASE AuthGate(p) /\ ~Return(p)
  <2>1. pc[p] = "authGate" /\ local[p].got # None /\ local[p].user \in local[p].got /\ Jump(p, "allowed")
    BY <1>17 DEF AuthGate, At
  <2>2. Lone(p) /\ Calm => Entitled(local[p].cmd, local[p].user)
    BY <2>1 DEF GateHolds, GateTrue, Entitled
  <2> QED BY <1>12, <2>1, <2>2 DEF Gates
<1>18. CASE Allowed(p) /\ ~Return(p)
  <2>1. pc'[p] = "admins" /\ local'[p].use = "authSender"
    BY <1>7, <1>18 DEF Allowed
  <2> QED BY <2>1, GateQuiet DEF Reads, Asks, Writers, Gates
<1>19. CASE AuthSender(p) /\ ~Return(p)
  <2> DEFINE l(u) == [local[p] EXCEPT !.value = u]
             e(u) == [l(u) EXCEPT !.got = {u}]
             f(u) == [l(u) EXCEPT !.doc = "auth", !.then = "authTarget"]
  <2>1. PICK u : Goto(p, "authTarget", e(u)) \/ Goto(p, "lookup", f(u))
    BY <1>19 DEF AuthSender
  <2>2. f(u).then = "authTarget"
    BY <1>2 DEF Fresh
  <2> HIDE DEF e, f
  <2>3. pc'[p] = "authTarget" \/ (pc'[p] = "lookup" /\ local'[p].then = "authTarget")
    BY <1>5, <2>1, <2>2
  <2> QED BY <2>3, GateQuiet DEF Reads, Asks, Writers, Gates
<1>20. CASE (addAuthHandler(p) \/ removeAuthHandler(p)) /\ ~Return(p)
  <2>1. pc'[p] \in {"addAuth", "removeAuth"} /\ local'[p].then = "idle"
    <3>1. Goto(p, "addAuth", c("idle")) \/ Goto(p, "removeAuth", c("idle"))
      BY <1>20 DEF addAuthHandler, removeAuthHandler, c
    <3> QED BY <1>4, <1>5, <3>1
  <2> QED BY <2>1, GateQuiet DEF Writers
<1>21. CASE settingsCallbackHandler(p) /\ ~Return(p)
  <2>1. CASE At(p, "toggle")
    <3>1. PICK on : Goto(p, "setField", [local[p] EXCEPT !.value = on, !.then = "redraw", !.left = 3])
      BY <1>21, <2>1 DEF settingsCallbackHandler, At
    <3>2. pc'[p] = "setField" /\ local'[p].then = "redraw"
      BY <1>2, <3>1 DEF Goto, Fresh
    <3> QED BY <3>2, GateQuiet DEF Writers
  <2>2. CASE ~At(p, "toggle")
    <3>1. \/ Admins(p, "rights", FALSE)
          \/ Asking(p, "chat", "toggle")
          \/ At(p, "redraw")
      BY <1>21, <2>2 DEF settingsCallbackHandler
    <3>2. CASE Admins(p, "rights", FALSE)
      <4>1. "rights" \in Uses
        BY DEF Uses
      <4>2. pc'[p] = "admins" /\ local'[p].use = "rights"
        BY <1>7, <3>2, <4>1
      <4> QED BY <4>2, GateQuiet DEF Reads, Asks, Writers, Gates
    <3>3. CASE Asking(p, "chat", "toggle")
      BY <1>6, <3>3, GateQuiet DEF Reads, Asks, Writers, Gates
    <3>4. CASE At(p, "redraw")
      <4> DEFINE m == [Fresh EXCEPT !.cmd = "settings", !.doc = "chat",
                                    !.left = local[p].left - 1,
                                    !.then = IF local[p].left = 1 THEN "idle" ELSE "redraw"]
      <4>1. Goto(p, "lookup", m)
        BY <1>21, <3>4 DEF settingsCallbackHandler, At
      <4>2. m.then \in {"idle", "redraw"}
        BY <1>2 DEF Fresh
      <4> HIDE DEF m
      <4>3. pc'[p] = "lookup" /\ local'[p].then \in {"idle", "redraw"}
        BY <1>5, <4>1, <4>2
      <4> QED BY <4>3, GateQuiet DEF Reads, Asks, Writers, Gates
    <3> QED BY <3>1, <3>2, <3>3, <3>4
  <2> QED BY <2>1, <2>2
<1> QED BY <1>9, <1>13, <1>14, <1>15, <1>16, <1>17, <1>18, <1>19, <1>20, <1>21 DEF PermissionStep

LEMMA GateDocuments ==
    ASSUME Shape, DocInv, NEW p \in Procs, GateHolds(p), DocumentStep(p), UNCHANGED adminVars,
           UNCHANGED alone
    PROVE  GateHolds(p)'
<1>1. /\ local[p].then \in Thens /\ DOMAIN local[p] = DOMAIN Fresh
      /\ DOMAIN pc = Procs /\ DOMAIN local = Procs
  BY DEF Shape
<1>2. pc[p] \in Writers => local[p].then \in {"idle", "redraw"}
  BY DEF GateHolds, GateShape
<1> DEFINE a(d) == [local[p] EXCEPT !.doc = d]
           b == [local[p] EXCEPT !.failed = TRUE]
           c == [local[p] EXCEPT !.then = "idle"]
<1>3. (\A d : a(d).then = local[p].then) /\ b.then = local[p].then /\ c.then = "idle"
  BY <1>1 DEF Fresh
<1> HIDE DEF a, b, c
<1>4. ASSUME NEW label, NEW l, Goto(p, label, l)
      PROVE  pc'[p] = label /\ (label # "idle" => local'[p] = l)
  BY <1>1, <1>4 DEF Goto
<1>5. ASSUME pc'[p] \in {"idle", "redraw", "scan", "scanPut"}
      PROVE  GateHolds(p)'
  BY <1>5, GateQuiet DEF Reads, Asks, Writers, Gates
<1>6. ASSUME NEW d, NEW v, NEW next \in {"drop", "put", "idle"}, Write(p, d, v, next), pc[p] \in Writers
      PROVE  GateHolds(p)'
  <2>1. Goto(p, next, a(d)) \/ Goto(p, local[p].then, b)
    BY <1>6 DEF Write, Fail, a, b
  <2>2. CASE Goto(p, local[p].then, b)
    BY <1>2, <1>4, <1>5, <1>6, <2>2
  <2>3. CASE Goto(p, next, a(d))
    <3>1. pc'[p] = "idle" \/ (pc'[p] \in Writers /\ local'[p].then \in {"idle", "redraw"})
      BY <1>2, <1>3, <1>4, <1>6, <2>3 DEF Writers
    <3> QED BY <1>5, <3>1, GateQuiet
  <2> QED BY <2>1, <2>2, <2>3
<1>7. CASE ReadThrough(p)
  <2>1. Calm' => Calm
    BY <1>7 DEF ReadThrough, Lookup, Find, Fill, docVars, adminVars, Calm
  <2> QED BY <1>7, <2>1, GateReads DEF adminVars
<1>8. CASE SetPlayMode(p) \/ SetAdminMode(p) \/ SetCmdDelete(p)
  BY <1>6, <1>8 DEF SetPlayMode, SetAdminMode, SetCmdDelete, SetField, At, Writers
<1>9. CASE AddAuthUser(p) \/ RemoveAuthUser(p) \/ SetLoggerStatus(p)
  BY <1>6, <1>9 DEF AddAuthUser, RemoveAuthUser, SetLoggerStatus, At, Writers
<1>10. CASE Drop(p) \/ Put(p)
  <2>1. pc[p] \in Writers /\ pc'[p] = local[p].then
    BY <1>4, <1>10 DEF Drop, Put, Jump, At, Writers
  <2> QED BY <1>2, <1>5, <2>1
<1>11. CASE LoggerRead(p)
  <2>1. pc'[p] = "setLogger" /\ local'[p].then = "idle"
    <3>1. Goto(p, "setLogger", c)
      BY <1>11 DEF LoggerRead, c
    <3> QED BY <1>3, <1>4, <3>1
  <2> QED BY <2>1, GateQuiet DEF Writers
<1>12. CASE AddChat(p)
  <2>1. CASE Return(p)
    BY <1>4, <1>5, <2>1 DEF Return, Jump
  <2>2. CASE Goto(p, "addChat", c)
    <3>1. pc'[p] = "addChat" /\ local'[p].then = "idle"
      BY <1>3, <1>4, <2>2
    <3> QED BY <3>1, GateQuiet DEF Writers
  <2>3. CASE At(p, "addChat")
    BY <1>6, <1>12, <2>3 DEF AddChat, At, Writers
  <2> QED BY <1>12, <2>1, <2>2, <2>3 DEF AddChat, c
<1>13. CASE AddUser(p)
  <2>1. pc[p] \in Writers /\ (Jump(p, local[p].then) \/ Write(p, "user", TRUE, "put"))
    BY <1>13 DEF AddUser, At, Writers
  <2>2. CASE Jump(p, local[p].then)
    BY <1>2, <1>4, <1>5, <2>1, <2>2 DEF Jump
  <2>3. CASE Write(p, "user", TRUE, "put")
    <3>1. PICK v : Write(p, "user", v, "put")
      BY <2>3, Zenon
    <3> QED BY <1>6, <2>1, <3>1
  <2> QED BY <2>1, <2>2, <2>3
<1>14. CASE ScanRead(p) \/ ScanPut(p)
  BY <1>4, <1>5, <1>14 DEF ScanRead, ScanPut
<1> QED BY <1>7, <1>8, <1>9, <1>10, <1>11, <1>12, <1>13, <1>14
        DEF DocumentStep, getChat, GetAuthUsers, GetLoggerStatus, GetAllChats, GetAllUsers

LEMMA GateLists ==
    ASSUME Shape, BotInv, MembersInv, NEW p \in Procs, GateHolds(p), AdminStep(p), UNCHANGED alone
    PROVE  GateHolds(p)'
<1>1. DOMAIN local[p] = DOMAIN Fresh /\ DOMAIN pc = Procs /\ DOMAIN local = Procs
  BY DEF Shape
<1>2. CASE GetAdmins(p) \/ FetchAdmins(p) \/ KeepAdmins(p)
  <2>1. Calm' => Calm
    BY <1>2 DEF GetAdmins, FetchAdmins, KeepAdmins, docVars, adminVars, Calm
  <2> QED BY <1>2, <2>1, GateAdmins
<1>3. CASE ReloadAllowed(p) \/ ReloadMark(p) \/ UpdateAdminCache(p)
  <2>1. pc'[p] \in {"idle", "reloadMark", "clearAdmins", "noteWrite"}
    BY <1>1, <1>3 DEF ReloadAllowed, ReloadMark, UpdateAdminCache, NoteRead, NoteWrite, Return, Jump, Goto
  <2> QED BY <2>1, GateQuiet DEF Reads, Asks, Writers, Gates
<1>4. CASE ClearAdminCache(p)
  <2>1. pc'[p] = "admins" /\ local'[p].use = "idle"
    BY <1>1, <1>4 DEF ClearAdminCache, Admins, Goto, Fresh
  <2> QED BY <2>1, GateQuiet DEF Reads, Asks, Writers, Gates
<1> QED BY <1>2, <1>3, <1>4 DEF AdminStep, reloadAdminCacheHandler

\* A handler that goes on is not idle.
LEMMA WorkIsOn ==
    ASSUME Shape, NEW p \in Procs, Work(p)
    PROVE  pc[p] # "idle"
BY DocumentMoves, AdminMoves, PermissionMoves, BroadcastMoves, BackupMoves, PlaylistMoves, DownloadMoves
   DEF Work, Moves, DocumentLabels, AdminLabels, GateLabels, SendLabels, ArchiveLabels, ListLabels,
       FileLabels

LEMMA GateBegins ==
    ASSUME Shape, NEW p \in Procs, ChatCommand(p) \/ UpdateArrives(p)
    PROVE  GateHolds(p)'
<1>1. DOMAIN pc = Procs /\ DOMAIN local = Procs
  BY DEF Shape
<1> DEFINE a(s, u) == [Fresh EXCEPT !.cmd = "settings", !.user = u, !.setting = s, !.use = "settings"]
           b(cmd, u) == [Fresh EXCEPT !.cmd = cmd, !.user = u, !.use = "botGate"]
           c(d, on, then) == [Fresh EXCEPT !.doc = d, !.value = on, !.then = then]
           e(d, then) == [Fresh EXCEPT !.doc = d, !.then = then]
           f(d, on) == [Fresh EXCEPT !.doc = d, !.value = on]
           m(l, cmd) == [l EXCEPT !.cmd = cmd]
           Like(l) == DOMAIN l = DOMAIN Fresh
<1>2. /\ \A s, u : a(s, u).use = "settings"
      /\ \A cmd, u : b(cmd, u).use = "botGate" /\ b(cmd, u).cmd = cmd /\ b(cmd, u).user = u
      /\ \A d, on, then : Like(c(d, on, then)) /\ c(d, on, then).then = then
      /\ \A d, then : Like(e(d, then)) /\ e(d, then).then = then
      /\ \A d, on : Like(f(d, on)) /\ f(d, on).then = "idle"
  BY DEF Fresh
<1>3. \A l, cmd : Like(l) => m(l, cmd).then = l.then
  BY DEF Fresh
<1> HIDE DEF a, b, c, e, f, m, Like
<1>4. ASSUME NEW label, NEW l, Goto(p, label, l)
      PROVE  pc'[p] = label /\ (label # "idle" => local'[p] = l)
  BY <1>1, <1>4 DEF Goto
<1>5. CASE \E s \in Settings, u \in Users : BeginSettings(p, s, u)
  <2>1. PICK s, u : Goto(p, "admins", a(s, u))
    BY <1>5 DEF BeginSettings, a
  <2>2. pc'[p] = "admins" /\ local'[p].use = "settings"
    BY <1>2, <1>4, <2>1
  <2> QED BY <2>2, GateQuiet DEF Reads, Asks, Writers, Gates
<1>6. CASE \E cmd \in GatedByAdmins \cup GatedByPlay, u \in Users : BeginGate(p, cmd, u)
  <2>1. PICK cmd \in GatedByAdmins \cup GatedByPlay, u \in Users : Goto(p, "admins", b(cmd, u))
    BY <1>6 DEF BeginGate, b
  <2>2. /\ pc'[p] = "admins" /\ local'[p].use = "botGate"
        /\ local'[p].cmd = cmd /\ local'[p].user = u
    BY <1>2, <1>4, <2>1
  <2> QED BY <2>2 DEF GateHolds, GateShape, GateTrue, Toward, Reads, Asks, Writers, Gates
<1>7. CASE reload(p) \/ UpdateArrives(p)
  <2>1. pc'[p] \in {"reload", "note"}
    BY <1>1, <1>7 DEF reload, Begin, UpdateArrives, HandleBotRole, Goto
  <2> QED BY <2>1, GateQuiet DEF Reads, Asks, Writers, Gates
<1>8. CASE \E d \in Chats : Begin(p, "start", "lookup", [Fresh EXCEPT !.doc = d, !.then = "chatRead"])
  <2>1. PICK d : Goto(p, "lookup", m(e(d, "chatRead"), "start"))
    BY <1>8 DEF Begin, e, m
  <2>2. pc'[p] = "lookup" /\ local'[p].then = "chatRead"
    BY <1>2, <1>3, <1>4, <2>1
  <2> QED BY <2>2, GateQuiet DEF Reads, Asks, Writers, Gates
<1>9. CASE Begin(p, "start", "addUser", [Fresh EXCEPT !.doc = "user", !.value = TRUE])
  <2>1. PICK on : Goto(p, "addUser", m(f("user", on), "start"))
    <3>1. Goto(p, "addUser", m(f("user", TRUE), "start"))
      BY <1>9 DEF Begin, f, m
    <3> QED BY <3>1, Zenon
  <2>2. pc'[p] = "addUser" /\ local'[p].then = "idle"
    BY <1>2, <1>3, <1>4, <2>1
  <2> QED BY <2>2, GateQuiet DEF Writers
<1>10. CASE loggerHandler(p)
  <2>1. PICK on : Goto(p, "lookup", m(c("logger", on, "loggerRead"), "logger"))
    BY <1>10 DEF loggerHandler, Begin, c, m
  <2>2. pc'[p] = "lookup" /\ local'[p].then = "loggerRead"
    BY <1>2, <1>3, <1>4, <2>1
  <2> QED BY <2>2, GateQuiet DEF Reads, Asks, Writers, Gates
<1> QED BY <1>5, <1>6, <1>7, <1>8, <1>9, <1>10 DEF ChatCommand, startHandler

GateInv ==
    /\ alone \in Procs \cup {None}
    /\ \A p \in Procs : (alone = p => Lone(p)) /\ GateHolds(p)

LEMMA GateStep ==
    Shape /\ DocInv /\ BotInv /\ MembersInv /\ GateInv /\ [Next]_vars => GateInv'
<1> SUFFICES ASSUME Shape, DocInv, BotInv, MembersInv, GateInv, [Next]_vars PROVE GateInv'
  OBVIOUS
<1>1. CASE UNCHANGED vars
  <2>1. UNCHANGED <<pc, local, stored, outdated, roles, updates, alone>>
    BY <1>1 DEF vars, goVars, docVars, adminVars, controlVars
  <2> QED BY <2>1 DEF GateInv, GateHolds, GateShape, GateTrue, Toward, Lone, Calm, Entitled
<1>2. CASE Event
  <2>1. UNCHANGED <<pc, local>> /\ alone' = None
    BY <1>2, EventStays DEF Event, goVars
  <2>2. \A p \in Procs : GateShape(p)' = GateShape(p)
    BY <2>1 DEF GateShape, Toward
  <2>3. \A p \in Procs : alone' # p /\ ~Lone(p)'
    BY <2>1, HandlersAssumption DEF Lone
  <2> QED BY <2>1, <2>2, <2>3 DEF GateInv, GateHolds
<1>3. ASSUME NEW p \in Procs, Command(p) \/ UpdateArrives(p) \/ Work(p)
      PROVE  GateInv'
  <2>1. ChatPart(p) \/ ListPart(p) \/ SendPart(p) \/ ArchivePart(p) \/ FilePart(p)
    BY <1>3 DEF Command, Work, ChatCommand, ListCommand, OwnerCommand, Download, UpdateArrives,
         ChatPart, ListPart, SendPart, ArchivePart, FilePart
  <2>2. \A q \in Procs \ {p} : pc'[q] = pc[q] /\ local'[q] = local[q]
    BY <2>1, ChatMoves, ListMoves, SendMoves, ArchiveMoves, FileMoves DEF Moves
  <2>3. \/ /\ alone' = p \/ alone' = None
           /\ alone' = p => Idle = Procs
        \/ Work(p) /\ alone' = alone
    BY <1>3, HandlersAssumption DEF Command, ChatCommand, ListCommand, OwnerCommand, Download, UpdateArrives, Undisturbed,
         Work, controlVars
  <2>4. alone' \in Procs \cup {None} /\ \A q \in Procs : alone' = q => Lone(q)'
    <3>1. CASE alone' = p /\ Idle = Procs
      BY <2>2, <3>1 DEF Lone, Idle, At
    <3>2. CASE alone' = None
      BY <3>2, HandlersAssumption
    <3>3. CASE Work(p) /\ alone' = alone
      <4>1. pc[p] # "idle"
        BY <3>3, WorkIsOn
      <4>2. alone \in {p, None}
        BY <4>1 DEF GateInv, Lone
      <4> QED BY <2>2, <3>3, <4>2, HandlersAssumption DEF GateInv, Lone
    <3> QED BY <2>3, <3>1, <3>2, <3>3
  <2>5. ASSUME NEW q \in Procs \ {p} PROVE GateHolds(q)'
    <3>1. GateShape(q)'
      BY <2>2 DEF GateInv, GateHolds, GateShape, Toward
    <3>2. ~Lone(q)'
      <4>1. ASSUME alone' = q PROVE FALSE
        <5>1. Work(p) /\ alone = q
          BY <2>3, <4>1, HandlersAssumption
        <5> QED BY <5>1, WorkIsOn DEF GateInv, Lone
      <4> QED BY <4>1 DEF Lone
    <3> QED BY <3>1, <3>2 DEF GateHolds
  <2>6. GateHolds(p)'
    <3>1. CASE ChatCommand(p) \/ UpdateArrives(p)
      BY <3>1, GateBegins
    <3>2. CASE DocumentStep(p) /\ UNCHANGED <<adminVars, alone>>
      BY <3>2, GateDocuments DEF GateInv
    <3>3. CASE (AdminStep(p) \/ PermissionStep(p)) /\ UNCHANGED alone
      BY <3>3, GateLists, GatePermissions DEF GateInv
    <3>4. CASE ListPart(p) \/ SendPart(p) \/ ArchivePart(p) \/ FilePart(p)
      <4>1. pc'[p] \in ListLabels \cup SendLabels \cup ArchiveLabels \cup FileLabels \cup {"scan", "idle"}
        BY <3>4, ListMoves, SendMoves, ArchiveMoves, FileMoves DEF Moves
      <4> QED BY <4>1, GateQuiet
              DEF ListLabels, SendLabels, ArchiveLabels, FileLabels, Reads, Asks, Writers, Gates
    <3>5. ASSUME Work(p), ~(ListPart(p) \/ SendPart(p) \/ ArchivePart(p) \/ FilePart(p))
          PROVE  /\ UNCHANGED alone
                 /\ (DocumentStep(p) /\ UNCHANGED adminVars) \/ AdminStep(p) \/ PermissionStep(p)
      BY <3>5 DEF Work, controlVars, ListPart, SendPart, ArchivePart, FilePart
    <3>6. ASSUME Command(p), ~(ListPart(p) \/ SendPart(p) \/ ArchivePart(p) \/ FilePart(p))
          PROVE  ChatCommand(p)
      BY <3>6 DEF Command, ListCommand, OwnerCommand, Download, ListPart, SendPart, ArchivePart, FilePart
    <3> QED BY <1>3, <3>1, <3>2, <3>3, <3>4, <3>5, <3>6
  <2> QED BY <2>4, <2>5, <2>6 DEF GateInv
<1> QED BY <1>1, <1>2, <1>3 DEF Next

LEMMA GateInit == Init => GateInv
<1> SUFFICES ASSUME Init PROVE GateInv
  OBVIOUS
<1>1. alone = None /\ \A p \in Procs : pc[p] = "idle"
  BY DEF Init, HandlersInit
<1> QED BY <1>1, HandlersAssumption
        DEF GateInv, GateHolds, GateShape, Toward, Lone, Reads, Asks, Writers, Gates

\* GateHonest: a command that runs from its beginning to its end without being
\* disturbed, with caches nothing has outrun and no update of the bot's own role
\* lost to an error of its handler, gets through only if the bot is an
\* administrator and the sender is entitled, by what is stored and by Telegram's
\* list; only /play takes a chat that cannot be read for an open one
\* (handlers/filters.go, handlers/participant.go, core/db/chats.go).
THEOREM GatesAreHonest == Spec => []GateHonest
<1>1. Init => DocInv /\ BotInv /\ MembersInv /\ GateInv
  BY DocInit, BotInit, MembersInit, GateInit
<1>2. /\ Shape /\ Shape' /\ DocInv /\ BotInv /\ MembersInv /\ GateInv /\ [Next]_vars
      => DocInv' /\ BotInv' /\ MembersInv' /\ GateInv'
  BY DocStep, BotStep, MembersStep, GateStep
<1>3. GateInv => GateHonest
  <2> SUFFICES ASSUME GateInv, NEW p \in Procs, At(p, "allowed"), alone = p, updates = EmptyBag,
                      outdated \cap {"chat", "auth", "bot", "members", "dropped"} = {}
               PROVE  /\ roles[Bot] = "admin"
                      /\ \/ Entitled(local[p].cmd, local[p].user)
                         \/ local[p].cmd \in GatedByPlay /\ local[p].failed
    BY DEF GateHonest
  <2>1. Lone(p) /\ Calm /\ GateHolds(p)
    BY DEF GateInv, Calm
  <2> QED BY <2>1 DEF GateHolds, GateTrue, Toward, At
<1> QED BY <1>1, <1>2, <1>3, ShapeAlways, PTL DEF Spec

-----------------------------------------------------------------------------
\* Types.  A document keeps its type because a goroutine holds a value of that
\* type when it comes to write or to cache one; the value may have been chosen
\* several steps before, so what is asked for on the way to a label says what
\* the goroutine will have in hand there.
Brings(then, l) ==
    /\ then = "chatRead" => l.doc \in Chats
    /\ then = "loggerRead" => l.value \in BOOLEAN
    /\ then = "authTarget" => l.value \in Users

ArchiveOK(a) ==
    /\ DOMAIN a = ArchiveFields
    /\ a.entries \subseteq Collections
    /\ \A d \in Docs : {a.docs[d], a.truth[d]} \subseteq Values(d) \cup {None}
    /\ a.whole \in BOOLEAN

\* The labels from which a write goes on as its caller wants.
WriteLabels == {"setField", "addAuth", "removeAuth", "setLogger", "addUser", "addChat", "drop", "put"}

Holds(label, l) ==
    /\ Brings(label, l)
    /\ label \in {"lookup", "find", "fill"} => l.doc \in Docs /\ Brings(l.then, l)
    /\ label \in {"fill", "scanPut"} => l.doc \in Docs /\ l.got \in Values(l.doc)
    /\ label \in {"scan", "scanPut"} => l.todo \subseteq Docs
    /\ label \in WriteLabels => l.then \in {"idle", "redraw"}
    /\ label \in {"setField", "setLogger"} => l.value \in BOOLEAN
    /\ label = "addAuth" => l.value \in Users
    /\ label = "addUser" => l.value = TRUE
    /\ label = "addChat" => l.doc \in Chats
    /\ label \in {"drop", "put"} => l.doc \in Docs
    /\ label = "put" => l.value \in Values(l.doc)
    /\ label \in ArchiveLabels => ArchiveOK(l.list) /\ l.todo \subseteq Collections
    /\ label = "insert" => l.targets \subseteq Docs

DataTyped ==
    /\ DOMAIN stored = Docs /\ DOMAIN cached = Docs
    /\ \A d \in Docs : stored[d] \in Values(d) \cup {None} /\ cached[d] \in Values(d) \cup {None}
    /\ outdated \subseteq Docs \cup {"bot", "members", "dropped"}
    /\ dirty \subseteq Procs
    /\ archive # None => ArchiveOK(archive)

TypedInv == DataTyped /\ \A p \in Procs : Holds(pc[p], local[p])

LEMMA ValuesOf ==
    /\ \A d \in Chats : Values(d) = [Settings -> BOOLEAN]
    /\ Values("auth") = SUBSET Users
    /\ Values("user") = {TRUE}
    /\ Values("logger") = BOOLEAN
    /\ Blank \in [Settings -> BOOLEAN]
BY DEF Values, Chats, Blank

\* At most labels nothing is asked of the local variables.
LEMMA HoldsAnything ==
    ASSUME NEW label, NEW l,
           label \notin {"chatRead", "loggerRead", "authTarget", "lookup", "find", "fill", "scanPut",
                         "scan"} \cup WriteLabels \cup ArchiveLabels
    PROVE  Holds(label, l)
BY DEF Holds, Brings, WriteLabels, ArchiveLabels

LEMMA TypedGoes ==
    ASSUME TypedInv, NEW p \in Procs, DataTyped',
           \A q \in Procs \ {p} : pc'[q] = pc[q] /\ local'[q] = local[q],
           Holds(pc'[p], local'[p])
    PROVE  TypedInv'
<1>1. ASSUME NEW q \in Procs PROVE Holds(pc'[q], local'[q])
  BY <1>1 DEF TypedInv
<1> QED BY <1>1 DEF TypedInv

\* The documents, the caches and the archive are as they were.
LEMMA DataStays ==
    ASSUME TypedInv, UNCHANGED <<stored, cached, archive>>, dirty' \subseteq Procs,
           outdated' \subseteq outdated
    PROVE  DataTyped'
BY DEF TypedInv, DataTyped

LEMMA WriteTyped ==
    ASSUME Shape, TypedInv, UNCHANGED archive, NEW p \in Procs, NEW d \in Docs,
           NEW v \in Values(d) \cup {None}, NEW next,
           Write(p, d, v, next), local[p].then \in {"idle", "redraw"},
           next = "idle" \/ Holds(next, [local[p] EXCEPT !.doc = d])
    PROVE  TypedInv'
<1> DEFINE l == [local[p] EXCEPT !.doc = d]
<1>1. \A q \in Procs \ {p} : pc'[q] = pc[q] /\ local'[q] = local[q]
  BY WriteMoves
<1>2. DataTyped'
  <2>1. stored' = stored \/ stored' = [stored EXCEPT ![d] = v]
    BY DEF Write
  <2>2. outdated' \subseteq outdated \cup Docs
    BY DEF Write, Outrun, Remembered
  <2>3. dirty' \subseteq Procs /\ cached' = cached
    BY DEF Write, Outrun, TypedInv, DataTyped
  <2> QED BY <2>1, <2>2, <2>3 DEF TypedInv, DataTyped
<1>3. Holds(pc'[p], local'[p])
  <2>1. \A x : Holds("idle", x) /\ Holds("redraw", x)
    BY HoldsAnything DEF WriteLabels, ArchiveLabels
  <2>2. CASE Fail(p, local[p].then)
    BY <2>1, <2>2, FailMoves
  <2>3. CASE Goto(p, next, l)
    <3>1. pc'[p] = next /\ (next # "idle" => local'[p] = l)
      BY <2>3 DEF Goto, Shape
    <3> HIDE DEF l
    <3>2. next = "idle" \/ Holds(next, l)
      BY DEF l
    <3> QED BY <2>1, <3>1, <3>2
  <2> QED BY <2>2, <2>3 DEF Write
<1> QED BY <1>1, <1>2, <1>3, TypedGoes

\* Documents and caches.
LEMMA ReadTyped ==
    ASSUME Shape, TypedInv, UNCHANGED archive, NEW p \in Procs, ReadThrough(p)
    PROVE  TypedInv'
<1> USE DEF At
<1>1. DOMAIN local[p] = DOMAIN Fresh /\ local[p].then \in Thens /\ Holds(pc[p], local[p])
  BY DEF Shape, TypedInv
<1>2. pc[p] \in {"lookup", "find", "fill"}
  BY DEF ReadThrough, Lookup, Find, Fill
<1>3. local[p].doc \in Docs /\ Brings(local[p].then, local[p])
  BY <1>1, <1>2 DEF Holds
<1>4. \A q \in Procs \ {p} : pc'[q] = pc[q] /\ local'[q] = local[q]
  BY DEF ReadThrough, Lookup, Find, Fill, Answer, Jump, Goto, Shape
\* Going on at the label asked for with an answer, or none.
<1>5. ASSUME NEW l, Goto(p, local[p].then, l), l.doc = local[p].doc, l.value = local[p].value
      PROVE  Holds(pc'[p], local'[p])
  <2>1. pc'[p] = local[p].then /\ (local[p].then # "idle" => local'[p] = l)
    BY <1>5 DEF Goto, Shape
  <2>2. Brings(local[p].then, l)
    BY <1>3, <1>5 DEF Brings
  <2>3. pc'[p] \in Thens /\ (pc'[p] # "idle" => Brings(pc'[p], local'[p]))
    BY <1>1, <2>1, <2>2
  <2> QED BY <2>3 DEF Thens, Holds, Brings, WriteLabels, ArchiveLabels
<1>6. \A v : LET l == [local[p] EXCEPT !.got = v] IN
             l.doc = local[p].doc /\ l.value = local[p].value /\ l.then = local[p].then /\ l.got = v
  BY <1>1 DEF Fresh
<1>7. CASE Lookup(p)
  <2>1. DataTyped'
    BY <1>7, DataStays DEF Lookup, docVars, TypedInv, DataTyped
  <2>2. CASE Answer(p, cached[local[p].doc])
    <3>1. Holds(pc'[p], local'[p])
      BY <1>5, <1>6, <2>2 DEF Answer
    <3> QED BY <1>4, <2>1, <3>1, TypedGoes
  <2>3. CASE Jump(p, "find")
    <3>1. pc'[p] = "find" /\ local'[p] = local[p]
      BY <2>3, JumpMoves
    <3>2. Holds("find", local[p])
      BY <1>3 DEF Holds, Brings, WriteLabels, ArchiveLabels
    <3> QED BY <1>4, <2>1, <3>1, <3>2, TypedGoes
  <2> QED BY <1>7, <2>2, <2>3 DEF Lookup
<1>8. CASE Find(p)
  <2> DEFINE v == stored[local[p].doc]
             l == [local[p] EXCEPT !.got = v]
             m == [local[p] EXCEPT !.got = None, !.failed = TRUE]
  <2>1. DataTyped'
    BY <1>8, DataStays DEF Find, docVars, TypedInv, DataTyped
  <2>2. CASE v # None /\ Goto(p, "fill", l)
    <3>1. v \in Values(local[p].doc)
      BY <1>3, <2>2 DEF TypedInv, DataTyped
    <3>2. /\ l.doc = local[p].doc /\ l.value = local[p].value /\ l.then = local[p].then
          /\ l.got = v
      BY <1>6
    <3>3. pc'[p] = "fill" /\ local'[p] = l
      BY <2>2 DEF Goto, Shape
    <3> HIDE DEF l, v
    <3>4. Holds("fill", l)
      BY <1>3, <3>1, <3>2 DEF Holds, Brings, WriteLabels, ArchiveLabels
    <3> QED BY <1>4, <2>1, <3>3, <3>4, TypedGoes
  <2>3. CASE Answer(p, None)
    <3>1. Holds(pc'[p], local'[p])
      BY <1>5, <1>6, <2>3 DEF Answer
    <3> QED BY <1>4, <2>1, <3>1, TypedGoes
  <2>4. CASE Goto(p, local[p].then, m)
    <3>1. m.doc = local[p].doc /\ m.value = local[p].value
      BY <1>1 DEF Fresh
    <3> HIDE DEF m
    <3>2. Holds(pc'[p], local'[p])
      BY <1>5, <2>4, <3>1
    <3> QED BY <1>4, <2>1, <3>2, TypedGoes
  <2> QED BY <1>8, <2>2, <2>3, <2>4 DEF Find
<1>9. CASE Fill(p)
  <2>1. local[p].got \in Values(local[p].doc)
    BY <1>1, <1>9 DEF Fill, Holds
  <2>2. DataTyped'
    BY <1>3, <1>9, <2>1 DEF Fill, TypedInv, DataTyped
  <2>3. Holds(pc'[p], local'[p])
    BY <1>5, <1>9 DEF Fill, Jump
  <2> QED BY <1>4, <2>2, <2>3, TypedGoes
<1> QED BY <1>7, <1>8, <1>9 DEF ReadThrough

LEMMA DocumentTyped ==
    ASSUME Shape, TypedInv, UNCHANGED archive, NEW p \in Procs, DocumentStep(p)
    PROVE  TypedInv'
<1> USE DEF At
<1>1. /\ DOMAIN local[p] = DOMAIN Fresh /\ local[p].then \in Thens /\ Holds(pc[p], local[p])
      /\ \A q \in Procs \ {p} : pc'[q] = pc[q] /\ local'[q] = local[q]
  BY DocumentMoves DEF Shape, TypedInv, Moves
<1>2. pc[p] \in WriteLabels => local[p].then \in {"idle", "redraw"}
  BY <1>1 DEF Holds
<1>3. {"chat", "other", "auth", "user", "logger"} = Docs /\ Chats \subseteq Docs
  BY DEF Docs, Chats
\* A write whose cached value is dropped.
<1>4. local[p].then \in {"idle", "redraw"} =>
        /\ Holds("drop", [local[p] EXCEPT !.doc = "chat"])
        /\ Holds("drop", [local[p] EXCEPT !.doc = "auth"])
  BY <1>1, <1>3 DEF Holds, Brings, WriteLabels, ArchiveLabels, Fresh
<1>5. CASE ReadThrough(p)
  BY <1>5, ReadTyped
<1>6. ASSUME NEW s, SetField(p, s) PROVE TypedInv'
  <2> DEFINE old == IF stored["chat"] = None THEN Blank ELSE stored["chat"]
             new == [old EXCEPT ![s] = local[p].value]
  <2>1. pc[p] = "setField" /\ Write(p, "chat", new, "drop")
    BY <1>6 DEF SetField
  <2>2. local[p].value \in BOOLEAN /\ local[p].then \in {"idle", "redraw"}
    BY <1>1, <2>1 DEF Holds, WriteLabels
  <2>3. old \in [Settings -> BOOLEAN]
    BY <1>3, ValuesOf DEF TypedInv, DataTyped, Chats
  <2> HIDE DEF old
  <2>4. new \in Values("chat")
    BY <2>2, <2>3, ValuesOf DEF Chats
  <2> HIDE DEF new
  <2> QED BY <1>3, <1>4, <2>1, <2>2, <2>4, WriteTyped
<1>7. CASE AddAuthUser(p)
  <2> DEFINE old == IF stored["auth"] = None THEN {} ELSE stored["auth"]
  <2>1. pc[p] = "addAuth" /\ Write(p, "auth", old \cup {local[p].value}, "drop")
    BY <1>7 DEF AddAuthUser
  <2>2. local[p].value \in Users /\ local[p].then \in {"idle", "redraw"}
    BY <1>1, <2>1 DEF Holds, WriteLabels
  <2>3. old \cup {local[p].value} \in Values("auth")
    BY <1>3, <2>2, ValuesOf DEF TypedInv, DataTyped
  <2> HIDE DEF old
  <2> QED BY <1>3, <1>4, <2>1, <2>2, <2>3, WriteTyped
<1>8. CASE RemoveAuthUser(p)
  <2> DEFINE new == IF stored["auth"] = None THEN None ELSE stored["auth"] \ {local[p].value}
  <2>1. pc[p] = "removeAuth" /\ Write(p, "auth", new, "drop")
    BY <1>8 DEF RemoveAuthUser
  <2>2. local[p].then \in {"idle", "redraw"}
    BY <1>1, <2>1 DEF Holds, WriteLabels
  <2>3. new \in Values("auth") \cup {None}
    BY <1>3, ValuesOf DEF TypedInv, DataTyped
  <2> HIDE DEF new
  <2> QED BY <1>3, <1>4, <2>1, <2>2, <2>3, WriteTyped
<1>9. CASE Drop(p)
  <2>1. pc[p] = "drop" /\ local[p].then \in {"idle", "redraw"} /\ local[p].doc \in Docs
    BY <1>1, <1>9 DEF Drop, Holds, WriteLabels
  <2>2. DataTyped'
    <3>1. cached' = [cached EXCEPT ![local[p].doc] = None] /\ outdated' \subseteq outdated
          /\ UNCHANGED <<stored, dirty>>
      BY <1>9 DEF Drop, Vanishes
    <3> QED BY <3>1 DEF TypedInv, DataTyped
  <2>3. Holds(pc'[p], local'[p])
    BY <1>9, <2>1, JumpMoves, HoldsAnything DEF Drop, WriteLabels, ArchiveLabels
  <2> QED BY <1>1, <2>2, <2>3, TypedGoes
<1>10. CASE LoggerRead(p)
  <2> DEFINE l == [local[p] EXCEPT !.then = "idle"]
  <2>1. local[p].value \in BOOLEAN
    BY <1>1, <1>10 DEF LoggerRead, Holds, Brings
  <2>2. l.then = "idle" /\ l.value = local[p].value
    BY <1>1 DEF Fresh
  <2>3. pc'[p] = "setLogger" /\ local'[p] = l
    BY <1>10 DEF LoggerRead, Goto, Shape
  <2>4. DataTyped'
    BY <1>10, DataStays DEF LoggerRead, docVars, TypedInv, DataTyped
  <2> HIDE DEF l
  <2>5. Holds("setLogger", l)
    BY <2>1, <2>2 DEF Holds, Brings, WriteLabels, ArchiveLabels
  <2> QED BY <1>1, <2>3, <2>4, <2>5, TypedGoes
<1>11. CASE SetLoggerStatus(p)
  <2> DEFINE l == [local[p] EXCEPT !.doc = "logger"]
  <2>1. local[p].value \in BOOLEAN /\ local[p].then \in {"idle", "redraw"}
    BY <1>1, <1>11 DEF SetLoggerStatus, Holds, WriteLabels
  <2>2. l.doc = "logger" /\ l.value = local[p].value /\ l.then = local[p].then
    BY <1>1 DEF Fresh
  <2>3. Holds("put", l)
    <3> HIDE DEF l
    <3> QED BY <1>3, <2>1, <2>2, ValuesOf DEF Holds, Brings, WriteLabels, ArchiveLabels
  <2>4. Write(p, "logger", local[p].value, "put")
    BY <1>11 DEF SetLoggerStatus
  <2>5. local[p].value \in Values("logger") \cup {None}
    BY <2>1, ValuesOf
  <2> QED BY <1>3, <2>1, <2>3, <2>4, <2>5, WriteTyped
<1>12. CASE Put(p)
  <2>1. /\ pc[p] = "put" /\ local[p].then \in {"idle", "redraw"} /\ local[p].doc \in Docs
        /\ local[p].value \in Values(local[p].doc)
    BY <1>1, <1>12 DEF Put, Holds, WriteLabels
  <2>2. DataTyped'
    BY <1>12, <2>1 DEF Put, TypedInv, DataTyped
  <2>3. Holds(pc'[p], local'[p])
    BY <1>12, <2>1, JumpMoves, HoldsAnything DEF Put, WriteLabels, ArchiveLabels
  <2> QED BY <1>1, <2>2, <2>3, TypedGoes
<1>13. CASE AddChat(p)
  <2>1. CASE pc[p] = "chatRead"
    <3> DEFINE l == [local[p] EXCEPT !.then = "idle"]
    <3>1. local[p].doc \in Chats
      BY <1>1, <2>1 DEF Holds, Brings
    <3>2. l.then = "idle" /\ l.doc = local[p].doc
      BY <1>1 DEF Fresh
    <3>3. DataTyped'
      BY <1>13, <2>1, DataStays DEF AddChat, docVars, TypedInv, DataTyped
    <3>4. (Return(p) \/ Goto(p, "addChat", l))
      BY <1>13, <2>1 DEF AddChat
    <3> HIDE DEF l
    <3>5. Holds("addChat", l)
      BY <3>1, <3>2 DEF Holds, Brings, WriteLabels, ArchiveLabels
    <3>6. Holds(pc'[p], local'[p])
      <4>1. CASE Return(p)
        BY <4>1, ReturnMoves, HoldsAnything DEF WriteLabels, ArchiveLabels
      <4>2. CASE Goto(p, "addChat", l)
        BY <3>5, <4>2 DEF Goto, Shape
      <4> QED BY <3>4, <4>1, <4>2
    <3> QED BY <1>1, <3>3, <3>6, TypedGoes
  <2>2. CASE pc[p] = "addChat"
    <3> DEFINE d == local[p].doc
               v == IF stored[d] = None THEN Blank ELSE stored[d]
    <3>1. d \in Chats /\ local[p].then \in {"idle", "redraw"}
      BY <1>1, <2>2 DEF Holds, WriteLabels
    <3>2. Write(p, d, v, "idle")
      BY <1>13, <2>2 DEF AddChat
    <3>3. v \in Values(d)
      BY <1>3, <3>1, ValuesOf DEF TypedInv, DataTyped
    <3> HIDE DEF d, v
    <3> QED BY <1>3, <3>1, <3>2, <3>3, WriteTyped
  <2> QED BY <1>13, <2>1, <2>2 DEF AddChat
<1>14. CASE AddUser(p)
  <2> DEFINE l == [local[p] EXCEPT !.doc = "user"]
  <2>1. pc[p] = "addUser" /\ local[p].value = TRUE /\ local[p].then \in {"idle", "redraw"}
    BY <1>1, <1>14 DEF AddUser, Holds, WriteLabels
  <2>2. CASE cached["user"] # None
    <3>1. Jump(p, local[p].then) /\ UNCHANGED docVars
      BY <1>14, <2>2 DEF AddUser
    <3>2. DataTyped'
      BY <3>1, DataStays DEF docVars, TypedInv, DataTyped
    <3>3. Holds(pc'[p], local'[p])
      BY <2>1, <3>1, JumpMoves, HoldsAnything DEF WriteLabels, ArchiveLabels
    <3> QED BY <1>1, <3>2, <3>3, TypedGoes
  <2>3. CASE cached["user"] = None
    <3>1. PICK v \in {TRUE} : Write(p, "user", v, "put")
      <4>1. Write(p, "user", TRUE, "put")
        BY <1>14, <2>3 DEF AddUser
      <4> QED BY <4>1, Zenon
    <3>2. l.doc = "user" /\ l.value = local[p].value /\ l.then = local[p].then
      BY <1>1 DEF Fresh
    <3>3. Holds("put", l)
      <4> HIDE DEF l
      <4>1. l.value \in Values(l.doc)
        BY <2>1, <3>2, ValuesOf
      <4> QED BY <1>3, <2>1, <3>2, <4>1 DEF Holds, Brings, WriteLabels, ArchiveLabels
    <3>4. v \in Values("user") \cup {None}
      BY <3>1, ValuesOf
    <3> QED BY <1>3, <2>1, <3>1, <3>3, <3>4, WriteTyped
  <2> QED BY <2>2, <2>3
<1>15. CASE ScanRead(p)
  <2>1. PICK d \in local[p].todo :
          \/ stored[d] # None /\ Goto(p, "scanPut", [local[p] EXCEPT !.doc = d, !.got = stored[d]])
          \/ Goto(p, "scan", [local[p] EXCEPT !.todo = @ \ {d}])
          \/ Goto(p, "scan", [local[p] EXCEPT !.todo = @ \ Class(d), !.targets = @ \ Class(d)])
    BY <1>15 DEF ScanRead
  <2>2. DataTyped' /\ local[p].todo \subseteq Docs
    BY <1>1, <1>15, DataStays DEF ScanRead, docVars, TypedInv, DataTyped, Holds
  <2>3. ASSUME NEW l, Goto(p, "scan", l), l.todo \subseteq Docs
        PROVE  Holds(pc'[p], local'[p])
    <3>1. pc'[p] = "scan" /\ local'[p] = l
      BY <2>3 DEF Goto, Shape
    <3> QED BY <2>3, <3>1 DEF Holds, Brings, WriteLabels, ArchiveLabels
  <2> DEFINE a == [local[p] EXCEPT !.doc = d, !.got = stored[d]]
             b == [local[p] EXCEPT !.todo = @ \ {d}]
             c == [local[p] EXCEPT !.todo = @ \ Class(d), !.targets = @ \ Class(d)]
  <2>4. CASE stored[d] # None /\ Goto(p, "scanPut", a)
    <3>1. a.doc = d /\ a.got = stored[d] /\ a.todo = local[p].todo
      BY <1>1 DEF Fresh
    <3>2. stored[d] \in Values(d)
      BY <2>1, <2>2, <2>4 DEF TypedInv, DataTyped
    <3> HIDE DEF a
    <3>3. pc'[p] = "scanPut" /\ local'[p] = a
      BY <2>4 DEF Goto, Shape
    <3>4. Holds("scanPut", a)
      BY <2>1, <2>2, <3>1, <3>2 DEF Holds, Brings, WriteLabels, ArchiveLabels
    <3> QED BY <1>1, <2>2, <3>3, <3>4, TypedGoes
  <2>5. b.todo \subseteq Docs /\ c.todo \subseteq Docs
    BY <1>1, <2>2 DEF Fresh
  <2> HIDE DEF a, b, c
  <2>6. CASE Goto(p, "scan", b) \/ Goto(p, "scan", c)
    BY <1>1, <2>2, <2>3, <2>5, <2>6, TypedGoes
  <2> QED BY <2>1, <2>4, <2>6 DEF a, b, c
<1>16. CASE ScanPut(p)
  <2> DEFINE l == [local[p] EXCEPT !.todo = @ \ {local[p].doc}, !.targets = @ \cup {local[p].doc}]
  <2>1. /\ local[p].doc \in Docs /\ local[p].got \in Values(local[p].doc)
        /\ local[p].todo \subseteq Docs
    BY <1>1, <1>16 DEF ScanPut, Holds
  <2>2. DataTyped'
    BY <1>16, <2>1 DEF ScanPut, TypedInv, DataTyped
  <2>3. l.todo \subseteq Docs
    BY <1>1, <2>1 DEF Fresh
  <2>4. pc'[p] = "scan" /\ local'[p] = l
    BY <1>16 DEF ScanPut, Goto, Shape
  <2> HIDE DEF l
  <2>5. Holds("scan", l)
    BY <2>3 DEF Holds, Brings, WriteLabels, ArchiveLabels
  <2> QED BY <1>1, <2>2, <2>4, <2>5, TypedGoes
<1> QED BY <1>5, <1>6, <1>7, <1>8, <1>9, <1>10, <1>11, <1>12, <1>13, <1>14, <1>15, <1>16
        DEF DocumentStep, getChat, GetAuthUsers, GetLoggerStatus, GetAllChats, GetAllUsers,
            SetPlayMode, SetAdminMode, SetCmdDelete

\* A goroutine that reads a document on its way to a label, and one that reads
\* the list of administrators, which nobody has to know anything for.
LEMMA AskingTyped ==
    ASSUME Shape, NEW p \in Procs, NEW d \in Docs, NEW then \in {"playGate", "adminGate", "authGate",
                                                                 "toggle", "idle"},
           Asking(p, d, then)
    PROVE  Holds(pc'[p], local'[p])
<1> DEFINE l == [local[p] EXCEPT !.doc = d, !.then = then, !.list = None]
<1>1. l.doc = d /\ l.then = then
  BY DEF Shape, Fresh
<1>2. pc'[p] = "lookup" /\ local'[p] = l
  BY DEF Asking, Goto, Shape
<1> HIDE DEF l
<1>3. Holds("lookup", l)
  BY <1>1 DEF Holds, Brings, WriteLabels, ArchiveLabels
<1> QED BY <1>2, <1>3

LEMMA AdminTyped ==
    ASSUME Shape, TypedInv, NEW p \in Procs, AdminStep(p), UNCHANGED archive
    PROVE  TypedInv'
<1>1. /\ \A q \in Procs \ {p} : pc'[q] = pc[q] /\ local'[q] = local[q]
      /\ pc'[p] \in AdminLabels \cup Uses
  BY AdminMoves DEF Moves
<1>2. Holds(pc'[p], local'[p])
  BY <1>1, HoldsAnything DEF AdminLabels, Uses, WriteLabels, ArchiveLabels
<1>3. UNCHANGED <<stored, cached, dirty>> /\ outdated' \subseteq outdated
  BY DEF AdminStep, GetAdmins, FetchAdmins, KeepAdmins, reloadAdminCacheHandler, ReloadAllowed,
         ReloadMark, ClearAdminCache, ListVanishes, UpdateAdminCache, NoteRead, NoteWrite, docVars
<1>4. DataTyped'
  BY <1>3, DataStays DEF TypedInv, DataTyped
<1> QED BY <1>1, <1>2, <1>4, TypedGoes

LEMMA PermissionTyped ==
    ASSUME Shape, TypedInv, NEW p \in Procs, PermissionStep(p), UNCHANGED archive
    PROVE  TypedInv'
<1> USE DEF At
<1>1. /\ DOMAIN local[p] = DOMAIN Fresh /\ local[p].then \in Thens /\ local[p].use \in Uses
      /\ Holds(pc[p], local[p])
      /\ \A q \in Procs \ {p} : pc'[q] = pc[q] /\ local'[q] = local[q]
  BY PermissionMoves DEF Shape, TypedInv, Moves
<1>2. UNCHANGED docVars
  BY DEF PermissionStep, checkBotAdmin, adminMode, playMode, PlayAdmins, AuthGate, Allowed,
         AuthSender, addAuthHandler, removeAuthHandler, settingsCallbackHandler
<1>3. DataTyped'
  BY <1>2, DataStays DEF docVars, TypedInv, DataTyped
<1>4. ASSUME Holds(pc'[p], local'[p]) PROVE TypedInv'
  BY <1>1, <1>3, <1>4, TypedGoes
<1>5. ASSUME pc'[p] \in {"idle", "admins", "allowed"} PROVE TypedInv'
  BY <1>4, <1>5, HoldsAnything DEF WriteLabels, ArchiveLabels
<1>6. ASSUME NEW use, Admins(p, use, FALSE) PROVE TypedInv'
  BY <1>5, <1>6 DEF Admins, Goto, Shape
<1>7. ASSUME NEW d \in {"chat", "auth"}, NEW then \in {"playGate", "adminGate", "authGate", "toggle",
                                                         "idle"},
             Asking(p, d, then)
      PROVE  TypedInv'
  BY <1>4, <1>7, AskingTyped DEF Docs
<1>8. ASSUME Return(p) \/ Jump(p, "allowed") PROVE TypedInv'
  BY <1>5, <1>8, JumpMoves, ReturnMoves
<1>9. CASE checkBotAdmin(p)
  BY <1>7, <1>8, <1>9 DEF checkBotAdmin
<1>10. CASE adminMode(p) \/ playMode(p) \/ PlayAdmins(p) \/ AuthGate(p) \/ Allowed(p)
  BY <1>6, <1>7, <1>8, <1>10 DEF adminMode, playMode, PlayAdmins, AuthGate, Allowed, IsAuthUser
<1>11. CASE AuthSender(p)
  <2>1. CASE Return(p)
    BY <1>8, <2>1
  <2>2. CASE ~Return(p)
    <3> DEFINE l(u) == [local[p] EXCEPT !.value = u]
               a(u) == [l(u) EXCEPT !.got = {u}]
               b(u) == [l(u) EXCEPT !.doc = "auth", !.then = "authTarget"]
    <3>1. PICK u \in Users : Goto(p, "authTarget", a(u)) \/ Goto(p, "lookup", b(u))
      BY <1>11, <2>2 DEF AuthSender
    <3>2. a(u).value = u /\ b(u).value = u /\ b(u).doc = "auth" /\ b(u).then = "authTarget"
      BY <1>1 DEF Fresh
    <3> HIDE DEF a, b
    <3>3. Holds("authTarget", a(u)) /\ Holds("lookup", b(u))
      BY <3>2 DEF Holds, Brings, WriteLabels, ArchiveLabels, Docs
    <3>4. Holds(pc'[p], local'[p])
      BY <3>1, <3>3 DEF Goto, Shape
    <3> QED BY <1>4, <3>4
  <2> QED BY <2>1, <2>2
<1>12. CASE addAuthHandler(p) \/ removeAuthHandler(p)
  <2> DEFINE l == [local[p] EXCEPT !.then = "idle"]
  <2>1. \/ Return(p)
        \/ pc[p] = "authTarget" /\ (Goto(p, "addAuth", l) \/ Goto(p, "removeAuth", l))
    BY <1>12 DEF addAuthHandler, removeAuthHandler
  <2>2. CASE pc[p] = "authTarget" /\ (Goto(p, "addAuth", l) \/ Goto(p, "removeAuth", l))
    <3>1. l.then = "idle" /\ l.value = local[p].value
      BY <1>1 DEF Fresh
    <3>2. local[p].value \in Users
      BY <1>1, <2>2 DEF Holds, Brings
    <3> HIDE DEF l
    <3>3. Holds("addAuth", l) /\ Holds("removeAuth", l)
      BY <3>1, <3>2 DEF Holds, Brings, WriteLabels, ArchiveLabels
    <3>4. Holds(pc'[p], local'[p])
      BY <2>2, <3>3 DEF Goto, Shape
    <3> QED BY <1>4, <3>4
  <2> QED BY <1>8, <2>1, <2>2
<1>13. CASE settingsCallbackHandler(p)
  <2>1. CASE pc[p] \in {"settings", "rights"}
    <3>1. Return(p) \/ Admins(p, "rights", FALSE) \/ Asking(p, "chat", "toggle")
      BY <1>13, <2>1 DEF settingsCallbackHandler, At
    <3> QED BY <1>6, <1>7, <1>8, <3>1
  <2>2. CASE pc[p] = "toggle"
    <3>1. PICK on \in BOOLEAN : Goto(p, "setField", [local[p] EXCEPT !.value = on, !.then = "redraw", !.left = 3])
      BY <1>13, <2>2 DEF settingsCallbackHandler
    <3> DEFINE l == [local[p] EXCEPT !.value = on, !.then = "redraw", !.left = 3]
    <3>2. l.value = on /\ l.then = "redraw"
      BY <1>1 DEF Fresh
    <3>3. pc'[p] = "setField" /\ local'[p] = l
      BY <3>1 DEF Goto, Shape
    <3> HIDE DEF l
    <3>4. Holds("setField", l)
      BY <3>1, <3>2 DEF Holds, Brings, WriteLabels, ArchiveLabels
    <3> QED BY <1>4, <3>3, <3>4
  <2>3. CASE pc[p] = "redraw"
    <3> DEFINE m == [Fresh EXCEPT !.cmd = "settings", !.doc = "chat",
                                  !.left = local[p].left - 1,
                                  !.then = IF local[p].left = 1 THEN "idle" ELSE "redraw"]
    <3>1. Goto(p, "lookup", m)
      BY <1>13, <2>3 DEF settingsCallbackHandler, At
    <3>2. m.doc = "chat" /\ m.then \in {"idle", "redraw"}
      BY <1>1 DEF Fresh
    <3>3. pc'[p] = "lookup" /\ local'[p] = m
      BY <3>1 DEF Goto, Shape
    <3> HIDE DEF m
    <3>4. Holds("lookup", m)
      BY <3>2 DEF Holds, Brings, WriteLabels, ArchiveLabels, Docs
    <3> QED BY <1>4, <3>3, <3>4
  <2> QED BY <1>13, <2>1, <2>2, <2>3 DEF settingsCallbackHandler, At
<1> QED BY <1>9, <1>10, <1>11, <1>12, <1>13 DEF PermissionStep

LEMMA ChatTyped ==
    ASSUME Shape, TypedInv, NEW p \in Procs, ChatPart(p)
    PROVE  TypedInv'
<1>1. /\ \A q \in Procs \ {p} : pc'[q] = pc[q] /\ local'[q] = local[q]
      /\ UNCHANGED archive
  BY ChatMoves DEF ChatPart, Moves
<1>2. CASE ChatCommand(p)
  <2>1. UNCHANGED docVars
    BY <1>2 DEF ChatCommand, BeginSettings, BeginGate, reload, startHandler, loggerHandler
  <2>2. DataTyped'
    BY <1>1, <2>1, DataStays DEF docVars, TypedInv, DataTyped
  <2>3. \/ pc'[p] \in {"admins", "reload"}
        \/ \E d \in Chats : Begin(p, "start", "lookup", [Fresh EXCEPT !.doc = d, !.then = "chatRead"])
        \/ Begin(p, "start", "addUser", [Fresh EXCEPT !.doc = "user", !.value = TRUE])
        \/ loggerHandler(p)
    BY <1>2 DEF ChatCommand, BeginSettings, BeginGate, reload, startHandler, Begin, Goto, Shape
  <2>4. CASE pc'[p] \in {"admins", "reload"}
    BY <1>1, <2>2, <2>4, TypedGoes, HoldsAnything DEF WriteLabels, ArchiveLabels
  <2>5. CASE \E d \in Chats : Begin(p, "start", "lookup", [Fresh EXCEPT !.doc = d, !.then = "chatRead"])
    <3> DEFINE l(d) == [[Fresh EXCEPT !.doc = d, !.then = "chatRead"] EXCEPT !.cmd = "start"]
    <3>1. PICK d \in Chats : pc'[p] = "lookup" /\ local'[p] = l(d)
      BY <2>5 DEF Begin, Goto, Shape
    <3>2. l(d).doc = d /\ l(d).then = "chatRead"
      BY DEF Fresh
    <3> HIDE DEF l
    <3>3. Holds("lookup", l(d))
      BY <3>2 DEF Holds, Brings, WriteLabels, ArchiveLabels, Docs, Chats
    <3> QED BY <1>1, <2>2, <3>1, <3>3, TypedGoes
  <2>6. CASE Begin(p, "start", "addUser", [Fresh EXCEPT !.doc = "user", !.value = TRUE])
    <3> DEFINE l == [[Fresh EXCEPT !.doc = "user", !.value = TRUE] EXCEPT !.cmd = "start"]
    <3>1. pc'[p] = "addUser" /\ local'[p] = l
      BY <2>6 DEF Begin, Goto, Shape
    <3>2. l.value = TRUE /\ l.then = "idle"
      BY DEF Fresh
    <3> HIDE DEF l
    <3>3. Holds("addUser", l)
      BY <3>2 DEF Holds, Brings, WriteLabels, ArchiveLabels
    <3> QED BY <1>1, <2>2, <3>1, <3>3, TypedGoes
  <2>7. CASE loggerHandler(p)
    <3> DEFINE l(on) == [[Fresh EXCEPT !.doc = "logger", !.value = on, !.then = "loggerRead"]
                           EXCEPT !.cmd = "logger"]
    <3>1. PICK on \in BOOLEAN : pc'[p] = "lookup" /\ local'[p] = l(on)
      BY <2>7 DEF loggerHandler, Begin, Goto, Shape
    <3>2. l(on).doc = "logger" /\ l(on).value = on /\ l(on).then = "loggerRead"
      BY DEF Fresh
    <3> HIDE DEF l
    <3>3. Holds("lookup", l(on))
      BY <3>1, <3>2 DEF Holds, Brings, WriteLabels, ArchiveLabels, Docs
    <3> QED BY <1>1, <2>2, <3>1, <3>3, TypedGoes
  <2> QED BY <2>3, <2>4, <2>5, <2>6, <2>7
<1>3. CASE UpdateArrives(p)
  <2>1. pc'[p] = "note" /\ UNCHANGED docVars
    BY <1>3 DEF UpdateArrives, HandleBotRole, Goto, Shape
  <2>2. DataTyped'
    BY <1>1, <2>1, DataStays DEF docVars, TypedInv, DataTyped
  <2> QED BY <1>1, <2>1, <2>2, TypedGoes, HoldsAnything DEF WriteLabels, ArchiveLabels
<1> QED BY <1>1, <1>2, <1>3, DocumentTyped, AdminTyped, PermissionTyped DEF ChatPart

\* Broadcasts go through the documents, and playlists and downloads leave them
\* alone.
LEMMA OtherTyped ==
    ASSUME Shape, TypedInv, NEW p \in Procs, ListPart(p) \/ SendPart(p) \/ FilePart(p)
    PROVE  TypedInv'
<1>1. UNCHANGED docVars /\ UNCHANGED archive
  BY DEF ListPart, SendPart, FilePart, BeginBroadcast, BeginCancel, BroadcastStep, broadcastHandler,
         FindTargets, ClearCancel, SetProgress, BroadcastLoop, CheckCancel, Send, EndBroadcast,
         cancelBroadcastHandler
<1>2. \A q \in Procs \ {p} : pc'[q] = pc[q] /\ local'[q] = local[q]
  BY ListMoves, SendMoves, FileMoves DEF Moves
<1>3. DataTyped'
  BY <1>1, DataStays DEF docVars, TypedInv, DataTyped
<1>4. CASE ListPart(p) \/ FilePart(p)
  <2>1. pc'[p] \in ListLabels \cup FileLabels \cup {"idle"}
    BY <1>4, ListMoves, FileMoves DEF Moves
  <2> QED BY <1>2, <1>3, <2>1, TypedGoes, HoldsAnything DEF ListLabels, FileLabels, WriteLabels,
             ArchiveLabels
<1>5. CASE SendPart(p)
  <2>1. CASE BeginBroadcast(p)
    <3>1. CASE UNCHANGED goVars
      BY <1>2, <1>3, <3>1, TypedGoes DEF goVars, TypedInv
    <3>2. CASE ~UNCHANGED goVars
      <4> DEFINE l(mode) == [Fresh EXCEPT !.cmd = "broadcast", !.todo = Chats \cup {"user"},
                                          !.value = mode]
      <4>1. PICK mode : pc'[p] = "scan" /\ local'[p] = l(mode)
        BY <2>1, <3>2 DEF BeginBroadcast, Goto, Shape
      <4>2. l(mode).todo \subseteq Docs
        BY DEF Fresh, Docs, Chats
      <4> HIDE DEF l
      <4>3. Holds("scan", l(mode))
        BY <4>2 DEF Holds, Brings, WriteLabels, ArchiveLabels
      <4> QED BY <1>2, <1>3, <4>1, <4>3, TypedGoes
    <3> QED BY <3>1, <3>2
  <2>2. CASE BeginCancel(p)
    <3>1. pc'[p] = "cancel"
      BY <2>2 DEF BeginCancel, Goto, Shape
    <3> QED BY <1>2, <1>3, <3>1, TypedGoes, HoldsAnything DEF WriteLabels, ArchiveLabels
  <2>3. CASE BroadcastStep(p)
    <3>1. pc'[p] \in SendLabels \cup {"idle"}
      BY <2>3, BroadcastMoves DEF Moves
    <3> QED BY <1>2, <1>3, <3>1, TypedGoes, HoldsAnything DEF SendLabels, WriteLabels, ArchiveLabels
  <2> QED BY <1>5, <2>1, <2>2, <2>3 DEF SendPart
<1> QED BY <1>4, <1>5

LEMMA ArchiveTyped ==
    ASSUME Shape, TypedInv, NEW p \in Procs, ArchivePart(p)
    PROVE  TypedInv'
<1> USE DEF At
<1>1. /\ DOMAIN local[p] = DOMAIN Fresh /\ Holds(pc[p], local[p]) /\ DataTyped
      /\ \A q \in Procs \ {p} : pc'[q] = pc[q] /\ local'[q] = local[q]
  BY ArchiveMoves DEF Shape, TypedInv, Moves
<1>2. ASSUME UNCHANGED <<stored, cached, outdated>>, dirty' \subseteq Procs,
             archive' = archive \/ ArchiveOK(archive'), Holds(pc'[p], local'[p])
      PROVE  TypedInv'
  <2>1. DataTyped'
    BY <1>1, <1>2 DEF DataTyped
  <2> QED BY <1>1, <1>2, <2>1, TypedGoes
<1>3. dirty' \subseteq Procs
  BY <1>1 DEF DataTyped, ArchivePart, StartBackup, restoreHandler, BackupStep, backupOneCollection,
         runBackup, restoreOneCollection, DropCollection, InsertDocument, Overwrite, Restored,
         RestoreReported, docVars
<1>4. \A label \in {"backup", "restore"} : \A l :
        /\ ArchiveOK(l.list) /\ l.todo \subseteq Collections
        => Holds(label, l)
  BY DEF Holds, Brings, WriteLabels, ArchiveLabels
<1>5. \A l : /\ ArchiveOK(l.list) /\ l.todo \subseteq Collections /\ l.targets \subseteq Docs
             => Holds("insert", l)
  BY DEF Holds, Brings, WriteLabels, ArchiveLabels
<1>6. pc[p] \in ArchiveLabels => /\ ArchiveOK(local[p].list) /\ local[p].todo \subseteq Collections
                                 /\ pc[p] = "insert" => local[p].targets \subseteq Docs
  BY <1>1 DEF Holds
<1>7. CASE StartBackup(p)
  <2> DEFINE a == [entries |-> {}, docs |-> Nothing, truth |-> stored, whole |-> TRUE]
             l == [Fresh EXCEPT !.cmd = "backup", !.todo = Listing, !.list = a]
  <2>1. pc'[p] = "backup" /\ local'[p] = l
    BY <1>7 DEF StartBackup, Goto, Shape
  <2>2. l.todo = Listing /\ l.list = a
    BY DEF Fresh
  <2>3. ArchiveOK(a)
    BY <1>1 DEF ArchiveOK, ArchiveFields, Nothing, DataTyped
  <2>4. Listing \subseteq Collections
    BY DEF Listing
  <2> HIDE DEF a, l
  <2> QED BY <1>2, <1>3, <1>4, <1>7, <2>1, <2>2, <2>3, <2>4 DEF StartBackup
<1>8. CASE restoreHandler(p)
  <2> DEFINE l == [Fresh EXCEPT !.cmd = "restore", !.todo = archive.entries, !.list = archive]
  <2>1. pc'[p] = "restore" /\ local'[p] = l /\ archive # None
    BY <1>8 DEF restoreHandler, Goto, Shape
  <2>2. l.todo = archive.entries /\ l.list = archive
    BY DEF Fresh
  <2>3. ArchiveOK(archive) /\ archive.entries \subseteq Collections
    BY <1>1, <2>1 DEF DataTyped, ArchiveOK
  <2> HIDE DEF l
  <2> QED BY <1>2, <1>3, <1>4, <1>8, <2>1, <2>2, <2>3 DEF restoreHandler
<1>9. CASE backupOneCollection(p)
  <2> DEFINE c == Turn(p)
             there == {d \in In(c) : stored[d] # None}
             a == local[p].list
             b(kept) == [a EXCEPT !.entries = @ \cup {c},
                                  !.docs = [d \in Docs |-> IF d \in kept THEN stored[d] ELSE @[d]]]
             l(kept) == [local[p] EXCEPT !.todo = @ \ {c}, !.failed = @ \/ kept # there,
                                         !.list = b(kept)]
  <2>1. pc[p] = "backup" /\ local[p].todo # {} /\ UNCHANGED <<docVars, archive>>
    BY <1>9 DEF backupOneCollection
  <2>2. PICK kept \in SUBSET there : Goto(p, "backup", l(kept))
    BY <1>9 DEF backupOneCollection
  <2>3. pc'[p] = "backup" /\ local'[p] = l(kept)
    BY <2>2 DEF Goto, Shape
  <2>4. ArchiveOK(a) /\ local[p].todo \subseteq Collections /\ c \in local[p].todo
    BY <1>6, <2>1 DEF ArchiveLabels, Turn
  <2>5. /\ DOMAIN b(kept) = ArchiveFields /\ b(kept).truth = a.truth /\ b(kept).whole = a.whole
        /\ b(kept).entries = a.entries \cup {c}
        /\ b(kept).docs = [d \in Docs |-> IF d \in kept THEN stored[d] ELSE a.docs[d]]
    BY <2>4 DEF ArchiveOK, ArchiveFields
  <2>6. l(kept).todo = local[p].todo \ {c} /\ l(kept).list = b(kept)
    BY <1>1 DEF Fresh
  <2> HIDE DEF l, b, a, c
  <2>7. ArchiveOK(b(kept))
    BY <1>1, <2>4, <2>5 DEF ArchiveOK, DataTyped
  <2> QED BY <1>2, <1>3, <1>4, <2>1, <2>3, <2>4, <2>6, <2>7 DEF docVars
<1>10. CASE runBackup(p)
  <2> DEFINE a == local[p].list
             ok == ~local[p].failed /\ p \notin dirty
  <2>1. pc[p] = "backup" /\ UNCHANGED <<stored, cached, outdated>>
        /\ (archive' = [a EXCEPT !.whole = ok] \/ UNCHANGED archive)
    BY <1>10 DEF runBackup
  <2>2. ArchiveOK(a)
    BY <1>6, <2>1 DEF ArchiveLabels
  <2>3. ok \in BOOLEAN
    OBVIOUS
  <2> HIDE DEF ok
  <2>4. ArchiveOK([a EXCEPT !.whole = ok])
    BY <2>2, <2>3 DEF ArchiveOK, ArchiveFields
  <2>5. Holds(pc'[p], local'[p])
    BY <1>10, ReturnMoves, HoldsAnything DEF runBackup, WriteLabels, ArchiveLabels
  <2> HIDE DEF a
  <2> QED BY <1>2, <1>3, <2>1, <2>4, <2>5
<1>11. CASE DropCollection(p)
  <2> DEFINE c == Turn(p)
             left == {d \in In(c) : local[p].list.docs[d] # None}
             l == [local[p] EXCEPT !.todo = @ \ {c}, !.targets = left]
             m == [local[p] EXCEPT !.todo = @ \ {c}, !.failed = TRUE]
  <2>1. /\ pc[p] = "restore"
        /\ \/ /\ stored' = [d \in Docs |-> IF d \in In(c) THEN None ELSE stored[d]]
              /\ Goto(p, "insert", l) /\ Overwrite(p, In(c))
           \/ Goto(p, "restore", m) /\ UNCHANGED <<docVars, archive>>
    BY <1>11 DEF DropCollection
  <2>2. ArchiveOK(local[p].list) /\ local[p].todo \subseteq Collections
    BY <1>6, <2>1 DEF ArchiveLabels
  <2>3. /\ l.todo \subseteq Collections /\ l.targets = left /\ l.list = local[p].list
        /\ m.todo \subseteq Collections /\ m.list = local[p].list
    BY <1>1, <2>2 DEF Fresh
  <2>4. left \subseteq Docs /\ In(c) \subseteq Docs
    BY DEF In
  <2> HIDE DEF l, m, left, c
  <2>5. Holds("insert", l) /\ Holds("restore", m)
    BY <1>4, <1>5, <2>2, <2>3, <2>4
  <2>6. CASE Goto(p, "restore", m) /\ UNCHANGED <<docVars, archive>>
    <3>1. Holds(pc'[p], local'[p])
      BY <2>5, <2>6 DEF Goto, Shape
    <3> QED BY <1>2, <1>3, <2>6, <3>1 DEF docVars
  <2>7. CASE /\ stored' = [d \in Docs |-> IF d \in In(c) THEN None ELSE stored[d]]
             /\ Goto(p, "insert", l) /\ Overwrite(p, In(c))
    <3>1. Holds(pc'[p], local'[p])
      BY <2>5, <2>7 DEF Goto, Shape
    <3>2. UNCHANGED <<cached, archive>> /\ outdated' \subseteq outdated \cup In(c)
      BY <2>7 DEF Overwrite, Remembered
    <3>3. DataTyped'
      BY <1>1, <1>3, <2>4, <2>7, <3>2 DEF DataTyped
    <3> QED BY <1>1, <3>1, <3>3, TypedGoes
  <2> QED BY <2>1, <2>6, <2>7
<1>12. CASE InsertDocument(p)
  <2> DEFINE l(d) == [local[p] EXCEPT !.targets = @ \ {d}]
             m == [local[p] EXCEPT !.targets = {}, !.failed = TRUE]
  <2>1. pc[p] = "insert"
    BY <1>12 DEF InsertDocument
  <2>2. PICK d \in local[p].targets :
          \/ /\ stored' = [stored EXCEPT ![d] = local[p].list.docs[d]]
             /\ Overwrite(p, {d}) /\ Goto(p, "insert", l(d))
          \/ Goto(p, "restore", m) /\ UNCHANGED <<docVars, archive>>
    BY <1>12 DEF InsertDocument
  <2>3. /\ ArchiveOK(local[p].list) /\ local[p].todo \subseteq Collections
        /\ local[p].targets \subseteq Docs
    BY <1>6, <2>1 DEF ArchiveLabels
  <2>4. /\ l(d).todo = local[p].todo /\ l(d).targets \subseteq Docs /\ l(d).list = local[p].list
        /\ m.todo = local[p].todo /\ m.list = local[p].list
    BY <1>1, <2>3 DEF Fresh
  <2> HIDE DEF l, m
  <2>5. Holds("insert", l(d)) /\ Holds("restore", m)
    BY <1>4, <1>5, <2>3, <2>4
  <2>6. CASE Goto(p, "restore", m) /\ UNCHANGED <<docVars, archive>>
    <3>1. Holds(pc'[p], local'[p])
      BY <2>5, <2>6 DEF Goto, Shape
    <3> QED BY <1>2, <1>3, <2>6, <3>1 DEF docVars
  <2>7. CASE /\ stored' = [stored EXCEPT ![d] = local[p].list.docs[d]]
             /\ Overwrite(p, {d}) /\ Goto(p, "insert", l(d))
    <3>1. Holds(pc'[p], local'[p])
      BY <2>5, <2>7 DEF Goto, Shape
    <3>2. UNCHANGED <<cached, archive>> /\ outdated' \subseteq outdated \cup {d}
      BY <2>7 DEF Overwrite, Remembered
    <3>3. d \in Docs /\ local[p].list.docs[d] \in Values(d) \cup {None}
      BY <2>3 DEF ArchiveOK
    <3>4. DataTyped'
      BY <1>1, <1>3, <2>7, <3>2, <3>3 DEF DataTyped
    <3> QED BY <1>1, <3>1, <3>4, TypedGoes
  <2> QED BY <2>2, <2>6, <2>7
<1>13. CASE Restored(p)
  <2>1. pc[p] = "insert" /\ pc'[p] = "restore" /\ local'[p] = local[p]
    BY <1>13, JumpMoves DEF Restored
  <2>2. Holds("restore", local[p])
    BY <1>4, <1>6, <2>1 DEF ArchiveLabels
  <2> QED BY <1>2, <1>3, <1>13, <2>1, <2>2 DEF Restored, docVars
<1>14. CASE RestoreReported(p)
  <2>1. Holds(pc'[p], local'[p])
    BY <1>14, ReturnMoves, HoldsAnything DEF RestoreReported, WriteLabels, ArchiveLabels
  <2> QED BY <1>2, <1>3, <1>14, <2>1 DEF RestoreReported
<1> QED BY <1>7, <1>8, <1>9, <1>10, <1>11, <1>12, <1>13, <1>14
        DEF ArchivePart, BackupStep, restoreOneCollection

LEMMA EventTyped ==
    ASSUME TypedInv, Event
    PROVE  TypedInv'
<1>1. UNCHANGED <<pc, local, archive>>
  BY EventStays DEF goVars
<1>2. ASSUME DataTyped' PROVE TypedInv'
  BY <1>1, <1>2 DEF TypedInv
<1>3. ASSUME NEW m, RoleChanges(m) PROVE DataTyped'
  BY <1>1, <1>3 DEF RoleChanges, TypedInv, DataTyped
<1>4. ASSUME NEW d \in Docs, EntryExpires(d) PROVE DataTyped'
  <2>1. cached' = [cached EXCEPT ![d] = None] /\ outdated' \subseteq outdated
        /\ UNCHANGED <<stored, dirty>>
    BY <1>4 DEF EntryExpires, Vanishes
  <2> QED BY <1>1, <2>1 DEF TypedInv, DataTyped
<1>5. CASE AdminsExpire \/ CoolingExpires
  <2>1. UNCHANGED <<stored, cached, dirty>> /\ outdated' \subseteq outdated
    BY <1>5 DEF AdminsExpire, CoolingExpires, ListVanishes, docVars
  <2>2. DataTyped'
    BY <1>1, <2>1 DEF TypedInv, DataTyped
  <2> QED BY <1>2, <2>2
<1>6. ASSUME NEW role, DropBotRole(role) PROVE DataTyped'
  BY <1>1, <1>6 DEF DropBotRole, TypedInv, DataTyped
<1> QED BY <1>2, <1>3, <1>4, <1>5, <1>6 DEF Event

LEMMA TypedStep == Shape /\ TypedInv /\ [Next]_vars => TypedInv'
<1>1. CASE UNCHANGED vars
  BY <1>1 DEF vars, goVars, docVars, TypedInv, DataTyped
<1> QED BY <1>1, ChatTyped, OtherTyped, ArchiveTyped, EventTyped, StepParts

LEMMA TypedInit == Init => TypedInv
<1> SUFFICES ASSUME Init PROVE TypedInv
  OBVIOUS
<1> DEFINE l(on, a) == [chat |-> [s \in Settings |-> on], other |-> Blank, auth |-> a, user |-> TRUE,
                        logger |-> on]
           newer == CHOOSE docs \in InUse : docs["logger"] /\ docs["auth"] # None
           FileOK(docs) == DOMAIN docs = Docs /\ \A d \in Docs : docs[d] \in Values(d) \cup {None}
<1>1. ASSUME NEW on \in BOOLEAN, NEW a \in {None, Users \ {Creator}}
      PROVE  FileOK(l(on, a)) /\ l(on, a) \in InUse
  <2>1. DOMAIN l(on, a) = Docs
    BY DEF Docs
  <2>2. /\ l(on, a)["chat"] = [s \in Settings |-> on] /\ l(on, a)["other"] = Blank
        /\ l(on, a)["auth"] = a /\ l(on, a)["user"] = TRUE /\ l(on, a)["logger"] = on
    OBVIOUS
  <2>3. InUse = {l(x, y) : x \in BOOLEAN, y \in {None, Users \ {Creator}}}
    BY DEF InUse
  <2> HIDE DEF l
  <2>4. [s \in Settings |-> on] \in [Settings -> BOOLEAN]
    OBVIOUS
  <2>5. a \in (SUBSET Users) \cup {None}
    <3>1. Users \ {Creator} \in SUBSET Users
      OBVIOUS
    <3> QED BY <3>1
  <2>6. \A d \in Docs : l(on, a)[d] \in Values(d) \cup {None}
    BY <2>2, <2>4, <2>5, ValuesOf DEF Docs, Chats
  <2> QED BY <2>1, <2>3, <2>6
<1>2. \A docs \in InUse : \E on \in BOOLEAN, a \in {None, Users \ {Creator}} : docs = l(on, a)
  BY DEF InUse
<1> HIDE DEF FileOK
<1>3. \A docs \in InUse : FileOK(docs)
  <2> HIDE DEF l
  <2> QED BY <1>1, <1>2
<1>4. newer \in InUse
  <2>1. l(TRUE, Users \ {Creator}) \in InUse
    BY <1>1
  <2>2. l(TRUE, Users \ {Creator})["logger"] /\ l(TRUE, Users \ {Creator})["auth"] # None
    BY StoreAssumption
  <2> HIDE DEF l
  <2> QED BY <2>1, <2>2
<1>5. Older \in InUse
  <2>1. l(FALSE, None) \in InUse
    BY <1>1
  <2>2. ~l(FALSE, None)["logger"] /\ l(FALSE, None)["auth"] = None
    OBVIOUS
  <2> HIDE DEF l
  <2> QED BY <2>1, <2>2 DEF Older
<1>6. FileOK(Later) /\ FileOK(Nothing)
  <2>1. Later = [newer EXCEPT !["other"] = None]
    BY DEF Later
  <2> HIDE DEF newer, l
  <2> QED BY <1>3, <1>4, <2>1 DEF FileOK, Nothing
<1>7. FileOK(stored) /\ FileOK(cached)
  <2>1. stored \in {Nothing, Later} \cup InUse /\ cached \in {Nothing, stored}
    BY DEF Init
  <2> QED BY <1>3, <1>6, <2>1
<1>8. archive # None => ArchiveOK(archive)
  <2>1. archive \in {None, Whole(Older)}
    BY DEF Init
  <2>2. ArchiveOK(Whole(Older))
    BY <1>3, <1>5 DEF FileOK, Whole, ArchiveOK, ArchiveFields
  <2> QED BY <2>1, <2>2
<1>9. \A p \in Procs : Holds(pc[p], local[p])
  BY HoldsAnything DEF Init, HandlersInit, WriteLabels, ArchiveLabels
<1>10. outdated = {} /\ dirty = {}
  BY DEF Init
<1> QED BY <1>7, <1>8, <1>9, <1>10 DEF FileOK, TypedInv, DataTyped

\* The variables that are only ever given values out of hand.
FlagsTyped == {broadcastInProgress, broadcastCancelFlag, overlap} \subseteq BOOLEAN

FilesTyped ==
    /\ {encrypted, decrypted, ogg, tdFile} \subseteq Contents
    /\ media \in {"untried", "up", "down"}
    /\ mixed \subseteq {"saved", "ogg", "stats"}

InputsTyped == workload \in Workloads /\ inputs \in 0..workload.bound

PlainInv == cooling \in BOOLEAN /\ FlagsTyped /\ FilesTyped /\ InputsTyped

LEMMA FlagsStep == Shape /\ FlagsTyped /\ [Next]_vars => FlagsTyped'
<1> SUFFICES ASSUME Shape, FlagsTyped, [Next]_vars PROVE FlagsTyped'
  OBVIOUS
<1>1. CASE UNCHANGED broadcastVars
  BY <1>1 DEF broadcastVars, FlagsTyped
<1>2. ASSUME NEW p \in Procs, SendPart(p) PROVE FlagsTyped'
  <2>1. /\ broadcastInProgress' \in {broadcastInProgress, TRUE, FALSE}
        /\ broadcastCancelFlag' \in {broadcastCancelFlag, TRUE, FALSE}
    BY <1>2 DEF SendPart, BeginBroadcast, BeginCancel, BroadcastStep, broadcastHandler, BroadcastLoop,
         FindTargets, ClearCancel, SetProgress, CheckCancel, Send, EndBroadcast,
         cancelBroadcastHandler, broadcastVars
  <2>2. overlap' \in BOOLEAN
    BY <1>2 DEF SendPart, BeginBroadcast, BeginCancel, BroadcastStep, broadcastHandler, BroadcastLoop,
         FindTargets, ClearCancel, SetProgress, CheckCancel, Send, EndBroadcast,
         cancelBroadcastHandler, broadcastVars, FlagsTyped
  <2> QED BY <2>1, <2>2 DEF FlagsTyped
<1> QED BY <1>1, <1>2, SendElsewhere

LEMMA FilesStep == Shape /\ FilesTyped /\ [Next]_vars => FilesTyped'
<1> SUFFICES ASSUME Shape, FilesTyped, [Next]_vars PROVE FilesTyped'
  OBVIOUS
<1>1. CASE UNCHANGED downloadVars
  BY <1>1 DEF downloadVars, fileVars, FilesTyped
<1>2. ASSUME NEW p \in Procs, FilePart(p) PROVE FilesTyped'
  <2>1. CASE (\E platform : DownloadCachedTrack(p, platform)) \/ downloadViaWrapper(p) \/ Delivered(p)
             \/ downloadTelegramFile(p)
    BY <1>1, <2>1 DEF DownloadCachedTrack, downloadViaWrapper, Delivered, downloadTelegramFile
  <2>2. CASE retryTelegramDownload(p)
    BY <2>2 DEF retryTelegramDownload, FilesTyped, Contents
  <2>3. CASE BeginReset(p) \/ ResetArcStats(p)
    BY <2>3 DEF BeginReset, ResetArcStats, OutOfStep, FilesTyped, fileVars
  <2>4. CASE YouTubeStep(p)
    <3>1. UNCHANGED <<encrypted, decrypted, ogg, tdFile>> /\ mixed' \subseteq mixed \cup {"saved", "stats"}
      BY <2>4 DEF YouTubeStep, resolve, getMediaCollection, lookupDirectDb, createJob, pollJob,
           downloadFileWithTimeout, RequestFile, OpenPart, writeToFile, CheckSize, RenamePart,
           recordArcSuccess, downloadWithYtDlp, fileVars
    <3>2. media' \in {media, "up", "down"}
      BY <2>4 DEF YouTubeStep, resolve, getMediaCollection, lookupDirectDb, createJob, pollJob,
           downloadFileWithTimeout, RequestFile, OpenPart, writeToFile, CheckSize, RenamePart,
           recordArcSuccess, downloadWithYtDlp
    <3> QED BY <3>1, <3>2 DEF FilesTyped
  <2>5. CASE SpotifyStep(p)
    <3>1. UNCHANGED <<tdFile, media>> /\ mixed' \subseteq mixed \cup {"ogg"}
      BY <2>5 DEF SpotifyStep, processSpotify, FetchEncrypted, decryptAudioFile, fixOGG, StartEncoder,
           EndEncoder, RemoveTemporary, fileVars
    <3>2. {encrypted', decrypted', ogg'} \subseteq {encrypted, decrypted, ogg} \cup Contents
      BY <2>5 DEF SpotifyStep, processSpotify, FetchEncrypted, decryptAudioFile, fixOGG, StartEncoder,
           EndEncoder, RemoveTemporary, fileVars, Contents
    <3> QED BY <3>1, <3>2 DEF FilesTyped
  <2> QED BY <1>2, <2>1, <2>2, <2>3, <2>4, <2>5 DEF FilePart, DownloadStep
<1> QED BY <1>1, <1>2, FilesElsewhere

LEMMA CoolingStep == cooling \in BOOLEAN /\ [Next]_vars => cooling' \in BOOLEAN
<1> SUFFICES ASSUME cooling \in BOOLEAN, [Next]_vars PROVE cooling' \in BOOLEAN
  OBVIOUS
<1>1. CASE UNCHANGED adminVars
  BY <1>1 DEF adminVars
<1>2. ASSUME NEW p \in Procs, ChatPart(p) PROVE cooling' \in BOOLEAN
  <2>1. CASE ChatCommand(p) \/ UpdateArrives(p)
    BY <1>1, <2>1 DEF ChatCommand, UpdateArrives, BeginSettings, BeginGate, reload, HandleBotRole,
         adminVars
  <2>2. CASE AdminStep(p)
    BY <1>1, <2>2 DEF AdminStep, GetAdmins, FetchAdmins, KeepAdmins, reloadAdminCacheHandler,
         ReloadAllowed, ReloadMark, ClearAdminCache, UpdateAdminCache, NoteRead, NoteWrite, adminVars
  <2>3. CASE PermissionStep(p)
    BY <1>1, <2>3 DEF PermissionStep, checkBotAdmin, adminMode, playMode, PlayAdmins, AuthGate,
         Allowed, AuthSender, addAuthHandler, removeAuthHandler, settingsCallbackHandler
  <2> QED BY <1>1, <1>2, <2>1, <2>2, <2>3 DEF ChatPart
<1>3. CASE Event
  BY <1>1, <1>3 DEF Event, RoleChanges, EntryExpires, AdminsExpire, CoolingExpires, DropBotRole, adminVars
<1> QED BY <1>1, <1>2, <1>3, StepParts DEF vars, ListPart, SendPart, ArchivePart, FilePart

LEMMA InputsStep == InputsTyped /\ [Next]_vars => InputsTyped'
<1> SUFFICES ASSUME InputsTyped, [Next]_vars PROVE InputsTyped'
  OBVIOUS
<1>1. CASE UNCHANGED <<workload, inputs>>
  BY <1>1 DEF InputsTyped
<1>2. ASSUME NEW cmd, Comes(cmd) PROVE InputsTyped'
  <2>1. workload.bound \in Nat
    BY StoreAssumption DEF InputsTyped
  <2> QED BY <1>2, <2>1 DEF Comes, InputsTyped
<1>3. ASSUME Next PROVE UNCHANGED <<workload, inputs>> \/ \E cmd : Comes(cmd)
  <2>1. CASE Event
    BY <2>1 DEF Event
  <2>2. ASSUME NEW p \in Procs, Command(p) PROVE \E cmd : Comes(cmd)
    BY <2>2 DEF Command, ChatCommand, ListCommand, OwnerCommand, Download
  <2> QED BY <1>3, <2>1, <2>2 DEF Next, UpdateArrives, Work, controlVars
<1> QED BY <1>1, <1>2, <1>3 DEF vars, controlVars

LEMMA PlainInit == Init => PlainInv
<1> SUFFICES ASSUME Init PROVE PlainInv
  OBVIOUS
<1>1. FlagsTyped /\ FilesTyped /\ cooling \in BOOLEAN
  BY DEF Init, BroadcastInit, DownloadsInit, FlagsTyped, FilesTyped, Contents
<1>2. InputsTyped
  BY StoreAssumption DEF Init, InputsTyped
<1> QED BY <1>1, <1>2 DEF PlainInv

\* TypeOK: whatever commands, updates and expiries interleave, what a collection
\* and the cache in front of it hold can be read as the same type of document,
\* an archive has what a restore takes from it, and the admin list gives every
\* member a role (core/db, core/cache/admin_cache.go, core/dl).
THEOREM TypesAreKept == Spec => []TypeOK
<1>1. Init => DocInv /\ BotInv /\ MembersInv /\ GateInv /\ ListTyped /\ ListInv /\ TypedInv /\ PlainInv
  BY DocInit, BotInit, MembersInit, GateInit, ListInit, TypedInit, PlainInit
<1>2. Init => SavedInv /\ ArcInv /\ CancelInv
  BY SavedInit, ArcInit, CancelInit
<1>3. /\ Shape /\ Shape' /\ DocInv /\ BotInv /\ MembersInv /\ GateInv /\ ListTyped /\ ListInv
      /\ TypedInv /\ PlainInv /\ SavedInv /\ ArcInv /\ CancelInv /\ [Next]_vars
      => /\ DocInv' /\ BotInv' /\ MembersInv' /\ GateInv' /\ ListTyped' /\ ListInv'
         /\ TypedInv' /\ PlainInv' /\ SavedInv' /\ ArcInv' /\ CancelInv'
  <2>1. PlainInv /\ Shape /\ [Next]_vars => PlainInv'
    BY FlagsStep, FilesStep, CoolingStep, InputsStep DEF PlainInv
  <2> QED BY <2>1, DocStep, BotStep, MembersStep, GateStep, ListStep, TypedStep, SavedStep, ArcStep,
             CancelStep
<1>4. /\ BotInv /\ GateInv /\ ListTyped /\ TypedInv /\ PlainInv /\ SavedInv /\ ArcInv /\ CancelInv
      => TypeOK
  <2> SUFFICES ASSUME BotInv, GateInv, ListTyped, TypedInv, PlainInv, SavedInv, ArcInv, CancelInv
               PROVE  TypeOK
    OBVIOUS
  <2>1. DocumentsTypeOK
    BY DEF TypedInv, DataTyped, DocumentsTypeOK
  <2>2. AdminCacheTypeOK
    BY DEF TypedInv, DataTyped, BotInv, PlainInv, AdminCacheTypeOK
  <2>3. PlaylistsTypeOK
    BY DEF ListTyped
  <2>4. BroadcastTypeOK
    BY DEF PlainInv, FlagsTyped, CancelInv, BroadcastTypeOK
  <2>5. BackupTypeOK
    BY DEF TypedInv, DataTyped, ArchiveOK, BackupTypeOK
  <2>6. DownloadsTypeOK
    BY DEF PlainInv, FilesTyped, SavedInv, InodeType, ArcInv, DownloadsTypeOK
  <2>7. alone \in Procs \cup {None} /\ workload \in Workloads /\ inputs \in 0..workload.bound
    BY DEF GateInv, PlainInv, InputsTyped
  <2> QED BY <2>1, <2>2, <2>3, <2>4, <2>5, <2>6, <2>7 DEF TypeOK
<1> QED BY <1>1, <1>2, <1>3, <1>4, ShapeAlways, PTL DEF Spec

=============================================================================
