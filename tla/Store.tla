-------------------------------- MODULE Store --------------------------------
(***************************************************************************)
(* The handlers that work on the database and the caches in front of it,   *)
(* together: settings, permissions, the admin list, broadcast, backup and  *)
(* restore share the documents of Documents; playlists and downloads have  *)
(* files and documents of their own.  The commands that may come at the    *)
(* same time are a workload, so that each group is explored with what can  *)
(* disturb it.                                                             *)
(***************************************************************************)
EXTENDS Permissions, Playlists, Broadcast, Backup, Downloads

CONSTANTS
    Workloads    \* ops: the commands and outside events that come; bound: how
                 \* many of them; width: how many goroutines are at work at once

ASSUME StoreAssumption ==
    /\ \A w \in Workloads : {w.bound, w.width} \subseteq Nat
    /\ Creator \in Users
    /\ Bot \notin Users
    /\ None \notin Users \cup {Bot}
    /\ \A us \in SUBSET Users : us # None

VARIABLES
    workload,    \* the one that runs
    inputs,      \* how many have come
    alone        \* history: the goroutine nothing has disturbed since it began

controlVars == <<workload, inputs, alone>>

vars == <<goVars, docVars, adminVars, playlistVars, broadcastVars, archive, downloadVars,
          controlVars>>

\* Every variable keeps its type: what a cache holds can be read as what the
\* collection behind it holds, and the admin list covers every member.
TypeOK ==
    /\ DocumentsTypeOK
    /\ AdminCacheTypeOK
    /\ PlaylistsTypeOK
    /\ BroadcastTypeOK
    /\ BackupTypeOK
    /\ DownloadsTypeOK
    /\ workload \in Workloads
    /\ inputs \in 0..workload.bound
    /\ alone \in Procs \cup {None}

\* A database in use: the chat's settings off or on, its other user authorised
\* or not.
InUse ==
    {[chat |-> [s \in Settings |-> on], other |-> Blank, auth |-> a, user |-> TRUE,
      logger |-> on] : on \in BOOLEAN, a \in {None, Users \ {Creator}}}

\* Of these, an older one, and a later one of one chat only.
Older == CHOOSE docs \in InUse : ~docs["logger"] /\ docs["auth"] = None
Later == [(CHOOSE docs \in InUse : docs["logger"] /\ docs["auth"] # None)
          EXCEPT !["other"] = None]

\* The commands that read the chat's settings or the authorised users.
OfChat == {"settings", "logger"} \cup GatedByAdmins \cup GatedByPlay

\* Every workload starts with a database in use, or an empty one, just after the
\* program has started or, if it reads them often, with the caches filled.
Init ==
    /\ HandlersInit
    /\ workload \in Workloads
    /\ stored \in {Nothing} \cup (IF workload.ops \cap OfChat = {} THEN {Later} ELSE InUse)
    /\ cached \in {Nothing} \cup (IF workload.ops \cap OfChat = {} THEN {} ELSE {stored})
    /\ outdated = {} /\ dirty = {}
    /\ roles = [m \in Members |-> IF m \in {Bot, Creator} THEN "admin" ELSE "none"]
    /\ adminCache \in {None} \cup (IF workload.ops \cap OfChat = {} THEN {} ELSE {roles})
    /\ updates = EmptyBag /\ cooling = FALSE
    /\ PlaylistsInit
    /\ BroadcastInit
    /\ archive \in {None} \cup (IF "restore" \in workload.ops THEN {Whole(Older)} ELSE {})
    /\ DownloadsInit
    /\ inputs = 0 /\ alone = None

-----------------------------------------------------------------------------
\* The commands.  Each gets a goroutine; which of the idle ones that is makes no
\* difference.
Comes(cmd) ==
    /\ cmd \in workload.ops /\ inputs < workload.bound
    /\ inputs' = inputs + 1
    /\ UNCHANGED workload

Idle == {p \in Procs : At(p, "idle")}

Spare(p) ==
    /\ p \in Idle /\ p = CHOOSE q \in Idle : TRUE
    /\ Cardinality(Procs \ Idle) < workload.width

Undisturbed(p) == alone' = IF Idle = Procs THEN p ELSE None

reload(p) == Begin(p, "reload", "reload", Fresh) /\ UNCHANGED <<docVars, adminVars>>

ChatCommand(p) ==
    /\ \/ \E s \in Settings, u \in Users : Comes("settings") /\ BeginSettings(p, s, u)
       \/ \E cmd \in GatedByAdmins \cup GatedByPlay, u \in Users : Comes(cmd) /\ BeginGate(p, cmd, u)
       \/ Comes("reload") /\ reload(p)
       \/ Comes("start") /\ startHandler(p) /\ UNCHANGED adminVars
       \/ Comes("logger") /\ loggerHandler(p) /\ UNCHANGED adminVars
    /\ Undisturbed(p)
    /\ UNCHANGED <<playlistVars, broadcastVars, archive, downloadVars>>

ListCommand(p) ==
    /\ \/ \E u \in Users : Comes("createPlaylist") /\ GetUserPlaylists(p, "createPlaylist", u)
       \/ \E cmd \in {"deletePlaylist", "addSong", "removeSong"}, u \in Users, id \in PlaylistIds :
            Comes(cmd) /\ GetPlaylist(p, cmd, u, id)
    /\ Undisturbed(p)
    /\ UNCHANGED <<docVars, adminVars, broadcastVars, archive, downloadVars>>

\* The commands of the bot's owner.
OwnerCommand(p) ==
    /\ \/ Comes("broadcast") /\ BeginBroadcast(p) /\ UNCHANGED archive
       \/ Comes("cancel") /\ BeginCancel(p) /\ UNCHANGED archive
       \/ Comes("backup") /\ StartBackup(p) /\ UNCHANGED broadcastVars
       \/ Comes("restore") /\ restoreHandler(p) /\ UNCHANGED broadcastVars
    /\ Undisturbed(p)
    /\ UNCHANGED <<adminVars, playlistVars, downloadVars>>

Download(p) ==
    /\ \/ \E platform \in {"direct", "telegram", "youtube", "spotify", "other"} :
            Comes(platform) /\ DownloadCachedTrack(p, platform)
       \/ Comes("reset") /\ BeginReset(p)
    /\ Undisturbed(p)
    /\ UNCHANGED <<docVars, adminVars, playlistVars, broadcastVars, archive>>

Command(p) ==
    /\ Spare(p)
    /\ ChatCommand(p) \/ ListCommand(p) \/ OwnerCommand(p) \/ Download(p)

\* What happens outside: roles change, cached values expire; the handler of an
\* update about the bot's role returns before it comes to the list.
Event ==
    /\ \/ Comes("roles") /\ \E m \in Members \ {Creator} : RoleChanges(m)
       \/ Comes("expire") /\ (\E d \in Docs : EntryExpires(d)) /\ UNCHANGED adminVars
       \/ Comes("expire") /\ (AdminsExpire \/ CoolingExpires)
       \/ (\E role \in Roles : DropBotRole(role)) /\ UNCHANGED <<workload, inputs>>
    /\ alone' = None
    /\ UNCHANGED <<playlistVars, broadcastVars, archive, downloadVars>>

\* An update about the bot's role reaches its handler.
UpdateArrives(p) ==
    /\ Spare(p)
    /\ \E role \in Roles : HandleBotRole(p, role)
    /\ alone' = None
    /\ UNCHANGED <<playlistVars, broadcastVars, archive, downloadVars, workload, inputs>>

-----------------------------------------------------------------------------
\* The handlers go on.
Work(p) ==
    /\ \/ /\ DocumentStep(p)
          /\ UNCHANGED <<adminVars, broadcastVars, archive, playlistVars, downloadVars>>
       \/ /\ AdminStep(p) \/ PermissionStep(p)
          /\ UNCHANGED <<broadcastVars, archive, playlistVars, downloadVars>>
       \/ /\ BroadcastStep(p)
          /\ UNCHANGED <<adminVars, archive, playlistVars, downloadVars>>
       \/ /\ BackupStep(p)
          /\ UNCHANGED <<adminVars, broadcastVars, playlistVars, downloadVars>>
       \/ /\ PlaylistStep(p)
          /\ UNCHANGED <<docVars, adminVars, broadcastVars, archive, downloadVars>>
       \/ /\ DownloadStep(p)
          /\ UNCHANGED <<docVars, adminVars, broadcastVars, archive, playlistVars>>
    /\ UNCHANGED controlVars

Next == Event \/ \E p \in Procs : Command(p) \/ UpdateArrives(p) \/ Work(p)

Spec == Init /\ [][Next]_vars

-----------------------------------------------------------------------------
\* What the caches say is true, but for an entry a write or a role change has
\* outrun, and for the bot's role when the handler of its change gave up for
\* an error (participant.go lines 34 to 55): the read-through caches of core/db and
\* the bot's own entry in the admin cache, whatever handlers, reloads, restores
\* and expiries interleave.
StaleOnlyAfterRace == DocumentsFresh /\ BotRoleFresh

\* A command that gets through while nothing else happens, with caches that
\* nothing has outrun and a list that no update of the bot's role was kept
\* from, is one the bot's rights and the sender's, as stored and as Telegram
\* has them, allow; only a chat that cannot be read is taken for one where
\* everyone may play (filters.go, chats.go line 113).
GateHonest ==
    \A p \in Procs :
        /\ At(p, "allowed") /\ alone = p /\ updates = EmptyBag
        /\ outdated \cap {"chat", "auth", "bot", "members", "dropped"} = {}
        => /\ roles[Bot] = "admin"
           /\ \/ Entitled(local[p].cmd, local[p].user)
              \/ local[p].cmd \in GatedByPlay /\ local[p].failed

=============================================================================
