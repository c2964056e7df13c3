------------------------------- MODULE Documents -------------------------------
(***************************************************************************)
(* The documents of the database and the caches in front of them           *)
(* (core/db): the chat the handlers work in, another chat, the chat's      *)
(* authorised users, a user and the logger switch.  A read looks in the    *)
(* cache, asks the database and keeps the answer, three steps; a write     *)
(* changes the database and then drops the cached value or replaces it.    *)
(*                                                                         *)
(* A chat is a record of its settings; "admin" is on when everyone may     *)
(* use the admins' commands, "play" when only admins may start playback.   *)
(* An absent field reads as off, which is what the code makes of it.       *)
(***************************************************************************)
EXTENDS Handlers

VARIABLES
    stored,     \* the documents in the database, None when absent
    cached,     \* the values in chatCache, authCache, userCache and loggerCache
    outdated,   \* history: cached entries that a change may have outrun
    dirty       \* history: backups and restores that a write has overlapped

docVars == <<stored, cached, outdated, dirty>>

Docs == {"chat", "other", "auth", "user", "logger"}
Chats == {"chat", "other"}
Settings == {"admin", "play", "delete"}

Blank == [s \in Settings |-> FALSE]

Values(d) ==
    CASE d \in Chats -> [Settings -> BOOLEAN]
      [] d = "auth" -> SUBSET Users
      [] d = "user" -> {TRUE}
      [] OTHER -> BOOLEAN

DocumentsTypeOK ==
    /\ \A d \in Docs : {stored[d], cached[d]} \subseteq Values(d) \cup {None}
    /\ dirty \subseteq Procs

-----------------------------------------------------------------------------
\* History.

\* Whether another goroutine is about to cache a value of d.
Pending(p, d) ==
    \E q \in Procs \ {p} : pc[q] \in {"fill", "put", "scanPut"} /\ local[q].doc = d

Archiving(p) == local[p].cmd \in {"backup", "restore"}

\* p changes the documents in ds; what others are about to cache is outrun.
Outrun(p, ds) ==
    /\ outdated' = outdated \cup {d \in ds : Pending(p, d)}
    /\ dirty' = dirty \cup {q \in Procs \ {p} : Archiving(q)}

\* Those of ds that are cached or about to be.
Remembered(p, ds) == {d \in ds : cached[d] # None \/ Pending(p, d)}

\* The entry of d is gone, and with it what was wrong with it.
Vanishes(p, d) ==
    /\ cached' = [cached EXCEPT ![d] = None]
    /\ outdated' = IF Pending(p, d) THEN outdated ELSE outdated \ {d}

-----------------------------------------------------------------------------
\* Reads.

Answer(p, v) == Goto(p, local[p].then, [local[p] EXCEPT !.got = v])

\* What a goroutine does to read d, and to go on at `then' with the answer; it
\* has done with the list of administrators.
Asking(p, d, then) ==
    Goto(p, "lookup", [local[p] EXCEPT !.doc = d, !.then = then, !.list = None])

Lookup(p) ==
    /\ At(p, "lookup")
    /\ IF cached[local[p].doc] # None THEN Answer(p, cached[local[p].doc]) ELSE Jump(p, "find")
    /\ UNCHANGED docVars

\* An absent document is not cached; nor is an error, which the readers take
\* for an absent document.
Find(p) ==
    /\ At(p, "find")
    /\ LET v == stored[local[p].doc] IN
       \/ v # None /\ Goto(p, "fill", [local[p] EXCEPT !.got = v])
       \/ v = None /\ Answer(p, None)
       \/ /\ "database" \in Faults
          /\ Goto(p, local[p].then, [local[p] EXCEPT !.got = None, !.failed = TRUE])
    /\ UNCHANGED docVars

Fill(p) ==
    /\ At(p, "fill")
    /\ cached' = [cached EXCEPT ![local[p].doc] = local[p].got]
    /\ Jump(p, local[p].then)
    /\ UNCHANGED <<stored, outdated, dirty>>

ReadThrough(p) == Lookup(p) \/ Find(p) \/ Fill(p)

\* The three collections that are read so; getChat tries three times.
getChat(p) == local[p].doc \in Chats /\ ReadThrough(p)
GetAuthUsers(p) == local[p].doc = "auth" /\ ReadThrough(p)
GetLoggerStatus(p) == local[p].doc = "logger" /\ ReadThrough(p)

\* Mutant of EveryoneMode: an unreadable chat is open to everyone.
BugEveryoneMode(chat) == chat = None \/ chat["admin"]

\* What the handlers make of a chat document, or of none.
GetPlayMode(chat) == chat # None /\ chat["play"]
EveryoneMode(chat) == chat # None /\ chat["admin"]
GetCmdDelete(chat) == chat # None /\ chat["delete"]

-----------------------------------------------------------------------------
\* Writes.  The cache is touched only after the database has confirmed, which
\* it need not do although it has written.
Write(p, d, v, next) ==
    /\ \/ /\ stored' = [stored EXCEPT ![d] = v]
          /\ Outrun(p, {d})
          /\ Goto(p, next, [local[p] EXCEPT !.doc = d])
       \/ /\ "database" \in Faults
          /\ Fail(p, local[p].then)
          /\ UNCHANGED <<stored, outdated, dirty>>
       \/ /\ "database" \in Faults
          /\ stored' = [stored EXCEPT ![d] = v]
          /\ outdated' = outdated \cup Remembered(p, {d})
          /\ dirty' = dirty \cup {q \in Procs \ {p} : Archiving(q)}
          /\ Fail(p, local[p].then)
    /\ UNCHANGED cached

\* The $set of one field, which makes the chat's document if there is none.
SetField(p, s) ==
    /\ At(p, "setField") /\ local[p].setting = s
    /\ LET old == IF stored["chat"] = None THEN Blank ELSE stored["chat"] IN
       Write(p, "chat", [old EXCEPT ![s] = local[p].value], "drop")

SetPlayMode(p) == SetField(p, "play")
SetAdminMode(p) == SetField(p, "admin")
SetCmdDelete(p) == SetField(p, "delete")

AddAuthUser(p) ==
    /\ At(p, "addAuth")
    /\ LET old == IF stored["auth"] = None THEN {} ELSE stored["auth"] IN
       Write(p, "auth", old \cup {local[p].value}, "drop")

RemoveAuthUser(p) ==
    /\ At(p, "removeAuth")
    /\ LET new == IF stored["auth"] = None THEN None ELSE stored["auth"] \ {local[p].value} IN
       Write(p, "auth", new, "drop")

\* Mutant of Drop: the cached value is left.
BugDrop(p) ==
    /\ At(p, "drop")
    /\ Jump(p, local[p].then)
    /\ UNCHANGED docVars

Drop(p) ==
    /\ At(p, "drop")
    /\ Vanishes(p, local[p].doc)
    /\ Jump(p, local[p].then)
    /\ UNCHANGED <<stored, dirty>>

SetLoggerStatus(p) ==
    /\ At(p, "setLogger")
    /\ Write(p, "logger", local[p].value, "put")

\* The caches that get the written value instead of losing the old one.
Put(p) ==
    /\ At(p, "put")
    /\ cached' = [cached EXCEPT ![local[p].doc] = local[p].value]
    /\ Jump(p, local[p].then)
    /\ UNCHANGED <<stored, outdated, dirty>>

\* AddChat asks for the chat and inserts it if there is none; an existing
\* document is left as it is ($setOnInsert).
AddChat(p) ==
    \/ /\ At(p, "chatRead")
       /\ IF local[p].got # None THEN Return(p)
          ELSE Goto(p, "addChat", [local[p] EXCEPT !.then = "idle"])
       /\ UNCHANGED docVars
    \/ /\ At(p, "addChat")
       /\ LET d == local[p].doc IN
          Write(p, d, IF stored[d] = None THEN Blank ELSE stored[d], "idle")

\* AddUser only asks the cache.
AddUser(p) ==
    /\ At(p, "addUser")
    /\ IF cached["user"] # None
       THEN Jump(p, local[p].then) /\ UNCHANGED docVars
       ELSE Write(p, "user", TRUE, "put")

-----------------------------------------------------------------------------
\* /start in a group or in private, a bot added to a group, and /logger.
Begin(p, cmd, label, l) == At(p, "idle") /\ Goto(p, label, [l EXCEPT !.cmd = cmd])

startHandler(p) ==
    /\ \/ \E d \in Chats :
            Begin(p, "start", "lookup", [Fresh EXCEPT !.doc = d, !.then = "chatRead"])
       \/ Begin(p, "start", "addUser", [Fresh EXCEPT !.doc = "user", !.value = TRUE])
    /\ UNCHANGED docVars

loggerHandler(p) ==
    /\ \E on \in BOOLEAN :
         Begin(p, "logger", "lookup", [Fresh EXCEPT !.doc = "logger", !.value = on,
                                                   !.then = "loggerRead"])
    /\ UNCHANGED docVars

LoggerRead(p) ==
    /\ At(p, "loggerRead")
    /\ Goto(p, "setLogger", [local[p] EXCEPT !.then = "idle"])
    /\ UNCHANGED docVars

-----------------------------------------------------------------------------
\* GetAllChats and GetAllUsers: the cursor's documents are cached one by one,
\* as they come.  An error in between loses the whole list.
Class(d) == IF d \in Chats THEN Chats ELSE {"user"}

ScanRead(p) ==
    /\ At(p, "scan")
    /\ \E d \in local[p].todo :
         /\ Chats \cap local[p].todo # {} => d \in Chats
         /\ \/ /\ stored[d] # None
               /\ Goto(p, "scanPut", [local[p] EXCEPT !.doc = d, !.got = stored[d]])
            \/ stored[d] = None /\ Goto(p, "scan", [local[p] EXCEPT !.todo = @ \ {d}])
            \/ /\ "database" \in Faults
               /\ Goto(p, "scan", [local[p] EXCEPT !.todo = @ \ Class(d),
                                                   !.targets = @ \ Class(d)])
    /\ UNCHANGED docVars

ScanPut(p) ==
    /\ At(p, "scanPut")
    /\ cached' = [cached EXCEPT ![local[p].doc] = local[p].got]
    /\ Goto(p, "scan", [local[p] EXCEPT !.todo = @ \ {local[p].doc},
                                        !.targets = @ \cup {local[p].doc}])
    /\ UNCHANGED <<stored, outdated, dirty>>

GetAllChats(p) == local[p].todo \cap Chats # {} /\ (ScanRead(p) \/ ScanPut(p))
GetAllUsers(p) == local[p].todo = {"user"} /\ (ScanRead(p) \/ ScanPut(p))

DocumentStep(p) ==
    \/ getChat(p) \/ GetAuthUsers(p) \/ GetLoggerStatus(p)
    \/ SetPlayMode(p) \/ SetAdminMode(p) \/ SetCmdDelete(p)
    \/ AddAuthUser(p) \/ RemoveAuthUser(p) \/ Drop(p)
    \/ LoggerRead(p) \/ SetLoggerStatus(p) \/ Put(p) \/ AddChat(p) \/ AddUser(p)
    \/ GetAllChats(p) \/ GetAllUsers(p)

-----------------------------------------------------------------------------
\* The twenty minutes of a cached entry are over.
EntryExpires(d) ==
    /\ cached[d] # None
    /\ Vanishes(None, d)
    /\ UNCHANGED <<goVars, stored, dirty>>

\* A cached value differs from the stored one only between a write and the
\* cache operation that follows it, or when a write outran a reader that had
\* already read, was not confirmed, or came from a restore, none of which the
\* caches hear of (chats.go, auth.go, logger.go, users.go).
DocumentsFresh ==
    \A d \in Docs : cached[d] \notin {None, stored[d]} =>
        d \in outdated \/ \E p \in Procs : pc[p] \in {"drop", "put"} /\ local[p].doc = d

=============================================================================
