------------------------------ MODULE Assistants ------------------------------
(***************************************************************************)
(* Which assistant plays in a chat, and how it gets there: the assignment  *)
(* (getClientIndex, core/db/assistant.go), PlayMedia with its retry and    *)
(* rotation (vc/play.go), membership and invite links (vc/userbot.go), the *)
(* bot's view of member updates (handlers/participant.go), and the         *)
(* commands that make assistants join or leave chats (vc/join_all.go,      *)
(* vc/leave_all.go), over the connections of module Connection.            *)
(*                                                                         *)
(* One chat, a group without a public name.  A method of core/db takes a   *)
(* step for its request to the database and one for its entry of           *)
(* assistantCache.  Of the chat's queue only that it is cleared matters,   *)
(* which changes nothing below.                                            *)
(***************************************************************************)
EXTENDS Connection, Bags, BagsExt

CONSTANTS
    Ops,          \* the commands that are given
    Events,       \* what happens outside
    Loads,        \* what can fail in a behaviour, and, as a bound, how many commands
                  \* and outside events it has
    MaxLinks      \* bound: invite links made

Fallible == {"native", "telegram", "participants", "flood", "crowded", "db", "rights",
             "requests", "supergroup"}

ASSUME AssistantsAssumption ==
    /\ None \notin Procs /\ None \notin Assistants /\ None \notin CallIds
    /\ CallIds # {}
    /\ MaxLinks \in Nat
    /\ Ops \subseteq {"play", "stop", "joinall", "leaveall", "clearass"}
    /\ Events \subseteq {"video", "member", "self", "link", "expire", "bot"}
    /\ \A l \in Loads : l.faults \subseteq Fallible /\ l.bound \in Nat

VARIABLES
    assigned,     \* external: the assistant the database assigns to the chat, or None
    cachedAssistant, \* assistantCache: the assistant noted for the chat, or None
    status,       \* statusCache: the membership noted for each assistant, or None
    invite,       \* inviteCache: the number of the link noted, 0 for none
    leaving,      \* TelegramCalls.leaving
    spawned,      \* goroutines started to leave chats: LeaveAll's and LeaveAllForClient's
    updates,      \* external: the updates not handled yet; each has a goroutine of its own
    links,        \* external: how many links were made, and how many of those revoked
    inputs,       \* how many commands and outside events are still to come
    ended,        \* external: the video chats that have ended
    quiet,        \* history: the assistants a Stop reported stopped, nothing played since
    departed,     \* history: those of them that it made leave the video chat
    alone,        \* history: the goroutines in a Stop that nothing overlaps
    outrun        \* history: assistantCache may be behind the database for good

assignment == <<assigned, cachedAssistant, outrun>>
botVars == <<assignment, status, invite, leaving, spawned>>
bounds == <<inputs, ended, faults>>
history == <<quiet, departed, alone>>
vars == <<pc, local, appVars, nativeVars, telegramVars, botVars, updates, links, bounds, history>>
idleVars == <<botVars, updates, links, bounds, history>>

Labels == Connecting \cup
    {"idle", "calls", "sources", "register", "presentation", "played", "forgetCall", "stopNative",
     "leave", "stopped", "skipped", "stopDiscarded", "forget", "unmute", "choose", "find", "fill",
     "assign", "noteAssigned", "noteSet", "dropEntry", "rotate", "clearCache", "status",
     "noteStatus", "recover", "resolve", "noteLink", "joinChat", "noteJoined", "noteExpired",
     "evict", "joinNext", "leaveNext", "dialogs", "left", "noteMember"}

Locals == [who : Assistants \cup {None}, use : Labels, then : Labels \cup {"banned"}, kind : Kinds,
           tried : SUBSET Assistants, again : BOOLEAN,
           seen : CallIds \cup Statuses \cup {None, "closed", "absent"},
           doc : Assistants \cup {None}, user : Assistants \cup {None}, link : Nat, fresh : BOOLEAN]

TypeOK ==
    /\ ConnectionTypeOK
    /\ pc \in [Procs -> Labels]
    /\ local \in [Procs -> Locals]
    /\ {assigned, cachedAssistant} \subseteq Assistants \cup {None}
    /\ status \in [Assistants -> Statuses \cup {None}]
    /\ invite \in Nat
    /\ leaving \subseteq Assistants
    /\ spawned \subseteq Assistants \X {"LeaveAll", "LeaveAllForClient"}
    /\ links \in [made : Nat, revoked : Nat]
    /\ inputs \in Nat /\ ended \subseteq CallIds /\ faults \subseteq Fallible
    /\ quiet \subseteq Assistants /\ departed \subseteq Assistants /\ alone \subseteq Procs
    /\ outrun \in BOOLEAN

\* Before the first command; or some time later, when an assistant plays in
\* the chat and everything that made it do so has come to an end.
Init ==
    /\ \/ ConnectionInit
          /\ assigned = None
          /\ status = [a \in Assistants |-> None]
       \/ \E a \in Assistants :
            /\ ConnectionPlaying(a)
            /\ assigned = a
            /\ status = [b \in Assistants |-> IF b = a THEN "member" ELSE None]
    /\ cachedAssistant = assigned /\ outrun = FALSE
    /\ pc = [p \in Procs |-> "idle"]
    /\ local = [p \in Procs |-> Fresh]
    /\ invite = 0
    /\ leaving = {} /\ spawned = {}
    /\ updates = EmptyBag
    /\ links = [made |-> 0, revoked |-> 0]
    /\ \E l \in Loads : inputs = l.bound /\ faults = l.faults
    /\ ended = {}
    /\ quiet = {} /\ departed = {} /\ alone = {}

\* Everything but the assistants' connections, in the steps of this module.
connection == <<appVars, nativeVars>>

-----------------------------------------------------------------------------
\* Commands.  /play stands for every caller of PlayMedia.

Input == inputs > 0 /\ inputs' = inputs - 1 /\ UNCHANGED faults

Command(p, op) ==
    /\ At(p, "idle") /\ p \in Commanders /\ op \in Ops
    /\ Input
    /\ UNCHANGED ended

PlayCommand(p) ==
    /\ Command(p, "play")
    /\ Goto(p, "choose", [Fresh EXCEPT !.use = "status", !.then = "calls"])
    /\ quiet' = {} /\ departed' = {} /\ alone' = {}
    /\ UNCHANGED <<connection, telegramVars, botVars, updates, links>>

StopCommand(p) ==
    /\ Command(p, "stop")
    /\ Goto(p, "choose", [Fresh EXCEPT !.use = "forgetCall"])
    /\ UNCHANGED <<connection, telegramVars, botVars, updates, links, history>>

JoinAllCommand(p) ==
    /\ Command(p, "joinall")
    /\ Goto(p, "joinNext", [Fresh EXCEPT !.then = "joinNext"])
    /\ UNCHANGED <<connection, telegramVars, botVars, updates, links, history>>

LeaveAllCommand(p) ==
    /\ Command(p, "leaveall")
    /\ Jump(p, "leaveNext")
    /\ UNCHANGED <<connection, telegramVars, botVars, updates, links, history>>

-----------------------------------------------------------------------------
\* core/db/assistant.go, over the record of the chat and its cache entry.

\* Between a request to the database and the cache.
InFlight(q) == pc[q] \in {"fill", "noteAssigned", "noteSet", "dropEntry", "clearCache"}

OthersInFlight(p) == \E q \in Procs \ {p} : InFlight(q)

\* The record becomes a; None deletes it.
Write(p, a) ==
    /\ assigned' = a
    /\ outrun' = (outrun \/ (a # assigned /\ OthersInFlight(p)))
    /\ UNCHANGED cachedAssistant

\* The request is not confirmed, and met or not.
Unconfirmed(a) ==
    /\ "db" \in faults
    /\ assigned' \in {assigned, a}
    /\ outrun' = (outrun \/ assigned' # assigned)
    /\ UNCHANGED cachedAssistant

\* The entry becomes a, and is as good as the record if no goroutine holds
\* another.
Note(p, a) ==
    /\ cachedAssistant' = a
    /\ outrun' = (outrun /\ (a \notin {None, assigned} \/ OthersInFlight(p)))
    /\ UNCHANGED assigned

\* Everything but the assignment.
unassigned == <<connection, telegramVars, status, invite, leaving, spawned, updates, links>>

\* /clearass.
ClearAllAssistants(p) ==
    /\ Command(p, "clearass")
    /\ \/ Write(p, None) /\ Jump(p, "clearCache")
       \/ Unconfirmed(None) /\ UNCHANGED <<pc, local>>
    /\ UNCHANGED <<unassigned, history>>

ClearCache(p) ==
    /\ At(p, "clearCache")
    /\ Note(p, None)
    /\ Return(p)
    /\ UNCHANGED <<unassigned, bounds, history>>

-----------------------------------------------------------------------------
\* getClientIndex: the assistant GetAssistant answers, or any, which is then
\* assigned.  AssignAssistant asks GetAssistant again when there is a record
\* already, and what that answers is not used.
Settle(p, a) ==
    Goto(p, local[p].use, IF Who(p) # None THEN [local[p] EXCEPT !.doc = None]
                          ELSE [local[p] EXCEPT !.who = a, !.tried = {a}, !.doc = None])

LookupAssistant(p) ==
    /\ At(p, "choose")
    /\ IF cachedAssistant # None THEN Settle(p, cachedAssistant) ELSE Jump(p, "find")
    /\ UNCHANGED <<connection, telegramVars, idleVars>>

FindAssistant(p) ==
    /\ At(p, "find") /\ assigned # None
    /\ Goto(p, "fill", [local[p] EXCEPT !.doc = assigned])
    /\ UNCHANGED <<connection, telegramVars, idleVars>>

FillCache(p) ==
    /\ At(p, "fill")
    /\ Note(p, local[p].doc)
    /\ Settle(p, local[p].doc)
    /\ UNCHANGED <<unassigned, bounds, history>>

\* No record, or no answer.
FindNone(p) ==
    /\ At(p, "find")
    /\ assigned = None \/ "db" \in faults
    /\ \/ /\ Who(p) = None
          /\ \E a \in Assistants :
               Goto(p, "assign", [local[p] EXCEPT !.who = a, !.tried = {a}])
       \/ Who(p) # None /\ Jump(p, local[p].use)
    /\ UNCHANGED <<connection, telegramVars, idleVars>>

AssignAssistant(p) ==
    /\ At(p, "assign")
    /\ \/ assigned = None /\ Write(p, Who(p)) /\ Jump(p, "noteAssigned")
       \/ assigned # None /\ UNCHANGED assignment /\ Jump(p, "choose")
       \/ Unconfirmed(IF assigned = None THEN Who(p) ELSE assigned) /\ Jump(p, local[p].use)
    /\ UNCHANGED <<unassigned, bounds, history>>

NoteAssigned(p) ==
    /\ At(p, "noteAssigned")
    /\ Note(p, Who(p))
    /\ Jump(p, local[p].use)
    /\ UNCHANGED <<unassigned, bounds, history>>

ChooseStep(p) ==
    \/ LookupAssistant(p) \/ FindAssistant(p) \/ FillCache(p) \/ FindNone(p)
    \/ AssignAssistant(p) \/ NoteAssigned(p)

-----------------------------------------------------------------------------
\* joinAssistant.  It ends at the label `then', or in an error.

JoinFailed(p, kind) ==
    IF local[p].then = "joinNext" THEN Jump(p, "joinNext") ELSE PlayFailed(p, kind)

\* What is done for a status: nothing, an invitation, or a recovery first.
Treat(p, s) ==
    LET label == CASE s = "member" -> local[p].then
                   [] s = "left" -> "resolve"
                   [] OTHER -> "recover"
    IN Goto(p, label, [local[p] EXCEPT !.seen = s])

CheckStatus(p) ==
    /\ At(p, "status")
    /\ LET noted == status[Who(p)] IN
       \/ noted # None /\ Treat(p, noted)
       \/ noted = None /\ Goto(p, "noteStatus", [local[p] EXCEPT !.seen = member[Who(p)]])
       \/ noted = None /\ "telegram" \in faults /\ JoinFailed(p, "unknown")
    /\ UNCHANGED <<connection, telegramVars, idleVars>>

NoteStatus(p) ==
    /\ At(p, "noteStatus")
    /\ status' = [status EXCEPT ![Who(p)] = local[p].seen]
    /\ Treat(p, local[p].seen)
    /\ UNCHANGED <<connection, telegramVars, assignment, invite, leaving, spawned, updates, links,
                   bounds, history>>

\* External: a membership changes, and with it the place in the video chat;
\* the bot is told.
MemberUpdate(a, old, new) ==
    [to |-> a, type |-> "member", old |-> old, new |-> new, call |-> None, can |-> FALSE]

BecomesMember(a, new) ==
    /\ member' = [member EXCEPT ![a] = new]
    /\ joined' = [joined EXCEPT ![a] = IF new \in {"left", "banned"} THEN None ELSE @]
    /\ updates' = BagAdd(updates, MemberUpdate(a, member[a], new))

\* recoverBannedAssistant.  A bot that may restrict members lifts a ban; it
\* cannot add members, so at best the assistant may join again.  Restrictions
\* are left as they are.
Recover(p) ==
    /\ At(p, "recover")
    /\ LET a == Who(p) IN
       \/ /\ local[p].seen = "restricted"
          /\ Jump(p, local[p].then)
          /\ UNCHANGED <<member, joined, updates>>
       \/ /\ local[p].seen = "banned"
          /\ IF member[a] = "banned" THEN BecomesMember(a, "left") ELSE UNCHANGED <<member, joined, updates>>
          /\ Jump(p, "resolve")
       \/ /\ "rights" \in faults
          /\ JoinFailed(p, "unknown")
          /\ UNCHANGED <<member, joined, updates>>
    /\ UNCHANGED <<connection, live, botVars, links, bounds, history>>

\* resolveInviteLink, the second time for a link that has expired.
ResolveCached(p) ==
    /\ At(p, "resolve") /\ invite # 0
    /\ IF local[p].fresh /\ invite = local[p].link
       THEN Jump(p, "noteExpired")
       ELSE Goto(p, "joinChat", [local[p] EXCEPT !.link = invite])
    /\ UNCHANGED <<connection, telegramVars, idleVars>>

CreateLink(p) ==
    /\ At(p, "resolve") /\ invite = 0
    /\ \/ /\ links.made < MaxLinks
          /\ links' = [links EXCEPT !.made = @ + 1]
          /\ Goto(p, "noteLink", [local[p] EXCEPT !.link = links.made + 1])
       \/ /\ links.made = MaxLinks \/ "telegram" \in faults
          /\ IF local[p].fresh THEN Jump(p, "noteExpired") ELSE JoinFailed(p, "unknown")
          /\ UNCHANGED links
    /\ UNCHANGED <<connection, telegramVars, botVars, updates, bounds, history>>

NoteLink(p) ==
    /\ At(p, "noteLink")
    /\ invite' = local[p].link
    /\ Jump(p, "joinChat")
    /\ UNCHANGED <<connection, telegramVars, assignment, status, leaving, spawned, updates, links,
                   bounds, history>>

\* The assistant's account opens the link.  An expired one is replaced once; a
\* join that needs approval gets the bot's, and is not noted.
JoinChat(p) ==
    /\ At(p, "joinChat") /\ local[p].link > links.revoked
    /\ LET a == Who(p) IN
       \/ /\ member[a] = "left"
          /\ BecomesMember(a, "member")
          /\ \/ Jump(p, "noteJoined")
             \/ "requests" \in faults /\ Jump(p, local[p].then)
       \/ /\ UNCHANGED <<member, joined, updates>>
          /\ \/ member[a] \in {"member", "restricted"} /\ Jump(p, "noteJoined")
             \/ member[a] = "banned" /\ Jump(p, "noteExpired")
             \/ faults \cap {"requests", "telegram"} # {} /\ JoinFailed(p, "unknown")
             \/ "flood" \in faults /\ JoinFailed(p, "rotate")
             \/ "crowded" \in faults /\ JoinFailed(p, "crowded")
    /\ UNCHANGED <<connection, live, botVars, links, bounds, history>>

JoinExpired(p) ==
    /\ At(p, "joinChat") /\ local[p].link <= links.revoked
    /\ IF local[p].fresh
       THEN Jump(p, "noteExpired") /\ UNCHANGED invite
       ELSE Goto(p, "resolve", [local[p] EXCEPT !.fresh = TRUE]) /\ invite' = 0
    /\ UNCHANGED <<connection, telegramVars, assignment, status, leaving, spawned, updates, links,
                   bounds, history>>

NoteJoined(p) ==
    /\ At(p, "noteJoined")
    /\ status' = [status EXCEPT ![Who(p)] = "member"]
    /\ Jump(p, local[p].then)
    /\ UNCHANGED <<connection, telegramVars, assignment, invite, leaving, spawned, updates, links,
                   bounds, history>>

\* handleJoinError on INVITE_HASH_EXPIRED and on CHANNEL_PRIVATE, a ban, alike.
NoteExpired(p) ==
    /\ At(p, "noteExpired")
    /\ invite' = 0
    /\ status' = [status EXCEPT ![Who(p)] = "left"]
    /\ JoinFailed(p, "unknown")
    /\ UNCHANGED <<connection, telegramVars, assignment, leaving, spawned, updates, links, bounds,
                   history>>

JoinStep(p) ==
    \/ CheckStatus(p) \/ NoteStatus(p) \/ Recover(p)
    \/ ResolveCached(p) \/ CreateLink(p) \/ NoteLink(p) \/ JoinChat(p)
    \/ JoinExpired(p) \/ NoteJoined(p) \/ NoteExpired(p)

-----------------------------------------------------------------------------
\* PlayMedia after playMedia, and rotateAndPlay.

SetAssistant(p) ==
    /\ At(p, "played")
    /\ \/ Write(p, Who(p)) /\ Jump(p, "noteSet")
       \/ Unconfirmed(Who(p)) /\ Return(p)
    /\ UNCHANGED <<unassigned, bounds, history>>

NoteSet(p) ==
    /\ At(p, "noteSet")
    /\ Note(p, Who(p))
    /\ Return(p)
    /\ UNCHANGED <<unassigned, bounds, history>>

\* The next assistant of a rotation, or of JoinAllAssistants.
Try(p, a, label, then) ==
    Goto(p, label, [Fresh EXCEPT !.who = a, !.tried = local[p].tried \cup {a}, !.then = then])

\* evictAssistant, for an assistant that can no longer serve the chat.
RemoveAssistant(p) ==
    /\ At(p, "evict")
    /\ \/ Write(p, None) /\ Jump(p, "dropEntry")
       \/ Unconfirmed(None) /\ Jump(p, "rotate")
    /\ UNCHANGED <<unassigned, bounds, history>>

\* Mutant of DropEntry: the cache keeps the assistant that was evicted.
BugDropEntry(p) ==
    /\ At(p, "dropEntry")
    /\ Jump(p, "rotate")
    /\ UNCHANGED <<unassigned, assignment, bounds, history>>

DropEntry(p) ==
    /\ At(p, "dropEntry")
    /\ Note(p, None)
    /\ Jump(p, "rotate")
    /\ UNCHANGED <<unassigned, bounds, history>>

Rotate(p) ==
    /\ At(p, "rotate")
    /\ spawned' = IF local[p].kind = "crowded"
                  THEN spawned \cup {<<Who(p), "LeaveAllForClient">>} ELSE spawned
    /\ \/ \E a \in Assistants \ local[p].tried : Try(p, a, "status", "calls")
       \/ local[p].tried = Assistants /\ Return(p)
    /\ UNCHANGED <<connection, telegramVars, assignment, status, invite, leaving, updates, links,
                   bounds, history>>

AssignStep(p) ==
    \/ SetAssistant(p) \/ NoteSet(p) \/ RemoveAssistant(p) \/ DropEntry(p) \/ ClearCache(p)

JoinNext(p) ==
    /\ At(p, "joinNext")
    /\ \/ \E a \in Assistants \ local[p].tried : Try(p, a, "status", "joinNext")
       \/ local[p].tried = Assistants /\ Return(p)
    /\ UNCHANGED <<connection, telegramVars, idleVars>>

-----------------------------------------------------------------------------
\* LeaveAll and LeaveAllForClient.

\* Mutant of LeaveNext: the mark is not looked at.
BugLeaveNext(p) ==
    /\ At(p, "leaveNext")
    /\ \/ \E a \in Assistants \ local[p].tried :
            /\ leaving' = leaving \cup {a}
            /\ spawned' = spawned \cup {<<a, "LeaveAll">>}
            /\ Try(p, a, "leaveNext", "idle")
       \/ local[p].tried = Assistants /\ Return(p) /\ UNCHANGED <<leaving, spawned>>
    /\ UNCHANGED <<connection, telegramVars, assignment, status, invite, updates, links, bounds, history>>

\* A goroutine for every assistant that is not leaving chats already; LeaveAll
\* then waits for them, which nothing waits for.
LeaveNext(p) ==
    /\ At(p, "leaveNext")
    /\ \/ \E a \in Assistants \ local[p].tried :
            /\ leaving' = leaving \cup {a}
            /\ spawned' = IF a \in leaving THEN spawned ELSE spawned \cup {<<a, "LeaveAll">>}
            /\ Try(p, a, "leaveNext", "idle")
       \/ local[p].tried = Assistants /\ Return(p) /\ UNCHANGED <<leaving, spawned>>
    /\ UNCHANGED <<connection, telegramVars, assignment, status, invite, updates, links, bounds, history>>

\* Background work is done by any goroutine that has nothing to do; its start
\* is not told apart from another's of the same kind for the same assistant.
LeavePicked(p, a) ==
    /\ At(p, "idle") /\ <<a, "LeaveAll">> \in spawned
    /\ spawned' = spawned \ {<<a, "LeaveAll">>}
    /\ Goto(p, "dialogs", [Fresh EXCEPT !.who = a])
    /\ UNCHANGED <<connection, telegramVars, assignment, status, invite, leaving, updates, links,
                   bounds, history>>

LeaveAllForClient(p, a) ==
    /\ At(p, "idle") /\ <<a, "LeaveAllForClient">> \in spawned
    /\ spawned' = spawned \ {<<a, "LeaveAllForClient">>}
    /\ leaving' = leaving \cup {a}
    /\ IF a \in leaving
       THEN UNCHANGED <<pc, local>>
       ELSE Goto(p, "dialogs", [Fresh EXCEPT !.who = a])
    /\ UNCHANGED <<connection, telegramVars, assignment, status, invite, updates, links, bounds, history>>

\* leaveAssistantDialogs.  ChatCache.IsActive is asked for the id without its
\* prefix, under which no chat has a queue, so a chat that plays is left as
\* well.  A chat that is not among the dialogs, or no longer when its turn
\* comes, is skipped; a flood wait is waited out.
LeaveChannel(p) ==
    /\ At(p, "dialogs")
    /\ \/ /\ member[Who(p)] \in {"member", "restricted"}
          /\ BecomesMember(Who(p), "left")
       \/ /\ member[Who(p)] \in {"left", "banned"} \/ "telegram" \in faults
          /\ UNCHANGED <<member, joined, updates>>
    /\ Jump(p, "left")
    /\ UNCHANGED <<connection, live, botVars, links, bounds, history>>

LeftChats(p) ==
    /\ At(p, "left")
    /\ leaving' = leaving \ {Who(p)}
    /\ Return(p)
    /\ UNCHANGED <<connection, telegramVars, assignment, status, invite, spawned, updates, links,
                   bounds, history>>

LeaveStep(p) == LeaveNext(p) \/ LeaveChannel(p) \/ LeftChats(p)

-----------------------------------------------------------------------------
\* Update handlers.

\* dispatchStatusChange: the status it notes for a change, or None.
Noted(u) ==
    CASE u.old = "left" /\ u.new \in {"member", "restricted"} -> "member"
      [] u.old \in {"member", "restricted"} /\ u.new = "left" -> "left"
      [] u.new = "banned" -> "banned"
      [] u.old = "banned" /\ u.new = "left" -> "left"
      [] "restricted" \in {u.old, u.new} /\ u.new # "left" -> u.new
      [] OTHER -> None

TakeUpdate(p, u) ==
    /\ At(p, "idle") /\ p \in Updaters
    /\ updates' = BagRemove(updates, u)

HandleOwn(p, u) ==
    /\ TakeUpdate(p, u)
    /\ HandleOwnUpdate(p, u)
    /\ UNCHANGED <<telegramVars, botVars, links, bounds, history>>

\* handleParticipant asks for the chat's assistant first, which assigns one.
HandleParticipant(p, u) ==
    /\ TakeUpdate(p, u)
    /\ u.type = "member"
    /\ Goto(p, "choose", [Fresh EXCEPT !.use = "noteMember", !.user = u.to, !.seen = Noted(u)])
    /\ UNCHANGED <<connection, telegramVars, botVars, links, bounds, history>>

\* The bot is removed: Stop, as for a ban.
HandleBotRemoved(p, u) ==
    /\ TakeUpdate(p, u)
    /\ u.type = "bot"
    /\ Goto(p, "choose", [Fresh EXCEPT !.use = "forgetCall", !.then = "banned"])
    /\ UNCHANGED <<connection, telegramVars, botVars, links, bounds, history>>

\* Updates about another assistant than the chat's are dropped.
NoteMember(p) ==
    /\ At(p, "noteMember")
    /\ \/ /\ local[p].user = Who(p) /\ local[p].seen # None
          /\ status' = [status EXCEPT ![Who(p)] = local[p].seen]
       \/ /\ local[p].user # Who(p) \/ local[p].seen = None \/ "supergroup" \in faults
          /\ UNCHANGED status
    /\ Return(p)
    /\ UNCHANGED <<connection, telegramVars, assignment, invite, leaving, spawned, updates, links,
                   bounds, history>>

-----------------------------------------------------------------------------
\* What goes on outside.

Event(e) == e \in Events /\ Input

OwnUpdate(a, type, c, can) ==
    [to |-> a, type |-> type, old |-> "left", new |-> "left", call |-> c, can |-> can]

\* Every assistant in the chat is told.
Tell(type, c) ==
    updates' = updates (+) SetToBag({OwnUpdate(a, type, c, FALSE) :
                                     a \in {b \in Assistants : member[b] \in {"member", "restricted"}}})

VideoChatStarts ==
    /\ Event("video") /\ live = None /\ CallIds # ended
    /\ live' = NextCall(ended)
    /\ Tell("started", NextCall(ended))
    /\ UNCHANGED <<pc, local, connection, joined, member, botVars, links, ended, history>>

VideoChatEnds ==
    /\ Event("video") /\ live # None
    /\ live' = None /\ ended' = ended \cup {live}
    /\ joined' = [a \in Assistants |-> None]
    /\ Tell("discarded", live)
    /\ UNCHANGED <<pc, local, connection, member, botVars, links, history>>

\* An admin removes, restricts or bans an assistant, or lifts that.
MemberChanges(a) ==
    /\ Event("member")
    /\ \E new \in Statuses :
         /\ member[a] # "left" /\ new # member[a]
         /\ member[a] = "banned" => new = "left"
         /\ BecomesMember(a, new)
    /\ UNCHANGED <<pc, local, connection, live, botVars, links, ended, history>>

\* An admin mutes the assistant in the video chat, or lets it speak.
SelfChanges(a) ==
    /\ Event("self") /\ joined[a] # None
    /\ \E can \in BOOLEAN : updates' = BagAdd(updates, OwnUpdate(a, "self", joined[a], can))
    /\ UNCHANGED <<pc, local, connection, telegramVars, botVars, links, ended, history>>

LinkRevoked ==
    /\ Event("link") /\ links.revoked < links.made
    /\ links' = [links EXCEPT !.revoked = links.made]
    /\ UNCHANGED <<pc, local, connection, telegramVars, botVars, updates, ended, history>>

\* Entries of statusCache and inviteCache expire.
CachesExpire ==
    /\ Event("expire")
    /\ invite' = 0 /\ status' = [a \in Assistants |-> None]
    /\ UNCHANGED <<pc, local, connection, telegramVars, assignment, leaving, spawned, updates, links,
                   ended, history>>

AssignmentExpires ==
    /\ Event("expire")
    /\ cachedAssistant' = None
    /\ outrun' = (outrun /\ \E q \in Procs : InFlight(q))
    /\ UNCHANGED <<pc, local, unassigned, assigned, ended, history>>

BotRemoved ==
    /\ Event("bot")
    /\ updates' = BagAdd(updates, OwnUpdate(None, "bot", None, FALSE))
    /\ UNCHANGED <<pc, local, connection, telegramVars, botVars, links, ended, history>>

Outside ==
    \/ VideoChatStarts \/ VideoChatEnds \/ LinkRevoked \/ CachesExpire
    \/ AssignmentExpires \/ BotRemoved
    \/ \E a \in Assistants : MemberChanges(a) \/ SelfChanges(a)

-----------------------------------------------------------------------------
\* Whether Stop has the chat to itself, from here to its end.
BeginStop(p) ==
    /\ ForgetCall(p)
    /\ alone' = IF abandoned[Who(p)] = {} /\ \A q \in Procs \ {p} : pc[q] = "idle"
                THEN alone \cup {p} ELSE alone \ {p}
    /\ UNCHANGED <<botVars, updates, links, bounds, quiet, departed>>

Stopped(p) ==
    /\ pc[p] \in {"stopped", "skipped"}
    /\ quiet' = IF p \in alone THEN quiet \cup {Who(p)} ELSE quiet
    /\ departed' = IF p \in alone /\ At(p, "stopped") THEN departed \cup {Who(p)} ELSE departed
    /\ Return(p)
    /\ UNCHANGED <<connection, telegramVars, botVars, updates, links, bounds, alone>>

Commands(p) ==
    \/ PlayCommand(p) \/ StopCommand(p) \/ JoinAllCommand(p) \/ LeaveAllCommand(p)
    \/ ClearAllAssistants(p)

\* A step of a goroutine that is at work.
Work(p) ==
    \/ (ConnectStep(p) \/ StopNative(p) \/ LeaveGroupCall(p) \/ UpdateStep(p)) /\ UNCHANGED idleVars
    \/ ChooseStep(p) \/ JoinStep(p) \/ LeaveStep(p) \/ AssignStep(p)
    \/ Rotate(p) \/ JoinNext(p)
    \/ NoteMember(p) \/ BeginStop(p) \/ Stopped(p)

\* What starts a goroutine of the updates or of the background.
Dispatch(p) ==
    \/ \E u \in BagToSet(updates) : HandleOwn(p, u) \/ HandleParticipant(p, u) \/ HandleBotRemoved(p, u)
    \/ \E a \in Assistants : LeavePicked(p, a) \/ LeaveAllForClient(p, a)

Next ==
    \/ \E p \in Procs : Commands(p) \/ Work(p) \/ Dispatch(p)
    \/ \E a \in Assistants :
         (NativeConnects(a) \/ NativeCatchesUp(a) \/ OnConnectionChange(a)) /\ UNCHANGED idleVars
    \/ Outside

\* While some goroutine can go on, some goroutine does.  Nothing is assumed of
\* the engine, which may never answer, nor of the updates.
Fairness == WF_vars(\E p \in Procs : Work(p))

Spec == Init /\ [][Next]_vars /\ Fairness

-----------------------------------------------------------------------------
\* At most one goroutine makes an assistant leave its chats: the mark of
\* LeaveAll is not removed by one goroutine while another relies on it, and
\* the one an eviction starts (CHANNELS_TOO_MUCH) does not work on the
\* dialogs that /leaveall or AutoLeave is working on.
OneLeaver ==
    \A p, q \in Procs :
        /\ pc[p] \in {"dialogs", "left"} => Who(p) \in leaving
        /\ {pc[p], pc[q]} \subseteq {"dialogs", "left"} /\ Who(p) = Who(q) => p = q

\* After a Stop that reported no error and overlapped nothing that was under
\* way when it began, no request abandoned in the engine included, the
\* assistant's engine has no call and no participants update can connect it
\* again; and it is out of the video chat, but for three cases in which Stop
\* reports success and does not make it leave: the engine had no call ("not
\* found", vc/calls.go:158), no group call was noted for the chat, or Stop ran
\* because the bot was removed (vc/assistant.go:89).  This stays so until
\* something is played, whatever updates were still on their way.
StopLeaves ==
    /\ \A a \in quiet : call[a] = "none" /\ ~pendingConnection[a]
    /\ \A a \in departed : joined[a] = None

\* assistantCache never keeps for good an assistant the database does not assign
\* to the chat: an entry that differs from the record is that of a method of
\* core/db that has written the record and not yet the entry; or another write
\* came between some method's request and its entry (a delayed look-up puts back
\* what it read), or a request was met and not confirmed, and since then nobody
\* has written the entry undisturbed nor has it expired.
AssignmentCached ==
    \/ cachedAssistant \in {None, assigned}
    \/ outrun
    \/ \E p \in Procs : pc[p] \in {"noteAssigned", "noteSet", "dropEntry", "clearCache"}

\* Commands and handlers come to an end: again and again no goroutine is at
\* work.  The waits for a connection, the retry, the rotation over the
\* assistants and the second link are bounded, whatever fails and whoever
\* else is connecting the same chat.
CommandsReturn == []<>(\A p \in Procs : pc[p] = "idle")

\* "retry the same assistant once (e.g. participants race)" (vc/play.go:19):
\* when PlayMedia reports success the assistant is in the chat's video chat.
RetryJoins == \A p \in Procs : pc[p] = "played" => joined[Who(p)] # None
=============================================================================
