------------------------------ MODULE AdminCache ------------------------------
(***************************************************************************)
(* The cached list of the chat's administrators (core/cache/admin_cache.go)*)
(* with the /reload command and the updates that keep the bot's own entry  *)
(* up to date.  A list gives every member's role: "limited" administrators *)
(* lack the right the bot asks for (inviting users for itself, managing    *)
(* video chats for users); a creator has them all.                         *)
(***************************************************************************)
EXTENDS Documents, Bags, BagsExt

CONSTANTS
    Bot,
    Creator   \* the creator of the chat, whose role never changes

Members == Users \cup {Bot}
Roles == {"none", "limited", "admin"}

VARIABLES
    roles,       \* external: Telegram's own list
    updates,     \* external: changes of the bot's role not handled yet, a bag
    adminCache,  \* the entry of AdminCache, None when absent
    cooling      \* reloadRateLimit holds an entry for the chat

adminVars == <<roles, updates, adminCache, cooling>>

AdminCacheTypeOK ==
    /\ roles \in [Members -> Roles]
    /\ BagToSet(updates) \subseteq Roles
    /\ adminCache \in [Members -> Roles] \cup {None}
    /\ cooling \in BOOLEAN
    /\ outdated \subseteq Docs \cup {"bot", "members", "dropped"}

-----------------------------------------------------------------------------
\* GetAdmins.
Admins(p, use, force) == Goto(p, "admins", [local[p] EXCEPT !.use = use, !.force = force])

GetAdmins(p) ==
    /\ At(p, "admins")
    /\ IF ~local[p].force /\ adminCache # None
       THEN Goto(p, local[p].use, [local[p] EXCEPT !.list = adminCache])
       ELSE Jump(p, "fetch")
    /\ UNCHANGED <<docVars, adminVars>>

\* Errors are not cached.
FetchAdmins(p) ==
    /\ At(p, "fetch")
    /\ \/ Goto(p, "keepAdmins", [local[p] EXCEPT !.list = roles])
       \/ /\ "telegram" \in Faults
          /\ Goto(p, local[p].use, [local[p] EXCEPT !.list = None, !.failed = TRUE])
    /\ UNCHANGED <<docVars, adminVars>>

KeepAdmins(p) ==
    /\ At(p, "keepAdmins")
    /\ adminCache' = local[p].list
    /\ Jump(p, local[p].use)
    /\ UNCHANGED <<docVars, roles, updates, cooling>>

\* GetChatAdminIDs, to which an absent list is an error its callers take for
\* an empty list.
GetChatAdminIDs == {m \in Members : adminCache # None /\ adminCache[m] # "none"}

-----------------------------------------------------------------------------
\* Goroutines about to store a list they have read.
Storing(q) == pc[q] \in {"keepAdmins", "noteWrite"}

\* The list is gone, and with it what was wrong with it.
ListVanishes(p) ==
    /\ adminCache' = None
    /\ outdated' = IF updates # EmptyBag \/ \E q \in Procs \ {p} : Storing(q) \/ At(q, "note")
                   THEN outdated ELSE outdated \ {"bot", "members", "dropped"}

\* /reload: at most once in three minutes, if the test and the entry that
\* follows it are not overtaken; the list is cleared and fetched.  It also
\* forgets the invite link, which is Assistants' state.
ReloadAllowed(p) ==
    /\ At(p, "reload")
    /\ IF cooling THEN Return(p) ELSE Jump(p, "reloadMark")
    /\ UNCHANGED <<docVars, adminVars>>

ReloadMark(p) ==
    /\ At(p, "reloadMark")
    /\ cooling' = TRUE
    /\ \/ Jump(p, "clearAdmins")
       \/ "telegram" \in Faults /\ Return(p)
    /\ UNCHANGED <<docVars, roles, updates, adminCache>>

ClearAdminCache(p) ==
    /\ At(p, "clearAdmins")
    /\ ListVanishes(p)
    /\ Admins(p, "idle", TRUE)
    /\ UNCHANGED <<stored, cached, dirty, roles, updates, cooling>>

reloadAdminCacheHandler(p) ==
    ReloadAllowed(p) \/ ReloadMark(p) \/ ClearAdminCache(p)

-----------------------------------------------------------------------------
\* handleParticipant for an update about the bot.  What it asks for its
\* assistant is not looked at for such an update and fails only when no
\* assistant is logged in.  UpdateAdminCache reads the list, edits and stores
\* it without a lock.
HandleBotRole(p, role) ==
    /\ At(p, "idle") /\ role \in BagToSet(updates)
    /\ updates' = BagRemove(updates, role)
    /\ Goto(p, "note", [Fresh EXCEPT !.cmd = "note", !.value = role])
    /\ UNCHANGED <<docVars, roles, adminCache, cooling>>

\* handleParticipant first asks for the group's assistant and for the chat.  If
\* one fails it returns, and a list that is cached never hears of the change.
DropBotRole(role) ==
    /\ role \in BagToSet(updates) /\ "telegram" \in Faults
    /\ updates' = BagRemove(updates, role)
    /\ outdated' = IF adminCache = None THEN outdated ELSE outdated \cup {"dropped"}
    /\ UNCHANGED <<goVars, stored, cached, dirty, roles, adminCache, cooling>>

\* Mutant of NoteRead: an absent list is taken for an empty one.
BugNoteRead(p) ==
    /\ At(p, "note")
    /\ Goto(p, "noteWrite", [local[p] EXCEPT !.list = IF adminCache = None THEN [m \in {Bot} |-> "none"]
                                                     ELSE adminCache])
    /\ UNCHANGED <<docVars, adminVars>>

NoteRead(p) ==
    /\ At(p, "note")
    /\ IF adminCache = None
       THEN Return(p)
       ELSE Goto(p, "noteWrite", [local[p] EXCEPT !.list = adminCache])
    /\ UNCHANGED <<docVars, adminVars>>

NoteWrite(p) ==
    /\ At(p, "noteWrite")
    /\ adminCache' = [local[p].list EXCEPT ![Bot] = local[p].value]
    /\ Return(p)
    /\ UNCHANGED <<docVars, roles, updates, cooling>>

UpdateAdminCache(p) == NoteRead(p) \/ NoteWrite(p)

AdminStep(p) ==
    \/ GetAdmins(p) \/ FetchAdmins(p) \/ KeepAdmins(p)
    \/ reloadAdminCacheHandler(p) \/ UpdateAdminCache(p)

-----------------------------------------------------------------------------
\* External: the bot or a user is promoted, limited or demoted.  The handler
\* of the update drops those about users (participant.go), so their entries
\* are wrong from then on; the bot's is while updates are under way, and
\* stays so when they overtake one another or a list being stored.
RoleChanges(m) ==
    /\ \E r \in Roles \ {roles[m]} :
         /\ roles' = [roles EXCEPT ![m] = r]
         /\ updates' = IF m = Bot THEN BagAdd(updates, r) ELSE updates
    /\ LET late == \E q \in Procs : Storing(q)
           beaten == updates # EmptyBag \/ \E q \in Procs : At(q, "note") IN
       outdated' = outdated \cup (IF m = Bot /\ (late \/ beaten) THEN {"bot"} ELSE {})
                            \cup (IF m # Bot /\ (late \/ adminCache # None)
                                  THEN {"members"} ELSE {})
    /\ UNCHANGED <<goVars, stored, cached, dirty, adminCache, cooling>>

\* The list, or the entry of the rate limit, expires.
AdminsExpire ==
    /\ adminCache # None
    /\ ListVanishes(None)
    /\ UNCHANGED <<goVars, stored, cached, dirty, roles, updates, cooling>>

CoolingExpires ==
    /\ cooling
    /\ cooling' = FALSE
    /\ UNCHANGED <<goVars, docVars, roles, updates, adminCache>>

\* The bot finds its own role in the list when its updates are handled, unless
\* they overtook one another or a list that was being fetched or edited
\* ("bot"), or the handler of one returned before it came to the list
\* ("dropped", participant.go lines 34 to 55).
BotRoleFresh ==
    \/ adminCache = None \/ outdated \cap {"bot", "dropped"} # {}
    \/ updates # EmptyBag \/ \E p \in Procs : At(p, "note") \/ At(p, "noteWrite")
    \/ adminCache[Bot] = roles[Bot]

=============================================================================
