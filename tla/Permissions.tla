------------------------------ MODULE Permissions ------------------------------
(***************************************************************************)
(* The checks a command passes before it runs (handlers/filters.go), and   *)
(* the commands that change what they look at: the settings buttons        *)
(* (settings.go) and /auth and /unauth (auth.go).  All of them read the    *)
(* chat, the authorised users and the administrators through the caches.   *)
(***************************************************************************)
EXTENDS AdminCache

\* The commands that adminMode and playMode stand before; "skip" and "play"
\* are examples of those that keep no document.
GatedByAdmins == {"skip", "auth", "unauth"}
GatedByPlay == {"play"}

Listed(p, m) == local[p].list # None /\ local[p].list[m] # "none"

-----------------------------------------------------------------------------
\* checkBotAdmin, the first check of both.
BeginGate(p, cmd, user) ==
    /\ At(p, "idle")
    /\ Goto(p, "admins", [Fresh EXCEPT !.cmd = cmd, !.user = user, !.use = "botGate"])
    /\ UNCHANGED <<docVars, adminVars>>

checkBotAdmin(p) ==
    /\ At(p, "botGate")
    /\ IF local[p].list # None /\ local[p].list[Bot] = "admin"
       THEN Asking(p, "chat", IF local[p].cmd \in GatedByPlay THEN "playGate" ELSE "adminGate")
       ELSE Return(p)
    /\ UNCHANGED <<docVars, adminVars>>

\* IsAdmin and IsAuthUser: the cached administrators, then the authorised.
IsAuthUser(p) ==
    IF local[p].user \in GetChatAdminIDs THEN Jump(p, "allowed") ELSE Asking(p, "auth", "authGate")

adminMode(p) ==
    /\ At(p, "adminGate")
    /\ IF EveryoneMode(local[p].got) THEN Jump(p, "allowed") ELSE IsAuthUser(p)
    /\ UNCHANGED <<docVars, adminVars>>

playMode(p) ==
    /\ At(p, "playGate")
    /\ IF GetPlayMode(local[p].got) THEN Admins(p, "playAdmins", FALSE) ELSE Jump(p, "allowed")
    /\ UNCHANGED <<docVars, adminVars>>

PlayAdmins(p) ==
    /\ At(p, "playAdmins")
    /\ CASE local[p].list = None -> Return(p)
         [] Listed(p, local[p].user) -> Jump(p, "allowed")
         [] OTHER -> IsAuthUser(p)
    /\ UNCHANGED <<docVars, adminVars>>

\* The authorised users read, which are none if there was an error.
AuthGate(p) ==
    /\ At(p, "authGate")
    /\ IF local[p].got # None /\ local[p].user \in local[p].got
       THEN Jump(p, "allowed")
       ELSE Return(p)
    /\ UNCHANGED <<docVars, adminVars>>

\* The command itself: the ones modelled elsewhere only return.
Allowed(p) ==
    /\ At(p, "allowed")
    /\ IF local[p].cmd \in {"auth", "unauth"} THEN Admins(p, "authSender", FALSE) ELSE Return(p)
    /\ UNCHANGED <<docVars, adminVars>>

-----------------------------------------------------------------------------
\* /auth and /unauth: the sender must be an administrator, whatever the mode.
\* An administrator counts as authorised, so /unauth of one goes through and
\* removes nothing.
AuthSender(p) ==
    /\ At(p, "authSender")
    /\ IF Listed(p, local[p].user)
       THEN \E u \in Users :
              LET l == [local[p] EXCEPT !.value = u] IN
              IF u \in GetChatAdminIDs
              THEN Goto(p, "authTarget", [l EXCEPT !.got = {u}])
              ELSE Goto(p, "lookup", [l EXCEPT !.doc = "auth", !.then = "authTarget"])
       ELSE Return(p)
    /\ UNCHANGED <<docVars, adminVars>>

Authorised(p) == local[p].got # None /\ local[p].value \in local[p].got

addAuthHandler(p) ==
    /\ At(p, "authTarget") /\ local[p].cmd = "auth"
    /\ IF Authorised(p) THEN Return(p)
       ELSE Goto(p, "addAuth", [local[p] EXCEPT !.then = "idle"])
    /\ UNCHANGED <<docVars, adminVars>>

removeAuthHandler(p) ==
    /\ At(p, "authTarget") /\ local[p].cmd = "unauth"
    /\ IF Authorised(p) THEN Goto(p, "removeAuth", [local[p] EXCEPT !.then = "idle"])
       ELSE Return(p)
    /\ UNCHANGED <<docVars, adminVars>>

-----------------------------------------------------------------------------
\* A settings button: an administrator with the right to manage video chats, for
\* which the list is read again, turns a setting into the opposite of what it is
\* read to be.  The new keyboard is drawn from the chat, read once per setting,
\* whether or not the write failed; of what went before it needs nothing.
BeginSettings(p, s, user) ==
    /\ At(p, "idle")
    /\ Goto(p, "admins", [Fresh EXCEPT !.cmd = "settings", !.user = user, !.setting = s,
                                       !.use = "settings"])
    /\ UNCHANGED <<docVars, adminVars>>

settingsCallbackHandler(p) ==
    /\ \/ /\ At(p, "settings")
          /\ IF Listed(p, local[p].user) THEN Admins(p, "rights", FALSE) ELSE Return(p)
       \/ /\ At(p, "rights")
          /\ IF local[p].list # None /\ local[p].list[local[p].user] = "admin"
             THEN Asking(p, "chat", "toggle")
             ELSE Return(p)
       \/ /\ At(p, "toggle")
          /\ LET on == CASE local[p].setting = "play" -> GetPlayMode(local[p].got)
                         [] local[p].setting = "admin" -> EveryoneMode(local[p].got)
                         [] OTHER -> GetCmdDelete(local[p].got) IN
             Goto(p, "setField", [local[p] EXCEPT !.value = ~on, !.then = "redraw",
                                                  !.left = 3])
       \/ /\ At(p, "redraw")
          /\ Goto(p, "lookup", [Fresh EXCEPT !.cmd = "settings", !.doc = "chat",
                                             !.left = local[p].left - 1,
                                             !.then = IF local[p].left = 1 THEN "idle" ELSE "redraw"])
    /\ UNCHANGED <<docVars, adminVars>>

PermissionStep(p) ==
    \/ checkBotAdmin(p) \/ adminMode(p) \/ playMode(p) \/ PlayAdmins(p) \/ AuthGate(p)
    \/ Allowed(p) \/ AuthSender(p) \/ addAuthHandler(p) \/ removeAuthHandler(p)
    \/ settingsCallbackHandler(p)

-----------------------------------------------------------------------------
\* What lets user u through, by the stored documents and Telegram's list.
Entitled(cmd, u) ==
    \/ cmd \in GatedByAdmins /\ EveryoneMode(stored["chat"])
    \/ cmd \in GatedByPlay /\ ~GetPlayMode(stored["chat"])
    \/ roles[u] # "none"
    \/ stored["auth"] # None /\ u \in stored["auth"]

=============================================================================
