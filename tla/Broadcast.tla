------------------------------- MODULE Broadcast -------------------------------
(***************************************************************************)
(* /broadcast and /cancelbroadcast (handlers/broadcast.go).  A broadcast   *)
(* tests the in-progress flag, reads every chat and user, sets the flags   *)
(* and starts a goroutine that sends; the goroutine that handled the       *)
(* command goes on as that one here.                                       *)
(***************************************************************************)
EXTENDS Documents

VARIABLES
    broadcastInProgress,
    broadcastCancelFlag,
    late,      \* history: how often each has sent since it was told to stop
    overlap    \* history: a broadcast began while another was sending

broadcastVars == <<broadcastInProgress, broadcastCancelFlag, late, overlap>>

BroadcastTypeOK ==
    /\ {broadcastInProgress, broadcastCancelFlag, overlap} \subseteq BOOLEAN
    /\ late \in [Procs -> {None} \cup 0..2]

BroadcastInit ==
    /\ broadcastInProgress = FALSE /\ broadcastCancelFlag = FALSE
    /\ late = [p \in Procs |-> None]
    /\ overlap = FALSE

Sending(p) == pc[p] \in {"check", "send", "ended"}

-----------------------------------------------------------------------------
\* Chats, users or both are sent to; both are read in any case.
BeginBroadcast(p) ==
    /\ At(p, "idle")
    /\ \E mode \in {Chats, {"user"}, Chats \cup {"user"}} :
         IF broadcastInProgress
         THEN UNCHANGED goVars
         ELSE Goto(p, "scan", [Fresh EXCEPT !.cmd = "broadcast", !.todo = Chats \cup {"user"},
                                            !.value = mode])
    /\ UNCHANGED <<docVars, broadcastVars>>

FindTargets(p) ==
    /\ At(p, "scan") /\ local[p].todo = {}
    /\ LET targets == local[p].targets \cap local[p].value IN
       IF targets = {}
       THEN Return(p)
       ELSE Goto(p, "clearCancel", [Fresh EXCEPT !.cmd = "broadcast", !.targets = targets])
    /\ UNCHANGED <<docVars, broadcastVars>>

ClearCancel(p) ==
    /\ At(p, "clearCancel")
    /\ broadcastCancelFlag' = FALSE
    /\ overlap' = (overlap \/ \E q \in Procs : Sending(q))
    /\ Jump(p, "setProgress")
    /\ UNCHANGED <<docVars, broadcastInProgress, late>>

SetProgress(p) ==
    /\ At(p, "setProgress")
    /\ broadcastInProgress' = TRUE
    /\ overlap' = (overlap \/ \E q \in Procs : Sending(q))
    /\ Jump(p, "check")
    /\ UNCHANGED <<docVars, broadcastCancelFlag, late>>

broadcastHandler(p) == FindTargets(p) \/ ClearCancel(p) \/ SetProgress(p)

\* Mutant of CheckCancel: a broadcast ends with its targets.
BugCheckCancel(p) ==
    /\ At(p, "check")
    /\ Jump(p, IF local[p].targets = {} THEN "ended" ELSE "send")
    /\ UNCHANGED <<docVars, broadcastVars>>

-----------------------------------------------------------------------------
CheckCancel(p) ==
    /\ At(p, "check")
    /\ Jump(p, IF broadcastCancelFlag \/ local[p].targets = {} THEN "ended" ELSE "send")
    /\ UNCHANGED <<docVars, broadcastVars>>

\* A message that is sent, fails, or meets a flood wait, which is waited out
\* before the next target: this one gets none, and is not reported either.
Send(p) ==
    /\ At(p, "send")
    /\ \E d \in local[p].targets : Goto(p, "check", [local[p] EXCEPT !.targets = @ \ {d}])
    /\ late' = [late EXCEPT ![p] = IF @ \in {0, 1} THEN @ + 1 ELSE @]
    /\ UNCHANGED <<docVars, broadcastInProgress, broadcastCancelFlag, overlap>>

\* The deferred reset of the flag, whichever broadcast it is up for.
EndBroadcast(p) ==
    /\ At(p, "ended")
    /\ broadcastInProgress' = FALSE
    /\ late' = [late EXCEPT ![p] = None]
    /\ Return(p)
    /\ UNCHANGED <<docVars, broadcastCancelFlag, overlap>>

BroadcastLoop(p) == CheckCancel(p) \/ Send(p) \/ EndBroadcast(p)

-----------------------------------------------------------------------------
\* The cancel flag is set by then for the broadcast that was in progress, or
\* for none, or for the next one.
BeginCancel(p) ==
    /\ At(p, "idle") /\ broadcastInProgress
    /\ Goto(p, "cancel", [Fresh EXCEPT !.cmd = "cancel"])
    /\ UNCHANGED <<docVars, broadcastVars>>

cancelBroadcastHandler(p) ==
    /\ At(p, "cancel")
    /\ broadcastCancelFlag' = TRUE
    /\ late' = [q \in Procs |-> IF Sending(q) /\ late[q] = None THEN 0 ELSE late[q]]
    /\ Return(p)
    /\ UNCHANGED <<docVars, broadcastInProgress, overlap>>

BroadcastStep(p) == broadcastHandler(p) \/ BroadcastLoop(p) \/ cancelBroadcastHandler(p)

-----------------------------------------------------------------------------
\* Once a cancel has been answered "Broadcast stopped", a broadcast sends at
\* most the message it was about to, unless one began while another was being
\* sent, which takes the flag back (broadcast.go, line 140).
CancelStops == overlap \/ \A p \in Procs : late[p] # 2

=============================================================================
