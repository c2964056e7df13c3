------------------------------ MODULE Connection ------------------------------
(***************************************************************************)
(* The voice connection of one chat (vc/assistant.go): every assistant has *)
(* a native engine, a map entry for the chat's video chat, one place for   *)
(* the channel a connecting goroutine waits on, and a note that a call in  *)
(* stream mode is to be re-joined when an admin lets the assistant speak.  *)
(*                                                                         *)
(* A goroutine p works for the assistant local[p].who and takes one step   *)
(* per critical section, native call or Telegram request; each request can *)
(* fail, and with it the calls the engine does not answer in time.         *)
(*                                                                         *)
(* Not state here: getMediaDescription never sets Screen, so `join' in     *)
(* joinPresentation is false, presentations stays empty, and what is left  *)
(* of the function is its question for the connection mode.                *)
(***************************************************************************)
EXTENDS Integers, Sequences, FiniteSets

CONSTANTS
    None,
    Assistants,   \* the user accounts that are logged in
    Commanders,   \* goroutines that run commands
    Updaters,     \* goroutines that run update handlers and background work
    CallIds       \* the video chats of the chat

Procs == Commanders \cup Updaters

VARIABLES
    pc, local,        \* where each goroutine is, and its local variables
    inputGroupCall,   \* Assistant.inputGroupCalls[chatId]: absent, closed (nil) or an id
    waitConnect,      \* Assistant.waitConnect[chatId]: whose channel, or None
    answer,           \* what the channel of each goroutine's connectCall holds
    pendingConnection, \* Assistant.pendingConnections[chatId] is set
    mutedByAdmin,     \* the chat is in Assistant.mutedByAdmin
    call,             \* external: the engine's call for the chat
    mode,             \* external: its connection mode
    reports,          \* external: connection changes not handled yet
    abandoned,        \* external: requests to the engine that timed out and may still be met
    live,             \* external: the chat's video chat, or None
    joined,           \* external: the video chat each assistant is in, or None
    member,           \* external: each assistant's membership of the chat
    faults            \* external: the requests that can fail

appVars == <<inputGroupCall, waitConnect, answer, pendingConnection, mutedByAdmin>>
nativeVars == <<call, mode, reports, abandoned>>
telegramVars == <<live, joined, member>>

Statuses == {"left", "member", "restricted", "banned"}

\* What classifyError (vc/play.go) makes of an error; "crowded" is
\* CHANNELS_TOO_MUCH, a rotation that also makes the assistant leave chats.
Kinds == {"none", "fatal", "retry", "rotate", "crowded", "unknown"}

ConnectionTypeOK ==
    /\ inputGroupCall \in [Assistants -> CallIds \cup {"absent", "closed"}]
    /\ waitConnect \in [Assistants -> Procs \cup {None}]
    /\ answer \in [Procs -> {"none", "ok", "failed"}]
    /\ pendingConnection \in [Assistants -> BOOLEAN]
    /\ mutedByAdmin \in [Assistants -> BOOLEAN]
    /\ call \in [Assistants -> {"none", "created", "connecting", "connected"}]
    /\ mode \in [Assistants -> {"rtc", "stream"}]
    /\ reports \in [Assistants -> SUBSET {"ok", "failed"}]
    /\ abandoned \in [Assistants -> SUBSET {"create", "connect", "stop"}]
    /\ live \in CallIds \cup {None}
    /\ joined \in [Assistants -> CallIds \cup {None}]
    /\ member \in [Assistants -> Statuses]

\* External: the id of the chat's next video chat.
NextCall(used) == CHOOSE c \in CallIds : c \notin used

NothingHeld ==
    /\ waitConnect = [a \in Assistants |-> None]
    /\ answer = [p \in Procs |-> "none"]
    /\ mutedByAdmin = [a \in Assistants |-> FALSE]
    /\ reports = [a \in Assistants |-> {}]
    /\ abandoned = [a \in Assistants |-> {}]

ConnectionInit ==
    /\ NothingHeld
    /\ inputGroupCall = [a \in Assistants |-> "absent"]
    /\ pendingConnection = [a \in Assistants |-> FALSE]
    /\ call = [a \in Assistants |-> "none"]
    /\ mode = [a \in Assistants |-> "rtc"]
    /\ live \in {None, NextCall({})}
    /\ joined = [a \in Assistants |-> None]
    /\ \E s \in {"left", "member"} : member = [a \in Assistants |-> s]

\* Assistant a plays in the video chat.
ConnectionPlaying(a) ==
    /\ NothingHeld
    /\ live = NextCall({})
    /\ inputGroupCall = [b \in Assistants |-> IF b = a THEN live ELSE "absent"]
    /\ call = [b \in Assistants |-> IF b = a THEN "connected" ELSE "none"]
    /\ \E m \in {"rtc", "stream"} :
         /\ mode = [b \in Assistants |-> IF b = a THEN m ELSE "rtc"]
         /\ pendingConnection = [b \in Assistants |-> b = a /\ m = "stream"]
    /\ joined = [b \in Assistants |-> IF b = a THEN live ELSE None]
    /\ member = [b \in Assistants |-> IF b = a THEN "member" ELSE "left"]

-----------------------------------------------------------------------------
\* Control.

At(p, label) == pc[p] = label

Who(p) == local[p].who

Goto(p, label, l) ==
    /\ pc' = [pc EXCEPT ![p] = label]
    /\ local' = [local EXCEPT ![p] = l]

Jump(p, label) == Goto(p, label, local[p])

Error(p, label, kind) == Goto(p, label, [local[p] EXCEPT !.kind = kind])

\* who: the assistant in hand; use: the label to go on at when it is chosen;
\* then: the one when it is a member, or connected; kind: the error in hand;
\* tried: the assistants used up; again: this is the second attempt with who;
\* seen: the group call or membership read; doc: the assignment read; user:
\* whom an update is about; link: the invite link read; fresh: it replaces an expired one.
Fresh == [who |-> None, use |-> "idle", then |-> "idle", kind |-> "none", tried |-> {},
          again |-> FALSE, seen |-> None, doc |-> None, user |-> None, link |-> 0,
          fresh |-> FALSE]

Return(p) == Goto(p, "idle", Fresh)

\* PlayMedia and rotateAndPlay after an error of playMedia: a second attempt
\* for one kind, the next assistant for two, the end for the others.
PlayFailed(p, kind) ==
    CASE kind = "retry" /\ ~local[p].again ->
           Goto(p, "status", [local[p] EXCEPT !.again = TRUE, !.kind = "none", !.fresh = FALSE,
                                              !.then = "calls"])
      [] kind \in {"rotate", "crowded"} -> Error(p, "evict", kind)
      [] OTHER -> Return(p)

\* A native call whose caller gets an error: WaitTimeout does not cancel it, so
\* the engine may meet a request for a change at any later time, or never.
NativeFails == "native" \in faults

Abandon(a, request) ==
    /\ NativeFails
    /\ abandoned' = [abandoned EXCEPT ![a] = @ \cup {request}]
    /\ UNCHANGED <<call, mode, reports>>

-----------------------------------------------------------------------------
\* Assistant.Play.  Calls() answers nil when the engine is late, which Play
\* cannot tell from a chat without a call.
PlayExisting(p) ==
    /\ At(p, "calls") /\ call[Who(p)] # "none"
    /\ Jump(p, "sources")
    /\ UNCHANGED <<appVars, nativeVars, telegramVars>>

PlayNew(p) ==
    /\ At(p, "calls")
    /\ call[Who(p)] = "none" \/ NativeFails
    /\ Goto(p, "register", [local[p] EXCEPT !.then = "presentation"])
    /\ UNCHANGED <<appVars, nativeVars, telegramVars>>

SetSources(p) ==
    /\ At(p, "sources")
    /\ \/ call[Who(p)] # "none" /\ Jump(p, "played")
       \/ (call[Who(p)] = "none" \/ NativeFails) /\ PlayFailed(p, "unknown")
    /\ UNCHANGED <<appVars, nativeVars, telegramVars>>

\* connectCall: the channel is made and registered, over another goroutine's
\* if that is connecting the same chat.
Register(p) ==
    /\ At(p, "register")
    /\ waitConnect' = [waitConnect EXCEPT ![Who(p)] = p]
    /\ answer' = [answer EXCEPT ![p] = "none"]
    /\ Jump(p, "create")
    /\ UNCHANGED <<inputGroupCall, pendingConnection, mutedByAdmin, nativeVars, telegramVars>>

\* The engine holds one call per chat and refuses to create a second.
CreateCall(p) ==
    /\ At(p, "create")
    /\ \/ /\ call[Who(p)] = "none"
          /\ call' = [call EXCEPT ![Who(p)] = "created"]
          /\ Jump(p, "media")
          /\ UNCHANGED <<mode, reports, abandoned>>
       \/ call[Who(p)] # "none" /\ Error(p, "abort", "unknown") /\ UNCHANGED nativeVars
       \/ Abandon(Who(p), "create") /\ Error(p, "abort", "unknown")
    /\ UNCHANGED <<appVars, telegramVars>>

SetMedia(p) ==
    /\ At(p, "media")
    /\ \/ call[Who(p)] # "none" /\ Jump(p, "lookup")
       \/ (call[Who(p)] = "none" \/ NativeFails) /\ Error(p, "abort", "unknown")
    /\ UNCHANGED <<appVars, nativeVars, telegramVars>>

\* What an ended native call leaves: no call, and perhaps a report of it.
EndCall(a) ==
    /\ call' = [call EXCEPT ![a] = "none"]
    /\ mode' = [mode EXCEPT ![a] = "rtc"]
    /\ IF call[a] \in {"none", "created"}
       THEN UNCHANGED reports
       ELSE reports' \in {reports, [reports EXCEPT ![a] = @ \cup {"failed"}]}

Ended(a) == EndCall(a) /\ UNCHANGED abandoned

\* The errors up to getInputGroupCall's stop the call they created, and do not
\* ask whether that succeeds.
Abort(p) ==
    /\ At(p, "abort")
    /\ Ended(Who(p)) \/ Abandon(Who(p), "stop")
    /\ Jump(p, "unregister")
    /\ UNCHANGED <<appVars, telegramVars>>

\* getInputGroupCall: the entry if there is one, else Telegram's answer is
\* stored and read again.
Lookup(p) ==
    /\ At(p, "lookup")
    /\ LET entry == inputGroupCall[Who(p)] IN
       \/ entry = "absent" /\ Jump(p, "ask")
       \/ entry = "closed" /\ Error(p, "abort", "fatal")
       \/ entry \in CallIds /\ Goto(p, "join", [local[p] EXCEPT !.seen = entry])
    /\ UNCHANGED <<appVars, nativeVars, telegramVars>>

\* Mutant of AskGroupCall: that there is none is not noted as closed.
BugAskGroupCall(p) ==
    /\ At(p, "ask")
    /\ \/ Goto(p, "note", [local[p] EXCEPT !.seen = live])
       \/ "telegram" \in faults /\ Error(p, "abort", "unknown")
    /\ UNCHANGED <<appVars, nativeVars, telegramVars>>

AskGroupCall(p) ==
    /\ At(p, "ask")
    /\ \/ Goto(p, "note", [local[p] EXCEPT !.seen = IF live = None THEN "closed" ELSE live])
       \/ "telegram" \in faults /\ Error(p, "abort", "unknown")
    /\ UNCHANGED <<appVars, nativeVars, telegramVars>>

NoteGroupCall(p) ==
    /\ At(p, "note")
    /\ inputGroupCall' = [inputGroupCall EXCEPT ![Who(p)] = local[p].seen]
    /\ Jump(p, "reread")
    /\ UNCHANGED <<waitConnect, answer, pendingConnection, mutedByAdmin, nativeVars, telegramVars>>

RereadGroupCall(p) ==
    /\ At(p, "reread")
    /\ LET entry == inputGroupCall[Who(p)] IN
       \/ entry = "absent" /\ Error(p, "abort", "unknown")
       \/ entry = "closed" /\ Error(p, "abort", "fatal")
       \/ entry \in CallIds /\ Goto(p, "join", [local[p] EXCEPT !.seen = entry])
    /\ UNCHANGED <<appVars, nativeVars, telegramVars>>

\* PhoneJoinGroupCall.  An error from here on returns without stopping the
\* native call.
JoinGroupCall(p) ==
    /\ At(p, "join")
    /\ LET a == Who(p) IN
       \/ /\ local[p].seen = live /\ member[a] \in {"member", "restricted"}
          /\ joined' = [joined EXCEPT ![a] = live]
          /\ Jump(p, "connect")
       \/ /\ UNCHANGED joined
          /\ \/ local[p].seen # live /\ Error(p, "unregister", "fatal")
             \/ member[a] \in {"left", "banned"} /\ Error(p, "unregister", "unknown")
             \/ "participants" \in faults /\ Error(p, "unregister", "retry")
             \/ "flood" \in faults /\ Error(p, "unregister", "rotate")
    /\ UNCHANGED <<appVars, nativeVars, live, member>>

Connect(p) ==
    /\ At(p, "connect")
    /\ LET a == Who(p) IN
       \/ /\ call[a] = "created"
          /\ call' = [call EXCEPT ![a] = "connecting"]
          /\ \E m \in {"rtc", "stream"} : mode' = [mode EXCEPT ![a] = m]
          /\ Jump(p, "mode")
          /\ UNCHANGED <<reports, abandoned>>
       \/ call[a] # "created" /\ Error(p, "unregister", "unknown") /\ UNCHANGED nativeVars
       \/ Abandon(a, "connect") /\ Error(p, "unregister", "unknown")
    /\ UNCHANGED <<appVars, telegramVars>>

ReadMode(p) ==
    /\ At(p, "mode")
    /\ LET a == Who(p) IN
       \/ /\ call[a] # "none" /\ Jump(p, "wait")
          /\ pendingConnection' = [pendingConnection EXCEPT ![a] = @ \/ mode[a] = "stream"]
       \/ /\ call[a] = "none" \/ NativeFails
          /\ Error(p, "unregister", "unknown")
          /\ UNCHANGED pendingConnection
    /\ UNCHANGED <<inputGroupCall, waitConnect, answer, mutedByAdmin, nativeVars, telegramVars>>

\* Mutant of Await: the wait has no time limit.
BugAwait(p) ==
    /\ At(p, "wait") /\ answer[p] # "none"
    /\ Error(p, "unregister", IF answer[p] = "ok" THEN "none" ELSE "unknown")
    /\ UNCHANGED <<appVars, nativeVars, telegramVars>>

\* The answer, or connectWaitTimeout.
Await(p) ==
    /\ At(p, "wait")
    /\ \/ answer[p] = "ok" /\ Error(p, "unregister", "none")
       \/ answer[p] # "ok" /\ Error(p, "unregister", "unknown")
    /\ UNCHANGED <<appVars, nativeVars, telegramVars>>

\* connectCall returns: to Play, or to the handler that ignores its error.
Connected(p) ==
    IF local[p].kind = "none" \/ local[p].then = "forget"
    THEN Jump(p, local[p].then)
    ELSE PlayFailed(p, local[p].kind)

\* Mutant of Unregister: the channel is left in the map after an error.
BugUnregister(p) ==
    /\ At(p, "unregister")
    /\ waitConnect' = [waitConnect EXCEPT ![Who(p)] = IF local[p].kind = "none" THEN None ELSE @]
    /\ Connected(p)
    /\ UNCHANGED <<inputGroupCall, answer, pendingConnection, mutedByAdmin, nativeVars, telegramVars>>

\* The deferred deletion, of whatever channel is registered by now.
Unregister(p) ==
    /\ At(p, "unregister")
    /\ waitConnect' = [waitConnect EXCEPT ![Who(p)] = None]
    /\ answer' = [answer EXCEPT ![p] = "none"]
    /\ Connected(p)
    /\ UNCHANGED <<inputGroupCall, pendingConnection, mutedByAdmin, nativeVars, telegramVars>>

\* joinPresentation with nothing to present.
CheckPresentation(p) ==
    /\ At(p, "presentation")
    /\ \/ call[Who(p)] # "none" /\ Jump(p, "played")
       \/ (call[Who(p)] = "none" \/ NativeFails) /\ PlayFailed(p, "unknown")
    /\ UNCHANGED <<appVars, nativeVars, telegramVars>>

ConnectStep(p) ==
    \/ PlayExisting(p) \/ PlayNew(p) \/ SetSources(p) \/ Register(p) \/ CreateCall(p) \/ SetMedia(p)
    \/ Abort(p) \/ Lookup(p) \/ AskGroupCall(p) \/ NoteGroupCall(p) \/ RereadGroupCall(p)
    \/ JoinGroupCall(p) \/ Connect(p) \/ ReadMode(p) \/ Await(p) \/ Unregister(p)
    \/ CheckPresentation(p)

-----------------------------------------------------------------------------
\* stopCall, in the goroutine of Stop.

\* Mutant of ForgetCall: the pending connection survives the stop.
BugForgetCall(p) ==
    /\ At(p, "forgetCall")
    /\ Goto(p, "stopNative", [local[p] EXCEPT !.seen = inputGroupCall[Who(p)]])
    /\ UNCHANGED <<appVars, nativeVars, telegramVars>>

ForgetCall(p) ==
    /\ At(p, "forgetCall")
    /\ pendingConnection' = [pendingConnection EXCEPT ![Who(p)] = FALSE]
    /\ Goto(p, "stopNative", [local[p] EXCEPT !.seen = inputGroupCall[Who(p)]])
    /\ UNCHANGED <<inputGroupCall, waitConnect, answer, mutedByAdmin, nativeVars, telegramVars>>

\* An engine without the call answers that it is not found, which Stop takes for
\* success; the group call is not left then, nor when none is known, nor for
\* `banned'.
StopNative(p) ==
    /\ At(p, "stopNative")
    /\ \/ /\ call[Who(p)] # "none"
          /\ Ended(Who(p))
          /\ IF local[p].then = "banned" \/ local[p].seen \notin CallIds
             THEN Jump(p, "skipped") ELSE Jump(p, "leave")
       \/ call[Who(p)] = "none" /\ Jump(p, "skipped") /\ UNCHANGED nativeVars
       \/ Abandon(Who(p), "stop") /\ Return(p)
    /\ UNCHANGED <<appVars, telegramVars>>

LeaveGroupCall(p) ==
    /\ At(p, "leave")
    /\ \/ /\ joined[Who(p)] = local[p].seen
          /\ joined' = [joined EXCEPT ![Who(p)] = None]
          /\ Jump(p, "stopped")
       \/ /\ joined[Who(p)] # local[p].seen \/ "telegram" \in faults
          /\ Return(p)
          /\ UNCHANGED joined
    /\ UNCHANGED <<appVars, nativeVars, live, member>>

-----------------------------------------------------------------------------
\* The engine, and the callback on its connection changes.

\* External: a connecting call comes up or fails.
NativeConnects(a) ==
    /\ call[a] = "connecting"
    /\ call' = [call EXCEPT ![a] = "connected"]
    /\ \E r \in {"ok", "failed"} :
         /\ r = "failed" => NativeFails
         /\ reports' = [reports EXCEPT ![a] = @ \cup {r}]
    /\ UNCHANGED <<appVars, mode, abandoned, telegramVars, pc, local>>

\* External: a request whose caller has given up is met after all.
NativeCatchesUp(a) ==
    /\ \E request \in abandoned[a] :
         /\ abandoned' = [abandoned EXCEPT ![a] = @ \ {request}]
         /\ \/ /\ request = "create" /\ call[a] = "none"
               /\ call' = [call EXCEPT ![a] = "created"]
               /\ UNCHANGED <<mode, reports>>
            \/ /\ request = "connect" /\ call[a] = "created"
               /\ call' = [call EXCEPT ![a] = "connecting"]
               /\ \E m \in {"rtc", "stream"} : mode' = [mode EXCEPT ![a] = m]
               /\ UNCHANGED reports
            \/ request = "stop" /\ EndCall(a)
    /\ UNCHANGED <<appVars, telegramVars, pc, local>>

\* onConnectionChange.  Between reading the map and the send, which does not
\* block and drops a second report, nothing else can be seen of either.
OnConnectionChange(a) ==
    \E r \in reports[a] :
        /\ reports' = [reports EXCEPT ![a] = @ \ {r}]
        /\ LET p == waitConnect[a] IN
           IF p # None /\ answer[p] = "none"
           THEN answer' = [answer EXCEPT ![p] = r]
           ELSE UNCHANGED answer
        /\ UNCHANGED <<inputGroupCall, waitConnect, pendingConnection, mutedByAdmin, call, mode,
                       abandoned, telegramVars, pc, local>>

-----------------------------------------------------------------------------
\* The handlers of an assistant's own updates, run by the goroutine p that
\* took update u: [to, type, call, can].

\* onGroupCall: a video chat that is there.
OnGroupCallObj(p, u) ==
    /\ u.type = "started"
    /\ inputGroupCall' = [inputGroupCall EXCEPT ![u.to] = u.call]
    /\ UNCHANGED <<pc, local, waitConnect, answer, pendingConnection, mutedByAdmin, nativeVars,
                   telegramVars>>

\* onGroupCall: one that has ended, whichever the entry names; then the
\* native call is stopped.
OnGroupCallDiscarded(p, u) ==
    /\ u.type = "discarded"
    /\ inputGroupCall' = [inputGroupCall EXCEPT ![u.to] = "absent"]
    /\ Goto(p, "stopDiscarded", [local[p] EXCEPT !.who = u.to])
    /\ UNCHANGED <<waitConnect, answer, pendingConnection, mutedByAdmin, nativeVars, telegramVars>>

StopDiscarded(p) ==
    /\ At(p, "stopDiscarded")
    /\ \/ Ended(Who(p))
       \/ Abandon(Who(p), "stop")
    /\ Return(p)
    /\ UNCHANGED <<appVars, telegramVars>>

\* onGroupCallParticipants about the assistant itself.
ReadPending(p, u) ==
    /\ u.type = "self" /\ inputGroupCall[u.to] = u.call
    /\ u.can /\ call[u.to] # "none" /\ mode[u.to] = "stream"
    /\ IF pendingConnection[u.to]
       THEN Goto(p, "register", [local[p] EXCEPT !.who = u.to, !.then = "forget"])
       ELSE UNCHANGED <<pc, local>>
    /\ UNCHANGED <<appVars, nativeVars, telegramVars>>

ForgetPending(p) ==
    /\ At(p, "forget")
    /\ pendingConnection' = [pendingConnection EXCEPT ![Who(p)] = FALSE]
    /\ Return(p)
    /\ UNCHANGED <<inputGroupCall, waitConnect, answer, mutedByAdmin, nativeVars, telegramVars>>

NoteMuted(p, u) ==
    /\ u.type = "self" /\ inputGroupCall[u.to] = u.call
    /\ ~u.can
    /\ mutedByAdmin' = [mutedByAdmin EXCEPT ![u.to] = TRUE]
    /\ UNCHANGED <<pc, local, inputGroupCall, waitConnect, answer, pendingConnection, nativeVars,
                   telegramVars>>

\* GetState and setCallStatus succeed before the mark is removed.
NoteUnmuted(p, u) ==
    /\ u.type = "self" /\ inputGroupCall[u.to] = u.call
    /\ u.can /\ (call[u.to] = "none" \/ mode[u.to] # "stream" \/ NativeFails)
    /\ IF mutedByAdmin[u.to] /\ call[u.to] # "none"
       THEN Goto(p, "unmute", [local[p] EXCEPT !.who = u.to])
       ELSE UNCHANGED <<pc, local>>
    /\ UNCHANGED <<appVars, nativeVars, telegramVars>>

Unmute(p) ==
    /\ At(p, "unmute")
    /\ \/ mutedByAdmin' = [mutedByAdmin EXCEPT ![Who(p)] = FALSE]
       \/ faults \cap {"telegram", "native"} # {} /\ UNCHANGED mutedByAdmin
    /\ Return(p)
    /\ UNCHANGED <<inputGroupCall, waitConnect, answer, pendingConnection, nativeVars, telegramVars>>

\* convertGroupCallId does not know the call.
OtherCall(u) ==
    /\ u.type = "self" /\ inputGroupCall[u.to] # u.call
    /\ UNCHANGED <<pc, local, appVars, nativeVars, telegramVars>>

HandleOwnUpdate(p, u) ==
    \/ OnGroupCallObj(p, u) \/ OnGroupCallDiscarded(p, u) \/ ReadPending(p, u)
    \/ NoteMuted(p, u) \/ NoteUnmuted(p, u) \/ OtherCall(u)

UpdateStep(p) == StopDiscarded(p) \/ ForgetPending(p) \/ Unmute(p)

-----------------------------------------------------------------------------
\* The goroutines that are between registering a channel and deleting it.
Connecting == {"create", "media", "abort", "lookup", "ask", "note", "reread", "join", "connect",
               "mode", "wait", "unregister"}

\* A registered channel is that of a goroutine still inside connectCall for
\* that assistant: when connectCall has returned, with an error or not, and
\* however several overlapped on one chat, no channel is left behind for
\* onConnectionChange to answer.
WaitersGone ==
    \A a \in Assistants :
        LET p == waitConnect[a] IN p # None => pc[p] \in Connecting /\ Who(p) = a
=============================================================================
