------------------------------- MODULE StopProof -------------------------------
(***************************************************************************)
(* StopLeaves, for every number of assistants, goroutines and video chats: *)
(* what a /stop that nothing disturbed has achieved lasts until something  *)
(* is played.                                                              *)
(***************************************************************************)
EXTENDS AssistantsProof

-----------------------------------------------------------------------------
\* Nothing plays: while an assistant is quiet, or a Stop has the chat to itself,
\* no goroutine is on its way to Play, not even through a retry or a rotation;
\* one that connects does so for an update, and the one that joins assistants
\* does only that.

Dialling == Connecting \cup {"register"}
Joining == {"status", "noteStatus", "recover", "resolve", "noteLink", "joinChat", "noteJoined",
            "noteExpired"}

Playless(label, l) ==
    /\ label \notin {"calls", "sources", "presentation", "played", "evict", "dropEntry", "rotate"}
    /\ label \in Choosing => l.use # "status"
    /\ label \in Joining => l.then = "joinNext"
    /\ label \in Dialling => l.then = "forget"

AllPlayless == \A q \in Procs : Playless(pc[q], local[q])

\* Labels that ask nothing of a goroutine that does not play.
Neutral == Labels \ ({"calls", "sources", "presentation", "played", "evict", "dropEntry", "rotate"}
                     \cup Choosing \cup Joining \cup Dialling)

\* The labels of Stop after its beginning.
Stopping == {"stopNative", "leave", "stopped", "skipped"}

LEMMA NeutralGoto ==
    ASSUME TypeInv, NEW p \in Procs, NEW label \in Neutral, NEW l, Goto(p, label, l)
    PROVE  Playless(pc'[p], local'[p])
BY GotoMoves DEF Playless, Neutral

\* connectCall, for an update.
LEMMA PlaylessConnect ==
    ASSUME TypeInv, NEW p \in Procs, Playless(pc[p], local[p]), ConnectStep(p)
    PROVE  /\ pc[p] \in Dialling /\ pc'[p] \notin Stopping
           /\ Playless(pc'[p], local'[p])
           /\ pc'[p] \in Dialling => Who(p)' = Who(p)
<1>0. local[p] \in Locals
  BY DEF TypeInv, ControlInv
<1>1. CASE PlayExisting(p) \/ PlayNew(p) \/ SetSources(p) \/ CheckPresentation(p)
  BY <1>1 DEF PlayExisting, PlayNew, SetSources, CheckPresentation, At, Playless
<1>2. CASE Register(p)
  <2>1. pc[p] = "register" /\ pc'[p] = "create" /\ local'[p] = local[p]
    BY <1>2, GotoMoves DEF Register, At, Jump
  <2> QED BY <2>1 DEF Playless, Choosing, Dialling, Connecting, Joining, Stopping, Who
<1>3. CASE Unregister(p)
  <2>1. pc[p] = "unregister" /\ local[p].then = "forget"
    BY <1>3 DEF Unregister, At, Playless, Dialling, Connecting
  <2>2. pc'[p] = "forget"
    BY <1>3, <2>1, GotoMoves DEF Unregister, Connected, Jump
  <2> QED BY <2>1, <2>2 DEF Playless, Choosing, Dialling, Connecting, Joining, Stopping
<1>4. CASE \/ CreateCall(p) \/ SetMedia(p) \/ Abort(p) \/ Lookup(p) \/ AskGroupCall(p)
           \/ NoteGroupCall(p) \/ RereadGroupCall(p) \/ JoinGroupCall(p) \/ Connect(p)
           \/ ReadMode(p) \/ Await(p)
  <2>1. pc'[p] \in Connecting /\ Who(p)' = Who(p)
    BY <1>4, InsideConnect
  <2>2. pc[p] \in Connecting
    BY <1>4 DEF CreateCall, SetMedia, Abort, Lookup, AskGroupCall, NoteGroupCall, RereadGroupCall,
                JoinGroupCall, Connect, ReadMode, Await, At, Connecting
  <2>3. local'[p].then = local[p].then
    <3> USE GotoMoves, <1>0 DEF Jump, Error, Locals
    <3>1. CASE CreateCall(p) \/ SetMedia(p) \/ Abort(p)
      BY <3>1 DEF CreateCall, SetMedia, Abort
    <3>2. CASE Lookup(p) \/ AskGroupCall(p)
      BY <3>2 DEF Lookup, AskGroupCall
    <3>3. CASE NoteGroupCall(p) \/ RereadGroupCall(p)
      BY <3>3 DEF NoteGroupCall, RereadGroupCall
    <3>4. CASE JoinGroupCall(p) \/ Connect(p)
      BY <3>4 DEF JoinGroupCall, Connect
    <3>5. CASE ReadMode(p) \/ Await(p)
      BY <3>5 DEF ReadMode, Await
    <3> QED BY <1>4, <3>1, <3>2, <3>3, <3>4, <3>5
  <2> QED BY <2>1, <2>2, <2>3 DEF Playless, Choosing, Dialling, Connecting, Joining, Stopping
<1> QED BY <1>1, <1>2, <1>3, <1>4 DEF ConnectStep

\* joinAssistant, for JoinAllAssistants.
LEMMA PlaylessJoin ==
    ASSUME TypeInv, NEW p \in Procs, Playless(pc[p], local[p]), JoinStep(p)
    PROVE  Playless(pc'[p], local'[p]) /\ pc'[p] \notin Stopping \cup Dialling
<1> local[p] \in Locals /\ GoroutineOK(pc[p], local[p])
  BY DEF TypeInv, ControlInv
<1>1. pc'[p] \in Joining \cup {"joinNext"} /\ local'[p].then = "joinNext"
  <2>1. pc[p] \in Joining
    BY DEF JoinStep, CheckStatus, NoteStatus, Recover, ResolveCached, CreateLink, NoteLink,
                JoinChat, JoinExpired, NoteJoined, NoteExpired, At, Joining
  <2>2. local[p].then = "joinNext"
    BY <2>1 DEF Playless
  <2>3. \A label, l : Goto(p, label, l) /\ label \in Joining \cup {"joinNext"} /\ l.then = "joinNext"
                      => pc'[p] \in Joining \cup {"joinNext"} /\ local'[p].then = "joinNext"
    BY GotoMoves
  <2> DEFINE On == pc'[p] \in Joining \cup {"joinNext"} /\ local'[p].then = "joinNext"
  <2>4. \A label \in Joining \cup {"joinNext"} : Jump(p, label) => On
    BY <2>2, <2>3 DEF Jump
  <2>5. \A kind : JoinFailed(p, kind) => On
    BY <2>2, <2>4 DEF JoinFailed
  <2>6. \A t : /\ [local[p] EXCEPT !.seen = t].then = "joinNext"
               /\ [local[p] EXCEPT !.link = t].then = "joinNext"
               /\ [local[p] EXCEPT !.fresh = t].then = "joinNext"
    BY <2>2 DEF Locals
  <2>7. \A label \in Joining \cup {"joinNext"} : \A t :
          /\ Goto(p, label, [local[p] EXCEPT !.seen = t]) => On
          /\ Goto(p, label, [local[p] EXCEPT !.link = t]) => On
          /\ Goto(p, label, [local[p] EXCEPT !.fresh = t]) => On
    BY <2>3, <2>6
  <2>8. \A s : Treat(p, s) => On
    BY <2>2, <2>7 DEF Treat, Joining
  <2> HIDE DEF On
  <2>9. On
    <3> USE <2>2, <2>4, <2>5, <2>7, <2>8 DEF Joining
    <3>1. CASE CheckStatus(p)
      BY <3>1 DEF CheckStatus
    <3>2. CASE NoteStatus(p)
      BY <3>2 DEF NoteStatus
    <3>3. CASE Recover(p) \/ JoinChat(p)
      BY <3>3 DEF Recover, JoinChat
    <3>4. CASE ResolveCached(p) \/ CreateLink(p)
      BY <3>4 DEF ResolveCached, CreateLink
    <3>5. CASE NoteLink(p) \/ JoinExpired(p)
      BY <3>5 DEF NoteLink, JoinExpired
    <3>6. CASE NoteJoined(p) \/ NoteExpired(p)
      BY <3>6 DEF NoteJoined, NoteExpired
    <3> QED BY <3>1, <3>2, <3>3, <3>4, <3>5, <3>6 DEF JoinStep
  <2> QED BY <2>9 DEF On
<1> QED BY <1>1 DEF Playless, Choosing, Dialling, Connecting, Joining, Stopping

\* getClientIndex, for anything but a play.
LEMMA PlaylessChoose ==
    ASSUME TypeInv, NEW p \in Procs, Playless(pc[p], local[p]), ChooseStep(p)
    PROVE  Playless(pc'[p], local'[p]) /\ pc'[p] \notin Stopping \cup Dialling
<1>1. /\ pc[p] \in Choosing /\ local'[p].use = local[p].use
      /\ pc'[p] \in Choosing \cup {local[p].use}
  BY ChooseMoves
<1>2. local[p].use \in Uses \ {"status"}
  BY <1>1 DEF TypeInv, ControlInv, GoroutineOK, Playless
<1> QED BY <1>1, <1>2 DEF Playless, Uses, Choosing, Dialling, Connecting, Joining, Stopping

\* The other steps of a goroutine that is at work.
LEMMA PlaylessOther ==
    ASSUME TypeInv, NEW p \in Procs, Playless(pc[p], local[p]), Work(p),
           ~ConnectStep(p), ~ChooseStep(p), ~JoinStep(p)
    PROVE  /\ Playless(pc'[p], local'[p]) /\ pc'[p] \notin Dialling
           /\ pc'[p] \in Stopping => BeginStop(p) \/ StopNative(p) \/ LeaveGroupCall(p)
<1> USE NeutralGoto DEF Neutral, Choosing, Labels, Connecting, Dialling, Joining, Stopping, Return, Jump
<1>1. CASE BeginStop(p) \/ StopNative(p) \/ LeaveGroupCall(p)
  BY <1>1, GotoMoves DEF BeginStop, ForgetCall, StopNative, LeaveGroupCall
<1>2. CASE UpdateStep(p)
  BY <1>2, GotoMoves DEF UpdateStep, StopDiscarded, ForgetPending, Unmute
<1>3. CASE LeaveStep(p)
  <2>1. CASE LeaveNext(p)
    <3>1. \E label \in {"leaveNext", "idle"} : \E l : Goto(p, label, l)
      BY <2>1 DEF LeaveNext, Try
    <3> QED BY <3>1, GotoMoves
  <2>2. CASE LeaveChannel(p) \/ LeftChats(p)
    BY <2>2, GotoMoves DEF LeaveChannel, LeftChats
  <2> QED BY <1>3, <2>1, <2>2, GotoMoves DEF LeaveStep, BeginStop, StopNative, LeaveGroupCall
<1>4. CASE AssignStep(p) \/ Rotate(p)
  <2>1. CASE SetAssistant(p) \/ RemoveAssistant(p) \/ DropEntry(p) \/ Rotate(p)
    BY <2>1 DEF SetAssistant, RemoveAssistant, DropEntry, Rotate, At, Playless
  <2>2. CASE NoteSet(p) \/ ClearCache(p)
    BY <2>2, GotoMoves DEF NoteSet, ClearCache
  <2> QED BY <1>4, <2>1, <2>2 DEF AssignStep
<1>5. CASE JoinNext(p)
  <2>1. CASE Return(p)
    BY <2>1, GotoMoves
  <2>2. ASSUME NEW a \in Assistants, Try(p, a, "status", "joinNext")
        PROVE  pc'[p] = "status" /\ local'[p].then = "joinNext"
    <3> DEFINE m == [Fresh EXCEPT !.who = a, !.tried = local[p].tried \cup {a}, !.then = "joinNext"]
    <3>1. Goto(p, "status", m)
      BY <2>2 DEF Try
    <3>2. m.then = "joinNext"
      BY DEF Fresh
    <3> HIDE DEF m
    <3> QED BY <3>1, <3>2, GotoMoves
  <2>3. CASE pc'[p] = "status" /\ local'[p].then = "joinNext"
    BY <2>3 DEF Playless
  <2> QED BY <1>5, <2>1, <2>2, <2>3 DEF JoinNext
<1>6. CASE NoteMember(p) \/ Stopped(p)
  BY <1>6, GotoMoves DEF NoteMember, Stopped
<1> QED BY <1>1, <1>2, <1>3, <1>4, <1>5, <1>6 DEF Work

LEMMA StartMoves ==
    ASSUME TypeInv, NEW p \in Procs, Commands(p) \/ Dispatch(p)
    PROVE  OnlyMoves(p) /\ pc[p] = "idle"
<1>1. CASE Commands(p)
  BY <1>1, CommandMoves
<1>2. ASSUME NEW u, HandleOwn(p, u) \/ HandleParticipant(p, u) \/ HandleBotRemoved(p, u)
      PROVE  OnlyMoves(p) /\ pc[p] = "idle"
  BY <1>2, HandleMoves
<1>3. ASSUME NEW a \in Assistants, LeavePicked(p, a) \/ LeaveAllForClient(p, a)
      PROVE  OnlyMoves(p) /\ pc[p] = "idle"
  BY <1>3, GotoMoves DEF LeavePicked, LeaveAllForClient, At, OnlyMoves
<1> QED BY <1>1, <1>2, <1>3 DEF Dispatch

\* What starts at a command, other than /play, or at an update.  Only an update
\* about a connection that is pending makes a goroutine connect.
LEMMA PlaylessStart ==
    ASSUME TypeInv, NEW p \in Procs, Playless(pc[p], local[p]),
           Commands(p) \/ Dispatch(p), ~PlayCommand(p)
    PROVE  /\ Playless(pc'[p], local'[p]) /\ pc'[p] \notin Stopping
           /\ pc'[p] \in Dialling => Who(p)' \in Assistants /\ pendingConnection[Who(p)']
<1> USE GotoMoves DEF Choosing, Labels, Connecting, Dialling, Joining, Stopping
<1>0. \A label \in Neutral : \A l : Goto(p, label, l) => Playless(pc'[p], local'[p])
  BY NeutralGoto
<1>1. CASE StopCommand(p)
  BY <1>1 DEF StopCommand, Fresh, Playless, Choosing
<1>2. CASE JoinAllCommand(p) \/ LeaveAllCommand(p)
  BY <1>0, <1>2 DEF JoinAllCommand, LeaveAllCommand, Jump, Neutral
<1>3. CASE UNCHANGED <<pc, local>> /\ pc[p] = "idle"
  BY <1>3 DEF Playless
<1>4. ASSUME NEW u \in BagToSet(updates), HandleOwn(p, u)
      PROVE  /\ Playless(pc'[p], local'[p]) /\ pc'[p] \notin Stopping
             /\ pc'[p] \in Dialling => Who(p)' \in Assistants /\ pendingConnection[Who(p)']
  <2>0. pc[p] = "idle" /\ local[p] \in Locals /\ UpdateOK(u)
    BY <1>4 DEF HandleOwn, TakeUpdate, At, TypeInv, UpdatesOK, ControlInv
  <2>1. CASE ReadPending(p, u)
    <3> DEFINE m == [local[p] EXCEPT !.who = u.to, !.then = "forget"]
    <3>1. CASE pendingConnection[u.to]
      <4>1. pc'[p] = "register" /\ local'[p] = m
        BY <2>1, <3>1 DEF ReadPending
      <4>2. m.who = u.to /\ m.then = "forget"
        BY <2>0 DEF Locals
      <4>3. u.to \in Assistants
        BY <2>0, <2>1 DEF ReadPending, UpdateOK
      <4> QED BY <3>1, <4>1, <4>2, <4>3 DEF Playless, Who
    <3> QED BY <1>3, <2>0, <2>1, <3>1 DEF ReadPending
  <2>2. CASE OnGroupCallDiscarded(p, u) \/ NoteUnmuted(p, u)
    BY <1>0, <1>3, <2>0, <2>2 DEF OnGroupCallDiscarded, NoteUnmuted, Neutral
  <2>3. CASE OnGroupCallObj(p, u) \/ NoteMuted(p, u) \/ OtherCall(u)
    BY <1>3, <2>0, <2>3 DEF OnGroupCallObj, NoteMuted, OtherCall
  <2> QED BY <1>4, <2>1, <2>2, <2>3 DEF HandleOwn, HandleOwnUpdate
<1>5. ASSUME NEW u, HandleParticipant(p, u) \/ HandleBotRemoved(p, u)
      PROVE  Playless(pc'[p], local'[p]) /\ pc'[p] = "choose"
  <2>1. CASE HandleParticipant(p, u)
    <3> DEFINE m == [Fresh EXCEPT !.use = "noteMember", !.user = u.to, !.seen = Noted(u)]
    <3>1. m.use = "noteMember"
      BY DEF Fresh
    <3>2. Goto(p, "choose", m)
      BY <2>1 DEF HandleParticipant
    <3> HIDE DEF m
    <3> QED BY <3>1, <3>2 DEF Playless
  <2>2. CASE HandleBotRemoved(p, u)
    <3> DEFINE m == [Fresh EXCEPT !.use = "forgetCall", !.then = "banned"]
    <3>1. m.use = "forgetCall"
      BY DEF Fresh
    <3>2. Goto(p, "choose", m)
      BY <2>2 DEF HandleBotRemoved
    <3> HIDE DEF m
    <3> QED BY <3>1, <3>2 DEF Playless
  <2> QED BY <1>5, <2>1, <2>2
<1>6. ASSUME NEW a \in Assistants, LeavePicked(p, a) \/ LeaveAllForClient(p, a)
      PROVE  Playless(pc'[p], local'[p]) /\ pc'[p] \in {"idle", "dialogs"}
  BY <1>0, <1>3, <1>6 DEF LeavePicked, LeaveAllForClient, At, Neutral
<1>7. CASE ClearAllAssistants(p)
  <2>1. pc[p] = "idle" /\ (Jump(p, "clearCache") \/ UNCHANGED <<pc, local>>)
    BY <1>7 DEF ClearAllAssistants, Command, At
  <2> QED BY <1>0, <1>3, <2>1 DEF Jump, Neutral
<1>8. CASE Dispatch(p)
  BY <1>4, <1>5, <1>6, <1>8 DEF Dispatch
<1> QED BY <1>1, <1>2, <1>7, <1>8 DEF Commands

LEMMA PlaylessStep ==
    ASSUME TypeInv, AllPlayless, [Next]_vars, \A p \in Procs : ~PlayCommand(p)
    PROVE  AllPlayless'
<1>1. ASSUME NEW p \in Procs, OnlyMoves(p), Playless(pc'[p], local'[p])
      PROVE  AllPlayless'
  BY <1>1 DEF AllPlayless, OnlyMoves
<1>2. ASSUME NEW p \in Procs, Work(p)
      PROVE  AllPlayless'
  <2>1. Playless(pc[p], local[p]) /\ OnlyMoves(p)
    BY <1>2, WorkMoves DEF AllPlayless
  <2>2. CASE ConnectStep(p)
    BY <1>1, <2>1, <2>2, PlaylessConnect
  <2>3. CASE JoinStep(p)
    BY <1>1, <2>1, <2>3, PlaylessJoin
  <2>4. CASE ~ConnectStep(p) /\ ~ChooseStep(p) /\ ~JoinStep(p)
    BY <1>1, <1>2, <2>1, <2>4, PlaylessOther
  <2>5. CASE ChooseStep(p)
    BY <1>1, <2>1, <2>5, PlaylessChoose
  <2> QED BY <2>2, <2>3, <2>4, <2>5
<1>3. ASSUME NEW p \in Procs, Commands(p) \/ Dispatch(p)
      PROVE  AllPlayless'
  BY <1>1, <1>3, StartMoves, PlaylessStart DEF AllPlayless
<1>4. CASE UNCHANGED <<pc, local>>
  BY <1>4 DEF AllPlayless
<1>5. ASSUME NEW a \in Assistants, NativeConnects(a) \/ NativeCatchesUp(a) \/ OnConnectionChange(a)
      PROVE  AllPlayless'
  BY <1>4, <1>5 DEF NativeConnects, NativeCatchesUp, OnConnectionChange
<1>6. CASE Outside
  BY <1>4, <1>6, OutsideData DEF TypeInv
<1> QED BY <1>2, <1>3, <1>4, <1>5, <1>6 DEF Next, vars

-----------------------------------------------------------------------------
\* Quiet: nothing can connect an assistant again.  No participants update finds
\* a pending connection, the engine has given up nothing but stops, and nobody
\* connects it.

Silent(a) ==
    /\ ~pendingConnection[a]
    /\ abandoned[a] \subseteq {"stop"}
    /\ \A q \in Procs : pc[q] \in Dialling => Who(q) # a

\* The part of a step that is about the assistant's call and its place.
Hushed(a) ==
    /\ ~pendingConnection'[a]
    /\ abandoned'[a] \subseteq {"stop"}
    /\ call[a] = "none" => call'[a] = "none"
    /\ joined[a] = None => joined'[a] = None

\* Most steps touch none of that.
LEMMA HushedKept ==
    ASSUME NEW a \in Assistants, Silent(a), UNCHANGED <<pendingConnection, abandoned, call>>,
           joined'[a] \in {joined[a], None}
    PROVE  Hushed(a)
BY DEF Silent, Hushed

LEMMA MembershipHushed ==
    ASSUME TypeInv, NEW a \in Assistants, NEW b, NEW new, BecomesMember(b, new)
    PROVE  joined'[a] \in {joined[a], None}
BY DEF BecomesMember, TypeInv, DataOK, ConnectionTypeOK

\* A stop, or one given up, of any assistant.
LEMMA StopHushed ==
    ASSUME TypeInv, NEW a \in Assistants, Silent(a), NEW b,
           (EndCall(b) /\ abandoned'[a] \subseteq abandoned[a]) \/ Abandon(b, "stop"),
           UNCHANGED <<pendingConnection, joined>>
    PROVE  Hushed(a)
<1> USE DEF TypeInv, DataOK, ConnectionTypeOK, Silent, Hushed
<1>1. CASE EndCall(b) /\ abandoned'[a] \subseteq abandoned[a]
  BY <1>1 DEF EndCall
<1>2. CASE Abandon(b, "stop")
  BY <1>2 DEF Abandon
<1> QED BY <1>1, <1>2

\* connectCall works on another assistant.
LEMMA ConnectHushed ==
    ASSUME TypeInv, NEW a \in Assistants, Silent(a), NEW p \in Procs, ConnectStep(p), Who(p) # a
    PROVE  Hushed(a)
<1> USE HushedKept DEF appVars, nativeVars, telegramVars
<1>1. CASE PlayExisting(p) \/ PlayNew(p) \/ SetSources(p) \/ CheckPresentation(p)
  BY <1>1 DEF PlayExisting, PlayNew, SetSources, CheckPresentation
<1>2. CASE Register(p) \/ SetMedia(p) \/ Lookup(p) \/ AskGroupCall(p)
  BY <1>2 DEF Register, SetMedia, Lookup, AskGroupCall
<1>3. CASE NoteGroupCall(p) \/ RereadGroupCall(p) \/ Await(p) \/ Unregister(p)
  BY <1>3 DEF NoteGroupCall, RereadGroupCall, Await, Unregister
<1>4. CASE JoinGroupCall(p)
  BY <1>4 DEF JoinGroupCall, TypeInv, DataOK, ConnectionTypeOK
<1>5. CASE CreateCall(p) \/ Connect(p)
  <2>1. abandoned'[a] = abandoned[a] /\ call'[a] = call[a]
    BY <1>5 DEF CreateCall, Connect, Abandon, TypeInv, DataOK, ConnectionTypeOK
  <2>2. UNCHANGED <<pendingConnection, joined>>
    BY <1>5 DEF CreateCall, Connect
  <2> QED BY <2>1, <2>2 DEF Hushed, Silent
<1>6. CASE Abort(p)
  BY <1>6, StopHushed DEF Abort, Ended
<1>7. CASE ReadMode(p)
  BY <1>7 DEF ReadMode, Hushed, Silent, TypeInv, DataOK, ConnectionTypeOK
<1> QED BY <1>1, <1>2, <1>3, <1>4, <1>5, <1>6, <1>7 DEF ConnectStep

LEMMA WorkHushed ==
    ASSUME TypeInv, NEW a \in Assistants, Silent(a), NEW p \in Procs, Work(p), ~ConnectStep(p)
    PROVE  Hushed(a)
<1> USE HushedKept DEF connection, appVars, nativeVars, telegramVars
<1>1. CASE BeginStop(p)
  BY <1>1 DEF BeginStop, ForgetCall, Hushed, Silent, TypeInv, DataOK, ConnectionTypeOK
<1>2. CASE StopNative(p)
  <2>1. UNCHANGED <<pendingConnection, joined>>
    BY <1>2 DEF StopNative
  <2>2. Ended(Who(p)) \/ UNCHANGED <<abandoned, call>> \/ Abandon(Who(p), "stop")
    BY <1>2 DEF StopNative
  <2> QED BY <2>1, <2>2, StopHushed DEF Ended
<1>3. CASE LeaveGroupCall(p)
  BY <1>3 DEF LeaveGroupCall, TypeInv, DataOK, ConnectionTypeOK
<1>4. CASE UpdateStep(p)
  <2>1. CASE StopDiscarded(p)
    BY <2>1, StopHushed DEF StopDiscarded, Ended
  <2>2. CASE ForgetPending(p)
    BY <2>2 DEF ForgetPending, Hushed, Silent, TypeInv, DataOK, ConnectionTypeOK
  <2>3. CASE Unmute(p)
    BY <2>3 DEF Unmute
  <2> QED BY <1>4, <2>1, <2>2, <2>3 DEF UpdateStep
<1>5. CASE JoinStep(p)
  <2>1. CASE CheckStatus(p)
    BY <2>1 DEF CheckStatus
  <2>2. CASE NoteStatus(p) \/ ResolveCached(p) \/ CreateLink(p) \/ NoteLink(p)
    BY <2>2 DEF NoteStatus, ResolveCached, CreateLink, NoteLink
  <2>3. CASE JoinExpired(p) \/ NoteJoined(p) \/ NoteExpired(p)
    BY <2>3 DEF JoinExpired, NoteJoined, NoteExpired
  <2>4. CASE Recover(p) \/ JoinChat(p)
    <3>1. UNCHANGED <<pendingConnection, abandoned, call>>
      BY <2>4 DEF Recover, JoinChat
    <3>2. UNCHANGED joined \/ \E new : BecomesMember(Who(p), new)
      BY <2>4 DEF Recover, JoinChat
    <3> QED BY <3>1, <3>2, MembershipHushed
  <2> QED BY <1>5, <2>1, <2>2, <2>3, <2>4 DEF JoinStep
<1>6. CASE LeaveStep(p)
  <2>1. CASE LeaveNext(p) \/ LeftChats(p)
    BY <2>1 DEF LeaveNext, LeftChats
  <2>2. CASE LeaveChannel(p)
    BY <2>2, MembershipHushed DEF LeaveChannel
  <2> QED BY <1>6, <2>1, <2>2 DEF LeaveStep
<1>7. CASE Rotate(p) \/ JoinNext(p) \/ NoteMember(p) \/ Stopped(p)
  BY <1>7 DEF Rotate, JoinNext, NoteMember, Stopped
<1>8. CASE ChooseStep(p) \/ AssignStep(p)
  <2>1. UNCHANGED <<connection, telegramVars>>
    BY <1>8 DEF ChooseStep, LookupAssistant, FindAssistant, FillCache, FindNone, AssignAssistant,
                NoteAssigned, AssignStep, SetAssistant, NoteSet, RemoveAssistant, DropEntry,
                ClearCache, unassigned
  <2> QED BY <2>1
<1> QED BY <1>1, <1>2, <1>3, <1>4, <1>5, <1>6, <1>7, <1>8 DEF Work

\* Commands, updates, and what goes on outside.
LEMMA StartHushed ==
    ASSUME TypeInv, NEW a \in Assistants, Silent(a),
           Outside \/ \E p \in Procs : Commands(p) \/ Dispatch(p)
    PROVE  Hushed(a)
<1> USE HushedKept DEF connection, appVars, nativeVars, telegramVars
<1>1. ASSUME NEW p \in Procs, Commands(p)
      PROVE  Hushed(a)
  BY <1>1 DEF Commands, PlayCommand, StopCommand, JoinAllCommand, LeaveAllCommand,
              ClearAllAssistants, unassigned
<1>2. ASSUME NEW p \in Procs, NEW u, HandleOwn(p, u)
      PROVE  Hushed(a)
  BY <1>2 DEF HandleOwn, HandleOwnUpdate, OnGroupCallObj, OnGroupCallDiscarded, ReadPending,
              NoteMuted, NoteUnmuted, OtherCall
<1>3. ASSUME NEW p \in Procs, NEW u, HandleParticipant(p, u) \/ HandleBotRemoved(p, u)
      PROVE  Hushed(a)
  BY <1>3 DEF HandleParticipant, HandleBotRemoved
<1>4. ASSUME NEW p \in Procs, NEW b, LeavePicked(p, b) \/ LeaveAllForClient(p, b)
      PROVE  Hushed(a)
  BY <1>4 DEF LeavePicked, LeaveAllForClient
<1>5. CASE Outside
  <2>1. ASSUME NEW b, MemberChanges(b)
        PROVE  Hushed(a)
    BY <2>1, MembershipHushed DEF MemberChanges
  <2>2. ASSUME NEW b, SelfChanges(b)
        PROVE  Hushed(a)
    BY <2>2 DEF SelfChanges
  <2>3. CASE VideoChatStarts \/ VideoChatEnds
    BY <2>3 DEF VideoChatStarts, VideoChatEnds
  <2>4. CASE LinkRevoked \/ CachesExpire \/ AssignmentExpires \/ BotRemoved
    BY <2>4 DEF LinkRevoked, CachesExpire, AssignmentExpires, BotRemoved, unassigned
  <2> QED BY <1>5, <2>1, <2>2, <2>3, <2>4 DEF Outside
<1> QED BY <1>1, <1>2, <1>3, <1>4, <1>5 DEF Dispatch

LEMMA EngineHushed ==
    ASSUME TypeInv, NEW a \in Assistants, Silent(a), NEW b \in Assistants,
           NativeConnects(b) \/ NativeCatchesUp(b) \/ OnConnectionChange(b)
    PROVE  Hushed(a)
<1> USE DEF connection, appVars, nativeVars, telegramVars
<1>1. CASE NativeConnects(b)
  BY <1>1 DEF NativeConnects, Hushed, Silent, TypeInv, DataOK, ConnectionTypeOK
<1>2. CASE NativeCatchesUp(b)
  <2>1. PICK request \in abandoned[b] :
          /\ abandoned' = [abandoned EXCEPT ![b] = @ \ {request}]
          /\ \/ request = "create" /\ call' = [call EXCEPT ![b] = "created"]
             \/ request = "connect" /\ call' = [call EXCEPT ![b] = "connecting"]
             \/ request = "stop" /\ EndCall(b)
    BY <1>2 DEF NativeCatchesUp
  <2>2. UNCHANGED <<pendingConnection, joined>>
    BY <1>2 DEF NativeCatchesUp
  <2>3. abandoned'[a] \subseteq abandoned[a]
    BY <2>1 DEF TypeInv, DataOK, ConnectionTypeOK
  <2>4. CASE request = "stop" /\ EndCall(b)
    BY <2>2, <2>3, <2>4, StopHushed
  <2>5. CASE request # "stop"
    <3>1. a # b
      BY <2>1, <2>5 DEF Silent
    <3>2. call'[a] = call[a]
      BY <2>1, <2>5, <3>1 DEF TypeInv, DataOK, ConnectionTypeOK
    <3> QED BY <2>2, <2>3, <3>2 DEF Hushed, Silent
  <2> QED BY <2>1, <2>4, <2>5
<1>3. CASE OnConnectionChange(b)
  BY <1>3, HushedKept DEF OnConnectionChange
<1> QED BY <1>1, <1>2, <1>3

\* While nothing plays, a quiet assistant stays quiet: whatever a step does, it
\* does not connect it.
LEMMA QuietStep ==
    ASSUME TypeInv, AllPlayless, [Next]_vars, \A p \in Procs : ~PlayCommand(p),
           NEW a \in Assistants, Silent(a)
    PROVE  Silent(a)' /\ Hushed(a)
<1>1. Hushed(a)
  <2>1. ASSUME NEW p \in Procs, Work(p), ConnectStep(p)
        PROVE  Who(p) # a
    BY <2>1, PlaylessConnect DEF AllPlayless, Silent
  <2>2. CASE UNCHANGED vars
    BY <2>2, HushedKept DEF vars, appVars, nativeVars, telegramVars
  <2> QED BY <2>1, <2>2, ConnectHushed, WorkHushed, StartHushed, EngineHushed DEF Next
<1>2. ASSUME NEW q \in Procs, pc'[q] \in Dialling
      PROVE  local'[q].who # a
  <2>1. ASSUME NEW p \in Procs, Work(p)
        PROVE  local'[q].who # a
    <3>1. CASE p # q
      BY <1>2, <2>1, <3>1, WorkMoves DEF OnlyMoves, Silent, Who
    <3>2. CASE p = q
      BY <1>2, <2>1, <3>2, PlaylessConnect, PlaylessChoose, PlaylessJoin, PlaylessOther
      DEF AllPlayless, Silent, Who
    <3> QED BY <3>1, <3>2
  <2>2. ASSUME NEW p \in Procs, Commands(p) \/ Dispatch(p)
        PROVE  local'[q].who # a
    <3>1. CASE p # q
      BY <1>2, <2>2, <3>1, StartMoves DEF OnlyMoves, Silent, Who
    <3>2. CASE p = q
      BY <1>2, <2>2, <3>2, PlaylessStart DEF AllPlayless, Silent, Who
    <3> QED BY <3>1, <3>2
  <2>3. CASE UNCHANGED <<pc, local>>
    BY <1>2, <2>3 DEF Silent, Who
  <2>4. ASSUME NEW b \in Assistants,
               NativeConnects(b) \/ NativeCatchesUp(b) \/ OnConnectionChange(b)
        PROVE  UNCHANGED <<pc, local>>
    BY <2>4 DEF NativeConnects, NativeCatchesUp, OnConnectionChange
  <2>5. CASE Outside
    BY <2>3, <2>5, OutsideData DEF TypeInv
  <2> QED BY <2>1, <2>2, <2>3, <2>4, <2>5 DEF Next, vars
<1> QED BY <1>1, <1>2 DEF Silent, Hushed, Who

-----------------------------------------------------------------------------
\* The inductive invariant: how far a Stop that nothing overlaps has got, and
\* what it leaves.

\* What holds of the assistant of a goroutine that is undisturbed in a Stop.
StopReached(label, a) ==
    /\ label \in Stopping => Silent(a)
    /\ label \in {"leave", "stopped", "skipped"} => call[a] = "none"
    /\ label = "stopped" => joined[a] = None

StopInv ==
    /\ quiet \cup alone # {} => AllPlayless
    /\ departed \subseteq quiet
    /\ \A a \in quiet : Silent(a) /\ call[a] = "none" /\ (a \in departed => joined[a] = None)
    /\ \A p \in alone : StopReached(pc[p], Who(p))

LEMMA StopInit == Init => StopInv
BY DEF Init, StopInv

\* What is left to show of a step: what it adds to the histories, and how far
\* it takes the goroutine that makes it.
LEMMA StopInvKept ==
    ASSUME TypeInv, StopInv, [Next]_vars, \A p \in Procs : ~PlayCommand(p),
           quiet' \cup alone' # {} => AllPlayless',
           departed' \subseteq quiet',
           \A a \in quiet' \ quiet : Silent(a)' /\ call'[a] = "none",
           \A a \in departed' \ departed : joined'[a] = None,
           \A q \in alone' : \/ q \in alone /\ pc'[q] = pc[q] /\ local'[q] = local[q]
                             \/ StopReached(pc[q], Who(q))'
    PROVE  StopInv'
<1>1. ASSUME NEW a \in quiet
      PROVE  Silent(a)' /\ call'[a] = "none" /\ (a \in departed => joined'[a] = None)
  <2>1. /\ a \in Assistants /\ AllPlayless /\ Silent(a) /\ call[a] = "none"
        /\ a \in departed => joined[a] = None
    BY <1>1 DEF StopInv, TypeInv, DataOK, BotTypeOK
  <2> QED BY <2>1, QuietStep DEF Hushed
<1>2. ASSUME NEW q \in alone, pc'[q] = pc[q], local'[q] = local[q], pc'[q] \in Stopping
      PROVE  StopReached(pc[q], Who(q))'
  <2>1. q \in Procs
    BY <1>2 DEF TypeInv, DataOK, BotTypeOK
  <2>2. Who(q) \in Assistants /\ AllPlayless /\ StopReached(pc[q], Who(q))
    BY <1>2, <2>1, WhoType DEF StopInv, Stopping, Unchosen, TypeInv
  <2>3. Silent(Who(q))' /\ Hushed(Who(q))
    <3> DEFINE a == Who(q)
    <3>1. a \in Assistants /\ Silent(a)
      BY <1>2, <2>2 DEF StopReached
    <3> QED BY <1>2, <2>2, <3>1, QuietStep DEF Silent, Who
  <2> QED BY <1>2, <2>2, <2>3 DEF StopReached, Hushed, Who, Silent
<1>3. ASSUME NEW q \in alone'
      PROVE  StopReached(pc[q], Who(q))'
  BY <1>2, <1>3 DEF StopReached, Stopping
<1>4. ASSUME NEW a \in quiet'
      PROVE  Silent(a)' /\ call'[a] = "none" /\ (a \in departed' => joined'[a] = None)
  <2>1. Silent(a)' /\ call'[a] = "none"
    BY <1>1, <1>4
  <2>2. a \in departed' => joined'[a] = None
    BY <1>1 DEF StopInv
  <2> QED BY <2>1, <2>2
<1> QED BY <1>3, <1>4 DEF StopInv

LEMMA BeginStopInv ==
    ASSUME TypeInv, StopInv, [Next]_vars, NEW p \in Procs, BeginStop(p)
    PROVE  StopInv'
<1>1. /\ pc[p] = "forgetCall" /\ pc'[p] = "stopNative" /\ OnlyMoves(p) /\ Who(p) \in Assistants
      /\ \A l : Goto(p, "stopNative", l) => local'[p] = l
  BY GotoMoves, WhoType DEF BeginStop, ForgetCall, At, Unchosen, TypeInv
<1>2. local'[p].who = Who(p)
  BY <1>1 DEF BeginStop, ForgetCall, Who, TypeInv, ControlInv, Locals
<1>3. pendingConnection'[Who(p)] = FALSE /\ UNCHANGED <<abandoned, call, joined, quiet, departed>>
  BY <1>1 DEF BeginStop, ForgetCall, TypeInv, DataOK, ConnectionTypeOK, nativeVars, telegramVars
<1>7. departed' \subseteq quiet'
  BY <1>3 DEF StopInv
<1>4. \A q \in Procs : ~PlayCommand(q)
  BY <1>1 DEF PlayCommand, Command, At, OnlyMoves, Goto, TypeInv, ControlInv
<1>5. CASE abandoned[Who(p)] = {} /\ \A q \in Procs \ {p} : pc[q] = "idle"
  <2>1. alone' = alone \cup {p}
    BY <1>5 DEF BeginStop
  <2>2. \A q \in Procs \ {p} : pc'[q] = "idle"
    BY <1>1, <1>5 DEF OnlyMoves
  <2>3. AllPlayless'
    BY <1>1, <2>2 DEF AllPlayless, Playless, Choosing, Dialling, Connecting, Joining
  <2>4. Silent(Who(p))'
    BY <1>1, <1>2, <1>3, <1>5, <2>2 DEF Silent, Who, Dialling, Connecting
  <2>5. \A q \in alone' : StopReached(pc[q], Who(q))'
    <3>1. StopReached(pc[p], Who(p))'
      BY <1>1, <2>4 DEF StopReached
    <3>2. alone' \subseteq Procs
      BY <2>1 DEF TypeInv, DataOK, BotTypeOK
    <3> QED BY <2>2, <3>1, <3>2 DEF StopReached, Stopping
  <2> QED BY <1>3, <1>4, <1>7, <2>3, <2>5, StopInvKept
<1>6. CASE ~(abandoned[Who(p)] = {} /\ \A q \in Procs \ {p} : pc[q] = "idle")
  <2>1. alone' = alone \ {p}
    BY <1>6 DEF BeginStop
  <2>2. alone \subseteq Procs
    BY DEF TypeInv, DataOK, BotTypeOK
  <2>3. quiet' \cup alone' # {} => AllPlayless'
    BY <1>3, <1>4, <2>1, PlaylessStep DEF StopInv
  <2> QED BY <1>1, <1>3, <1>4, <1>7, <2>1, <2>2, <2>3, StopInvKept DEF OnlyMoves
<1> QED BY <1>5, <1>6

LEMMA EndStopInv ==
    ASSUME TypeInv, StopInv, [Next]_vars, \A p \in Procs : ~PlayCommand(p),
           NEW p \in Procs, Stopped(p)
    PROVE  StopInv'
<1>1. /\ pc[p] \in {"stopped", "skipped"} /\ pc'[p] = "idle" /\ OnlyMoves(p)
      /\ Who(p) \in Assistants /\ UNCHANGED alone
  BY GotoMoves, WhoType DEF Stopped, Return, Unchosen, TypeInv
<1>2. alone \subseteq Procs
  BY DEF TypeInv, DataOK, BotTypeOK
<1>3. \A q \in alone' : \/ q \in alone /\ pc'[q] = pc[q] /\ local'[q] = local[q]
                        \/ StopReached(pc[q], Who(q))'
  BY <1>1, <1>2 DEF OnlyMoves, StopReached, Stopping
<1>4. CASE p \in alone
  <2>1. /\ quiet' = quiet \cup {Who(p)} /\ AllPlayless /\ StopReached(pc[p], Who(p))
        /\ departed' = IF pc[p] = "stopped" THEN departed \cup {Who(p)} ELSE departed
    BY <1>4 DEF Stopped, StopInv, At
  <2>2. /\ Silent(Who(p)) /\ call[Who(p)] = "none"
        /\ pc[p] = "stopped" => joined[Who(p)] = None
    BY <1>1, <2>1 DEF StopReached, Stopping
  <2>3. PICK a \in Assistants : a = Who(p)
    BY <1>1
  <2>4. Silent(a)' /\ Hushed(a)
    BY <2>1, <2>2, <2>3, QuietStep
  <2>5. \A b \in quiet' \ quiet : Silent(b)' /\ call'[b] = "none"
    BY <2>1, <2>2, <2>3, <2>4 DEF Hushed
  <2>6. \A b \in departed' \ departed : joined'[b] = None
    BY <2>1, <2>2, <2>3, <2>4 DEF Hushed
  <2>7. departed' \subseteq quiet'
    BY <2>1 DEF StopInv
  <2> QED BY <1>3, <2>1, <2>5, <2>6, <2>7, PlaylessStep, StopInvKept
<1>5. CASE p \notin alone
  <2>1. UNCHANGED <<quiet, departed>>
    BY <1>5 DEF Stopped
  <2> QED BY <1>1, <1>3, <2>1, PlaylessStep, StopInvKept DEF StopInv
<1> QED BY <1>4, <1>5

\* The steps of Stop in between.
LEMMA MiddleStopInv ==
    ASSUME TypeInv, StopInv, [Next]_vars, \A p \in Procs : ~PlayCommand(p),
           NEW p \in Procs, StopNative(p) \/ LeaveGroupCall(p), UNCHANGED history
    PROVE  StopInv'
<1>1. OnlyMoves(p) /\ Who(p) \in Assistants /\ UNCHANGED <<quiet, departed, alone>> /\ alone \subseteq Procs
  BY StopMoves, WhoType DEF StopNative, LeaveGroupCall, At, Unchosen, TypeInv, DataOK, BotTypeOK,
                            history
<1>2. (quiet' \cup alone' # {} => AllPlayless') /\ departed' \subseteq quiet'
  BY <1>1, PlaylessStep DEF StopInv
<1>3. PICK a \in Assistants : a = Who(p)
  BY <1>1
<1>4. ASSUME p \in alone
      PROVE  StopReached(pc[p], Who(p))'
  <2>1. pc[p] \in {"stopNative", "leave"} /\ AllPlayless /\ StopReached(pc[p], a)
    BY <1>3, <1>4 DEF StopInv, StopNative, LeaveGroupCall, At
  <2>2. Silent(a)' /\ Hushed(a)
    BY <2>1, QuietStep DEF StopReached, Stopping
  <2>3. CASE StopNative(p)
    <3>1. ASSUME NEW label \in {"leave", "skipped"}, Jump(p, label)
          PROVE  pc'[p] \in {"leave", "skipped"} /\ local'[p].who = a
      BY <1>3, <3>1, GotoMoves DEF Jump, Who
    <3>2. CASE Ended(Who(p)) /\ (Jump(p, "skipped") \/ Jump(p, "leave"))
      <4>1. call'[a] = "none"
        BY <1>3, <3>2 DEF Ended, EndCall, TypeInv, DataOK, ConnectionTypeOK
      <4>2. pc'[p] \in {"leave", "skipped"} /\ local'[p].who = a
        BY <3>1, <3>2
      <4> QED BY <2>2, <4>1, <4>2 DEF StopReached, Stopping, Who, Silent
    <3>3. CASE call[Who(p)] = "none" /\ Jump(p, "skipped") /\ UNCHANGED nativeVars
      <4>1. call'[a] = "none"
        BY <1>3, <3>3 DEF nativeVars
      <4>2. pc'[p] \in {"leave", "skipped"} /\ local'[p].who = a
        BY <3>1, <3>3
      <4> QED BY <2>2, <4>1, <4>2 DEF StopReached, Stopping, Who, Silent
    <3>4. CASE Return(p)
      BY <3>4, GotoMoves DEF Return, StopReached, Stopping
    <3> QED BY <2>3, <3>2, <3>3, <3>4 DEF StopNative
  <2>4. CASE LeaveGroupCall(p)
    <3>1. pc[p] = "leave"
      BY <2>4 DEF LeaveGroupCall, At
    <3>2. \/ pc'[p] = "idle"
          \/ /\ pc'[p] = "stopped" /\ local'[p].who = a
             /\ joined'[a] = None
      BY <1>3, <2>4, GotoMoves DEF LeaveGroupCall, Return, Jump, Who, TypeInv, DataOK,
                                   ConnectionTypeOK
    <3> QED BY <2>1, <2>2, <3>1, <3>2 DEF StopReached, Stopping, Who, Silent, Hushed
  <2> QED BY <2>3, <2>4, <1>1 DEF StopNative, LeaveGroupCall
<1> QED BY <1>1, <1>2, <1>4, StopInvKept DEF OnlyMoves

\* A goroutine that moves elsewhere.
LEMMA ElsewhereStopInv ==
    ASSUME TypeInv, StopInv, [Next]_vars, \A p \in Procs : ~PlayCommand(p),
           NEW p \in Procs, OnlyMoves(p), pc'[p] \notin Stopping, UNCHANGED history
    PROVE  StopInv'
<1>1. UNCHANGED <<quiet, departed, alone>> /\ alone \subseteq Procs
  BY DEF history, TypeInv, DataOK, BotTypeOK
<1>2. StopReached(pc[p], Who(p))'
  BY DEF StopReached, Stopping
<1> QED BY <1>1, <1>2, PlaylessStep, StopInvKept DEF OnlyMoves, StopInv

LEMMA HistoryKept ==
    /\ Outside => UNCHANGED history
    /\ \A p \in Procs : Work(p) /\ ~BeginStop(p) /\ ~Stopped(p) => UNCHANGED history
    /\ \A p \in Procs : (Commands(p) \/ Dispatch(p)) /\ ~PlayCommand(p) => UNCHANGED history
<1> USE DEF history, idleVars
<1>1. Outside => UNCHANGED history
  BY DEF Outside, VideoChatStarts, VideoChatEnds, LinkRevoked, CachesExpire, AssignmentExpires,
         BotRemoved, MemberChanges, SelfChanges
<1>2. ASSUME NEW p \in Procs, Work(p), ~BeginStop(p), ~Stopped(p)
      PROVE  UNCHANGED history
  <2>1. CASE JoinStep(p)
    BY <2>1 DEF JoinStep, CheckStatus, NoteStatus, Recover, ResolveCached, CreateLink, NoteLink,
                JoinChat, JoinExpired, NoteJoined, NoteExpired
  <2>2. CASE LeaveStep(p) \/ Rotate(p) \/ JoinNext(p) \/ NoteMember(p)
    BY <2>2 DEF LeaveStep, LeaveNext, LeaveChannel, LeftChats, Rotate, JoinNext, NoteMember
  <2>3. CASE ChooseStep(p) \/ AssignStep(p)
    BY <2>3 DEF ChooseStep, LookupAssistant, FindAssistant, FillCache, FindNone, AssignAssistant,
                NoteAssigned, AssignStep, SetAssistant, NoteSet, RemoveAssistant, DropEntry,
                ClearCache
  <2> QED BY <1>2, <2>1, <2>2, <2>3 DEF Work
<1>3. ASSUME NEW p \in Procs, Commands(p) \/ Dispatch(p), ~PlayCommand(p)
      PROVE  UNCHANGED history
  BY <1>3 DEF Commands, StopCommand, JoinAllCommand, LeaveAllCommand, ClearAllAssistants, Dispatch,
              HandleOwn, HandleParticipant, HandleBotRemoved, LeavePicked, LeaveAllForClient
<1> QED BY <1>1, <1>2, <1>3

LEMMA StopStep == TypeInv /\ StopInv /\ [Next]_vars => StopInv'
<1> SUFFICES ASSUME TypeInv, StopInv, [Next]_vars
             PROVE  StopInv'
  OBVIOUS
<1>1. CASE \E p \in Procs : PlayCommand(p)
  BY <1>1 DEF PlayCommand, StopInv
<1>2. CASE \A p \in Procs : ~PlayCommand(p)
  <2>1. ASSUME UNCHANGED <<pc, local>>, UNCHANGED history
        PROVE  StopInv'
    BY <1>2, <2>1, PlaylessStep, StopInvKept DEF StopInv, history
  <2>2. ASSUME NEW p \in Procs, Work(p)
        PROVE  StopInv'
    <3>1. CASE BeginStop(p)
      BY <3>1, BeginStopInv
    <3>2. CASE Stopped(p)
      BY <1>2, <3>2, EndStopInv
    <3>3. CASE ~BeginStop(p) /\ ~Stopped(p)
      <4>1. UNCHANGED history
        BY <2>2, <3>3, HistoryKept
      <4>2. OnlyMoves(p)
        BY <2>2, WorkMoves
      <4>3. CASE StopNative(p) \/ LeaveGroupCall(p)
        BY <1>2, <4>1, <4>3, MiddleStopInv
      <4>4. CASE quiet \cup alone = {}
        <5>1. quiet = {} /\ alone = {} /\ quiet' = {} /\ alone' = {} /\ departed' = departed
          BY <4>1, <4>4 DEF history
        <5> QED BY <5>1 DEF StopInv
      <4>5. CASE quiet \cup alone # {} /\ ~StopNative(p) /\ ~LeaveGroupCall(p)
        <5>1. Playless(pc[p], local[p])
          BY <4>5 DEF StopInv, AllPlayless
        <5>2. pc'[p] \notin Stopping
          BY <2>2, <3>3, <4>5, <5>1, PlaylessConnect, PlaylessChoose, PlaylessJoin, PlaylessOther
        <5> QED BY <1>2, <4>1, <4>2, <5>2, ElsewhereStopInv
      <4> QED BY <4>3, <4>4, <4>5
    <3> QED BY <3>1, <3>2, <3>3
  <2>3. ASSUME NEW p \in Procs, Commands(p) \/ Dispatch(p)
        PROVE  StopInv'
    <3>1. UNCHANGED history /\ OnlyMoves(p)
      BY <1>2, <2>3, StartMoves, HistoryKept
    <3>2. CASE quiet \cup alone = {}
      <4>1. quiet = {} /\ alone = {} /\ quiet' = {} /\ alone' = {} /\ departed' = departed
        BY <3>1, <3>2 DEF history
      <4> QED BY <4>1 DEF StopInv
    <3>3. CASE quiet \cup alone # {}
      <4>1. Playless(pc[p], local[p])
        BY <3>3 DEF StopInv, AllPlayless
      <4>2. pc'[p] \notin Stopping
        BY <1>2, <2>3, <4>1, PlaylessStart
      <4> QED BY <1>2, <3>1, <4>2, ElsewhereStopInv
    <3> QED BY <3>2, <3>3
  <2>4. ASSUME NEW a \in Assistants,
               (NativeConnects(a) \/ NativeCatchesUp(a) \/ OnConnectionChange(a)) /\ UNCHANGED idleVars
        PROVE  StopInv'
    BY <2>1, <2>4 DEF NativeConnects, NativeCatchesUp, OnConnectionChange, idleVars
  <2>5. CASE Outside
    BY <2>1, <2>5, OutsideData, HistoryKept DEF TypeInv
  <2>6. CASE UNCHANGED vars
    BY <2>1, <2>6 DEF vars
  <2> QED BY <2>2, <2>3, <2>4, <2>5, <2>6 DEF Next
<1> QED BY <1>1, <1>2

\* A Stop that reported success and that nothing overlapped leaves the engine
\* without the call, and the assistant out of the video chat unless Stop skipped
\* leaving it (no call, no group call known, or the bot was removed); and no
\* update, retry, late answer of the engine or other command undoes what it did:
\* only playing something connects the assistant again.
THEOREM StopsLeave == Spec => []StopLeaves
<1>1. TypeInv /\ StopInv /\ TypeInv' /\ [Next]_vars => StopInv'
  BY StopStep
<1>2. StopInv => StopLeaves
  BY DEF StopInv, StopLeaves, Silent
<1>3. Spec => []StopInv
  <2>1. Spec => []TypeInv
    BY TypeInvariant
  <2> QED BY <1>1, <2>1, StopInit, PTL DEF Spec
<1> QED BY <1>2, <1>3, PTL
=============================================================================
