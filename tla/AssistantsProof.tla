---------------------------- MODULE AssistantsProof ----------------------------
(***************************************************************************)
(* Theorems about Assistants for every number of assistants, goroutines    *)
(* and video chats: types, the channels of connectCall, the mark of        *)
(* LeaveAll, and the assignment.                                           *)
(***************************************************************************)
EXTENDS Assistants, TLAPS

-----------------------------------------------------------------------------
\* Control.  What is true of a goroutine at a label with local variables l.

Uses == {"idle", "status", "forgetCall", "noteMember"}
Thens == {"idle", "calls", "joinNext", "presentation", "forget", "banned"}

\* Where a goroutine can be without an assistant in hand.
Unchosen == {"idle", "choose", "find", "fill", "clearCache", "joinNext", "leaveNext"}

\* In getClientIndex.
Choosing == {"choose", "find", "fill", "assign", "noteAssigned"}

\* A Stop for a bot that was removed goes the way of Stop only.
BannedOK(label, l) ==
    l.then = "banned" => \/ label \in Choosing /\ l.use = "forgetCall"
                         \/ label \in {"forgetCall", "stopNative", "skipped"}

\* What `seen' and `doc' hold where they are stored.
SeenOK(label, l) ==
    /\ label = "noteStatus" => l.seen \in Statuses
    /\ label = "note" => l.seen \in CallIds \cup {"closed"}
    /\ label = "noteMember" => l.seen \in Statuses \cup {None}
    /\ label \in Choosing /\ l.use = "noteMember" => l.seen \in Statuses \cup {None}
    /\ label = "fill" => l.doc \in Assistants

GoroutineOK(label, l) ==
    /\ label \in Labels /\ l \in Locals /\ l.use \in Uses /\ l.then \in Thens
    /\ label \notin Unchosen => l.who \in Assistants
    /\ BannedOK(label, l)
    /\ SeenOK(label, l)

ControlInv ==
    /\ pc \in [Procs -> Labels] /\ local \in [Procs -> Locals]
    /\ \A p \in Procs : GoroutineOK(pc[p], local[p])

\* A step after which p is at a label with local variables it may have there.
LEMMA GotoControl ==
    ASSUME ControlInv, NEW p \in Procs, NEW label, NEW l, Goto(p, label, l), GoroutineOK(label, l)
    PROVE  ControlInv'
<1>1. pc' \in [Procs -> Labels] /\ local' \in [Procs -> Locals]
  BY DEF ControlInv, Goto, GoroutineOK
<1>2. \A q \in Procs : \/ pc'[q] = pc[q] /\ local'[q] = local[q]
                       \/ pc'[q] = label /\ local'[q] = l
  BY DEF ControlInv, Goto
<1> QED BY <1>1, <1>2 DEF ControlInv

\* Labels at which a goroutine has its assistant, and its way on, for good.
Settled == Labels \ (Unchosen \cup Choosing \cup {"forgetCall", "stopNative", "skipped"})

\* Labels that ask nothing of `seen' nor of `use', and are not LeaveAll's.
Plain == Labels \ (Choosing \cup {"noteStatus", "note", "noteMember", "dialogs", "left"})

\* Most steps keep the assistant in hand, `use' and `then'.
LEMMA MoveControl ==
    ASSUME ControlInv, NEW p \in Procs, pc[p] \in Settled, NEW label \in Plain,
           NEW m \in Locals, m.who = Who(p), m.use = local[p].use, m.then = local[p].then,
           Goto(p, label, m)
    PROVE  ControlInv'
<1>1. GoroutineOK(pc[p], local[p])
  BY DEF ControlInv
<1>2. GoroutineOK(label, m)
  <2>1. m.then # "banned"
    BY <1>1 DEF GoroutineOK, BannedOK, Choosing, Settled, Unchosen
  <2>2. m.who \in Assistants
    BY <1>1 DEF GoroutineOK, Choosing, Settled, Who
  <2> QED BY <1>1, <2>1, <2>2 DEF GoroutineOK, BannedOK, SeenOK, Choosing, Plain
<1> QED BY <1>2, GotoControl

\* The edits of the local variables that the steps are made of.
LEMMA Edits ==
    ASSUME NEW l \in Locals
    PROVE  /\ \A k \in Kinds : [l EXCEPT !.kind = k] \in Locals
           /\ \A s \in CallIds \cup Statuses \cup {None, "closed", "absent"} :
                [l EXCEPT !.seen = s] \in Locals
           /\ \A n \in Nat : [l EXCEPT !.link = n] \in Locals
           /\ \A b \in BOOLEAN : [l EXCEPT !.fresh = b] \in Locals /\ [l EXCEPT !.again = b] \in Locals
           /\ \A t \in Thens : [l EXCEPT !.then = t] \in Locals
           /\ \A a \in Assistants : [l EXCEPT !.who = a, !.tried = {a}] \in Locals
           /\ \A a \in Assistants : [l EXCEPT !.who = a, !.tried = {a}, !.doc = None] \in Locals
           /\ \A d \in Assistants \cup {None} : [l EXCEPT !.doc = d] \in Locals
           /\ \A a \in Assistants : [l EXCEPT !.who = a] \in Locals
<1>1. \A t \in Thens : t \in Labels \cup {"banned"}
  BY DEF Thens, Labels
<1> QED BY <1>1 DEF Locals

LEMMA JumpControl ==
    ASSUME ControlInv, NEW p \in Procs, pc[p] \in Settled, NEW label \in Plain, Jump(p, label)
    PROVE  ControlInv'
<1>1. local[p] \in Locals
  BY DEF ControlInv
<1> QED BY <1>1, MoveControl DEF Jump, Who

LEMMA ErrorControl ==
    ASSUME ControlInv, NEW p \in Procs, pc[p] \in Settled, NEW label \in Plain,
           NEW kind \in Kinds, Error(p, label, kind)
    PROVE  ControlInv'
<1>1. local[p] \in Locals
  BY DEF ControlInv
<1>2. [local[p] EXCEPT !.kind = kind] \in Locals
  BY <1>1, Edits
<1>3. /\ [local[p] EXCEPT !.kind = kind].who = Who(p)
      /\ [local[p] EXCEPT !.kind = kind].use = local[p].use
      /\ [local[p] EXCEPT !.kind = kind].then = local[p].then
  BY <1>1 DEF Locals, Who
<1> QED BY <1>2, <1>3, MoveControl DEF Error

\* On at the label `then', when that is one.
LEMMA ThenControl ==
    ASSUME ControlInv, NEW p \in Procs, pc[p] \in Settled, Jump(p, local[p].then)
    PROVE  ControlInv'
<1>1. GoroutineOK(pc[p], local[p])
  BY DEF ControlInv
<1>2. local[p].then \in Plain
  BY <1>1 DEF GoroutineOK, BannedOK, Choosing, Settled, Unchosen, Thens, Plain, Labels
<1> QED BY <1>2, JumpControl

LEMMA ReturnControl == ASSUME ControlInv, NEW p \in Procs, Return(p) PROVE ControlInv'
<1>1. GoroutineOK("idle", Fresh)
  BY DEF GoroutineOK, BannedOK, SeenOK, Choosing, Fresh, Labels, Locals, Uses, Thens, Unchosen, Kinds
<1> QED BY <1>1, GotoControl DEF Return

LEMMA PlayFailedControl ==
    ASSUME ControlInv, NEW p \in Procs, pc[p] \in Settled, NEW kind \in Kinds,
           PlayFailed(p, kind)
    PROVE  ControlInv'
<1>1. GoroutineOK(pc[p], local[p]) /\ local[p] \in Locals
  BY DEF ControlInv
<1>2. CASE kind = "retry" /\ ~local[p].again
  <2> DEFINE l == [local[p] EXCEPT !.again = TRUE, !.kind = "none", !.fresh = FALSE,
                                   !.then = "calls"]
  <2>1. Goto(p, "status", l)
    BY <1>2 DEF PlayFailed
  <2>2. l \in Locals
    <3> DEFINE l1 == [local[p] EXCEPT !.again = TRUE]
               l2 == [l1 EXCEPT !.kind = "none"]
               l3 == [l2 EXCEPT !.fresh = FALSE]
    <3>1. l1 \in Locals
      BY <1>1, Edits
    <3>2. l2 \in Locals
      BY <3>1, Edits DEF Kinds
    <3>3. l3 \in Locals
      BY <3>2, Edits
    <3>4. [l3 EXCEPT !.then = "calls"] \in Locals
      BY <3>3, Edits DEF Thens
    <3> QED BY <3>4
  <2>3. l.who = Who(p) /\ l.use = local[p].use /\ l.then = "calls"
    BY <1>1 DEF Locals, Who
  <2>4. GoroutineOK("status", l)
    BY <1>1, <2>2, <2>3 DEF GoroutineOK, BannedOK, SeenOK, Choosing, Labels, Settled, Unchosen, Thens, Who
  <2> QED BY <2>1, <2>4, GotoControl
<1>3. CASE kind \in {"rotate", "crowded"}
  <2>1. Error(p, "evict", kind)
    BY <1>3 DEF PlayFailed
  <2> QED BY <2>1, ErrorControl DEF Plain, Choosing, Labels
<1>4. CASE ~(kind = "retry" /\ ~local[p].again) /\ kind \notin {"rotate", "crowded"}
  <2>1. Return(p)
    BY <1>4 DEF PlayFailed
  <2> QED BY <2>1, ReturnControl
<1> QED BY <1>2, <1>3, <1>4

\* What `seen' can hold.
Seens == CallIds \cup Statuses \cup {None, "closed", "absent"}

\* What most steps of a goroutine that has its assistant do to it.
Routine(p) ==
    \/ UNCHANGED <<pc, local>>
    \/ \E label \in Plain : Jump(p, label)
    \/ \E label \in Plain, kind \in Kinds : Error(p, label, kind)
    \/ \E label \in Plain, s \in Seens : Goto(p, label, [local[p] EXCEPT !.seen = s])
    \/ \E label \in Plain, n \in Nat : Goto(p, label, [local[p] EXCEPT !.link = n])
    \/ \E label \in Plain : Goto(p, label, [local[p] EXCEPT !.fresh = TRUE])
    \/ \E kind \in Kinds : PlayFailed(p, kind)
    \/ Jump(p, local[p].then)
    \/ Return(p)

LEMMA RoutineControl ==
    ASSUME ControlInv, NEW p \in Procs, pc[p] \in Settled, Routine(p)
    PROVE  ControlInv'
<1> local[p] \in Locals
  BY DEF ControlInv
<1>1. CASE UNCHANGED <<pc, local>>
  BY <1>1 DEF ControlInv
<1>2. ASSUME NEW label \in Plain, NEW s \in Seens, Goto(p, label, [local[p] EXCEPT !.seen = s])
      PROVE  ControlInv'
  <2> DEFINE m == [local[p] EXCEPT !.seen = s]
  <2>1. m \in Locals
    BY Edits DEF Seens
  <2>2. m.who = Who(p) /\ m.use = local[p].use /\ m.then = local[p].then
    BY DEF Who, Locals
  <2> QED BY <1>2, <2>1, <2>2, MoveControl
<1>3. ASSUME NEW label \in Plain, NEW n \in Nat, Goto(p, label, [local[p] EXCEPT !.link = n])
      PROVE  ControlInv'
  <2> DEFINE m == [local[p] EXCEPT !.link = n]
  <2>1. m \in Locals
    BY Edits
  <2>2. m.who = Who(p) /\ m.use = local[p].use /\ m.then = local[p].then
    BY DEF Who, Locals
  <2> QED BY <1>3, <2>1, <2>2, MoveControl
<1>4. ASSUME NEW label \in Plain, Goto(p, label, [local[p] EXCEPT !.fresh = TRUE])
      PROVE  ControlInv'
  <2> DEFINE m == [local[p] EXCEPT !.fresh = TRUE]
  <2>1. m \in Locals
    BY Edits
  <2>2. m.who = Who(p) /\ m.use = local[p].use /\ m.then = local[p].then
    BY DEF Who, Locals
  <2> QED BY <1>4, <2>1, <2>2, MoveControl
<1> QED BY <1>1, <1>2, <1>3, <1>4, JumpControl, ErrorControl, PlayFailedControl, ThenControl,
           ReturnControl
        DEF Routine

-----------------------------------------------------------------------------
\* The variables that hold data.

BotTypeOK ==
    /\ assigned \in Assistants \cup {None} /\ cachedAssistant \in Assistants \cup {None}
    /\ status \in [Assistants -> Statuses \cup {None}]
    /\ invite \in Nat
    /\ leaving \subseteq Assistants
    /\ spawned \subseteq Assistants \X {"LeaveAll", "LeaveAllForClient"}
    /\ links \in [made : Nat, revoked : Nat]
    /\ inputs \in Nat /\ ended \subseteq CallIds /\ faults \subseteq Fallible
    /\ quiet \subseteq Assistants /\ departed \subseteq Assistants /\ alone \subseteq Procs
    /\ outrun \in BOOLEAN

DataOK == ConnectionTypeOK /\ BotTypeOK

LEMMA WhoType ==
    ASSUME ControlInv, NEW p \in Procs, pc[p] \notin Unchosen
    PROVE  Who(p) \in Assistants
BY DEF ControlInv, GoroutineOK, Who

LEMMA ConnectControl ==
    ASSUME ControlInv, DataOK, NEW p \in Procs, ConnectStep(p)
    PROVE  ControlInv'
<1> USE RoutineControl DEF Settled, Plain, Choosing, Labels, Connecting, Unchosen, Kinds, At, Routine, Seens
<1>1. CASE PlayExisting(p) \/ SetSources(p) \/ CheckPresentation(p)
  BY <1>1 DEF PlayExisting, SetSources, CheckPresentation
<1>2. CASE PlayNew(p)
  <2> DEFINE m == [local[p] EXCEPT !.then = "presentation"]
  <2>1. local[p] \in Locals /\ GoroutineOK(pc[p], local[p])
    BY DEF ControlInv
  <2>2. m \in Locals
    BY <2>1, Edits DEF Thens
  <2>3. m.who = local[p].who /\ m.use = local[p].use /\ m.then = "presentation"
    BY <2>1 DEF Locals
  <2>4. Goto(p, "register", m) /\ pc[p] = "calls"
    BY <1>2 DEF PlayNew
  <2>5. GoroutineOK("register", m)
    BY <2>1, <2>2, <2>3, <2>4 DEF GoroutineOK, BannedOK, SeenOK, Choosing, Thens
  <2> QED BY <2>4, <2>5, GotoControl
<1>3. CASE Register(p) \/ CreateCall(p) \/ SetMedia(p) \/ Abort(p)
  BY <1>3 DEF Register, CreateCall, SetMedia, Abort
<1>4. CASE Lookup(p) \/ RereadGroupCall(p)
  BY <1>4 DEF Lookup, RereadGroupCall
<1>5. CASE AskGroupCall(p)
  <2>1. CASE Error(p, "abort", "unknown")
    BY <1>5, <2>1 DEF AskGroupCall
  <2>2. CASE Goto(p, "note", [local[p] EXCEPT !.seen = IF live = None THEN "closed" ELSE live])
    <3> DEFINE s == IF live = None THEN "closed" ELSE live
               m == [local[p] EXCEPT !.seen = s]
    <3>1. local[p] \in Locals /\ GoroutineOK(pc[p], local[p]) /\ pc[p] = "ask"
      BY <1>5 DEF ControlInv, AskGroupCall
    <3>2. s \in CallIds \cup {"closed"}
      BY DEF DataOK, ConnectionTypeOK
    <3>3. m \in Locals
      BY <3>1, <3>2, Edits
    <3>4. m.who = local[p].who /\ m.use = local[p].use /\ m.then = local[p].then /\ m.seen = s
      BY <3>1 DEF Locals
    <3>5. GoroutineOK("note", m)
      BY <3>1, <3>2, <3>3, <3>4 DEF GoroutineOK, BannedOK, SeenOK, Choosing
    <3> QED BY <2>2, <3>5, GotoControl
  <2> QED BY <1>5, <2>1, <2>2 DEF AskGroupCall
<1>6. CASE NoteGroupCall(p) \/ JoinGroupCall(p) \/ Connect(p) \/ ReadMode(p) \/ Await(p)
  BY <1>6 DEF NoteGroupCall, JoinGroupCall, Connect, ReadMode, Await
<1>7. CASE Unregister(p)
  <2>1. local[p].kind \in Kinds
    BY DEF ControlInv, Locals
  <2> QED BY <1>7, <2>1 DEF Unregister, Connected
<1> QED BY <1>1, <1>2, <1>3, <1>4, <1>5, <1>6, <1>7 DEF ConnectStep

LEMMA StopControl ==
    ASSUME ControlInv, DataOK, NEW p \in Procs,
           BeginStop(p) \/ StopNative(p) \/ LeaveGroupCall(p) \/ Stopped(p) \/ UpdateStep(p)
    PROVE  ControlInv'
<1> USE RoutineControl, ReturnControl
    DEF Settled, Plain, Choosing, Labels, Connecting, Unchosen, Kinds, At, Routine, Seens
<1>1. CASE BeginStop(p)
  <2> DEFINE s == inputGroupCall[Who(p)]
             m == [local[p] EXCEPT !.seen = s]
  <2>1. local[p] \in Locals /\ GoroutineOK(pc[p], local[p]) /\ pc[p] = "forgetCall"
        /\ Goto(p, "stopNative", m)
    BY <1>1 DEF ControlInv, BeginStop, ForgetCall
  <2>2. s \in CallIds \cup {"absent", "closed"}
    BY <2>1, WhoType DEF DataOK, ConnectionTypeOK
  <2>3. m \in Locals
    BY <2>1, <2>2, Edits
  <2>4. m.who = local[p].who /\ m.use = local[p].use /\ m.then = local[p].then
    BY <2>1 DEF Locals
  <2>5. GoroutineOK("stopNative", m)
    BY <2>1, <2>3, <2>4 DEF GoroutineOK, BannedOK, SeenOK, Choosing
  <2> QED BY <2>1, <2>5, GotoControl
<1>2. CASE StopNative(p)
  <2>1. CASE Return(p)
    BY <2>1
  <2>2. CASE Jump(p, "skipped") \/ (Jump(p, "leave") /\ local[p].then # "banned")
    <3>1. local[p] \in Locals /\ GoroutineOK(pc[p], local[p]) /\ pc[p] = "stopNative"
      BY <1>2 DEF ControlInv, StopNative
    <3>2. GoroutineOK("skipped", local[p])
      BY <3>1 DEF GoroutineOK, BannedOK, SeenOK, Choosing
    <3>3. CASE Jump(p, "leave") /\ local[p].then # "banned"
      <4>1. GoroutineOK("leave", local[p])
        BY <3>1, <3>3 DEF GoroutineOK, BannedOK, SeenOK, Choosing
      <4> QED BY <3>3, <4>1, GotoControl DEF Jump
    <3> QED BY <2>2, <3>2, <3>3, GotoControl DEF Jump
  <2> QED BY <1>2, <2>1, <2>2 DEF StopNative
<1>3. CASE LeaveGroupCall(p) \/ Stopped(p)
  BY <1>3 DEF LeaveGroupCall, Stopped
<1>4. CASE UpdateStep(p)
  BY <1>4 DEF UpdateStep, StopDiscarded, ForgetPending, Unmute
<1> QED BY <1>1, <1>2, <1>3, <1>4

\* joinAssistant goes on at a label for the status it has read.
LEMMA TreatControl ==
    ASSUME ControlInv, NEW p \in Procs, pc[p] \in Settled, NEW s \in Statuses, Treat(p, s)
    PROVE  ControlInv'
<1> DEFINE m == [local[p] EXCEPT !.seen = s]
<1>1. local[p] \in Locals /\ GoroutineOK(pc[p], local[p])
  BY DEF ControlInv
<1>2. PICK label \in {"resolve", "recover", local[p].then} : Goto(p, label, m)
  BY DEF Treat
<1>3. label \in Plain
  BY <1>1, <1>2 DEF Plain, Choosing, Labels, GoroutineOK, BannedOK, Choosing, Settled, Unchosen, Thens
<1> QED BY <1>2, <1>3, RoutineControl DEF Routine, Seens

LEMMA JoinFailedControl ==
    ASSUME ControlInv, NEW p \in Procs, pc[p] \in Settled, NEW kind \in Kinds,
           JoinFailed(p, kind)
    PROVE  ControlInv'
BY RoutineControl DEF JoinFailed, Routine, Plain, Choosing, Labels

\* getClientIndex goes on inside, or to what the assistant is wanted for.
LEMMA ChoosingControl ==
    ASSUME ControlInv, NEW p \in Procs, pc[p] \in Choosing, NEW label \in Choosing \cup {local[p].use},
           NEW m \in Locals, m.use = local[p].use, m.then = local[p].then, m.seen = local[p].seen,
           label \notin Unchosen => m.who \in Assistants, label = "fill" => m.doc \in Assistants,
           Goto(p, label, m)
    PROVE  ControlInv'
<1>1. GoroutineOK(pc[p], local[p])
  BY DEF ControlInv
<1>2. GoroutineOK(label, m)
  BY <1>1 DEF GoroutineOK, BannedOK, SeenOK, Choosing, Uses, Labels
<1> QED BY <1>2, GotoControl

LEMMA SettleControl ==
    ASSUME ControlInv, NEW p \in Procs, pc[p] \in Choosing, NEW a \in Assistants, Settle(p, a)
    PROVE  ControlInv'
<1>1. local[p] \in Locals /\ GoroutineOK(pc[p], local[p])
  BY DEF ControlInv
<1>2. local[p].use # "fill"
  BY <1>1 DEF GoroutineOK, Uses
<1>3. CASE Who(p) # None
  <2> DEFINE m == [local[p] EXCEPT !.doc = None]
  <2>1. m \in Locals
    BY <1>1, Edits
  <2>2. /\ m.who = Who(p) /\ m.use = local[p].use /\ m.then = local[p].then
        /\ m.seen = local[p].seen /\ Who(p) \in Assistants
    BY <1>1, <1>3 DEF Locals, Who
  <2>3. Goto(p, local[p].use, m)
    BY <1>3 DEF Settle
  <2> HIDE DEF m
  <2> QED BY <1>2, <2>1, <2>2, <2>3, ChoosingControl
<1>4. CASE Who(p) = None
  <2> DEFINE m == [local[p] EXCEPT !.who = a, !.tried = {a}, !.doc = None]
  <2>1. m \in Locals
    BY <1>1, Edits
  <2>2. /\ m.who = a /\ m.use = local[p].use /\ m.then = local[p].then
        /\ m.seen = local[p].seen
    BY <1>1 DEF Locals
  <2>3. Goto(p, local[p].use, m)
    BY <1>4 DEF Settle
  <2> HIDE DEF m
  <2> QED BY <1>2, <2>1, <2>2, <2>3, ChoosingControl
<1> QED BY <1>3, <1>4

LEMMA ChooseControl ==
    ASSUME ControlInv, DataOK, NEW p \in Procs, ChooseStep(p)
    PROVE  ControlInv'
<1>1. local[p] \in Locals /\ GoroutineOK(pc[p], local[p]) /\ pc[p] \in Choosing
  BY DEF ControlInv, ChooseStep, LookupAssistant, FindAssistant, FillCache, FindNone,
         AssignAssistant, NoteAssigned, At, Choosing
<1>2. ASSUME NEW label \in {"choose", "find", local[p].use}, Jump(p, label),
             label = local[p].use => Who(p) \in Assistants
      PROVE  ControlInv'
  <2>1. label # "fill"
    BY <1>1, <1>2 DEF GoroutineOK, Uses
  <2>2. label \notin Unchosen => local[p].who \in Assistants
    BY <1>2 DEF Unchosen, Who
  <2> QED BY <1>1, <1>2, <2>1, <2>2, ChoosingControl DEF Jump, Choosing
<1>3. CASE LookupAssistant(p)
  <2>1. CASE cachedAssistant # None
    BY <1>1, <1>3, <2>1, SettleControl DEF LookupAssistant, DataOK, BotTypeOK
  <2>2. CASE cachedAssistant = None
    <3>1. "find" # local[p].use
      BY <1>1 DEF GoroutineOK, Uses
    <3> QED BY <1>2, <1>3, <2>2, <3>1 DEF LookupAssistant
  <2> QED BY <2>1, <2>2
<1>4. CASE FindAssistant(p)
  <2> DEFINE m == [local[p] EXCEPT !.doc = assigned]
  <2>1. assigned \in Assistants /\ Goto(p, "fill", m)
    BY <1>4 DEF FindAssistant, DataOK, BotTypeOK
  <2>2. m \in Locals
    BY <1>1, <2>1, Edits
  <2>3. m.use = local[p].use /\ m.then = local[p].then /\ m.seen = local[p].seen /\ m.doc = assigned
    BY <1>1 DEF Locals
  <2> HIDE DEF m
  <2> QED BY <1>1, <2>1, <2>2, <2>3, ChoosingControl DEF Choosing, Unchosen
<1>5. CASE FillCache(p)
  <2>1. local[p].doc \in Assistants /\ Settle(p, local[p].doc)
    BY <1>1, <1>5 DEF FillCache, At, GoroutineOK, SeenOK
  <2> QED BY <1>1, <2>1, SettleControl
<1>6. CASE FindNone(p)
  <2>1. CASE Who(p) # None /\ Jump(p, local[p].use)
    BY <1>1, <1>2, <2>1 DEF Locals, Who
  <2>2. ASSUME NEW a \in Assistants, Goto(p, "assign", [local[p] EXCEPT !.who = a, !.tried = {a}])
        PROVE  ControlInv'
    <3> DEFINE m == [local[p] EXCEPT !.who = a, !.tried = {a}]
    <3>1. m \in Locals
      BY <1>1, Edits
    <3>2. m.who = a /\ m.use = local[p].use /\ m.then = local[p].then /\ m.seen = local[p].seen
      BY <1>1 DEF Locals
    <3>3. Goto(p, "assign", m)
      BY <2>2
    <3> HIDE DEF m
    <3> QED BY <1>1, <3>1, <3>2, <3>3, ChoosingControl DEF Choosing
  <2> QED BY <1>6, <2>1, <2>2 DEF FindNone
<1>7. CASE AssignAssistant(p)
  <2>1. Who(p) \in Assistants
    BY <1>1, <1>7 DEF AssignAssistant, At, GoroutineOK, Unchosen, Who
  <2>2. CASE Jump(p, "noteAssigned")
    BY <1>1, <2>1, <2>2, ChoosingControl DEF Jump, Choosing, Who
  <2>3. CASE Jump(p, "choose") \/ Jump(p, local[p].use)
    BY <1>2, <2>1, <2>3
  <2> QED BY <1>7, <2>2, <2>3 DEF AssignAssistant
<1>8. CASE NoteAssigned(p)
  <2>1. Who(p) \in Assistants
    BY <1>1, <1>8 DEF NoteAssigned, At, GoroutineOK, Unchosen, Who
  <2> QED BY <1>2, <1>8, <2>1 DEF NoteAssigned
<1> QED BY <1>3, <1>4, <1>5, <1>6, <1>7, <1>8 DEF ChooseStep

LEMMA JoinControl ==
    ASSUME ControlInv, DataOK, NEW p \in Procs, JoinStep(p)
    PROVE  ControlInv'
<1> USE RoutineControl, JoinFailedControl
    DEF Settled, Plain, Choosing, Labels, Connecting, Unchosen, Kinds, At, Routine, Seens
<1> local[p] \in Locals /\ GoroutineOK(pc[p], local[p])
  BY DEF ControlInv
<1>4. CASE CheckStatus(p)
  <2>1. pc[p] = "status" /\ Who(p) \in Assistants
    BY <1>4, WhoType DEF CheckStatus
  <2>2. CASE status[Who(p)] # None /\ Treat(p, status[Who(p)])
    BY <2>1, <2>2, TreatControl DEF DataOK, BotTypeOK
  <2>3. CASE Goto(p, "noteStatus", [local[p] EXCEPT !.seen = member[Who(p)]])
    <3> DEFINE m == [local[p] EXCEPT !.seen = member[Who(p)]]
    <3>1. member[Who(p)] \in Statuses
      BY <2>1 DEF DataOK, ConnectionTypeOK
    <3>2. m \in Locals
      BY <3>1, Edits
    <3>3. m.who = Who(p) /\ m.use = local[p].use /\ m.then = local[p].then
          /\ m.seen = member[Who(p)]
      BY DEF Locals, Who
    <3>4. GoroutineOK("noteStatus", m)
      BY <2>1, <3>1, <3>2, <3>3 DEF GoroutineOK, BannedOK, SeenOK, Choosing
    <3> QED BY <2>3, <3>4, GotoControl
  <2>4. CASE JoinFailed(p, "unknown")
    BY <2>1, <2>4
  <2> QED BY <1>4, <2>2, <2>3, <2>4 DEF CheckStatus
<1>5. CASE NoteStatus(p)
  <2>1. local[p].seen \in Statuses
    BY <1>5 DEF NoteStatus, GoroutineOK, SeenOK
  <2> QED BY <1>5, <2>1, TreatControl DEF NoteStatus
<1>6. CASE Recover(p) \/ JoinChat(p) \/ NoteJoined(p) \/ NoteExpired(p) \/ NoteLink(p)
  BY <1>6 DEF Recover, JoinChat, NoteJoined, NoteExpired, NoteLink
<1>7. CASE ResolveCached(p)
  <2>1. invite \in Nat
    BY DEF DataOK, BotTypeOK
  <2> QED BY <1>7, <2>1 DEF ResolveCached
<1>8. CASE CreateLink(p)
  <2>1. links.made + 1 \in Nat
    BY DEF DataOK, BotTypeOK
  <2> QED BY <1>8, <2>1 DEF CreateLink
<1>9. CASE JoinExpired(p)
  BY <1>9 DEF JoinExpired
<1> QED BY <1>4, <1>5, <1>6, <1>7, <1>8, <1>9 DEF JoinStep

\* The next assistant of a rotation, of JoinAllAssistants or of LeaveAll.
LEMMA TryControl ==
    ASSUME ControlInv, NEW p \in Procs, NEW a \in Assistants, NEW then \in Thens \ {"banned"},
           NEW label \in {"status", "leaveNext"}, Try(p, a, label, then)
    PROVE  ControlInv'
<1> DEFINE m == [Fresh EXCEPT !.who = a, !.tried = local[p].tried \cup {a}, !.then = then]
<1>1. local[p] \in Locals
  BY DEF ControlInv
<1>2. m \in Locals
  <2>1. Fresh \in Locals
    BY DEF Fresh, Locals, Labels, Kinds
  <2>2. then \in Labels \cup {"banned"}
    BY DEF Thens, Labels
  <2> QED BY <1>1, <2>1, <2>2 DEF Locals
<1>3. m.who = a /\ m.use = "idle" /\ m.then = then
  BY DEF Fresh
<1>4. GoroutineOK(label, m)
  BY <1>2, <1>3 DEF GoroutineOK, BannedOK, SeenOK, Choosing, Labels, Uses
<1> QED BY <1>4, GotoControl DEF Try

LEMMA OtherControl ==
    ASSUME ControlInv, DataOK, NEW p \in Procs,
           LeaveStep(p) \/ AssignStep(p) \/ Rotate(p) \/ JoinNext(p) \/ NoteMember(p)
    PROVE  ControlInv'
<1> USE ReturnControl, TryControl DEF Thens, At
<1>1. CASE LeaveNext(p)
  BY <1>1 DEF LeaveNext
<1>2. CASE LeaveChannel(p)
  <2>1. GoroutineOK("left", local[p])
    BY <1>2 DEF LeaveChannel, ControlInv, GoroutineOK, BannedOK, SeenOK, Choosing, Labels, Unchosen
  <2> QED BY <1>2, <2>1, GotoControl DEF LeaveChannel, Jump
<1>3. CASE LeftChats(p) \/ ClearCache(p) \/ NoteMember(p)
  BY <1>3 DEF LeftChats, ClearCache, NoteMember
<1>4. CASE Rotate(p) \/ JoinNext(p)
  BY <1>4 DEF Rotate, JoinNext
<1>5. CASE SetAssistant(p) \/ NoteSet(p) \/ RemoveAssistant(p) \/ DropEntry(p)
  BY <1>5, JumpControl DEF SetAssistant, NoteSet, RemoveAssistant, DropEntry, Settled, Plain,
                           Choosing, Unchosen, Labels
<1> QED BY <1>1, <1>2, <1>3, <1>4, <1>5 DEF LeaveStep, AssignStep

-----------------------------------------------------------------------------
\* The updates under way.

Updates ==
    [to : Assistants \cup {None}, type : {"started", "discarded", "self", "member", "bot"},
     old : Statuses, new : Statuses, call : CallIds \cup {None}, can : BOOLEAN]

\* An assistant's own update says which, and those about video chats name one.
UpdateOK(u) ==
    /\ u \in Updates
    /\ u.type # "bot" => u.to \in Assistants
    /\ u.type \in {"started", "discarded", "self"} => u.call \in CallIds

UpdatesOK == \A u \in BagToSet(updates) : UpdateOK(u)

LEMMA AddedToBag ==
    ASSUME NEW B, NEW x
    PROVE  BagToSet(BagAdd(B, x)) \subseteq BagToSet(B) \cup {x}
BY DEF BagToSet, BagAdd

LEMMA RemovedFromBag ==
    ASSUME NEW B, NEW x
    PROVE  BagToSet(BagRemove(B, x)) \subseteq BagToSet(B)
BY DEF BagToSet, BagRemove

LEMMA JoinedBags ==
    ASSUME NEW B, NEW S
    PROVE  BagToSet(B (+) SetToBag(S)) \subseteq BagToSet(B) \cup S
BY DEF BagToSet, SetToBag, (+)

LEMMA MemberUpdateOK ==
    ASSUME NEW a \in Assistants, NEW old \in Statuses, NEW new \in Statuses
    PROVE  UpdateOK(MemberUpdate(a, old, new))
BY DEF UpdateOK, Updates, MemberUpdate

LEMMA OwnUpdateOK ==
    ASSUME NEW a \in Assistants, NEW type \in {"started", "discarded", "self"},
           NEW c \in CallIds, NEW can \in BOOLEAN
    PROVE  UpdateOK(OwnUpdate(a, type, c, can))
BY DEF UpdateOK, Updates, OwnUpdate, Statuses

LEMMA BotUpdateOK == UpdateOK(OwnUpdate(None, "bot", None, FALSE))
BY DEF UpdateOK, Updates, OwnUpdate, Statuses

LEMMA BecomesMemberUpdates ==
    ASSUME DataOK, UpdatesOK, NEW a \in Assistants, NEW new \in Statuses, BecomesMember(a, new)
    PROVE  UpdatesOK'
<1>1. member[a] \in Statuses
  BY DEF DataOK, ConnectionTypeOK
<1> QED BY <1>1, AddedToBag, MemberUpdateOK DEF BecomesMember, UpdatesOK

LEMMA TellUpdates ==
    ASSUME UpdatesOK, NEW type \in {"started", "discarded"}, NEW c \in CallIds, Tell(type, c)
    PROVE  UpdatesOK'
<1> DEFINE told == {b \in Assistants : member[b] \in {"member", "restricted"}}
           S == {OwnUpdate(a, type, c, FALSE) : a \in told}
<1>1. updates' = updates (+) SetToBag(S)
  BY DEF Tell
<1>2. \A u \in S : UpdateOK(u)
  BY OwnUpdateOK
<1> HIDE DEF S
<1>3. BagToSet(updates') \subseteq BagToSet(updates) \cup S
  BY <1>1, JoinedBags
<1> QED BY <1>2, <1>3 DEF UpdatesOK

\* The id of the next video chat is one that has not been used.
LEMMA NextCallType ==
    ASSUME NEW used \in SUBSET CallIds, used # CallIds
    PROVE  NextCall(used) \in CallIds
BY DEF NextCall

-----------------------------------------------------------------------------
\* Commands and handlers start from a goroutine that is idle.
LEMMA CommandControl ==
    ASSUME ControlInv, NEW p \in Procs, Commands(p)
    PROVE  ControlInv'
<1>1. CASE PlayCommand(p)
  <2> DEFINE m == [Fresh EXCEPT !.use = "status", !.then = "calls"]
  <2>1. GoroutineOK("choose", m)
    BY DEF GoroutineOK, BannedOK, SeenOK, Choosing, Unchosen, Labels, Locals, Fresh, Uses, Thens, Kinds
  <2> QED BY <1>1, <2>1, GotoControl DEF PlayCommand
<1>2. CASE StopCommand(p)
  <2> DEFINE m == [Fresh EXCEPT !.use = "forgetCall"]
  <2>1. GoroutineOK("choose", m)
    BY DEF GoroutineOK, BannedOK, SeenOK, Choosing, Unchosen, Labels, Locals, Fresh, Uses, Thens, Kinds
  <2> QED BY <1>2, <2>1, GotoControl DEF StopCommand
<1>3. CASE JoinAllCommand(p)
  <2> DEFINE m == [Fresh EXCEPT !.then = "joinNext"]
  <2>1. GoroutineOK("joinNext", m)
    BY DEF GoroutineOK, BannedOK, SeenOK, Choosing, Unchosen, Labels, Locals, Fresh, Uses, Thens, Kinds
  <2> QED BY <1>3, <2>1, GotoControl DEF JoinAllCommand
<1>4. CASE LeaveAllCommand(p)
  <2>1. GoroutineOK("leaveNext", local[p])
    BY <1>4 DEF LeaveAllCommand, Command, At, ControlInv, GoroutineOK, BannedOK, SeenOK, Choosing, Unchosen,
                Labels
  <2> QED BY <1>4, <2>1, GotoControl DEF LeaveAllCommand, Jump
<1>5. CASE ClearAllAssistants(p)
  <2>1. GoroutineOK("clearCache", local[p])
    BY <1>5 DEF ClearAllAssistants, Command, At, ControlInv, GoroutineOK, BannedOK, SeenOK,
                Choosing, Unchosen, Labels
  <2>2. Jump(p, "clearCache") \/ UNCHANGED <<pc, local>>
    BY <1>5 DEF ClearAllAssistants
  <2>3. CASE Jump(p, "clearCache")
    BY <2>1, <2>3, GotoControl DEF Jump
  <2>4. CASE UNCHANGED <<pc, local>>
    BY <2>4 DEF ControlInv
  <2> QED BY <2>2, <2>3, <2>4
<1> QED BY <1>1, <1>2, <1>3, <1>4, <1>5 DEF Commands

\* The status that is noted for a change is one.
LEMMA NotedType == ASSUME NEW u \in Updates PROVE Noted(u) \in Statuses \cup {None}
BY DEF Noted, Updates, Statuses

LEMMA OwnControl ==
    ASSUME ControlInv, NEW p \in Procs, NEW u, UpdateOK(u), pc[p] = "idle", HandleOwnUpdate(p, u)
    PROVE  ControlInv'
<1>1. local[p] \in Locals /\ GoroutineOK("idle", local[p])
  BY DEF ControlInv
<1>2. CASE UNCHANGED <<pc, local>>
  BY <1>2 DEF ControlInv
<1>3. CASE u.type # "bot" /\ \E label \in {"stopDiscarded", "unmute"} :
             Goto(p, label, [local[p] EXCEPT !.who = u.to])
  <2> DEFINE m == [local[p] EXCEPT !.who = u.to]
  <2>1. PICK label \in {"stopDiscarded", "unmute"} : Goto(p, label, m)
    BY <1>3
  <2>2. u.to \in Assistants
    BY <1>3 DEF UpdateOK
  <2>3. m \in Locals
    BY <1>1, <2>2, Edits
  <2>4. m.who = u.to /\ m.use = local[p].use /\ m.then = local[p].then
    BY <1>1 DEF Locals
  <2>5. GoroutineOK(label, m)
    BY <1>1, <2>1, <2>2, <2>3, <2>4 DEF GoroutineOK, BannedOK, SeenOK, Choosing, Labels
  <2> QED BY <2>1, <2>5, GotoControl
<1>4. CASE u.type # "bot" /\ Goto(p, "register", [local[p] EXCEPT !.who = u.to, !.then = "forget"])
  <2> DEFINE l == [local[p] EXCEPT !.who = u.to]
             m == [local[p] EXCEPT !.who = u.to, !.then = "forget"]
  <2>2. u.to \in Assistants
    BY <1>4 DEF UpdateOK
  <2>3. l \in Locals
    BY <1>1, <2>2, Edits
  <2>4. [l EXCEPT !.then = "forget"] \in Locals
    BY <2>3, Edits DEF Thens
  <2>5. m.who = u.to /\ m.use = local[p].use /\ m.then = "forget"
    BY <1>1 DEF Locals
  <2>6. GoroutineOK("register", m)
    BY <1>1, <2>2, <2>4, <2>5 DEF GoroutineOK, BannedOK, SeenOK, Choosing, Labels, Thens
  <2> QED BY <1>4, <2>6, GotoControl
<1> QED BY <1>2, <1>3, <1>4
        DEF HandleOwnUpdate, OnGroupCallObj, OnGroupCallDiscarded, ReadPending, NoteMuted,
            NoteUnmuted, OtherCall

LEMMA DispatchControl ==
    ASSUME ControlInv, UpdatesOK, NEW p \in Procs, Dispatch(p)
    PROVE  ControlInv'
<1>1. ASSUME NEW u \in BagToSet(updates), HandleOwn(p, u) PROVE ControlInv'
  BY <1>1, OwnControl DEF HandleOwn, TakeUpdate, At, UpdatesOK
<1>2. ASSUME NEW u \in BagToSet(updates), HandleParticipant(p, u) PROVE ControlInv'
  <2> DEFINE m == [Fresh EXCEPT !.use = "noteMember", !.user = u.to, !.seen = Noted(u)]
  <2>1. u \in Updates
    BY DEF UpdatesOK, UpdateOK
  <2>2. u.to \in Assistants \cup {None} /\ Noted(u) \in Statuses \cup {None}
    BY <2>1, NotedType DEF Updates
  <2>3. m \in Locals /\ m.use = "noteMember" /\ m.then = "idle" /\ m.seen = Noted(u)
    BY <2>2 DEF Fresh, Locals, Labels, Kinds
  <2>4. GoroutineOK("choose", m)
    BY <2>2, <2>3 DEF GoroutineOK, BannedOK, SeenOK, Choosing, Unchosen, Labels, Uses, Thens
  <2> QED BY <1>2, <2>4, GotoControl DEF HandleParticipant
<1>3. ASSUME NEW u \in BagToSet(updates), HandleBotRemoved(p, u) PROVE ControlInv'
  <2> DEFINE m == [Fresh EXCEPT !.use = "forgetCall", !.then = "banned"]
  <2>1. m \in Locals /\ m.use = "forgetCall" /\ m.then = "banned"
    BY DEF Fresh, Locals, Labels, Kinds
  <2>2. GoroutineOK("choose", m)
    BY <2>1 DEF GoroutineOK, BannedOK, SeenOK, Choosing, Unchosen, Labels, Uses, Thens
  <2> QED BY <1>3, <2>2, GotoControl DEF HandleBotRemoved
<1>4. ASSUME NEW a \in Assistants, LeavePicked(p, a) \/ LeaveAllForClient(p, a) PROVE ControlInv'
  <2> DEFINE m == [Fresh EXCEPT !.who = a]
  <2>1. m \in Locals /\ m.who = a /\ m.use = "idle" /\ m.then = "idle"
    BY DEF Fresh, Locals, Labels, Kinds
  <2>2. GoroutineOK("dialogs", m)
    BY <2>1 DEF GoroutineOK, BannedOK, SeenOK, Choosing, Labels, Uses, Thens
  <2>3. CASE UNCHANGED <<pc, local>>
    BY <2>3 DEF ControlInv
  <2> QED BY <1>4, <2>2, <2>3, GotoControl DEF LeavePicked, LeaveAllForClient
<1> QED BY <1>1, <1>2, <1>3, <1>4 DEF Dispatch

-----------------------------------------------------------------------------
\* The data keep their types.  First the connection of the chat.

LEMMA EndCallType ==
    ASSUME ConnectionTypeOK, NEW a, EndCall(a)
    PROVE  /\ call' \in [Assistants -> {"none", "created", "connecting", "connected"}]
           /\ mode' \in [Assistants -> {"rtc", "stream"}]
           /\ reports' \in [Assistants -> SUBSET {"ok", "failed"}]
<1>1. reports' \in {reports, [reports EXCEPT ![a] = @ \cup {"failed"}]}
  BY DEF EndCall
<1>2. [reports EXCEPT ![a] = @ \cup {"failed"}] \in [Assistants -> SUBSET {"ok", "failed"}]
  BY DEF ConnectionTypeOK
<1>3. reports' \in [Assistants -> SUBSET {"ok", "failed"}]
  BY <1>1, <1>2 DEF ConnectionTypeOK
<1> QED BY <1>3 DEF EndCall, ConnectionTypeOK

LEMMA AbandonType ==
    ASSUME ConnectionTypeOK, NEW a, NEW request \in {"create", "connect", "stop"},
           Abandon(a, request)
    PROVE  /\ abandoned' \in [Assistants -> SUBSET {"create", "connect", "stop"}]
           /\ UNCHANGED <<call, mode, reports>>
BY DEF Abandon, ConnectionTypeOK

LEMMA EndedType ==
    ASSUME ConnectionTypeOK, NEW a, Ended(a) \/ Abandon(a, "stop"),
           UNCHANGED <<appVars, telegramVars>>
    PROVE  ConnectionTypeOK'
BY EndCallType, AbandonType DEF Ended, ConnectionTypeOK, appVars, telegramVars

LEMMA ConnectData ==
    ASSUME ConnectionTypeOK, ControlInv, NEW p \in Procs, ConnectStep(p)
    PROVE  ConnectionTypeOK'
<1> USE DEF ConnectionTypeOK, appVars, nativeVars, telegramVars, At
<1>1. CASE PlayExisting(p) \/ PlayNew(p) \/ SetSources(p) \/ CheckPresentation(p) \/ SetMedia(p)
           \/ Lookup(p) \/ AskGroupCall(p) \/ RereadGroupCall(p) \/ Await(p)
  BY <1>1 DEF PlayExisting, PlayNew, SetSources, CheckPresentation, SetMedia, Lookup,
              AskGroupCall, RereadGroupCall, Await
<1>2. CASE Register(p)
  BY <1>2 DEF Register
<1>3. CASE CreateCall(p)
  BY <1>3, AbandonType DEF CreateCall
<1>4. CASE Abort(p)
  BY <1>4, EndedType DEF Abort
<1>5. CASE NoteGroupCall(p)
  <2>1. local[p].seen \in CallIds \cup {"closed"}
    BY <1>5 DEF NoteGroupCall, ControlInv, GoroutineOK, SeenOK
  <2> QED BY <1>5, <2>1 DEF NoteGroupCall
<1>6. CASE JoinGroupCall(p)
  BY <1>6 DEF JoinGroupCall
<1>7. CASE Connect(p)
  BY <1>7, AbandonType DEF Connect
<1>8. CASE ReadMode(p)
  BY <1>8 DEF ReadMode
<1>9. CASE Unregister(p)
  BY <1>9 DEF Unregister
<1> QED BY <1>1, <1>2, <1>3, <1>4, <1>5, <1>6, <1>7, <1>8, <1>9 DEF ConnectStep

LEMMA StopData ==
    ASSUME ConnectionTypeOK, NEW p \in Procs,
           ForgetCall(p) \/ StopNative(p) \/ LeaveGroupCall(p) \/ UpdateStep(p)
    PROVE  ConnectionTypeOK'
<1> USE DEF ConnectionTypeOK, appVars, nativeVars, telegramVars, At
<1>1. CASE ForgetCall(p)
  BY <1>1 DEF ForgetCall
<1>2. CASE StopNative(p)
  <2>1. CASE UNCHANGED nativeVars
    BY <1>2, <2>1 DEF StopNative
  <2>2. CASE Ended(Who(p)) \/ Abandon(Who(p), "stop")
    BY <1>2, <2>2, EndedType DEF StopNative
  <2> QED BY <1>2, <2>1, <2>2 DEF StopNative
<1>3. CASE LeaveGroupCall(p)
  BY <1>3 DEF LeaveGroupCall
<1>4. CASE StopDiscarded(p)
  BY <1>4, EndedType DEF StopDiscarded
<1>5. CASE ForgetPending(p)
  BY <1>5 DEF ForgetPending
<1>6. CASE Unmute(p)
  BY <1>6 DEF Unmute
<1> QED BY <1>1, <1>2, <1>3, <1>4, <1>5, <1>6 DEF UpdateStep

LEMMA EngineData ==
    ASSUME ConnectionTypeOK, NEW a \in Assistants,
           NativeConnects(a) \/ NativeCatchesUp(a) \/ OnConnectionChange(a)
    PROVE  ConnectionTypeOK'
<1> USE DEF ConnectionTypeOK, appVars, telegramVars
<1>1. CASE NativeConnects(a)
  BY <1>1 DEF NativeConnects
<1>2. CASE NativeCatchesUp(a)
  <2>1. abandoned' \in [Assistants -> SUBSET {"create", "connect", "stop"}]
    BY <1>2 DEF NativeCatchesUp
  <2>2. CASE EndCall(a)
    BY <1>2, <2>1, <2>2, EndCallType DEF NativeCatchesUp
  <2>3. CASE ~EndCall(a)
    BY <1>2, <2>1, <2>3 DEF NativeCatchesUp
  <2> QED BY <2>2, <2>3
<1>3. CASE OnConnectionChange(a)
  BY <1>3 DEF OnConnectionChange
<1> QED BY <1>1, <1>2, <1>3

LEMMA OwnData ==
    ASSUME ConnectionTypeOK, NEW p \in Procs, NEW u, UpdateOK(u), HandleOwnUpdate(p, u),
           UNCHANGED telegramVars
    PROVE  ConnectionTypeOK'
<1> USE DEF ConnectionTypeOK, appVars, nativeVars, telegramVars
<1>1. CASE OnGroupCallObj(p, u)
  BY <1>1 DEF OnGroupCallObj, UpdateOK
<1>2. CASE OnGroupCallDiscarded(p, u)
  BY <1>2 DEF OnGroupCallDiscarded
<1>3. CASE ReadPending(p, u) \/ NoteUnmuted(p, u) \/ OtherCall(u)
  BY <1>3 DEF ReadPending, NoteUnmuted, OtherCall
<1>4. CASE NoteMuted(p, u)
  BY <1>4 DEF NoteMuted
<1> QED BY <1>1, <1>2, <1>3, <1>4 DEF HandleOwnUpdate

LEMMA BecomesMemberData ==
    ASSUME ConnectionTypeOK, NEW a \in Assistants, NEW new \in Statuses, BecomesMember(a, new)
    PROVE  /\ member' \in [Assistants -> Statuses]
           /\ joined' \in [Assistants -> CallIds \cup {None}]
BY DEF BecomesMember, ConnectionTypeOK

\* The rest of the data.
LEMMA AssignmentType ==
    ASSUME BotTypeOK, NEW p \in Procs, NEW a \in Assistants \cup {None},
           Write(p, a) \/ Unconfirmed(a) \/ Note(p, a)
    PROVE  /\ assigned' \in Assistants \cup {None} /\ cachedAssistant' \in Assistants \cup {None}
           /\ outrun' \in BOOLEAN
BY DEF Write, Unconfirmed, Note, BotTypeOK

LEMMA ChooseData ==
    ASSUME DataOK, ControlInv, UpdatesOK, NEW p \in Procs, ChooseStep(p) \/ AssignStep(p)
    PROVE  DataOK' /\ UpdatesOK'
<1> USE DEF appVars, nativeVars, telegramVars, connection, assignment, botVars, bounds, history,
            idleVars, unassigned, At
<1>1. CASE LookupAssistant(p) \/ FindAssistant(p) \/ FindNone(p)
  BY <1>1 DEF LookupAssistant, FindAssistant, FindNone, DataOK, ConnectionTypeOK, BotTypeOK, UpdatesOK
<1>2. CASE ~(LookupAssistant(p) \/ FindAssistant(p) \/ FindNone(p))
  <2>1. UNCHANGED <<unassigned, bounds, history>>
    BY <1>2 DEF ChooseStep, AssignStep, FillCache, AssignAssistant, NoteAssigned, SetAssistant,
                NoteSet, RemoveAssistant, DropEntry, ClearCache
  <2>2. pc[p] \in {"assign", "noteAssigned", "played", "noteSet"} => Who(p) \in Assistants
    BY WhoType DEF Unchosen
  <2>3. pc[p] = "fill" => local[p].doc \in Assistants
    BY DEF ControlInv, GoroutineOK, SeenOK
  <2>4. \/ UNCHANGED assignment
        \/ \E a \in Assistants \cup {None} : Write(p, a) \/ Unconfirmed(a) \/ Note(p, a)
    <3>1. CASE FillCache(p)
      BY <2>3, <3>1 DEF FillCache
    <3>2. CASE AssignAssistant(p)
      <4>1. (IF assigned = None THEN Who(p) ELSE assigned) \in Assistants \cup {None}
        BY <2>2, <3>2 DEF AssignAssistant, DataOK, BotTypeOK
      <4> QED BY <2>2, <3>2, <4>1 DEF AssignAssistant
    <3>3. CASE NoteAssigned(p) \/ SetAssistant(p) \/ NoteSet(p)
      BY <2>2, <3>3 DEF NoteAssigned, SetAssistant, NoteSet
    <3>4. CASE RemoveAssistant(p) \/ DropEntry(p) \/ ClearCache(p)
      BY <3>4 DEF RemoveAssistant, DropEntry, ClearCache
    <3> QED BY <1>2, <3>1, <3>2, <3>3, <3>4 DEF ChooseStep, AssignStep
  <2>5. /\ assigned' \in Assistants \cup {None} /\ cachedAssistant' \in Assistants \cup {None}
        /\ outrun' \in BOOLEAN
    BY <2>4, AssignmentType DEF DataOK, BotTypeOK
  <2> QED BY <2>1, <2>5 DEF DataOK, ConnectionTypeOK, BotTypeOK, UpdatesOK
<1> QED BY <1>1, <1>2

LEMMA JoinData ==
    ASSUME DataOK, ControlInv, UpdatesOK, NEW p \in Procs, JoinStep(p)
    PROVE  DataOK' /\ UpdatesOK'
<1> USE DEF appVars, nativeVars, telegramVars, connection, assignment, botVars, bounds, history, idleVars, At
<1>1. CASE CheckStatus(p) \/ ResolveCached(p)
  BY <1>1 DEF CheckStatus, ResolveCached, DataOK, ConnectionTypeOK, BotTypeOK, UpdatesOK
<1>3. CASE NoteStatus(p)
  <2>1. local[p].seen \in Statuses
    BY <1>3 DEF NoteStatus, ControlInv, GoroutineOK, SeenOK
  <2>2. status' \in [Assistants -> Statuses \cup {None}]
    BY <1>3, <2>1 DEF NoteStatus, DataOK, BotTypeOK
  <2> QED BY <1>3, <2>2 DEF NoteStatus, DataOK, ConnectionTypeOK, BotTypeOK, UpdatesOK
<1>4. CASE Recover(p) \/ JoinChat(p)
  <2>1. Who(p) \in Assistants
    BY <1>4, WhoType DEF Recover, JoinChat, Unchosen
  <2>2. \/ UNCHANGED <<member, joined, updates>>
        \/ \E new \in Statuses : BecomesMember(Who(p), new)
    BY <1>4 DEF Recover, JoinChat, Statuses
  <2>3. /\ member' \in [Assistants -> Statuses]
        /\ joined' \in [Assistants -> CallIds \cup {None}]
        /\ UpdatesOK'
    BY <2>1, <2>2, BecomesMemberData, BecomesMemberUpdates
       DEF DataOK, ConnectionTypeOK, UpdatesOK
  <2> QED BY <1>4, <2>3 DEF Recover, JoinChat, DataOK, ConnectionTypeOK, BotTypeOK
<1>5. CASE CreateLink(p)
  <2>1. links' \in [made : Nat, revoked : Nat]
    BY <1>5 DEF CreateLink, DataOK, BotTypeOK
  <2> QED BY <1>5, <2>1 DEF CreateLink, DataOK, ConnectionTypeOK, BotTypeOK, UpdatesOK
<1>6. CASE NoteLink(p)
  <2>1. local[p].link \in Nat
    BY DEF ControlInv, Locals
  <2> QED BY <1>6, <2>1 DEF NoteLink, DataOK, ConnectionTypeOK, BotTypeOK, UpdatesOK
<1>7. CASE JoinExpired(p)
  <2>1. invite' \in Nat
    BY <1>7 DEF JoinExpired, DataOK, BotTypeOK
  <2> QED BY <1>7, <2>1 DEF JoinExpired, DataOK, ConnectionTypeOK, BotTypeOK, UpdatesOK
<1>8. CASE NoteJoined(p) \/ NoteExpired(p)
  <2>1. status' \in [Assistants -> Statuses \cup {None}] /\ invite' \in Nat
    BY <1>8 DEF NoteJoined, NoteExpired, DataOK, BotTypeOK, Statuses
  <2> QED BY <1>8, <2>1 DEF NoteJoined, NoteExpired, DataOK, ConnectionTypeOK, BotTypeOK, UpdatesOK
<1> QED BY <1>1, <1>3, <1>4, <1>5, <1>6, <1>7, <1>8 DEF JoinStep

LEMMA OtherData ==
    ASSUME DataOK, ControlInv, UpdatesOK, NEW p \in Procs,
           LeaveStep(p) \/ Rotate(p) \/ JoinNext(p) \/ NoteMember(p) \/ Stopped(p)
    PROVE  DataOK' /\ UpdatesOK'
<1> USE DEF appVars, nativeVars, telegramVars, connection, assignment, botVars, bounds, history, idleVars, At
<1>1. CASE LeaveNext(p)
  <2>1. /\ leaving' \subseteq Assistants
        /\ spawned' \subseteq Assistants \X {"LeaveAll", "LeaveAllForClient"}
    BY <1>1 DEF LeaveNext, DataOK, BotTypeOK
  <2> QED BY <1>1, <2>1 DEF LeaveNext, DataOK, ConnectionTypeOK, BotTypeOK, UpdatesOK
<1>2. CASE LeaveChannel(p)
  <2>1. Who(p) \in Assistants
    BY <1>2, WhoType DEF LeaveChannel, Unchosen
  <2>2. \/ UNCHANGED <<member, joined, updates>>
        \/ \E new \in Statuses : BecomesMember(Who(p), new)
    BY <1>2 DEF LeaveChannel, Statuses
  <2>3. /\ member' \in [Assistants -> Statuses]
        /\ joined' \in [Assistants -> CallIds \cup {None}]
        /\ UpdatesOK'
    BY <2>1, <2>2, BecomesMemberData, BecomesMemberUpdates
       DEF DataOK, ConnectionTypeOK, UpdatesOK
  <2> QED BY <1>2, <2>3 DEF LeaveChannel, DataOK, ConnectionTypeOK, BotTypeOK
<1>3. CASE LeftChats(p)
  BY <1>3 DEF LeftChats, DataOK, ConnectionTypeOK, BotTypeOK, UpdatesOK
<1>4. CASE Rotate(p)
  <2>1. Who(p) \in Assistants
    BY <1>4, WhoType DEF Rotate, Unchosen
  <2>2. spawned' \subseteq Assistants \X {"LeaveAll", "LeaveAllForClient"}
    BY <1>4, <2>1 DEF Rotate, DataOK, BotTypeOK
  <2> QED BY <1>4, <2>2 DEF Rotate, DataOK, ConnectionTypeOK, BotTypeOK, UpdatesOK
<1>5. CASE JoinNext(p)
  BY <1>5 DEF JoinNext, DataOK, ConnectionTypeOK, BotTypeOK, UpdatesOK
<1>6. CASE NoteMember(p)
  <2>1. local[p].seen \in Statuses \cup {None}
    BY <1>6 DEF NoteMember, ControlInv, GoroutineOK, SeenOK
  <2>2. status' \in [Assistants -> Statuses \cup {None}]
    BY <1>6, <2>1 DEF NoteMember, DataOK, BotTypeOK
  <2> QED BY <1>6, <2>2 DEF NoteMember, DataOK, ConnectionTypeOK, BotTypeOK, UpdatesOK
<1>7. CASE Stopped(p)
  <2>1. Who(p) \in Assistants
    BY <1>7, WhoType DEF Stopped, Unchosen
  <2> QED BY <1>7, <2>1 DEF Stopped, DataOK, ConnectionTypeOK, BotTypeOK, UpdatesOK
<1> QED BY <1>1, <1>2, <1>3, <1>4, <1>5, <1>6, <1>7 DEF LeaveStep

LEMMA StartData ==
    ASSUME DataOK, UpdatesOK, NEW p \in Procs, Commands(p) \/ Dispatch(p)
    PROVE  DataOK' /\ UpdatesOK'
<1> USE DEF appVars, nativeVars, telegramVars, connection, assignment, botVars, bounds, history
<1>1. CASE Commands(p) /\ ~ClearAllAssistants(p)
  BY <1>1 DEF Commands, PlayCommand, StopCommand, JoinAllCommand, LeaveAllCommand,
              Command, Input, DataOK, ConnectionTypeOK, BotTypeOK, UpdatesOK
<1>6. CASE ClearAllAssistants(p)
  <2>1. Write(p, None) \/ Unconfirmed(None)
    BY <1>6 DEF ClearAllAssistants
  <2>2. /\ assigned' \in Assistants \cup {None} /\ cachedAssistant' \in Assistants \cup {None}
        /\ outrun' \in BOOLEAN
    BY <2>1, AssignmentType DEF DataOK
  <2>3. UNCHANGED <<unassigned, ended, history, faults>> /\ inputs' \in Nat
    BY <1>6 DEF ClearAllAssistants, Command, Input, DataOK, BotTypeOK
  <2> QED BY <2>2, <2>3 DEF unassigned, DataOK, ConnectionTypeOK, BotTypeOK, UpdatesOK
<1>2. ASSUME NEW u \in BagToSet(updates), TakeUpdate(p, u) PROVE UpdatesOK'
  BY <1>2, RemovedFromBag DEF TakeUpdate, UpdatesOK
<1>3. ASSUME NEW u \in BagToSet(updates), HandleOwn(p, u) PROVE DataOK'
  <2>1. ConnectionTypeOK'
    BY <1>3, OwnData DEF HandleOwn, UpdatesOK, DataOK
  <2> QED BY <1>3, <2>1 DEF HandleOwn, DataOK, BotTypeOK
<1>4. ASSUME NEW u \in BagToSet(updates), HandleParticipant(p, u) \/ HandleBotRemoved(p, u)
      PROVE  DataOK'
  BY <1>4 DEF HandleParticipant, HandleBotRemoved, DataOK, ConnectionTypeOK, BotTypeOK
<1>5. ASSUME NEW a \in Assistants, LeavePicked(p, a) \/ LeaveAllForClient(p, a)
      PROVE  DataOK' /\ UpdatesOK'
  BY <1>5 DEF LeavePicked, LeaveAllForClient, DataOK, ConnectionTypeOK, BotTypeOK, UpdatesOK
<1> QED BY <1>1, <1>2, <1>3, <1>4, <1>5, <1>6
        DEF Dispatch, HandleOwn, HandleParticipant, HandleBotRemoved

LEMMA OutsideData ==
    ASSUME DataOK, UpdatesOK, Outside
    PROVE  DataOK' /\ UpdatesOK' /\ UNCHANGED <<pc, local>>
<1> USE DEF appVars, nativeVars, telegramVars, connection, assignment, botVars, bounds, history
<1> USE DEF Event, Input
<1>1. CASE VideoChatStarts
  <2> DEFINE c == NextCall(ended)
  <2>1. c \in CallIds
    BY <1>1, NextCallType DEF VideoChatStarts, DataOK, BotTypeOK
  <2>2. UpdatesOK'
    BY <1>1, <2>1, TellUpdates DEF VideoChatStarts
  <2> QED BY <1>1, <2>1, <2>2 DEF VideoChatStarts, DataOK, ConnectionTypeOK, BotTypeOK
<1>2. CASE VideoChatEnds
  <2>1. live \in CallIds
    BY <1>2 DEF VideoChatEnds, DataOK, ConnectionTypeOK
  <2>2. UpdatesOK'
    BY <1>2, <2>1, TellUpdates DEF VideoChatEnds
  <2> QED BY <1>2, <2>1, <2>2 DEF VideoChatEnds, DataOK, ConnectionTypeOK, BotTypeOK
<1>3. CASE LinkRevoked
  <2>1. links' \in [made : Nat, revoked : Nat]
    BY <1>3 DEF LinkRevoked, DataOK, BotTypeOK
  <2> QED BY <1>3, <2>1 DEF LinkRevoked, DataOK, ConnectionTypeOK, BotTypeOK, UpdatesOK
<1>4. CASE CachesExpire
  BY <1>4 DEF CachesExpire, DataOK, ConnectionTypeOK, BotTypeOK, UpdatesOK
<1>8. CASE AssignmentExpires
  BY <1>8 DEF AssignmentExpires, unassigned, DataOK, ConnectionTypeOK, BotTypeOK, UpdatesOK
<1>5. CASE BotRemoved
  <2> DEFINE u == OwnUpdate(None, "bot", None, FALSE)
  <2>1. updates' = BagAdd(updates, u)
    BY <1>5 DEF BotRemoved
  <2>2. BagToSet(updates') \subseteq BagToSet(updates) \cup {u}
    BY <2>1, AddedToBag
  <2>3. UpdateOK(u)
    BY BotUpdateOK
  <2> HIDE DEF u
  <2>4. UpdatesOK'
    BY <2>2, <2>3 DEF UpdatesOK
  <2> QED BY <1>5, <2>4 DEF BotRemoved, DataOK, ConnectionTypeOK, BotTypeOK
<1>6. ASSUME NEW a \in Assistants, MemberChanges(a) PROVE DataOK' /\ UpdatesOK' /\ UNCHANGED <<pc, local>>
  <2>1. PICK new \in Statuses : BecomesMember(a, new)
    BY <1>6 DEF MemberChanges
  <2>2. /\ member' \in [Assistants -> Statuses]
        /\ joined' \in [Assistants -> CallIds \cup {None}]
        /\ UpdatesOK'
    BY <2>1, BecomesMemberData, BecomesMemberUpdates DEF DataOK
  <2> QED BY <1>6, <2>2 DEF MemberChanges, DataOK, ConnectionTypeOK, BotTypeOK
<1>7. ASSUME NEW a \in Assistants, SelfChanges(a) PROVE DataOK' /\ UpdatesOK' /\ UNCHANGED <<pc, local>>
  <2>1. joined[a] \in CallIds
    BY <1>7 DEF SelfChanges, DataOK, ConnectionTypeOK
  <2>2. PICK can \in BOOLEAN : updates' = BagAdd(updates, OwnUpdate(a, "self", joined[a], can))
    BY <1>7 DEF SelfChanges
  <2>3. UpdatesOK'
    BY <2>1, <2>2, AddedToBag, OwnUpdateOK DEF UpdatesOK
  <2> QED BY <1>7, <2>3 DEF SelfChanges, DataOK, ConnectionTypeOK, BotTypeOK
<1> QED BY <1>1, <1>2, <1>3, <1>4, <1>5, <1>6, <1>7, <1>8 DEF Outside

-----------------------------------------------------------------------------
\* Type correctness, with the control of every goroutine and the updates under
\* way: each is needed for the next step of the others.
TypeInv == DataOK /\ ControlInv /\ UpdatesOK

LEMMA ConnectionInitTypes == ConnectionInit => ConnectionTypeOK
<1>1. NextCall({}) \in CallIds
  BY NextCallType, AssistantsAssumption
<1> QED BY <1>1 DEF ConnectionInit, NothingHeld, ConnectionTypeOK, Statuses

LEMMA PlayingTypes == ASSUME NEW a \in Assistants, ConnectionPlaying(a) PROVE ConnectionTypeOK
<1>1. live \in CallIds
  BY NextCallType, AssistantsAssumption DEF ConnectionPlaying
<1> QED BY <1>1 DEF ConnectionPlaying, NothingHeld, ConnectionTypeOK, Statuses

LEMMA TypeInit == Init => TypeInv
<1> SUFFICES ASSUME Init PROVE TypeInv
  OBVIOUS
<1>1. ConnectionTypeOK
  BY ConnectionInitTypes, PlayingTypes DEF Init
<1>2. BotTypeOK
  <2>1. /\ assigned \in Assistants \cup {None} /\ cachedAssistant = assigned
        /\ status \in [Assistants -> Statuses \cup {None}]
    BY DEF Init, Statuses
  <2>2. inputs \in Nat /\ faults \subseteq Fallible
    BY AssistantsAssumption DEF Init
  <2> QED BY <2>1, <2>2 DEF Init, BotTypeOK
<1>3. GoroutineOK("idle", Fresh)
  BY DEF GoroutineOK, BannedOK, SeenOK, Choosing, Fresh, Labels, Locals, Uses, Thens, Unchosen, Kinds
<1>4. ControlInv
  BY <1>3 DEF Init, ControlInv, GoroutineOK
<1>5. UpdatesOK
  BY DEF Init, UpdatesOK, BagToSet, EmptyBag, SetToBag
<1> QED BY <1>1, <1>2, <1>4, <1>5 DEF TypeInv, DataOK

LEMMA WorkTypes == ASSUME TypeInv, NEW p \in Procs, Work(p) PROVE TypeInv'
<1> USE DEF TypeInv
<1>1. CASE (ConnectStep(p) \/ StopNative(p) \/ LeaveGroupCall(p) \/ UpdateStep(p))
           /\ UNCHANGED idleVars
  <2>1. ControlInv'
    BY <1>1, ConnectControl, StopControl
  <2>2. ConnectionTypeOK'
    BY <1>1, ConnectData, StopData DEF DataOK
  <2> QED BY <1>1, <2>1, <2>2 DEF DataOK, BotTypeOK, UpdatesOK, idleVars, assignment, botVars, bounds,
                                history
<1>2. CASE JoinStep(p)
  BY <1>2, JoinControl, JoinData
<1>3. CASE LeaveStep(p) \/ Rotate(p) \/ JoinNext(p) \/ NoteMember(p)
  BY <1>3, OtherControl, OtherData
<1>6. CASE ChooseStep(p) \/ AssignStep(p)
  BY <1>6, ChooseControl, OtherControl, ChooseData
<1>4. CASE Stopped(p)
  BY <1>4, StopControl, OtherData
<1>5. CASE BeginStop(p)
  <2>1. ControlInv'
    BY <1>5, StopControl
  <2>2. ConnectionTypeOK'
    BY <1>5, StopData DEF BeginStop, DataOK
  <2> QED BY <1>5, <2>1, <2>2 DEF BeginStop, DataOK, BotTypeOK, UpdatesOK, assignment, botVars,
                                bounds
<1> QED BY <1>1, <1>2, <1>3, <1>4, <1>5, <1>6 DEF Work

LEMMA TypeStep == TypeInv /\ [Next]_vars => TypeInv'
<1> SUFFICES ASSUME TypeInv, [Next]_vars PROVE TypeInv'
  OBVIOUS
<1>1. ASSUME NEW p \in Procs, Commands(p) PROVE TypeInv'
  BY <1>1, CommandControl, StartData DEF TypeInv
<1>2. ASSUME NEW p \in Procs, Work(p) PROVE TypeInv'
  BY <1>2, WorkTypes
<1>3. ASSUME NEW p \in Procs, Dispatch(p) PROVE TypeInv'
  BY <1>3, DispatchControl, StartData DEF TypeInv
<1>4. ASSUME NEW a \in Assistants, UNCHANGED idleVars,
             NativeConnects(a) \/ NativeCatchesUp(a) \/ OnConnectionChange(a)
      PROVE  TypeInv'
  <2>1. ConnectionTypeOK'
    BY <1>4, EngineData DEF TypeInv, DataOK
  <2>2. UNCHANGED <<pc, local>>
    BY <1>4 DEF NativeConnects, NativeCatchesUp, OnConnectionChange
  <2> QED BY <1>4, <2>1, <2>2
          DEF TypeInv, DataOK, ControlInv, BotTypeOK, UpdatesOK, idleVars, assignment, botVars,
              bounds, history
<1>5. CASE Outside
  BY <1>5, OutsideData DEF TypeInv, ControlInv
<1>6. CASE UNCHANGED vars
  BY <1>6 DEF TypeInv, DataOK, ControlInv, ConnectionTypeOK, BotTypeOK, UpdatesOK, vars, appVars,
              nativeVars, telegramVars, assignment, botVars, bounds, history
<1> QED BY <1>1, <1>2, <1>3, <1>4, <1>5, <1>6 DEF Next

LEMMA TypeInvariant == Spec => []TypeInv
BY TypeInit, TypeStep, PTL DEF Spec

\* Every variable keeps its type, whatever the goroutines, the engine, Telegram
\* and the updates do in whatever order: no goroutine without an assistant gets
\* to a step that needs one, none goes on at a label that is not one, and what
\* is stored as a membership or a group call is one.
THEOREM TypeCorrect == Spec => []TypeOK
<1>1. TypeInv => TypeOK
  BY DEF TypeInv, DataOK, ControlInv, BotTypeOK, TypeOK
<1> QED BY <1>1, TypeInvariant, PTL

-----------------------------------------------------------------------------
\* A step is that of one goroutine, or of none.

OnlyMoves(p) == \A q \in Procs \ {p} : pc'[q] = pc[q] /\ local'[q] = local[q]

LEMMA GotoMoves ==
    ASSUME TypeInv, NEW p \in Procs, NEW label, NEW l, Goto(p, label, l)
    PROVE  OnlyMoves(p) /\ pc'[p] = label /\ local'[p] = l
BY DEF Goto, OnlyMoves, TypeInv, ControlInv

\* Where the steps of a goroutine at work lead: not to LeaveAll's labels, but
\* from one of them to the other.
LEMMA PlayFailedMoves ==
    ASSUME TypeInv, NEW p \in Procs, NEW kind, PlayFailed(p, kind)
    PROVE  OnlyMoves(p) /\ pc'[p] \in {"status", "evict", "idle"}
BY GotoMoves DEF PlayFailed, Error, Return

LEMMA JoinFailedMoves ==
    ASSUME TypeInv, NEW p \in Procs, NEW kind, JoinFailed(p, kind)
    PROVE  OnlyMoves(p) /\ pc'[p] \in {"status", "evict", "idle", "joinNext"}
BY GotoMoves, PlayFailedMoves DEF JoinFailed, Jump

LEMMA TreatMoves ==
    ASSUME TypeInv, NEW p \in Procs, NEW s, Treat(p, s)
    PROVE  OnlyMoves(p) /\ pc'[p] \in Thens \cup {"resolve", "recover"}
<1>1. local[p].then \in Thens
  BY DEF TypeInv, ControlInv, GoroutineOK
<1>2. PICK label \in {"resolve", "recover", local[p].then} :
        Goto(p, label, [local[p] EXCEPT !.seen = s])
  BY DEF Treat
<1> QED BY <1>1, <1>2, GotoMoves

LEMMA ConnectMoves ==
    ASSUME TypeInv, NEW p \in Procs, ConnectStep(p)
    PROVE  OnlyMoves(p) /\ pc'[p] \notin {"dialogs", "left"}
<1> USE GotoMoves, PlayFailedMoves DEF Jump, Error, Connecting
<1>1. CASE PlayExisting(p) \/ PlayNew(p) \/ SetSources(p) \/ CheckPresentation(p)
  BY <1>1 DEF PlayExisting, PlayNew, SetSources, CheckPresentation
<1>2. CASE Register(p) \/ CreateCall(p) \/ SetMedia(p) \/ Abort(p) \/ Lookup(p)
  BY <1>2 DEF Register, CreateCall, SetMedia, Abort, Lookup
<1>3. CASE AskGroupCall(p) \/ NoteGroupCall(p) \/ RereadGroupCall(p) \/ JoinGroupCall(p)
  BY <1>3 DEF AskGroupCall, NoteGroupCall, RereadGroupCall, JoinGroupCall
<1>4. CASE Connect(p) \/ ReadMode(p) \/ Await(p)
  BY <1>4 DEF Connect, ReadMode, Await
<1>5. CASE Unregister(p)
  <2>1. local[p].then \in Thens
    BY DEF TypeInv, ControlInv, GoroutineOK
  <2> QED BY <1>5, <2>1 DEF Unregister, Connected, Thens
<1> QED BY <1>1, <1>2, <1>3, <1>4, <1>5 DEF ConnectStep

LEMMA StopMoves ==
    ASSUME TypeInv, NEW p \in Procs,
           BeginStop(p) \/ StopNative(p) \/ LeaveGroupCall(p) \/ Stopped(p) \/ UpdateStep(p)
    PROVE  OnlyMoves(p) /\ pc'[p] \notin {"dialogs", "left"}
<1> USE GotoMoves DEF Jump, Return
<1>1. CASE BeginStop(p) \/ Stopped(p) \/ UpdateStep(p)
  BY <1>1 DEF BeginStop, ForgetCall, Stopped, UpdateStep, StopDiscarded, ForgetPending, Unmute
<1>2. CASE StopNative(p) \/ LeaveGroupCall(p)
  BY <1>2 DEF StopNative, LeaveGroupCall
<1> QED BY <1>1, <1>2

LEMMA JoinMoves ==
    ASSUME TypeInv, NEW p \in Procs, JoinStep(p)
    PROVE  OnlyMoves(p) /\ pc'[p] \notin {"dialogs", "left"}
<1> USE GotoMoves, JoinFailedMoves, TreatMoves DEF Jump, Thens, Uses
<1> local[p].use \in Uses /\ local[p].then \in Thens
  BY DEF TypeInv, ControlInv, GoroutineOK
<1>2. CASE CheckStatus(p) \/ NoteStatus(p)
  BY <1>2 DEF CheckStatus, NoteStatus
<1>3. CASE Recover(p) \/ JoinChat(p)
  BY <1>3 DEF Recover, JoinChat
<1>4. CASE ResolveCached(p) \/ CreateLink(p) \/ NoteLink(p) \/ JoinExpired(p)
  BY <1>4 DEF ResolveCached, CreateLink, NoteLink, JoinExpired
<1>5. CASE NoteJoined(p) \/ NoteExpired(p)
  BY <1>5 DEF NoteJoined, NoteExpired
<1> QED BY <1>2, <1>3, <1>4, <1>5 DEF JoinStep

\* getClientIndex does not forget what it is asked for.
LEMMA ChooseMoves ==
    ASSUME TypeInv, NEW p \in Procs, ChooseStep(p)
    PROVE  /\ OnlyMoves(p) /\ pc[p] \in Choosing
           /\ pc'[p] \in Choosing \cup {local[p].use} /\ local'[p].use = local[p].use
<1>1. local[p] \in Locals
  BY DEF TypeInv, ControlInv
<1>2. PICK label \in Choosing \cup {local[p].use} :
        \E l : Goto(p, label, l) /\ l.use = local[p].use
  <2>1. \A a, d : /\ [local[p] EXCEPT !.doc = d].use = local[p].use
                  /\ [local[p] EXCEPT !.who = a, !.tried = {a}].use = local[p].use
                  /\ [local[p] EXCEPT !.who = a, !.tried = {a}, !.doc = None].use = local[p].use
    BY <1>1 DEF Locals
  <2>2. CASE LookupAssistant(p) \/ FillCache(p)
    BY <2>1, <2>2 DEF LookupAssistant, FillCache, Settle, Jump, Choosing
  <2>3. CASE FindAssistant(p) \/ FindNone(p)
    BY <2>1, <2>3 DEF FindAssistant, FindNone, Jump, Choosing
  <2>4. CASE AssignAssistant(p) \/ NoteAssigned(p)
    BY <2>4 DEF AssignAssistant, NoteAssigned, Jump, Choosing
  <2> QED BY <2>2, <2>3, <2>4 DEF ChooseStep
<1>3. pc[p] \in Choosing
  BY DEF ChooseStep, LookupAssistant, FindAssistant, FillCache, FindNone, AssignAssistant,
         NoteAssigned, At, Choosing
<1> QED BY <1>2, <1>3, GotoMoves

LEMMA TryMoves ==
    ASSUME TypeInv, NEW p \in Procs, NEW a, NEW label, NEW then, Try(p, a, label, then)
    PROVE  OnlyMoves(p) /\ pc'[p] = label
BY GotoMoves DEF Try

LEMMA OtherMoves ==
    ASSUME TypeInv, NEW p \in Procs,
           LeaveStep(p) \/ AssignStep(p) \/ Rotate(p) \/ JoinNext(p) \/ NoteMember(p)
    PROVE  OnlyMoves(p) /\ (LeaveChannel(p) \/ pc'[p] \notin {"dialogs", "left"})
<1> USE GotoMoves, TryMoves DEF Jump, Return
<1>1. CASE LeaveNext(p)
  BY <1>1 DEF LeaveNext
<1>2. CASE LeaveChannel(p)
  BY <1>2 DEF LeaveChannel
<1>3. CASE LeftChats(p) \/ AssignStep(p) \/ NoteMember(p)
  BY <1>3 DEF LeftChats, AssignStep, SetAssistant, NoteSet, RemoveAssistant, DropEntry, ClearCache,
              NoteMember
<1>4. CASE Rotate(p)
  BY <1>4 DEF Rotate
<1>5. CASE JoinNext(p)
  BY <1>5 DEF JoinNext
<1> QED BY <1>1, <1>2, <1>3, <1>4, <1>5 DEF LeaveStep

LEMMA WorkMoves ==
    ASSUME TypeInv, NEW p \in Procs, Work(p)
    PROVE  OnlyMoves(p) /\ (LeaveChannel(p) \/ pc'[p] \notin {"dialogs", "left"})
<1>1. local[p].use \in Uses
  BY DEF TypeInv, ControlInv, GoroutineOK
<1>2. ChooseStep(p) => OnlyMoves(p) /\ pc'[p] \notin {"dialogs", "left"}
  BY <1>1, ChooseMoves DEF Choosing, Uses
<1> QED BY <1>2, ConnectMoves, StopMoves, JoinMoves, OtherMoves DEF Work

LEMMA CommandMoves ==
    ASSUME TypeInv, NEW p \in Procs, Commands(p)
    PROVE  /\ OnlyMoves(p) /\ pc[p] = "idle"
           /\ pc'[p] \in {"choose", "joinNext", "leaveNext", "clearCache", "idle"}
BY GotoMoves DEF Commands, PlayCommand, StopCommand, JoinAllCommand, LeaveAllCommand,
                 ClearAllAssistants, Command, Jump, OnlyMoves, At

LEMMA HandleMoves ==
    ASSUME TypeInv, NEW p \in Procs, NEW u,
           HandleOwn(p, u) \/ HandleParticipant(p, u) \/ HandleBotRemoved(p, u)
    PROVE  /\ OnlyMoves(p) /\ pc[p] = "idle"
           /\ pc'[p] \in {"idle", "choose", "stopDiscarded", "register", "unmute"}
<1>1. pc[p] = "idle"
  BY DEF HandleOwn, HandleParticipant, HandleBotRemoved, TakeUpdate, At
<1>2. CASE HandleOwn(p, u)
  BY <1>1, <1>2, GotoMoves
     DEF HandleOwn, HandleOwnUpdate, OnGroupCallObj, OnGroupCallDiscarded, ReadPending,
         NoteMuted, NoteUnmuted, OtherCall, OnlyMoves
<1> QED BY <1>1, <1>2, GotoMoves DEF HandleParticipant, HandleBotRemoved

-----------------------------------------------------------------------------
\* The channels of connectCall.

\* A step of a goroutine that is not inside connectCall, or stays there with
\* the assistant it has, keeps the registered channels those of goroutines
\* that are.
LEMMA WaitersKept ==
    ASSUME TypeInv, WaitersGone, UNCHANGED waitConnect, NEW p \in Procs, OnlyMoves(p),
           pc[p] \in Connecting => pc'[p] \in Connecting /\ Who(p)' = Who(p)
    PROVE  WaitersGone'
<1> SUFFICES ASSUME NEW a \in Assistants, waitConnect[a] # None
             PROVE  pc'[waitConnect[a]] \in Connecting /\ local'[waitConnect[a]].who = a
  BY DEF WaitersGone, Who
<1>1. waitConnect[a] \in Procs /\ pc[waitConnect[a]] \in Connecting /\ Who(waitConnect[a]) = a
  BY DEF WaitersGone, TypeInv, DataOK, ConnectionTypeOK
<1> QED BY <1>1 DEF OnlyMoves, Who

\* The steps inside connectCall.
LEMMA InsideConnect ==
    ASSUME TypeInv, NEW p \in Procs,
           \/ CreateCall(p) \/ SetMedia(p) \/ Abort(p) \/ Lookup(p) \/ AskGroupCall(p)
           \/ NoteGroupCall(p) \/ RereadGroupCall(p) \/ JoinGroupCall(p) \/ Connect(p)
           \/ ReadMode(p) \/ Await(p)
    PROVE  pc'[p] \in Connecting /\ Who(p)' = Who(p) /\ UNCHANGED waitConnect
<1> USE GotoMoves DEF Jump, Error, Connecting, Who, appVars
<1>0. local[p] \in Locals
  BY DEF TypeInv, ControlInv
<1>1. CASE CreateCall(p) \/ SetMedia(p) \/ Abort(p)
  BY <1>0, <1>1 DEF CreateCall, SetMedia, Abort, Locals
<1>2. CASE Lookup(p) \/ AskGroupCall(p)
  BY <1>0, <1>2 DEF Lookup, AskGroupCall, Locals
<1>3. CASE NoteGroupCall(p) \/ RereadGroupCall(p)
  BY <1>0, <1>3 DEF NoteGroupCall, RereadGroupCall, Locals
<1>4. CASE JoinGroupCall(p) \/ Connect(p)
  BY <1>0, <1>4 DEF JoinGroupCall, Connect, Locals
<1>5. CASE ReadMode(p) \/ Await(p)
  BY <1>0, <1>5 DEF ReadMode, Await, Locals
<1> QED BY <1>1, <1>2, <1>3, <1>4, <1>5

\* The steps that start or go on elsewhere.
LEMMA OutsideConnect ==
    ASSUME TypeInv, NEW p \in Procs, Work(p),
           ~(\/ Register(p) \/ CreateCall(p) \/ SetMedia(p) \/ Abort(p) \/ Lookup(p)
             \/ AskGroupCall(p) \/ NoteGroupCall(p) \/ RereadGroupCall(p) \/ JoinGroupCall(p)
             \/ Connect(p) \/ ReadMode(p) \/ Await(p) \/ Unregister(p))
    PROVE  pc[p] \notin Connecting /\ UNCHANGED waitConnect
<1> USE DEF At, Connecting, appVars, connection, unassigned, idleVars
<1>1. CASE PlayExisting(p) \/ PlayNew(p) \/ SetSources(p) \/ CheckPresentation(p)
  BY <1>1 DEF PlayExisting, PlayNew, SetSources, CheckPresentation
<1>2. CASE StopNative(p) \/ LeaveGroupCall(p) \/ UpdateStep(p)
  BY <1>2 DEF StopNative, LeaveGroupCall, UpdateStep, StopDiscarded, ForgetPending, Unmute
<1>3. CASE JoinStep(p)
  BY <1>3 DEF JoinStep, CheckStatus, NoteStatus, Recover, ResolveCached, CreateLink, NoteLink,
              JoinChat, JoinExpired, NoteJoined, NoteExpired
<1>4. CASE LeaveStep(p) \/ Rotate(p) \/ JoinNext(p) \/ NoteMember(p)
  BY <1>4 DEF LeaveStep, LeaveNext, LeaveChannel, LeftChats, Rotate, JoinNext, NoteMember
<1>6. CASE ChooseStep(p) \/ AssignStep(p)
  BY <1>6 DEF ChooseStep, LookupAssistant, FindAssistant, FillCache, FindNone, AssignAssistant,
              NoteAssigned, AssignStep, SetAssistant, NoteSet, RemoveAssistant, DropEntry, ClearCache
<1>5. CASE BeginStop(p) \/ Stopped(p)
  BY <1>5 DEF BeginStop, ForgetCall, Stopped
<1> QED BY <1>1, <1>2, <1>3, <1>4, <1>5, <1>6 DEF Work, ConnectStep

LEMMA WaitersStep == TypeInv /\ WaitersGone /\ [Next]_vars => WaitersGone'
<1> SUFFICES ASSUME TypeInv, WaitersGone, [Next]_vars PROVE WaitersGone'
  OBVIOUS
<1>1. ASSUME NEW p \in Procs, Register(p) PROVE WaitersGone'
  <2>1. /\ pc[p] = "register" /\ pc'[p] = "create" /\ OnlyMoves(p) /\ local'[p] = local[p]
        /\ waitConnect' = [waitConnect EXCEPT ![Who(p)] = p]
    BY <1>1, GotoMoves DEF Register, At, Jump
  <2> SUFFICES ASSUME NEW a \in Assistants, waitConnect'[a] # None
               PROVE  pc'[waitConnect'[a]] \in Connecting /\ local'[waitConnect'[a]].who = a
    BY DEF WaitersGone, Who
  <2>2. CASE a = Who(p)
    BY <2>1, <2>2 DEF TypeInv, DataOK, ConnectionTypeOK, Connecting, Who
  <2>3. CASE a # Who(p)
    <3>1. waitConnect'[a] = waitConnect[a]
      BY <2>1, <2>3 DEF TypeInv, DataOK, ConnectionTypeOK
    <3>2. waitConnect[a] \in Procs /\ pc[waitConnect[a]] \in Connecting /\ Who(waitConnect[a]) = a
      BY <3>1 DEF WaitersGone, TypeInv, DataOK, ConnectionTypeOK
    <3>3. waitConnect[a] # p
      BY <2>1, <3>2 DEF Connecting
    <3> QED BY <2>1, <3>1, <3>2, <3>3 DEF OnlyMoves, Who
  <2> QED BY <2>2, <2>3
<1>2. ASSUME NEW p \in Procs, Unregister(p) PROVE WaitersGone'
  <2>1. OnlyMoves(p) /\ waitConnect' = [waitConnect EXCEPT ![Who(p)] = None]
    BY <1>2, ConnectMoves DEF ConnectStep, Unregister
  <2> SUFFICES ASSUME NEW a \in Assistants, waitConnect'[a] # None
               PROVE  pc'[waitConnect'[a]] \in Connecting /\ local'[waitConnect'[a]].who = a
    BY DEF WaitersGone, Who
  <2>2. a # Who(p) /\ waitConnect'[a] = waitConnect[a]
    BY <2>1 DEF TypeInv, DataOK, ConnectionTypeOK
  <2>3. waitConnect[a] \in Procs /\ pc[waitConnect[a]] \in Connecting /\ Who(waitConnect[a]) = a
    BY <2>2 DEF WaitersGone, TypeInv, DataOK, ConnectionTypeOK
  <2> QED BY <2>1, <2>2, <2>3 DEF OnlyMoves, Who
<1>3. ASSUME NEW p \in Procs, Work(p), ~Register(p), ~Unregister(p) PROVE WaitersGone'
  BY <1>3, InsideConnect, OutsideConnect, WorkMoves, WaitersKept
<1>4. ASSUME NEW p \in Procs, Commands(p) \/ Dispatch(p) PROVE WaitersGone'
  <2>1. pc[p] = "idle" /\ OnlyMoves(p)
    <3>1. ASSUME NEW a \in Assistants, LeavePicked(p, a) \/ LeaveAllForClient(p, a)
          PROVE  pc[p] = "idle" /\ OnlyMoves(p)
      BY <3>1, GotoMoves DEF LeavePicked, LeaveAllForClient, At, OnlyMoves
    <3> QED BY <1>4, <3>1, CommandMoves, HandleMoves DEF Dispatch
  <2>2. UNCHANGED waitConnect
    BY <1>4 DEF Commands, PlayCommand, StopCommand, JoinAllCommand, LeaveAllCommand,
                ClearAllAssistants, Dispatch, HandleOwn, HandleOwnUpdate, OnGroupCallObj,
                OnGroupCallDiscarded, ReadPending, NoteMuted, NoteUnmuted, OtherCall,
                HandleParticipant, HandleBotRemoved, LeavePicked, LeaveAllForClient, appVars,
                connection, unassigned
  <2> QED BY <2>1, <2>2, WaitersKept DEF Connecting
<1>5. CASE UNCHANGED <<pc, local, waitConnect>>
  BY <1>5 DEF WaitersGone, Who
<1>6. ASSUME NEW a \in Assistants, NativeConnects(a) \/ NativeCatchesUp(a) \/ OnConnectionChange(a)
      PROVE  UNCHANGED <<pc, local, waitConnect>>
  BY <1>6 DEF NativeConnects, NativeCatchesUp, OnConnectionChange, appVars
<1>7. Outside \/ UNCHANGED vars => UNCHANGED <<pc, local, waitConnect>>
  BY DEF Outside, VideoChatStarts, VideoChatEnds, LinkRevoked, CachesExpire, AssignmentExpires,
         BotRemoved, MemberChanges, SelfChanges, connection, unassigned, appVars, vars
<1>8. ASSUME NEW p \in Procs, Register(p) \/ Unregister(p) PROVE WaitersGone'
  BY <1>1, <1>2, <1>8
<1> QED BY <1>3, <1>4, <1>5, <1>6, <1>7, <1>8 DEF Next

LEMMA WaitersInit == Init => WaitersGone
BY DEF Init, ConnectionInit, ConnectionPlaying, NothingHeld, WaitersGone

\* A registered channel always belongs to a goroutine still inside connectCall
\* for that assistant, however many overlap on one chat and whatever fails.
THEOREM NoWaiterLeft == Spec => []WaitersGone
BY TypeInvariant, WaitersInit, WaitersStep, PTL DEF Spec

-----------------------------------------------------------------------------
\* The mark of LeaveAll.

Leaver(p) == pc[p] \in {"dialogs", "left"}

\* A goroutine of LeaveAll that has not started yet holds the mark of its
\* assistant as well, and is the only one to.
LeaverInv ==
    /\ \A p \in Procs : Leaver(p) => Who(p) \in leaving
    /\ \A p, q \in Procs : Leaver(p) /\ Leaver(q) /\ Who(p) = Who(q) => p = q
    /\ \A a \in Assistants : <<a, "LeaveAll">> \in spawned =>
         a \in leaving /\ \A p \in Procs : Leaver(p) => Who(p) # a

\* The steps elsewhere; an eviction may start LeaveAllForClient, which has no
\* mark until it begins.
LEMMA LeaverKept ==
    ASSUME LeaverInv, UNCHANGED leaving, NEW p \in Procs, OnlyMoves(p), ~Leaver(p), ~Leaver(p)',
           \A a \in Assistants : <<a, "LeaveAll">> \in spawned' => <<a, "LeaveAll">> \in spawned
    PROVE  LeaverInv'
BY DEF LeaverInv, Leaver, OnlyMoves, Who

LEMMA MarkUntouched ==
    ASSUME TypeInv, NEW p \in Procs, Work(p), ~LeaveStep(p)
    PROVE  /\ ~Leaver(p) /\ UNCHANGED leaving
           /\ \A a \in Assistants : <<a, "LeaveAll">> \in spawned' => <<a, "LeaveAll">> \in spawned
<1> USE DEF At, Leaver, idleVars, botVars, unassigned
<1>1. CASE ConnectStep(p) /\ UNCHANGED idleVars
  BY <1>1 DEF ConnectStep, PlayExisting, PlayNew, SetSources, CheckPresentation, Register,
              CreateCall, SetMedia, Abort, Lookup, AskGroupCall, NoteGroupCall, RereadGroupCall,
              JoinGroupCall, Connect, ReadMode, Await, Unregister
<1>2. CASE (StopNative(p) \/ LeaveGroupCall(p) \/ UpdateStep(p)) /\ UNCHANGED idleVars
  BY <1>2 DEF StopNative, LeaveGroupCall, UpdateStep, StopDiscarded, ForgetPending, Unmute
<1>3. CASE JoinStep(p)
  BY <1>3 DEF JoinStep, CheckStatus, NoteStatus, Recover, ResolveCached, CreateLink, NoteLink,
              JoinChat, JoinExpired, NoteJoined, NoteExpired
<1>4. CASE JoinNext(p) \/ NoteMember(p) \/ BeginStop(p) \/ Stopped(p)
  BY <1>4 DEF JoinNext, NoteMember, BeginStop, ForgetCall, Stopped
<1>5. CASE Rotate(p)
  <2>1. pc[p] = "rotate" /\ leaving' = leaving
    BY <1>5 DEF Rotate
  <2>2. spawned' \subseteq spawned \cup {<<Who(p), "LeaveAllForClient">>}
    BY <1>5 DEF Rotate
  <2> QED BY <2>1, <2>2
<1>6. CASE ChooseStep(p) \/ AssignStep(p)
  BY <1>6 DEF ChooseStep, LookupAssistant, FindAssistant, FillCache, FindNone, AssignAssistant,
              NoteAssigned, AssignStep, SetAssistant, NoteSet, RemoveAssistant, DropEntry, ClearCache
<1> QED BY <1>1, <1>2, <1>3, <1>4, <1>5, <1>6 DEF Work

LEMMA LeaverStep == TypeInv /\ LeaverInv /\ [Next]_vars => LeaverInv'
<1> SUFFICES ASSUME TypeInv, LeaverInv, [Next]_vars PROVE LeaverInv'
  OBVIOUS
<1>1. ASSUME NEW p \in Procs, LeaveNext(p) PROVE LeaverInv'
  <2>1. pc[p] = "leaveNext" /\ OnlyMoves(p) /\ pc'[p] \in {"leaveNext", "idle"}
    BY <1>1, TryMoves, GotoMoves DEF LeaveNext, At, Return
  <2>2. CASE UNCHANGED <<leaving, spawned>>
    BY <2>1, <2>2, LeaverKept DEF Leaver
  <2>3. ASSUME NEW a \in Assistants, leaving' = leaving \cup {a},
               spawned' = IF a \in leaving THEN spawned ELSE spawned \cup {<<a, "LeaveAll">>}
        PROVE  LeaverInv'
    <3>1. \A q \in Procs : Leaver(q)' => Leaver(q) /\ Who(q)' = Who(q)
      BY <2>1 DEF Leaver, OnlyMoves, Who
    <3>2. \A b \in Assistants : <<b, "LeaveAll">> \in spawned' =>
            <<b, "LeaveAll">> \in spawned \/ (b = a /\ a \notin leaving)
      BY <2>3
    <3> QED BY <2>3, <3>1, <3>2 DEF LeaverInv
  <2> QED BY <1>1, <2>2, <2>3 DEF LeaveNext
<1>2. ASSUME NEW p \in Procs, LeaveChannel(p) PROVE LeaverInv'
  <2>1. Leaver(p) /\ OnlyMoves(p) /\ Leaver(p)' /\ Who(p)' = Who(p)
    BY <1>2, GotoMoves DEF LeaveChannel, At, Leaver, Jump, Who
  <2>2. UNCHANGED <<leaving, spawned>>
    BY <1>2 DEF LeaveChannel, botVars
  <2> QED BY <2>1, <2>2 DEF LeaverInv, Leaver, OnlyMoves, Who
<1>3. ASSUME NEW p \in Procs, LeftChats(p) PROVE LeaverInv'
  <2>1. /\ Leaver(p) /\ OnlyMoves(p) /\ ~Leaver(p)'
        /\ leaving' = leaving \ {Who(p)} /\ spawned' = spawned
    BY <1>3, GotoMoves DEF LeftChats, At, Leaver, Return
  <2> QED BY <2>1 DEF LeaverInv, Leaver, OnlyMoves, Who
<1>4. ASSUME NEW p \in Procs, NEW a \in Assistants, LeavePicked(p, a) PROVE LeaverInv'
  <2>1. /\ <<a, "LeaveAll">> \in spawned /\ leaving' = leaving
        /\ spawned' = spawned \ {<<a, "LeaveAll">>}
        /\ OnlyMoves(p) /\ pc[p] = "idle" /\ pc'[p] = "dialogs" /\ Who(p)' = a
    BY <1>4, GotoMoves DEF LeavePicked, At, Fresh, Who
  <2>2. \A q \in Procs \ {p} : (Leaver(q)' <=> Leaver(q)) /\ Who(q)' = Who(q)
    BY <2>1 DEF OnlyMoves, Leaver, Who
  <2>3. a \in leaving /\ \A q \in Procs : Leaver(q) => Who(q) # a
    BY <2>1 DEF LeaverInv
  <2>4. \A b \in Assistants : <<b, "LeaveAll">> \in spawned' => b # a /\ <<b, "LeaveAll">> \in spawned
    BY <2>1
  <2> QED BY <2>1, <2>2, <2>3, <2>4 DEF LeaverInv
<1>5. ASSUME NEW p \in Procs, NEW a \in Assistants, LeaveAllForClient(p, a) PROVE LeaverInv'
  <2>1. /\ leaving' = leaving \cup {a}
        /\ \A b \in Assistants : <<b, "LeaveAll">> \in spawned' => <<b, "LeaveAll">> \in spawned
        /\ pc[p] = "idle"
    BY <1>5 DEF LeaveAllForClient, At
  <2>2. CASE a \in leaving
    <3>1. UNCHANGED <<pc, local, leaving>>
      BY <1>5, <2>1, <2>2 DEF LeaveAllForClient
    <3> QED BY <2>1, <3>1 DEF LeaverInv, Leaver, Who
  <2>3. CASE a \notin leaving
    <3>1. OnlyMoves(p) /\ pc'[p] = "dialogs" /\ Who(p)' = a
      BY <1>5, <2>3, GotoMoves DEF LeaveAllForClient, Fresh, Who
    <3>2. \A q \in Procs \ {p} : (Leaver(q)' <=> Leaver(q)) /\ Who(q)' = Who(q)
      BY <3>1 DEF OnlyMoves, Leaver, Who
    <3>3. \A q \in Procs : Leaver(q) => Who(q) # a
      BY <2>3 DEF LeaverInv
    <3>4. \A b \in Assistants : <<b, "LeaveAll">> \in spawned => b # a
      BY <2>3 DEF LeaverInv
    <3> QED BY <2>1, <3>1, <3>2, <3>3, <3>4 DEF LeaverInv
  <2> QED BY <2>2, <2>3
<1>6. ASSUME NEW p \in Procs, Work(p), ~LeaveStep(p) PROVE LeaverInv'
  BY <1>6, WorkMoves, MarkUntouched, LeaverKept DEF Leaver, LeaveStep
<1>7. ASSUME NEW p \in Procs, Commands(p) PROVE LeaverInv'
  <2>1. UNCHANGED <<leaving, spawned>>
    BY <1>7 DEF Commands, PlayCommand, StopCommand, JoinAllCommand, LeaveAllCommand,
                ClearAllAssistants, botVars, unassigned
  <2> QED BY <1>7, <2>1, CommandMoves, LeaverKept DEF Leaver
<1>8. ASSUME NEW p \in Procs, NEW u,
             HandleOwn(p, u) \/ HandleParticipant(p, u) \/ HandleBotRemoved(p, u)
      PROVE  LeaverInv'
  <2>1. UNCHANGED <<leaving, spawned>>
    BY <1>8 DEF HandleOwn, HandleParticipant, HandleBotRemoved, botVars
  <2> QED BY <1>8, <2>1, HandleMoves, LeaverKept DEF Leaver
<1>9. ASSUME UNCHANGED <<pc, local, leaving, spawned>> PROVE LeaverInv'
  BY <1>9 DEF LeaverInv, Leaver, Who
<1>10. ASSUME NEW a \in Assistants, UNCHANGED idleVars,
              NativeConnects(a) \/ NativeCatchesUp(a) \/ OnConnectionChange(a)
       PROVE  UNCHANGED <<pc, local, leaving, spawned>>
  BY <1>10 DEF NativeConnects, NativeCatchesUp, OnConnectionChange, idleVars, botVars
<1>11. Outside \/ UNCHANGED vars => UNCHANGED <<pc, local, leaving, spawned>>
  BY DEF Outside, VideoChatStarts, VideoChatEnds, LinkRevoked, CachesExpire, AssignmentExpires,
         BotRemoved, MemberChanges, SelfChanges, botVars, unassigned, vars
<1>12. ASSUME NEW p \in Procs, LeaveStep(p) PROVE LeaverInv'
  BY <1>1, <1>2, <1>3, <1>12 DEF LeaveStep
<1>13. ASSUME NEW p \in Procs, Work(p) PROVE LeaverInv'
  BY <1>6, <1>12, <1>13
<1>14. ASSUME NEW p \in Procs, Dispatch(p) PROVE LeaverInv'
  BY <1>4, <1>5, <1>8, <1>14 DEF Dispatch
<1> QED BY <1>7, <1>9, <1>10, <1>11, <1>13, <1>14 DEF Next

\* No two goroutines, of LeaveAll, AutoLeave or evictions, ever make the same
\* assistant leave its chats, and whichever does holds the mark.
THEOREM LeaversApart == Spec => []OneLeaver
<1>1. Init => LeaverInv
  BY DEF Init, LeaverInv, Leaver
<1>2. Spec => []LeaverInv
  BY <1>1, TypeInvariant, LeaverStep, PTL DEF Spec
<1>3. LeaverInv => OneLeaver
  BY DEF LeaverInv, Leaver, OneLeaver
<1> QED BY <1>2, <1>3, PTL

-----------------------------------------------------------------------------
\* The assignment and its cache entry.

Noting(q) == pc[q] \in {"noteAssigned", "noteSet", "dropEntry", "clearCache"}

\* What a goroutine between the database and the cache is about to note.
InHand(q) == IF pc[q] = "fill" THEN local[q].doc
             ELSE IF pc[q] \in {"noteAssigned", "noteSet"} THEN Who(q) ELSE None

\* Unless something came between, whoever is about to write the entry writes
\* what the record holds.
AssignmentInv ==
    \/ outrun
    \/ /\ \A q \in Procs : InFlight(q) => InHand(q) = assigned
       /\ cachedAssistant \in {None, assigned} \/ \E q \in Procs : Noting(q)

LEMMA InHandKept ==
    ASSUME NEW p, OnlyMoves(p), NEW q \in Procs \ {p}
    PROVE  (InFlight(q)' <=> InFlight(q)) /\ InHand(q)' = InHand(q) /\ (Noting(q)' <=> Noting(q))
BY DEF OnlyMoves, InFlight, InHand, Noting, Who

\* A request that writes the record, and after which the goroutine holds it.
LEMMA WriteKept ==
    ASSUME TypeInv, AssignmentInv, NEW p \in Procs, OnlyMoves(p), NEW a, Write(p, a),
           Noting(p)', InHand(p)' = a
    PROVE  AssignmentInv'
<1>1. CASE outrun'
  BY <1>1 DEF AssignmentInv
<1>2. CASE ~outrun'
  <2>1. ~outrun /\ (a = assigned \/ ~OthersInFlight(p)) /\ assigned' = a
    BY <1>2 DEF Write, TypeInv, DataOK, BotTypeOK
  <2>2. ASSUME NEW q \in Procs, InFlight(q)'
        PROVE  InHand(q)' = assigned'
    <3>1. CASE q = p
      BY <2>1, <3>1
    <3>2. CASE q # p
      <4>1. InFlight(q) /\ InHand(q)' = InHand(q)
        BY <2>2, <3>2, InHandKept
      <4>2. a = assigned
        BY <2>1, <3>2, <4>1 DEF OthersInFlight
      <4> QED BY <2>1, <4>1, <4>2 DEF AssignmentInv
    <3> QED BY <3>1, <3>2
  <2> QED BY <2>2 DEF AssignmentInv
<1> QED BY <1>1, <1>2

LEMMA UnconfirmedKept ==
    ASSUME TypeInv, AssignmentInv, NEW p \in Procs, OnlyMoves(p), NEW a, Unconfirmed(a),
           ~InFlight(p), ~InFlight(p)'
    PROVE  AssignmentInv'
<1>1. CASE outrun'
  BY <1>1 DEF AssignmentInv
<1>2. CASE ~outrun'
  <2>1. ~outrun /\ UNCHANGED <<assigned, cachedAssistant>>
    BY <1>2 DEF Unconfirmed, TypeInv, DataOK, BotTypeOK
  <2>2. \A q \in Procs : (InFlight(q)' => InFlight(q) /\ InHand(q)' = InHand(q))
                        /\ (Noting(q) => Noting(q)')
    BY InHandKept DEF InFlight, Noting
  <2> QED BY <2>1, <2>2 DEF AssignmentInv
<1> QED BY <1>1, <1>2

\* The entry is written, by a goroutine that then holds nothing.
LEMMA NoteKept ==
    ASSUME TypeInv, AssignmentInv, NEW p \in Procs, OnlyMoves(p), InFlight(p), ~InFlight(p)',
           Note(p, InHand(p))
    PROVE  AssignmentInv'
<1>1. CASE outrun'
  BY <1>1 DEF AssignmentInv
<1>2. CASE ~outrun'
  <2>0. cachedAssistant' = InHand(p) /\ assigned' = assigned
    BY DEF Note
  <2>1. ASSUME NEW q \in Procs, InFlight(q)'
        PROVE  q # p /\ InFlight(q) /\ InHand(q)' = InHand(q)
    BY <2>1, InHandKept
  <2>2. CASE ~outrun
    BY <2>0, <2>1, <2>2 DEF AssignmentInv
  <2>3. CASE outrun
    <3>1. InHand(p) \in {None, assigned} /\ ~OthersInFlight(p)
      BY <1>2, <2>3 DEF Note, TypeInv, DataOK, BotTypeOK
    <3> QED BY <2>0, <2>1, <3>1 DEF AssignmentInv, OthersInFlight
  <2> QED BY <2>2, <2>3
<1> QED BY <1>1, <1>2

\* A look-up holds what the record holds; other steps hold nothing.
LEMMA RestKept ==
    ASSUME TypeInv, AssignmentInv, NEW p \in Procs, OnlyMoves(p), UNCHANGED assignment,
           ~InFlight(p), InFlight(p)' => InHand(p)' = assigned
    PROVE  AssignmentInv'
<1>1. \A q \in Procs \ {p} : /\ InFlight(q)' <=> InFlight(q)
                             /\ InHand(q)' = InHand(q)
                             /\ Noting(q)' <=> Noting(q)
  BY InHandKept
<1>2. ~Noting(p)
  BY DEF Noting, InFlight
<1> QED BY <1>1, <1>2 DEF AssignmentInv, assignment

LEMMA AssignmentChosen ==
    ASSUME TypeInv, AssignmentInv, NEW p \in Procs, ChooseStep(p) \/ AssignStep(p)
    PROVE  AssignmentInv'
<1>1. OnlyMoves(p) /\ local[p] \in Locals /\ local[p].use \in Uses
  BY WorkMoves DEF Work, TypeInv, ControlInv, GoroutineOK
<1> USE GotoMoves, <1>1 DEF At, Jump, Return
<1>2. CASE LookupAssistant(p) \/ FindNone(p)
  <2>1. pc[p] \in {"choose", "find"} /\ pc'[p] \in Uses \cup {"find", "assign"}
    BY <1>2 DEF LookupAssistant, FindNone, Settle
  <2>2. UNCHANGED assignment
    BY <1>2 DEF LookupAssistant, FindNone, idleVars, botVars
  <2> QED BY <2>1, <2>2, RestKept DEF InFlight, Uses
<1>3. CASE FindAssistant(p)
  <2>1. /\ pc[p] = "find" /\ pc'[p] = "fill" /\ UNCHANGED assignment
        /\ local'[p] = [local[p] EXCEPT !.doc = assigned]
    BY <1>3 DEF FindAssistant, idleVars, botVars
  <2>2. local'[p].doc = assigned
    BY <2>1 DEF Locals
  <2> QED BY <2>1, <2>2, RestKept DEF InFlight, InHand
<1>4. CASE FillCache(p)
  <2>1. pc[p] = "fill" /\ pc'[p] \in Uses /\ Note(p, local[p].doc)
    BY <1>4 DEF FillCache, Settle
  <2> QED BY <2>1, NoteKept DEF InFlight, InHand, Uses
<1>5. CASE AssignAssistant(p)
  <2>1. pc[p] = "assign" /\ ~InFlight(p)
    BY <1>5 DEF AssignAssistant, InFlight
  <2>2. CASE Write(p, Who(p)) /\ Jump(p, "noteAssigned")
    <3>1. pc'[p] = "noteAssigned" /\ local'[p] = local[p]
      BY <2>2
    <3> QED BY <2>2, <3>1, WriteKept DEF Noting, InHand, Who
  <2>3. CASE UNCHANGED assignment /\ Jump(p, "choose")
    BY <2>1, <2>3, RestKept DEF InFlight
  <2>4. ASSUME NEW a, Unconfirmed(a), Jump(p, local[p].use)
        PROVE  AssignmentInv'
    <3>1. ~InFlight(p)'
      BY <2>4 DEF InFlight, Uses
    <3> QED BY <2>1, <2>4, <3>1, UnconfirmedKept
  <2> QED BY <1>5, <2>2, <2>3, <2>4 DEF AssignAssistant
<1>6. CASE NoteAssigned(p) \/ NoteSet(p)
  <2>1. pc[p] \in {"noteAssigned", "noteSet"} /\ pc'[p] \in Uses /\ Note(p, Who(p))
    BY <1>6 DEF NoteAssigned, NoteSet, Uses
  <2> QED BY <2>1, NoteKept DEF InFlight, InHand, Uses
<1>7. CASE SetAssistant(p)
  <2>1. pc[p] = "played" /\ ~InFlight(p)
    BY <1>7 DEF SetAssistant, InFlight
  <2>2. CASE Write(p, Who(p)) /\ Jump(p, "noteSet")
    <3>1. pc'[p] = "noteSet" /\ local'[p] = local[p]
      BY <2>2
    <3> QED BY <2>2, <3>1, WriteKept DEF Noting, InHand, Who
  <2>3. CASE Unconfirmed(Who(p)) /\ Return(p)
    <3>1. ~InFlight(p)'
      BY <2>3 DEF InFlight
    <3> QED BY <2>1, <2>3, <3>1, UnconfirmedKept
  <2> QED BY <1>7, <2>2, <2>3 DEF SetAssistant
<1>8. CASE RemoveAssistant(p)
  <2>1. pc[p] = "evict" /\ ~InFlight(p)
    BY <1>8 DEF RemoveAssistant, InFlight
  <2>2. CASE Write(p, None) /\ Jump(p, "dropEntry")
    <3>1. pc'[p] = "dropEntry"
      BY <2>2
    <3> QED BY <2>2, <3>1, WriteKept DEF Noting, InHand
  <2>3. CASE Unconfirmed(None) /\ Jump(p, "rotate")
    <3>1. ~InFlight(p)'
      BY <2>3 DEF InFlight
    <3> QED BY <2>1, <2>3, <3>1, UnconfirmedKept
  <2> QED BY <1>8, <2>2, <2>3 DEF RemoveAssistant
<1>9. CASE DropEntry(p) \/ ClearCache(p)
  <2>1. pc[p] \in {"dropEntry", "clearCache"} /\ pc'[p] \in {"rotate", "idle"} /\ Note(p, None)
    BY <1>9 DEF DropEntry, ClearCache
  <2> QED BY <2>1, NoteKept DEF InFlight, InHand
<1> QED BY <1>2, <1>3, <1>4, <1>5, <1>6, <1>7, <1>8, <1>9 DEF ChooseStep, AssignStep

\* The other steps of a goroutine are elsewhere.
LEMMA AssignmentUntouched ==
    ASSUME TypeInv, NEW p \in Procs, Work(p), ~ChooseStep(p), ~AssignStep(p)
    PROVE  ~InFlight(p) /\ ~InFlight(p)' /\ UNCHANGED assignment
<1> local[p].use \in Uses /\ local[p].then \in Thens
  BY DEF TypeInv, ControlInv, GoroutineOK
<1> USE GotoMoves, PlayFailedMoves DEF At, InFlight, idleVars, botVars, Jump, Error, Return
<1>1. CASE ConnectStep(p) /\ UNCHANGED idleVars
  <2>1. CASE PlayExisting(p) \/ PlayNew(p) \/ SetSources(p) \/ CheckPresentation(p)
    BY <1>1, <2>1 DEF PlayExisting, PlayNew, SetSources, CheckPresentation
  <2>2. CASE Register(p)
    BY <1>1, <2>2 DEF Register
  <2>3. CASE Unregister(p)
    BY <1>1, <2>3 DEF Unregister, Connected, Thens
  <2>4. CASE ~(PlayExisting(p) \/ PlayNew(p) \/ SetSources(p) \/ CheckPresentation(p)
               \/ Register(p) \/ Unregister(p))
    <3>1. pc'[p] \in Connecting
      BY <1>1, <2>4, InsideConnect DEF ConnectStep
    <3>2. pc[p] \in Connecting
      BY <1>1, <2>4 DEF ConnectStep, CreateCall, SetMedia, Abort, Lookup, AskGroupCall,
                        NoteGroupCall, RereadGroupCall, JoinGroupCall, Connect, ReadMode, Await,
                        Connecting
    <3> QED BY <1>1, <3>1, <3>2 DEF Connecting
  <2> QED BY <2>1, <2>2, <2>3, <2>4
<1>2. CASE (StopNative(p) \/ LeaveGroupCall(p) \/ UpdateStep(p)) /\ UNCHANGED idleVars
  BY <1>2 DEF StopNative, LeaveGroupCall, UpdateStep, StopDiscarded, ForgetPending, Unmute
<1>3. CASE JoinStep(p)
  <2> USE JoinFailedMoves, TreatMoves DEF Thens
  <2>1. CASE CheckStatus(p) \/ NoteStatus(p)
    BY <2>1 DEF CheckStatus, NoteStatus
  <2>2. CASE Recover(p) \/ JoinChat(p)
    BY <2>2 DEF Recover, JoinChat
  <2>3. CASE ResolveCached(p) \/ CreateLink(p) \/ NoteLink(p) \/ JoinExpired(p)
    BY <2>3 DEF ResolveCached, CreateLink, NoteLink, JoinExpired
  <2>4. CASE NoteJoined(p) \/ NoteExpired(p)
    BY <2>4 DEF NoteJoined, NoteExpired
  <2> QED BY <1>3, <2>1, <2>2, <2>3, <2>4 DEF JoinStep
<1>4. CASE LeaveStep(p) \/ Rotate(p) \/ JoinNext(p)
  <2> USE TryMoves
  <2>1. CASE LeaveNext(p)
    BY <2>1 DEF LeaveNext
  <2>2. CASE LeaveChannel(p) \/ LeftChats(p)
    BY <2>2 DEF LeaveChannel, LeftChats
  <2>3. CASE Rotate(p) \/ JoinNext(p)
    BY <2>3 DEF Rotate, JoinNext
  <2> QED BY <1>4, <2>1, <2>2, <2>3 DEF LeaveStep
<1>5. CASE NoteMember(p) \/ BeginStop(p) \/ Stopped(p)
  BY <1>5 DEF NoteMember, BeginStop, ForgetCall, Stopped
<1> QED BY <1>1, <1>2, <1>3, <1>4, <1>5 DEF Work

LEMMA AssignmentStep == TypeInv /\ AssignmentInv /\ [Next]_vars => AssignmentInv'
<1> SUFFICES ASSUME TypeInv, AssignmentInv, [Next]_vars PROVE AssignmentInv'
  OBVIOUS
<1>1. ASSUME NEW p \in Procs, Work(p) PROVE AssignmentInv'
  <2>1. CASE ChooseStep(p) \/ AssignStep(p)
    BY <2>1, AssignmentChosen
  <2>2. CASE ~ChooseStep(p) /\ ~AssignStep(p)
    BY <1>1, <2>2, WorkMoves, AssignmentUntouched, RestKept
  <2> QED BY <2>1, <2>2
<1>2. ASSUME NEW p \in Procs, Commands(p) PROVE AssignmentInv'
  <2>1. /\ OnlyMoves(p) /\ ~InFlight(p)
        /\ pc'[p] \in {"choose", "joinNext", "leaveNext", "clearCache", "idle"}
    BY <1>2, CommandMoves DEF InFlight
  <2>2. CASE ClearAllAssistants(p)
    <3>1. CASE Write(p, None) /\ Jump(p, "clearCache")
      <4>1. pc'[p] = "clearCache"
        BY <3>1, GotoMoves DEF Jump
      <4> QED BY <2>1, <3>1, <4>1, WriteKept DEF Noting, InHand
    <3>2. CASE Unconfirmed(None) /\ UNCHANGED <<pc, local>>
      BY <2>1, <3>2, UnconfirmedKept DEF InFlight
    <3> QED BY <2>2, <3>1, <3>2 DEF ClearAllAssistants
  <2>3. CASE ~ClearAllAssistants(p)
    <3>1. pc'[p] # "clearCache" /\ UNCHANGED assignment
      BY <1>2, <2>3, GotoMoves DEF Commands, PlayCommand, StopCommand, JoinAllCommand,
                                   LeaveAllCommand, Jump, botVars
    <3> QED BY <2>1, <3>1, RestKept DEF InFlight
  <2> QED BY <2>2, <2>3
<1>3. ASSUME NEW p \in Procs, NEW u,
             HandleOwn(p, u) \/ HandleParticipant(p, u) \/ HandleBotRemoved(p, u)
      PROVE  AssignmentInv'
  <2>1. UNCHANGED assignment
    BY <1>3 DEF HandleOwn, HandleParticipant, HandleBotRemoved, botVars
  <2> QED BY <1>3, <2>1, HandleMoves, RestKept DEF InFlight
<1>4. ASSUME NEW p \in Procs, NEW a \in Assistants, LeavePicked(p, a) \/ LeaveAllForClient(p, a)
      PROVE  AssignmentInv'
  <2>1. /\ OnlyMoves(p) /\ UNCHANGED assignment
        /\ pc[p] = "idle" /\ pc'[p] \in {"idle", "dialogs"}
    BY <1>4, GotoMoves DEF LeavePicked, LeaveAllForClient, At, OnlyMoves
  <2> QED BY <2>1, RestKept DEF InFlight
<1>5. ASSUME UNCHANGED <<pc, local, assignment>> PROVE AssignmentInv'
  BY <1>5 DEF AssignmentInv, InFlight, InHand, Noting, Who, assignment
<1>6. ASSUME NEW a \in Assistants, UNCHANGED idleVars,
             NativeConnects(a) \/ NativeCatchesUp(a) \/ OnConnectionChange(a)
      PROVE  UNCHANGED <<pc, local, assignment>>
  BY <1>6 DEF NativeConnects, NativeCatchesUp, OnConnectionChange, idleVars, botVars
<1>7. CASE AssignmentExpires
  <2>1. UNCHANGED <<pc, local, assigned>> /\ cachedAssistant' = None
    BY <1>7 DEF AssignmentExpires
  <2>2. outrun' = (outrun /\ \E q \in Procs : InFlight(q))
    BY <1>7 DEF AssignmentExpires
  <2>3. \A q \in Procs : (InFlight(q)' <=> InFlight(q)) /\ InHand(q)' = InHand(q)
    BY <2>1 DEF InFlight, InHand, Who
  <2>4. CASE outrun'
    BY <2>4 DEF AssignmentInv
  <2>5. CASE ~outrun'
    <3>1. ~outrun \/ \A q \in Procs : ~InFlight(q)
      BY <2>2, <2>5 DEF TypeInv, DataOK, BotTypeOK
    <3>2. \A q \in Procs : InFlight(q) => InHand(q) = assigned
      BY <3>1 DEF AssignmentInv
    <3> QED BY <2>1, <2>3, <3>2 DEF AssignmentInv
  <2> QED BY <2>4, <2>5
<1>8. (Outside /\ ~AssignmentExpires) \/ UNCHANGED vars => UNCHANGED <<pc, local, assignment>>
  BY DEF Outside, VideoChatStarts, VideoChatEnds, LinkRevoked, CachesExpire, BotRemoved,
         MemberChanges, SelfChanges, botVars, vars
<1>9. ASSUME NEW p \in Procs, Dispatch(p) PROVE AssignmentInv'
  BY <1>3, <1>4, <1>9 DEF Dispatch
<1> QED BY <1>1, <1>2, <1>5, <1>6, <1>7, <1>8, <1>9 DEF Next

\* What assistantCache holds is what the database assigns or is about to be
\* corrected by the goroutine that wrote the record, unless another write was
\* faster than somebody's cache or went unconfirmed.
THEOREM AssignmentIsCached == Spec => []AssignmentCached
<1>1. Init => AssignmentInv
  <2> SUFFICES ASSUME Init PROVE AssignmentInv
    OBVIOUS
  <2>1. cachedAssistant = assigned /\ \A q \in Procs : pc[q] = "idle"
    BY DEF Init
  <2> QED BY <2>1 DEF AssignmentInv, InFlight
<1>2. Spec => []AssignmentInv
  BY <1>1, TypeInvariant, AssignmentStep, PTL DEF Spec
<1>3. AssignmentInv => AssignmentCached
  BY DEF AssignmentInv, Noting, AssignmentCached
<1> QED BY <1>2, <1>3, PTL
=============================================================================
