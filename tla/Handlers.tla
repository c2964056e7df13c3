------------------------------- MODULE Handlers -------------------------------
(***************************************************************************)
(* What the handlers of the bot have in common.  Every command, callback   *)
(* or update is handled by a goroutine of its own; p works through the     *)
(* handler a label at a time, one read or write of shared state, request   *)
(* or database operation to a step, and others run in between.             *)
(***************************************************************************)
EXTENDS Integers, FiniteSets, BagsExt, Bags

CONSTANTS
    None,
    Procs,    \* the goroutines that can be at work at once
    Users,    \* the users who send commands
    Faults    \* what can fail: "database", "telegram", "network", "ffmpeg"

ASSUME HandlersAssumption ==
    /\ IsFiniteSet(Procs)
    /\ None \notin Procs \cup Nat

VARIABLES
    pc,       \* the label each goroutine is at
    local     \* its local variables

goVars == <<pc, local>>

\* cmd: the command; user: who sent it; then, use: the label to go on at after
\* a document or the admin list is read or written; doc, id: the document or
\* playlist in hand; setting: the setting to change; got, value: what was read
\* and what is to be written; list: the admin list read; force: it is to be
\* fetched; todo, targets: the documents still to read and the ones to send to;
\* left: tries left; failed: one failed.
Fresh == [cmd |-> "none", user |-> None, then |-> "idle", use |-> "idle", doc |-> None,
          id |-> 0, setting |-> "none", got |-> None, value |-> None, list |-> None,
          force |-> FALSE, todo |-> {}, targets |-> {}, left |-> 0, failed |-> FALSE]

At(p, label) == pc[p] = label

\* An idle goroutine has no local variables.
Goto(p, label, l) ==
    /\ pc' = [pc EXCEPT ![p] = label]
    /\ local' = [local EXCEPT ![p] = IF label = "idle" THEN Fresh ELSE l]

Jump(p, label) == Goto(p, label, local[p])

Return(p) == Jump(p, "idle")

Fail(p, label) == Goto(p, label, [local[p] EXCEPT !.failed = TRUE])

HandlersInit ==
    /\ pc = [p \in Procs |-> "idle"]
    /\ local = [p \in Procs |-> Fresh]

=============================================================================
