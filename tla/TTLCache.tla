------------------------------- MODULE TTLCache -------------------------------
(***************************************************************************)
(* core/cache/cache.go: the TTL caches and the one janitor goroutine they  *)
(* share.  Get locks twice, evictExpired reads the clock, scans and        *)
(* deletes in three steps, and a janitor that has been told to stop may    *)
(* still be in the middle of a sweep when its successor starts.            *)
(*                                                                         *)
(* NewCache registers a cache once, so the janitor's list is a set here,   *)
(* swept in any order, and a janitor goroutine and its stop channel go by  *)
(* the name of the cache whose registration started them.  Callers share   *)
(* a Cache freely and may Close it at any time, which ends the sweeping     *)
(* and nothing else.                                                       *)
(***************************************************************************)
EXTENDS Naturals

CONSTANTS
    Caches,     \* the Cache instances
    Keys,       \* their keys
    Values,     \* what is stored
    TTLs,       \* the times to live callers give
    Procs,      \* goroutines that call Get
    MaxTime,    \* bound: the clock stops there
    None        \* no entry

ASSUME TTLCacheAssumption ==
    /\ TTLs \subseteq Nat
    /\ None \notin [value : Values, expiration : Nat] /\ None \notin Caches
    /\ MaxTime \in Nat

VARIABLES
    now,        \* time.Now()
    data,       \* data[c][k]: Cache.data, None where there is no entry
    call,       \* call[p]: p's Get in progress
    held,       \* history: what the key of p's Get has held since it began
    created,    \* the caches NewCache has made
    caches,     \* janitor.caches
    running,    \* janitor.running
    stop,       \* janitor.stop
    closed,     \* the stop channels that are closed
    ticked,     \* the tickers with a tick in their channel
    gor         \* gor[g]: the janitor goroutine started for g

mapVars == <<now, data>>
janitorVars == <<created, caches, running, stop, closed, ticked, gor>>
vars == <<mapVars, call, held, janitorVars>>

Item == [value : Values, expiration : Nat]

Expired(item, time) == item # None /\ time > item.expiration

Entry(c, k) == data[c][k]
LiveEntry(c, k) == IF Expired(Entry(c, k), now) THEN None ELSE Entry(c, k)

NoCall == [pc |-> "idle"]
Unstarted == [pc |-> "unstarted"]

Init ==
    /\ now = 0
    /\ data = [c \in Caches |-> [k \in Keys |-> None]]
    /\ call = [p \in Procs |-> NoCall]
    /\ held = [p \in Procs |-> {}]
    /\ created = {} /\ caches = {} /\ running = FALSE /\ stop = None
    /\ closed = {} /\ ticked = {}
    /\ gor = [g \in Caches |-> Unstarted]

-----------------------------------------------------------------------------
\* The map operations; each holds the cache's lock throughout.

SetWithTTL(c, k, v, ttl) ==
    /\ c \in created
    /\ data' = [data EXCEPT ![c][k] = [value |-> v, expiration |-> now + ttl]]
    /\ UNCHANGED <<now, call, janitorVars>>

Delete(c, k) ==
    /\ c \in created
    /\ data' = [data EXCEPT ![c][k] = None]
    /\ UNCHANGED <<now, call, janitorVars>>

Clear(c) ==
    /\ c \in created
    /\ data' = [data EXCEPT ![c] = [k \in Keys |-> None]]
    /\ UNCHANGED <<now, call, janitorVars>>

\* Mutant of Lookup: an absent entry is taken for a zero one.
BugLookup(p, c, k) ==
    /\ call[p] = NoCall /\ c \in created
    /\ call' = [call EXCEPT ![p] = [pc |-> "check", cache |-> c, key |-> k, item |-> Entry(c, k)]]
    /\ UNCHANGED <<mapVars, janitorVars>>

\* Get reads the entry under the read lock; where there is none it misses ...
Lookup(p, c, k) ==
    /\ call[p] = NoCall /\ c \in created /\ Entry(c, k) # None
    /\ call' = [call EXCEPT ![p] = [pc |-> "check", cache |-> c, key |-> k, item |-> Entry(c, k)]]
    /\ UNCHANGED <<mapVars, janitorVars>>

\* Mutant of Check: the entry's age does not matter.
BugCheck(p) ==
    /\ call[p].pc = "check"
    /\ call' = [call EXCEPT ![p] = NoCall]
    /\ UNCHANGED <<mapVars, janitorVars>>

\* ... looks at the clock without a lock and returns the value read, a hit ...
Check(p) ==
    /\ call[p].pc = "check"
    /\ call' = [call EXCEPT ![p] = IF Expired(call[p].item, now)
                                   THEN [call[p] EXCEPT !.pc = "recheck"] ELSE NoCall]
    /\ UNCHANGED <<mapVars, janitorVars>>

\* ... or deletes what it found expired, unless it has been replaced: a miss.
Recheck(p) ==
    LET c == call[p].cache
        k == call[p].key
    IN
    /\ call[p].pc = "recheck"
    /\ data' = [data EXCEPT ![c][k] = LiveEntry(c, k)]
    /\ call' = [call EXCEPT ![p] = NoCall]
    /\ UNCHANGED <<now, janitorVars>>

Pass ==
    /\ now < MaxTime
    /\ now' = now + 1
    /\ UNCHANGED <<data, call, janitorVars>>

-----------------------------------------------------------------------------
\* register and unregister; each holds the janitor's lock throughout.

Idling == [pc |-> "select"]

Register(c) ==
    /\ c \notin created
    /\ created' = created \cup {c}
    /\ caches' = caches \cup {c}
    /\ IF running THEN UNCHANGED <<running, stop, gor>>
       ELSE /\ running' = TRUE
            /\ stop' = c
            /\ gor' = [gor EXCEPT ![c] = Idling]
    /\ UNCHANGED <<mapVars, call, closed, ticked>>

\* Mutant of Unregister: running is not reset.
BugUnregister(c) ==
    /\ c \in created
    /\ caches' = caches \ {c}
    /\ closed' = IF caches' = {} /\ running THEN closed \cup {stop} ELSE closed
    /\ UNCHANGED <<mapVars, call, created, stop, ticked, gor, running>>

\* Close may be called more than once.
Unregister(c) ==
    /\ c \in created
    /\ caches' = caches \ {c}
    /\ IF caches' = {} /\ running
         THEN closed' = closed \cup {stop} /\ running' = FALSE
         ELSE UNCHANGED <<closed, running>>
    /\ UNCHANGED <<mapVars, call, created, stop, ticked, gor>>

-----------------------------------------------------------------------------
\* runWith, and the evictExpired of each cache it sweeps.

Started(g) == gor[g].pc \notin {"unstarted", "exited"}

Timer(g) ==
    /\ Started(g) /\ g \notin ticked
    /\ ticked' = ticked \cup {g}
    /\ UNCHANGED <<mapVars, call, created, caches, running, stop, closed, gor>>

Sweep(todo) == IF todo = {} THEN Idling ELSE [pc |-> "stamp", todo |-> todo]

\* A tick: the list is copied under the janitor's lock.
TakeTick(g) ==
    /\ gor[g].pc = "select" /\ g \in ticked
    /\ ticked' = ticked \ {g}
    /\ gor' = [gor EXCEPT ![g] = Sweep(caches)]
    /\ UNCHANGED <<mapVars, call, created, caches, running, stop, closed>>

\* Mutant of Exit: the goroutine looks at janitor.stop, not at its own channel.
BugExit(g) ==
    /\ gor[g].pc = "select" /\ g \in closed /\ g = stop
    /\ gor' = [gor EXCEPT ![g] = [pc |-> "exited"]]
    /\ ticked' = ticked \ {g}
    /\ UNCHANGED <<mapVars, call, created, caches, running, stop, closed>>

\* The closed channel is ready; select may prefer a tick that is ready too.
Exit(g) ==
    /\ gor[g].pc = "select" /\ g \in closed
    /\ gor' = [gor EXCEPT ![g] = [pc |-> "exited"]]
    /\ ticked' = ticked \ {g}
    /\ UNCHANGED <<mapVars, call, created, caches, running, stop, closed>>

Stamp(g) ==
    /\ gor[g].pc = "stamp"
    /\ \E c \in gor[g].todo :
         gor' = [gor EXCEPT ![g] = [pc |-> "scan", cache |-> c, todo |-> gor[g].todo \ {c},
                                    stamp |-> now]]
    /\ UNCHANGED <<mapVars, call, created, caches, running, stop, closed, ticked>>

\* Mutant of Scan: a cache with nothing to evict ends the sweep.
BugScan(g) ==
    LET keys == {k \in Keys : Expired(Entry(gor[g].cache, k), gor[g].stamp)} IN
    /\ gor[g].pc = "scan"
    /\ gor' = [gor EXCEPT ![g] =
                 IF keys = {} THEN Idling
                 ELSE [pc |-> "delete", cache |-> gor[g].cache, todo |-> gor[g].todo,
                       stamp |-> gor[g].stamp, keys |-> keys]]
    /\ UNCHANGED <<mapVars, call, created, caches, running, stop, closed, ticked>>

Scan(g) ==
    LET keys == {k \in Keys : Expired(Entry(gor[g].cache, k), gor[g].stamp)} IN
    /\ gor[g].pc = "scan"
    /\ gor' = [gor EXCEPT ![g] =
                 IF keys = {} THEN Sweep(gor[g].todo)
                 ELSE [pc |-> "delete", cache |-> gor[g].cache, todo |-> gor[g].todo,
                       stamp |-> gor[g].stamp, keys |-> keys]]
    /\ UNCHANGED <<mapVars, call, created, caches, running, stop, closed, ticked>>

\* Mutant of Evict: the keys found are deleted without a second look.
BugEvict(g) ==
    LET c == gor[g].cache IN
    /\ gor[g].pc = "delete"
    /\ data' = [data EXCEPT ![c] = [k \in Keys |->
                  IF k \in gor[g].keys THEN None ELSE Entry(c, k)]]
    /\ gor' = [gor EXCEPT ![g] = Sweep(gor[g].todo)]
    /\ UNCHANGED <<now, call, created, caches, running, stop, closed, ticked>>

Evict(g) ==
    LET c == gor[g].cache IN
    /\ gor[g].pc = "delete"
    /\ data' = [data EXCEPT ![c] = [k \in Keys |->
                  IF k \in gor[g].keys /\ Expired(Entry(c, k), gor[g].stamp)
                  THEN None ELSE Entry(c, k)]]
    /\ gor' = [gor EXCEPT ![g] = Sweep(gor[g].todo)]
    /\ UNCHANGED <<now, call, created, caches, running, stop, closed, ticked>>

-----------------------------------------------------------------------------
Get(p) ==
    \/ \E c \in Caches, k \in Keys : Lookup(p, c, k)
    \/ Check(p) \/ Recheck(p)

RunWith(g) == TakeTick(g) \/ Exit(g) \/ Stamp(g) \/ Scan(g) \/ Evict(g)

Act ==
    \/ \E c \in Caches, k \in Keys, v \in Values, ttl \in TTLs : SetWithTTL(c, k, v, ttl)
    \/ \E c \in Caches, k \in Keys : Delete(c, k)
    \/ \E c \in Caches : Clear(c) \/ Register(c) \/ Unregister(c)
    \/ \E p \in Procs : Get(p)
    \/ \E g \in Caches : Timer(g) \/ RunWith(g)
    \/ Pass

\* The history of every Get in progress grows with each step.
Watch ==
    held' = [p \in Procs |->
        IF call'[p] = NoCall THEN {}
        ELSE held[p] \cup {LiveEntry(call[p].cache, call[p].key)'}]

Next == Act /\ Watch

Spec == Init /\ [][Next]_vars

(***************************************************************************)
(* A janitor goroutine runs whenever it can, its ticker keeps ticking, and *)
(* select picks at random between a tick and a closed channel, so that it  *)
(* does not prefer the tick for ever.  Callers owe nothing.                *)
(***************************************************************************)
Fairness ==
    \A g \in Caches :
        WF_vars((Timer(g) \/ RunWith(g)) /\ Watch)
        /\ SF_vars(TakeTick(g) /\ Watch) /\ SF_vars(Exit(g) /\ Watch)

FairSpec == Spec /\ Fairness

-----------------------------------------------------------------------------
Calls ==
    {NoCall} \cup [pc : {"check", "recheck"}, cache : Caches, key : Keys, item : Item]

Goroutines ==
    [pc : {"unstarted", "select", "exited"}]
    \cup [pc : {"stamp"}, todo : SUBSET Caches]
    \cup [pc : {"scan"}, cache : Caches, todo : SUBSET Caches, stamp : Nat]
    \cup [pc : {"delete"}, cache : Caches, todo : SUBSET Caches, stamp : Nat, keys : SUBSET Keys]

TypeOK ==
    /\ now \in Nat
    /\ data \in [Caches -> [Keys -> Item \cup {None}]]
    /\ call \in [Procs -> Calls]
    /\ held \in [Procs -> SUBSET (Item \cup {None})]
    /\ created \subseteq Caches /\ caches \subseteq created
    /\ running \in BOOLEAN /\ stop \in Caches \cup {None}
    /\ closed \subseteq Caches /\ ticked \subseteq Caches
    /\ gor \in [Caches -> Goroutines]

\* Evicting is invisible: no step of a Get or of a janitor, with however old a
\* look at the map and the clock, changes what is there unexpired.
EvictionInvisible ==
    [][call' # call \/ gor' # gor
       => \A c \in Caches, k \in Keys : LiveEntry(c, k)' = LiveEntry(c, k)]_vars

\* A Get that returns a value returns one its key held, unexpired, at some
\* moment of the call (cache.go:39).
HitWasHeld ==
    [][\A p \in Procs : call[p].pc = "check" /\ call'[p] = NoCall => call[p].item \in held[p]]_vars

\* The janitor runs while there is a cache to sweep, and of all the goroutines
\* ever started exactly that one has not been told to stop.
OneJanitor ==
    /\ running <=> caches # {}
    /\ {g \in Caches : Started(g)} \ closed = IF running THEN {stop} ELSE {}

\* A goroutine that has been told to stop exits.
StoppedExits == \A g \in Caches : g \in closed ~> gor[g].pc = "exited"

\* An expired entry of a registered cache is evicted or replaced.
ExpiredEvicted ==
    \A c \in Caches, k \in Keys :
        c \in caches /\ Expired(Entry(c, k), now)
        ~> c \notin caches \/ ~Expired(Entry(c, k), now)
=============================================================================
