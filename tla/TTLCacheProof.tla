---------------------------- MODULE TTLCacheProof ----------------------------
(***************************************************************************)
(* Theorems about TTLCache for every number of caches, keys and callers.   *)
(***************************************************************************)
EXTENDS TTLCache, TLAPS

\* Type correctness without the history variable; a running janitor has a
\* stop channel.
TypeInv ==
    /\ now \in Nat
    /\ data \in [Caches -> [Keys -> Item \cup {None}]]
    /\ call \in [Procs -> Calls]
    /\ created \subseteq Caches /\ caches \subseteq created
    /\ running \in BOOLEAN /\ stop \in Caches \cup {None}
    /\ running => stop \in Caches
    /\ closed \subseteq Caches /\ ticked \subseteq Caches
    /\ gor \in [Caches -> Goroutines]

LEMMA SweepType ==
    ASSUME NEW todo \in SUBSET Caches
    PROVE  Sweep(todo) \in Goroutines
BY DEF Sweep, Idling, Goroutines

LEMMA EntryType ==
    ASSUME TypeInv, NEW c \in Caches, NEW k \in Keys
    PROVE  /\ Entry(c, k) \in Item \cup {None} /\ LiveEntry(c, k) \in Item \cup {None}
BY DEF TypeInv, Entry, LiveEntry

\* One step per action.
LEMMA TypeStep == TypeInv /\ [Act]_<<mapVars, call, janitorVars>> => TypeInv'
<1> SUFFICES ASSUME TypeInv, [Act]_<<mapVars, call, janitorVars>> PROVE TypeInv'
  OBVIOUS
<1> USE TTLCacheAssumption DEF TypeInv, mapVars, janitorVars
<1>1. ASSUME NEW c \in Caches, NEW k \in Keys, NEW v \in Values, NEW ttl \in TTLs,
             SetWithTTL(c, k, v, ttl)
      PROVE  TypeInv'
  <2>1. [value |-> v, expiration |-> now + ttl] \in Item
    BY DEF Item
  <2> QED BY <1>1, <2>1 DEF SetWithTTL
<1>2. ASSUME NEW c \in Caches, NEW k \in Keys, Delete(c, k) PROVE TypeInv'
  BY <1>2 DEF Delete
<1>3. ASSUME NEW c \in Caches, Clear(c) PROVE TypeInv'
  BY <1>3 DEF Clear
<1>4. ASSUME NEW c \in Caches, Register(c) PROVE TypeInv'
  <2>1. Idling \in Goroutines
    BY DEF Idling, Goroutines
  <2>2. gor' \in [Caches -> Goroutines] /\ stop' \in Caches \cup {None}
    BY <1>4, <2>1 DEF Register
  <2>3. running' \in BOOLEAN /\ (running' => stop' \in Caches)
    <3>1. CASE running
      <4>1. running' = running /\ stop' = stop
        BY <1>4, <3>1 DEF Register
      <4> QED BY <4>1
    <3>2. CASE ~running
      <4>1. running' = TRUE /\ stop' = c
        BY <1>4, <3>2 DEF Register
      <4> QED BY <4>1
    <3> QED BY <3>1, <3>2
  <2> QED BY <1>4, <2>2, <2>3 DEF Register
<1>5. ASSUME NEW c \in Caches, Unregister(c) PROVE TypeInv'
  <2>1. running' \in BOOLEAN /\ (running' => running)
    <3>1. CASE caches' = {} /\ running
      <4>1. running' = FALSE
        BY <1>5, <3>1 DEF Unregister
      <4> QED BY <4>1
    <3>2. CASE ~(caches' = {} /\ running)
      <4>1. running' = running
        BY <1>5, <3>2 DEF Unregister
      <4> QED BY <4>1
    <3> QED BY <3>1, <3>2
  <2>2. closed' \subseteq Caches
    BY <1>5 DEF Unregister
  <2> QED BY <1>5, <2>1, <2>2 DEF Unregister
<1>6. ASSUME NEW p \in Procs, NEW c \in Caches, NEW k \in Keys, Lookup(p, c, k) PROVE TypeInv'
  <2>1. [pc |-> "check", cache |-> c, key |-> k, item |-> Entry(c, k)] \in Calls
    BY <1>6, EntryType DEF Lookup, Calls
  <2> QED BY <1>6, <2>1 DEF Lookup
<1>7. ASSUME NEW p \in Procs, Check(p) PROVE TypeInv'
  <2>1. [call[p] EXCEPT !.pc = "recheck"] \in Calls /\ NoCall \in Calls
    BY <1>7 DEF Check, Calls, NoCall
  <2> QED BY <1>7, <2>1 DEF Check
<1>8. ASSUME NEW p \in Procs, Recheck(p) PROVE TypeInv'
  <2>1. call[p].cache \in Caches /\ call[p].key \in Keys /\ NoCall \in Calls
    BY <1>8 DEF Recheck, Calls, NoCall
  <2> QED BY <1>8, <2>1, EntryType DEF Recheck
<1>9. CASE Pass
  BY <1>9 DEF Pass
<1>10. ASSUME NEW g \in Caches, Timer(g) PROVE TypeInv'
  BY <1>10 DEF Timer
<1>11. ASSUME NEW g \in Caches, TakeTick(g) PROVE TypeInv'
  BY <1>11, SweepType DEF TakeTick
<1>12. ASSUME NEW g \in Caches, Exit(g) PROVE TypeInv'
  BY <1>12 DEF Exit, Goroutines
<1>13. ASSUME NEW g \in Caches, Stamp(g) PROVE TypeInv'
  <2>1. gor[g].todo \in SUBSET Caches
    BY <1>13 DEF Stamp, Goroutines
  <2>2. \A c \in gor[g].todo :
          [pc |-> "scan", cache |-> c, todo |-> gor[g].todo \ {c}, stamp |-> now] \in Goroutines
    BY <2>1 DEF Goroutines
  <2> QED BY <1>13, <2>2 DEF Stamp
<1>14. ASSUME NEW g \in Caches, Scan(g) PROVE TypeInv'
  <2> DEFINE keys == {k \in Keys : Expired(Entry(gor[g].cache, k), gor[g].stamp)}
  <2>1. gor[g].cache \in Caches /\ gor[g].todo \in SUBSET Caches /\ gor[g].stamp \in Nat
    BY <1>14 DEF Scan, Goroutines
  <2>2. [pc |-> "delete", cache |-> gor[g].cache, todo |-> gor[g].todo,
         stamp |-> gor[g].stamp, keys |-> keys] \in Goroutines
    BY <2>1 DEF Goroutines
  <2>3. Sweep(gor[g].todo) \in Goroutines
    BY <2>1, SweepType
  <2> HIDE DEF keys
  <2>4. gor' = [gor EXCEPT ![g] =
                  IF keys = {} THEN Sweep(gor[g].todo)
                  ELSE [pc |-> "delete", cache |-> gor[g].cache, todo |-> gor[g].todo,
                        stamp |-> gor[g].stamp, keys |-> keys]]
        /\ UNCHANGED <<now, data, call, created, caches, running, stop, closed, ticked>>
    BY <1>14 DEF Scan, keys
  <2> QED BY <2>2, <2>3, <2>4
<1>15. ASSUME NEW g \in Caches, Evict(g) PROVE TypeInv'
  <2>1. gor[g].cache \in Caches /\ gor[g].todo \in SUBSET Caches
    BY <1>15 DEF Evict, Goroutines
  <2>2. data' \in [Caches -> [Keys -> Item \cup {None}]]
    BY <1>15, <2>1, EntryType DEF Evict
  <2>3. Sweep(gor[g].todo) \in Goroutines
    BY <2>1, SweepType
  <2> QED BY <1>15, <2>2, <2>3 DEF Evict
<1>16. CASE UNCHANGED <<mapVars, call, janitorVars>>
  BY <1>16
<1> QED BY <1>1, <1>2, <1>3, <1>4, <1>5, <1>6, <1>7, <1>8, <1>9, <1>10, <1>11, <1>12, <1>13,
           <1>14, <1>15, <1>16 DEF Act, Get, RunWith

LEMMA TypeInit == Init => TypeInv
<1>1. NoCall \in Calls /\ Unstarted \in Goroutines
  BY DEF Calls, Goroutines, NoCall, Unstarted
<1> SUFFICES ASSUME Init PROVE TypeInv
  OBVIOUS
<1>2. now \in Nat /\ data \in [Caches -> [Keys -> Item \cup {None}]]
  BY DEF Init
<1>3. call \in [Procs -> Calls] /\ gor \in [Caches -> Goroutines]
  BY <1>1 DEF Init
<1>4. running \in BOOLEAN /\ ~running
  BY DEF Init
<1> QED BY <1>2, <1>3, <1>4 DEF Init, TypeInv

LEMMA StepIsAct == [Next]_vars => [Act]_<<mapVars, call, janitorVars>>
BY DEF Next, vars

LEMMA TypeInvariant == Spec => []TypeInv
BY TypeInit, TypeStep, StepIsAct, PTL DEF Spec

-----------------------------------------------------------------------------
\* Nothing is known of a cache that has not been created, and no goroutine has
\* looked at a clock that is ahead of now.
JanitorInv ==
    /\ OneJanitor
    /\ \A c \in Caches : c \notin created => ~Started(c) /\ c \notin closed
    /\ \A g \in Caches : gor[g].pc \in {"scan", "delete"} => gor[g].stamp <= now

LEMMA JanitorInit == Init => JanitorInv
BY DEF Init, JanitorInv, OneJanitor, Started, Unstarted

LEMMA SweepPc ==
    ASSUME NEW todo
    PROVE  Sweep(todo).pc \in {"select", "stamp"}
BY DEF Sweep, Idling

LEMMA JanitorStep == TypeInv /\ JanitorInv /\ [Act]_<<mapVars, call, janitorVars>> => JanitorInv'
<1> SUFFICES ASSUME TypeInv, JanitorInv, [Act]_<<mapVars, call, janitorVars>> PROVE JanitorInv'
  OBVIOUS
<1> USE DEF mapVars, janitorVars
\* A goroutine that stays started and takes no stamp from the future.
<1>1. ASSUME NEW g \in Caches, Started(g), Started(g)',
             gor' = [gor EXCEPT ![g] = gor'[g]],
             UNCHANGED <<now, created, caches, running, stop, closed>>,
             gor'[g].pc \in {"scan", "delete"} => gor'[g].stamp <= now
      PROVE  JanitorInv'
  <2>1. \A h \in Caches : Started(h)' <=> Started(h)
    BY <1>1 DEF Started, TypeInv
  <2>2. \A h \in Caches : gor'[h].pc \in {"scan", "delete"} => gor'[h].stamp <= now'
    BY <1>1 DEF JanitorInv, TypeInv
  <2> QED BY <1>1, <2>1, <2>2 DEF JanitorInv, OneJanitor
<1>2. CASE UNCHANGED janitorVars /\ now' \in {now, now + 1}
  BY <1>2 DEF JanitorInv, OneJanitor, Started, TypeInv, Goroutines
<1>3. ASSUME NEW c \in Caches, Register(c) PROVE JanitorInv'
  <2>1. CASE running
    BY <1>3, <2>1 DEF Register, JanitorInv, OneJanitor, Started
  <2>2. CASE ~running
    <3>1. ~Started(c) /\ c \notin closed /\ {g \in Caches : Started(g)} \ closed = {}
      BY <1>3, <2>2 DEF Register, JanitorInv, OneJanitor
    <3>2. \A g \in Caches : Started(g)' <=> (Started(g) \/ g = c)
      BY <1>3, <2>2 DEF Register, Started, Idling, TypeInv
    <3>3. running' /\ stop' = c /\ caches' # {} /\ closed' = closed
      BY <1>3, <2>2 DEF Register
    <3>4. OneJanitor'
      BY <3>1, <3>2, <3>3 DEF OneJanitor
    <3>5. \A g \in Caches : gor'[g].pc \in {"scan", "delete"} => gor'[g].stamp <= now'
      BY <1>3, <2>2 DEF Register, Idling, JanitorInv, TypeInv
    <3> QED BY <1>3, <3>2, <3>3, <3>4, <3>5 DEF Register, JanitorInv
  <2> QED BY <2>1, <2>2
<1>4. ASSUME NEW c \in Caches, Unregister(c) PROVE JanitorInv'
  <2>1. \A g \in Caches : Started(g)' <=> Started(g)
    BY <1>4 DEF Unregister, Started
  <2>2. CASE caches' = {} /\ running
    <3>1. closed' = closed \cup {stop} /\ ~running' /\ c \in created
      BY <1>4, <2>2 DEF Unregister
    <3>2. stop \in created
      BY <2>2 DEF JanitorInv, OneJanitor
    <3> QED BY <1>4, <2>1, <2>2, <3>1, <3>2 DEF Unregister, JanitorInv, OneJanitor
  <2>3. CASE ~(caches' = {} /\ running)
    BY <1>4, <2>1, <2>3 DEF Unregister, JanitorInv, OneJanitor
  <2> QED BY <2>2, <2>3
<1>5. ASSUME NEW g \in Caches, TakeTick(g) PROVE JanitorInv'
  <2>1. gor'[g] = Sweep(caches)
    BY <1>5 DEF TakeTick, TypeInv
  <2> QED BY <1>1, <1>5, <2>1, SweepPc DEF TakeTick, Started
<1>6. ASSUME NEW g \in Caches, Exit(g) PROVE JanitorInv'
  <2>1. \A h \in Caches : h # g => (Started(h)' <=> Started(h))
    BY <1>6 DEF Exit, Started, TypeInv
  <2>2. ~Started(g)' /\ g \in closed /\ gor'[g].pc = "exited"
    BY <1>6 DEF Exit, Started, TypeInv
  <2>3. OneJanitor'
    BY <1>6, <2>1, <2>2 DEF Exit, JanitorInv, OneJanitor
  <2> QED BY <1>6, <2>1, <2>2, <2>3 DEF Exit, JanitorInv, TypeInv
<1>7. ASSUME NEW g \in Caches, Stamp(g) PROVE JanitorInv'
  <2>1. PICK c \in gor[g].todo :
           gor' = [gor EXCEPT ![g] = [pc |-> "scan", cache |-> c, todo |-> gor[g].todo \ {c},
                                      stamp |-> now]]
    BY <1>7 DEF Stamp
  <2>2. gor'[g] = [pc |-> "scan", cache |-> c, todo |-> gor[g].todo \ {c}, stamp |-> now]
    BY <2>1 DEF TypeInv
  <2>3. gor'[g].pc = "scan" /\ gor'[g].stamp = now /\ now <= now
    BY <2>2 DEF TypeInv
  <2>4. gor' = [gor EXCEPT ![g] = gor'[g]]
    BY <2>1, <2>2
  <2> QED BY <1>1, <1>7, <2>3, <2>4 DEF Stamp, Started
<1>8. ASSUME NEW g \in Caches, Scan(g) PROVE JanitorInv'
  <2> DEFINE keys == {k \in Keys : Expired(Entry(gor[g].cache, k), gor[g].stamp)}
             delete == [pc |-> "delete", cache |-> gor[g].cache, todo |-> gor[g].todo,
                        stamp |-> gor[g].stamp, keys |-> keys]
  <2>1. delete.pc = "delete" /\ delete.stamp = gor[g].stamp
    OBVIOUS
  <2>2. gor' = [gor EXCEPT ![g] = IF keys = {} THEN Sweep(gor[g].todo) ELSE delete]
    BY <1>8 DEF Scan
  <2> HIDE DEF keys, delete
  <2>3. gor'[g] = Sweep(gor[g].todo) \/ gor'[g] = delete
    BY <2>2 DEF TypeInv
  <2>4. gor'[g].pc \in {"select", "stamp"}
        \/ (gor'[g].pc = "delete" /\ gor'[g].stamp = gor[g].stamp)
    BY <2>1, <2>3, SweepPc
  <2>5. gor' = [gor EXCEPT ![g] = gor'[g]]
    BY <2>2 DEF TypeInv
  <2> QED BY <1>1, <1>8, <2>4, <2>5 DEF Scan, Started, JanitorInv
<1>9. ASSUME NEW g \in Caches, Evict(g) PROVE JanitorInv'
  <2>1. gor'[g].pc \in {"select", "stamp"}
    BY <1>9, SweepPc DEF Evict, TypeInv
  <2> QED BY <1>1, <1>9, <2>1 DEF Evict, Started
<1>10. ASSUME NEW g \in Caches, Timer(g) PROVE JanitorInv'
  BY <1>10 DEF Timer, JanitorInv, OneJanitor, Started
<1>11. ASSUME NEW c \in Caches, NEW k \in Keys, NEW v \in Values, NEW ttl \in TTLs,
              SetWithTTL(c, k, v, ttl) \/ Delete(c, k) \/ Clear(c)
       PROVE  JanitorInv'
  BY <1>2, <1>11 DEF SetWithTTL, Delete, Clear
<1>12. CASE Pass
  BY <1>2, <1>12 DEF Pass
<1>13. ASSUME NEW p \in Procs, Get(p) PROVE JanitorInv'
  BY <1>2, <1>13 DEF Get, Lookup, Check, Recheck
<1>14. ASSUME NEW c \in Caches, NEW k \in Keys, Delete(c, k) PROVE JanitorInv'
  BY <1>2, <1>14 DEF Delete
<1>15. ASSUME NEW c \in Caches, Clear(c) PROVE JanitorInv'
  BY <1>2, <1>15 DEF Clear
<1>16. CASE UNCHANGED <<mapVars, call, janitorVars>>
  BY <1>2, <1>16
<1> QED BY <1>3, <1>4, <1>5, <1>6, <1>7, <1>8, <1>9, <1>10, <1>11, <1>12, <1>13, <1>14, <1>15,
           <1>16 DEF Act, RunWith

LEMMA JanitorInvariant == Spec => []JanitorInv
BY TypeInvariant, JanitorInit, JanitorStep, StepIsAct, PTL DEF Spec

\* Of all the goroutines register has started exactly the current one has not
\* been told to stop, and there is a current one as long as there are caches.
THEOREM OneJanitorAlways == Spec => []OneJanitor
<1>1. JanitorInv => OneJanitor
  BY DEF JanitorInv
<1> QED BY <1>1, JanitorInvariant, PTL

-----------------------------------------------------------------------------
\* No step of a Get or of a janitor removes or changes an unexpired entry.
THEOREM EvictionInvisibleAlways == Spec => EvictionInvisible
<1>1. ASSUME TypeInv, JanitorInv, [Act]_<<mapVars, call, janitorVars>>,
             call' # call \/ gor' # gor, NEW c \in Caches, NEW k \in Keys
      PROVE  LiveEntry(c, k)' = LiveEntry(c, k)
  <2> USE <1>1 DEF mapVars, janitorVars
  <2>1. CASE UNCHANGED mapVars
    BY <2>1 DEF LiveEntry, Entry
  <2>2. ASSUME NEW p \in Procs, Recheck(p) PROVE LiveEntry(c, k)' = LiveEntry(c, k)
    <3>1. /\ data' = [data EXCEPT ![call[p].cache][call[p].key]
                        = LiveEntry(call[p].cache, call[p].key)]
          /\ now' = now
      BY <2>2 DEF Recheck
    <3>2. ~Expired(None, now)
      BY DEF Expired
    <3> QED BY <3>1, <3>2 DEF LiveEntry, Entry, TypeInv
  <2>3. ASSUME NEW g \in Caches, Evict(g) PROVE LiveEntry(c, k)' = LiveEntry(c, k)
    <3>1. gor[g].stamp <= now /\ gor[g].stamp \in Nat /\ now \in Nat
      BY <2>3 DEF Evict, JanitorInv, TypeInv, Goroutines
    <3>2. Expired(Entry(c, k), gor[g].stamp) => Expired(Entry(c, k), now)
      BY <3>1, EntryType DEF Expired, Item
    <3>3. Entry(c, k)' = Entry(c, k)
          \/ (Entry(c, k)' = None /\ Expired(Entry(c, k), gor[g].stamp))
      <4>1. gor[g].cache \in Caches
        BY <2>3 DEF Evict, TypeInv, Goroutines
      <4>2. CASE c = gor[g].cache
        <5>1. data'[c] = [key \in Keys |->
                            IF key \in gor[g].keys /\ Expired(Entry(c, key), gor[g].stamp)
                            THEN None ELSE Entry(c, key)]
          BY <2>3, <4>2 DEF Evict, TypeInv
        <5> QED BY <5>1 DEF Entry
      <4>3. CASE c # gor[g].cache
        <5>1. data'[c] = data[c]
          BY <2>3, <4>3 DEF Evict, TypeInv
        <5> QED BY <5>1 DEF Entry
      <4> QED BY <4>2, <4>3
    <3>4. now' = now
      BY <2>3 DEF Evict
    <3> QED BY <3>2, <3>3, <3>4 DEF LiveEntry, Expired
  <2> QED BY <2>1, <2>2, <2>3
          DEF Act, Get, RunWith, SetWithTTL, Delete, Clear, Register, Unregister, Lookup, Check,
              Timer, TakeTick, Exit, Stamp, Scan, Pass
<1>2. TypeInv /\ JanitorInv /\ [Next]_vars
      => [call' # call \/ gor' # gor
          => \A c \in Caches, k \in Keys : LiveEntry(c, k)' = LiveEntry(c, k)]_vars
  BY <1>1, StepIsAct
<1> QED BY <1>2, TypeInvariant, JanitorInvariant, PTL DEF Spec, EvictionInvisible

-----------------------------------------------------------------------------
\* The history of a Get: what it has looked up its key has held unexpired
\* since it began, or it is expired by now and will not be returned.
HeldInv ==
    /\ held \in [Procs -> SUBSET (Item \cup {None})]
    /\ \A p \in Procs :
         call[p].pc = "check" => call[p].item \in held[p] \/ Expired(call[p].item, now)

LEMMA HeldInit == Init => HeldInv
BY DEF Init, HeldInv, NoCall

LEMMA BusyCall ==
    ASSUME TypeInv, NEW p \in Procs, call[p] # NoCall
    PROVE  call[p].cache \in Caches /\ call[p].key \in Keys /\ call[p].item \in Item
BY DEF TypeInv, Calls

LEMMA ClockForward == TypeInv /\ [Act]_<<mapVars, call, janitorVars>> => now' >= now
<1> SUFFICES ASSUME TypeInv, [Act]_<<mapVars, call, janitorVars>> PROVE now' >= now
  OBVIOUS
<1>1. now' = now \/ Pass
  BY DEF mapVars, Act, SetWithTTL, Delete, Clear, Register, Unregister, Get, Lookup, Check,
         Recheck, Timer, RunWith, TakeTick, Exit, Stamp, Scan, Evict
<1> QED BY <1>1 DEF Pass, TypeInv

LEMMA RecheckPc ==
    ASSUME TypeInv, NEW p \in Procs, call[p].pc = "check"
    PROVE  [call[p] EXCEPT !.pc = "recheck"].pc = "recheck"
BY DEF TypeInv, Calls, NoCall

\* What a Get that is to check has read it has read just now or before.
LEMMA CheckStep ==
    ASSUME TypeInv, [Act]_<<mapVars, call, janitorVars>>, NEW p \in Procs, call'[p].pc = "check"
    PROVE  \/ call'[p] = call[p]
           \/ /\ data' = data /\ now' = now
              /\ call'[p].item = Entry(call'[p].cache, call'[p].key)
              /\ call'[p].item # None
<1>1. CASE call' = call
  BY <1>1
<1>2. ASSUME NEW q \in Procs, NEW c \in Caches, NEW k \in Keys, Lookup(q, c, k)
      PROVE  \/ call'[p] = call[p]
             \/ /\ data' = data /\ now' = now
                /\ call'[p].item = Entry(call'[p].cache, call'[p].key)
                /\ call'[p].item # None
  BY <1>2 DEF Lookup, TypeInv, mapVars
<1>3. ASSUME NEW q \in Procs, Check(q) \/ Recheck(q) PROVE call'[p] = call[p]
  <2>1. CASE p = q
    <3>1. call'[p].pc \in {"recheck", "idle"}
      <4>1. CASE Check(q)
        <5>1. call'[p] = [call[p] EXCEPT !.pc = "recheck"] \/ call'[p] = NoCall
          BY <2>1, <4>1 DEF Check, TypeInv
        <5>2. [call[p] EXCEPT !.pc = "recheck"].pc = "recheck"
          BY <2>1, <4>1, RecheckPc DEF Check
        <5>3. NoCall.pc = "idle"
          BY DEF NoCall
        <5> QED BY <5>1, <5>2, <5>3
      <4>2. CASE Recheck(q)
        BY <2>1, <4>2 DEF Recheck, NoCall, TypeInv
      <4> QED BY <1>3, <4>1, <4>2
    <3> QED BY <3>1
  <2>2. CASE p # q
    BY <1>3, <2>2 DEF Check, Recheck, TypeInv
  <2> QED BY <2>1, <2>2
<1> QED BY <1>1, <1>2, <1>3
        DEF Act, SetWithTTL, Delete, Clear, Register, Unregister, Get, Timer, RunWith, TakeTick,
            Exit, Stamp, Scan, Evict, Pass

LEMMA HeldStep == TypeInv /\ TypeInv' /\ HeldInv /\ [Next]_vars => HeldInv'
<1> SUFFICES ASSUME TypeInv, TypeInv', HeldInv, [Next]_vars PROVE HeldInv'
  OBVIOUS
<1>1. CASE UNCHANGED vars
  BY <1>1 DEF vars, mapVars, HeldInv
<1>2. CASE Act /\ Watch
  <2> DEFINE seen(p) == LiveEntry(call[p].cache, call[p].key)
  <2>1. \A p \in Procs : held'[p] = IF call'[p] = NoCall THEN {} ELSE held[p] \cup {seen(p)'}
    BY <1>2 DEF Watch
  <2>2. \A p \in Procs : call'[p] # NoCall => seen(p)' \in Item \cup {None}
    <3> SUFFICES ASSUME NEW p \in Procs, call'[p] # NoCall PROVE seen(p)' \in Item \cup {None}
      OBVIOUS
    <3>1. call'[p].cache \in Caches /\ call'[p].key \in Keys
      BY DEF TypeInv, Calls
    <3> QED BY <3>1 DEF LiveEntry, Entry, TypeInv
  <2>3. held' \in [Procs -> SUBSET (Item \cup {None})]
    <3>1. held' = [p \in Procs |-> IF call'[p] = NoCall THEN {} ELSE held[p] \cup {seen(p)'}]
      BY <1>2 DEF Watch
    <3> HIDE DEF seen
    <3> QED BY <2>2, <3>1 DEF HeldInv
  <2>4. ASSUME NEW p \in Procs, call'[p].pc = "check"
        PROVE  call'[p].item \in held'[p] \/ Expired(call'[p].item, now')
    <3>1. call'[p] # NoCall
      BY <2>4 DEF NoCall
    <3>2. held'[p] = held[p] \cup {seen(p)'}
      BY <2>1, <3>1
    <3>3. CASE call'[p] = call[p]
      <4>1. call[p].item \in held[p] \/ Expired(call[p].item, now)
        BY <2>4, <3>3 DEF HeldInv
      <4>2. now' >= now /\ now \in Nat /\ now' \in Nat
        BY <1>2, ClockForward DEF TypeInv
      <4>3. call[p].item \in Item
        BY <3>1, <3>3, BusyCall
      <4>4. Expired(call[p].item, now) => Expired(call[p].item, now')
        BY <4>2, <4>3 DEF Expired, Item
      <4> QED BY <3>2, <3>3, <4>1, <4>4
    <3>4. CASE /\ data' = data /\ now' = now
               /\ call'[p].item = Entry(call'[p].cache, call'[p].key)
               /\ call'[p].item # None
      BY <3>2, <3>4 DEF LiveEntry, Entry
    <3> QED BY <1>2, <2>4, <3>3, <3>4, CheckStep
  <2> HIDE DEF seen
  <2> QED BY <2>3, <2>4 DEF HeldInv
<1> QED BY <1>1, <1>2 DEF Next

LEMMA HeldInvariant == Spec => []HeldInv
BY TypeInvariant, HeldInit, HeldStep, PTL DEF Spec

\* Every variable keeps its type, the history included.
THEOREM TypeCorrect == Spec => []TypeOK
<1>1. TypeInv /\ HeldInv => TypeOK
  BY DEF TypeInv, HeldInv, TypeOK
<1> QED BY <1>1, TypeInvariant, HeldInvariant, PTL

\* A Get that returns a value returns one its key held unexpired at some moment
\* of the call, although it looks at the entry and at the clock apart.
THEOREM HitsWereHeld == Spec => HitWasHeld
<1>1. ASSUME TypeInv, HeldInv, [Next]_vars, NEW p \in Procs,
             call[p].pc = "check", call'[p] = NoCall
      PROVE  call[p].item \in held[p]
  <2>1. call'[p] # call[p]
    BY <1>1 DEF NoCall
  <2>2. ~Expired(call[p].item, now)
    <3>1. CASE Check(p)
      <4>1. call'[p] = IF Expired(call[p].item, now)
                       THEN [call[p] EXCEPT !.pc = "recheck"] ELSE NoCall
        BY <1>1, <3>1 DEF Check, TypeInv
      <4>2. [call[p] EXCEPT !.pc = "recheck"].pc = "recheck"
        BY <1>1, RecheckPc
      <4> QED BY <1>1, <4>1, <4>2 DEF NoCall
    <3>2. ASSUME NEW q \in Procs, NEW c \in Caches, NEW k \in Keys, Lookup(q, c, k)
          PROVE  call'[p] = call[p] \/ call'[p].pc = "check"
      BY <3>2 DEF Lookup, TypeInv
    <3>3. ASSUME NEW q \in Procs, Check(q) \/ Recheck(q), q # p PROVE call'[p] = call[p]
      <4>1. CASE Check(q)
        BY <3>3, <4>1 DEF Check, TypeInv
      <4>2. CASE Recheck(q)
        BY <3>3, <4>2 DEF Recheck, TypeInv
      <4> QED BY <3>3, <4>1, <4>2
    <3>4. ~Recheck(p)
      BY <1>1 DEF Recheck
    <3>5. CASE UNCHANGED vars
      BY <2>1, <3>5 DEF vars
    <3>6. call' = call \/ \E q \in Procs : Get(q)
      BY <1>1 DEF Next, vars, Act, SetWithTTL, Delete, Clear, Register, Unregister, Timer, RunWith,
                  TakeTick, Exit, Stamp, Scan, Evict, Pass
    <3> QED BY <1>1, <2>1, <3>1, <3>2, <3>3, <3>4, <3>6 DEF Get, NoCall
  <2> QED BY <1>1, <2>2 DEF HeldInv
<1>2. TypeInv /\ HeldInv /\ [Next]_vars
      => [\A p \in Procs : call[p].pc = "check" /\ call'[p] = NoCall
                           => call[p].item \in held[p]]_vars
  BY <1>1
<1> QED BY <1>2, TypeInvariant, HeldInvariant, PTL DEF Spec, HitWasHeld
=============================================================================
