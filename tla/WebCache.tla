-------------------------------- MODULE WebCache --------------------------------
(***************************************************************************)
(* The read side's small caches and its connection pool (web_database.py,  *)
(* _TTLCache; db_pool.py).  The threads of the web server answer requests: *)
(* /stats and /attendance/filters through get_or_set, which looks at the   *)
(* cached value without the lock, and again with it, before it runs the    *)
(* loader; every other request queries the database directly.  Loaders and *)
(* direct requests share the connections of the pool, and a loader waits   *)
(* for its connection with the cache's lock in its hands.                  *)
(*                                                                         *)
(* A cached value is represented by the time at which its query ran.  Time *)
(* is counted in real time where it only appears in properties, and by the *)
(* wall clock, which may be set back, where the code asks for it.          *)
(***************************************************************************)
EXTENDS Integers, Sequences, FiniteSets

CONSTANTS
    Thread,         \* the threads of the web server
    Cache,          \* _filter_cache and _stats_cache
    NoThread,       \* the owner of a lock that is free
    NoCache,        \* what a direct request looks into
    TTL,            \* FILTER_CACHE_SECONDS, STATS_CACHE_SECONDS
    PoolSize,       \* WEB_POOL_MAX_SIZE
    MaxTime,        \* bound: how long the clock runs
    MaxSetBack,     \* bound: by how much it is set back
    MaxFaults       \* bound: queries and pool waits that fail

ASSUME WebCacheAssumption ==
    /\ NoThread \notin Thread /\ NoCache \notin Cache
    /\ TTL \in [Cache -> Nat]
    /\ PoolSize \in Nat \ {0}
    /\ MaxTime \in Nat /\ MaxSetBack \in Nat /\ MaxFaults \in Nat

VARIABLES
    clock,      \* time.time()
    setback,    \* ghost: by how much it was set back so far
    value,      \* cache -> _value: the real time of its query
    expires_at, \* cache -> _expires_at
    owner,      \* cache -> who has _lock
    waiting,    \* the threads that wait for a connection, in order
    pc,         \* where a thread is
    cache,      \* the cache its request is about
    now,        \* the local variable of get_or_set
    loaded,     \* what its loader returned: the real time of its query
    faults      \* how much of the bound is used up

times == <<clock, setback>>
shared == <<value, expires_at>>
locals == <<cache, now, loaded>>
vars == <<times, shared, owner, waiting, pc, locals, faults>>

PC == {"idle", "check", "hit", "lock", "wait", "query", "store", "expiry"}

\* Python's None, before the first load.
None == -1

Init ==
    /\ clock = 0 /\ setback = 0
    /\ value = [c \in Cache |-> None]
    /\ expires_at = [c \in Cache |-> 0]
    /\ owner = [c \in Cache |-> NoThread]
    /\ waiting = <<>>
    /\ pc = [t \in Thread |-> "idle"]
    /\ cache = [t \in Thread |-> NoCache]
    /\ now = [t \in Thread |-> 0]
    /\ loaded = [t \in Thread |-> 0]
    /\ faults = 0

Goto(t, next) == pc' = [pc EXCEPT ![t] = next]

\* self._value is not None and now < self._expires_at.
Valid(c, time) == value[c] # None /\ time < expires_at[c]

\* with self._lock: it is released however the block is left.
Release(t) ==
    owner' = [c \in Cache |-> IF owner[c] = t THEN NoThread ELSE owner[c]]

\* The request is answered, or fails with an exception; its locals are gone.
Finish(t) ==
    /\ Goto(t, "idle")
    /\ cache' = [cache EXCEPT ![t] = NoCache]
    /\ now' = [now EXCEPT ![t] = 0]
    /\ loaded' = [loaded EXCEPT ![t] = 0]
--------------------------------------------------------------------------------
(***************************************************************************)
(* Requests and the look without the lock.                                 *)
(***************************************************************************)

\* GET /stats or /attendance/filters: get_or_set takes the time.
AskCache(t, c) ==
    /\ pc[t] = "idle"
    /\ Goto(t, "check")
    /\ cache' = [cache EXCEPT ![t] = c]
    /\ now' = [now EXCEPT ![t] = clock]
    /\ UNCHANGED <<times, shared, owner, waiting, loaded, faults>>

\* Any other request: pool.connection() puts the thread in the queue.
AskDirectly(t) ==
    /\ pc[t] = "idle"
    /\ Goto(t, "wait")
    /\ waiting' = Append(waiting, t)
    /\ UNCHANGED <<times, shared, owner, locals, faults>>

\* The unlocked test.  _value is read before _expires_at; as it is never None
\* again once it was set, the two reads are one step.
CheckUnlocked(t) ==
    /\ pc[t] = "check"
    /\ Goto(t, IF Valid(cache[t], now[t]) THEN "hit" ELSE "lock")
    /\ UNCHANGED <<times, shared, owner, waiting, locals, faults>>

\* return self._value, which is read only now; it may be a later value than
\* the one that was tested.
Hit(t) ==
    /\ pc[t] = "hit"
    /\ Finish(t) /\ Release(t)
    /\ UNCHANGED <<times, shared, waiting, faults>>
--------------------------------------------------------------------------------
(***************************************************************************)
(* The part under the lock.                                                *)
(***************************************************************************)

\* Slips for mutant runs: there is no lock; the test is not repeated.
LockWithoutLock(t) ==
    /\ pc[t] = "lock"
    /\ owner' = [owner EXCEPT ![cache[t]] = t]
    /\ now' = [now EXCEPT ![t] = clock]
    /\ Goto(t, "wait") /\ waiting' = Append(waiting, t)
    /\ UNCHANGED <<times, shared, cache, loaded, faults>>

LockAndLoad(t) ==
    /\ pc[t] = "lock" /\ owner[cache[t]] = NoThread
    /\ owner' = [owner EXCEPT ![cache[t]] = t]
    /\ now' = [now EXCEPT ![t] = clock]
    /\ Goto(t, "wait") /\ waiting' = Append(waiting, t)
    /\ UNCHANGED <<times, shared, cache, loaded, faults>>

\* The lock is taken, the time is taken again and the test repeated; the loader
\* begins by asking the pool for a connection.
Lock(t) ==
    /\ pc[t] = "lock" /\ owner[cache[t]] = NoThread
    /\ owner' = [owner EXCEPT ![cache[t]] = t]
    /\ now' = [now EXCEPT ![t] = clock]
    /\ \/ Valid(cache[t], clock) /\ Goto(t, "hit") /\ UNCHANGED waiting
       \/ /\ ~ Valid(cache[t], clock)
          /\ Goto(t, "wait") /\ waiting' = Append(waiting, t)
    /\ UNCHANGED <<times, shared, cache, loaded, faults>>

\* Slip for a mutant run: the expiry time lands in the value.
StoreSwapped(t) ==
    /\ pc[t] = "store"
    /\ value' = [value EXCEPT ![cache[t]] = now[t] + TTL[cache[t]]]
    /\ Goto(t, "expiry")
    /\ UNCHANGED <<times, expires_at, owner, waiting, locals, faults>>

\* self._value = value
StoreValue(t) ==
    /\ pc[t] = "store"
    /\ value' = [value EXCEPT ![cache[t]] = loaded[t]]
    /\ Goto(t, "expiry")
    /\ UNCHANGED <<times, expires_at, owner, waiting, locals, faults>>

\* Slip for a mutant run: the time to live counts from the end of the load.
StoreLateExpiry(t) ==
    /\ pc[t] = "expiry"
    /\ expires_at' = [expires_at EXCEPT ![cache[t]] = clock + TTL[cache[t]]]
    /\ Finish(t) /\ Release(t)
    /\ UNCHANGED <<times, value, waiting, faults>>

\* self._expires_at = now + ttl_seconds; the loaded value is returned.
StoreExpiry(t) ==
    /\ pc[t] = "expiry"
    /\ expires_at' = [expires_at EXCEPT ![cache[t]] = now[t] + TTL[cache[t]]]
    /\ Finish(t) /\ Release(t)
    /\ UNCHANGED <<times, value, waiting, faults>>
--------------------------------------------------------------------------------
(***************************************************************************)
(* The pool: whoever waits longest gets a connection when one is free.     *)
(***************************************************************************)
Connected == {t \in Thread : pc[t] = "query"}

GetConnection(t) ==
    /\ pc[t] = "wait" /\ waiting # <<>> /\ Head(waiting) = t
    /\ Cardinality(Connected) < PoolSize
    /\ waiting' = Tail(waiting)
    /\ Goto(t, "query")
    /\ UNCHANGED <<times, shared, owner, locals, faults>>

\* The loader or the request runs its query and gives the connection back.
RunQuery(t) ==
    /\ pc[t] = "query"
    /\ \/ cache[t] = NoCache /\ Finish(t)
       \/ /\ cache[t] # NoCache
          /\ loaded' = [loaded EXCEPT ![t] = clock + setback]
          /\ Goto(t, "store")
          /\ UNCHANGED <<cache, now>>
    /\ UNCHANGED <<times, shared, owner, waiting, faults>>

\* PoolTimeout: the thread gives up its place in the queue.
LeaveQueue(t) ==
    /\ pc[t] = "wait"
    /\ \E i \in DOMAIN waiting :
        /\ waiting[i] = t
        /\ waiting' = SubSeq(waiting, 1, i - 1) \o SubSeq(waiting, i + 1, Len(waiting))

\* Slip for a mutant run: a loader that raises leaves the lock taken.
FailLocked(t) ==
    /\ LeaveQueue(t) \/ (pc[t] = "query" /\ UNCHANGED waiting)
    /\ faults < MaxFaults /\ faults' = faults + 1
    /\ Finish(t)
    /\ UNCHANGED <<times, shared, owner>>

\* No connection in time, or the query raises: a 500, and nothing is cached.
Fail(t) ==
    /\ LeaveQueue(t) \/ (pc[t] = "query" /\ UNCHANGED waiting)
    /\ faults < MaxFaults /\ faults' = faults + 1
    /\ Finish(t) /\ Release(t)
    /\ UNCHANGED <<times, shared>>

Tick ==
    /\ clock < MaxTime /\ clock' = clock + 1
    /\ UNCHANGED <<setback, shared, owner, waiting, pc, locals, faults>>

\* The wall clock is corrected.  (Set forward, it only lets values expire early.)
SetClockBack ==
    /\ clock > 0 /\ clock' = clock - 1
    /\ setback < MaxSetBack /\ setback' = setback + 1
    /\ UNCHANGED <<shared, owner, waiting, pc, locals, faults>>

Step(t) ==
    \/ CheckUnlocked(t) \/ Hit(t)
    \/ Lock(t) \/ StoreValue(t) \/ StoreExpiry(t)
    \/ GetConnection(t) \/ RunQuery(t)

Next ==
    \/ \E t \in Thread :
        \/ \E c \in Cache : AskCache(t, c)
        \/ AskDirectly(t)
        \/ Step(t)
        \/ Fail(t)
    \/ Tick \/ SetClockBack

(***************************************************************************)
(* Fairness: the interpreter runs every thread that can run, and queries   *)
(* end.  Nobody has to send a request, and time need not pass.             *)
(***************************************************************************)
Fairness == \A t \in Thread : WF_vars(Step(t))

Spec == Init /\ [][Next]_vars

FairSpec == Spec /\ Fairness
--------------------------------------------------------------------------------
(***************************************************************************)
(* Properties.                                                             *)
(***************************************************************************)

\* The values every variable ranges over.
TypeOK ==
    /\ clock \in 0..MaxTime /\ setback \in 0..MaxSetBack
    /\ value \in [Cache -> {None} \cup 0..(MaxTime + MaxSetBack)]
    /\ expires_at \in [Cache -> Nat]
    /\ owner \in [Cache -> Thread \cup {NoThread}]
    /\ waiting \in Seq(Thread)
    /\ pc \in [Thread -> PC]
    /\ cache \in [Thread -> Cache \cup {NoCache}]
    /\ now \in [Thread -> 0..MaxTime]
    /\ loaded \in [Thread -> 0..(MaxTime + MaxSetBack)]
    /\ faults \in 0..MaxFaults

\* Whatever other threads store between the test and the return, a value that
\* is served from a cache was queried less than the time to live before the time
\* that get_or_set took (config.py: "considered fresh").  That is the clock's time,
\* and the query's is real: by what the clock had been set back, real time is ahead
\* of it, and a value is served that much longer, but no more.
ServedFresh ==
    \A t \in Thread :
        pc[t] = "hit" =>
            /\ value[cache[t]] # None
            /\ now[t] < value[cache[t]] + TTL[cache[t]]

Loading(t) == cache[t] # NoCache /\ pc[t] \in {"wait", "query", "store"}

\* The threads that queued for the lock behind a loader do not load again what
\* it has just stored: a loader runs alone, and only when the cached value was
\* out of date at the time it looked.
LoadsWhenDue ==
    \A t \in Thread : Loading(t) =>
        /\ ~ Valid(cache[t], now[t])
        /\ \A u \in Thread : Loading(u) /\ cache[u] = cache[t] => u = t

\* A cache never goes back to an older reading of the database, whatever order
\* the loaders' queries and their stores come in.
NeverOlder == [][\A c \in Cache : value'[c] >= value[c]]_vars

\* Whom a thread waits for: for the lock, its owner; in the queue, the thread at
\* its head; and at the head, those who have the connections, if all are taken.
WaitsFor(t) ==
    CASE pc[t] = "lock" -> {owner[cache[t]]} \ {NoThread}
      [] pc[t] = "wait" /\ Head(waiting) # t -> {Head(waiting)}
      [] pc[t] = "wait" /\ Head(waiting) = t ->
            IF Cardinality(Connected) < PoolSize THEN {} ELSE Connected
      [] OTHER -> {}

\* How many waits a thread can be away from one that runs.
Depth(t) ==
    CASE pc[t] = "lock" -> 3
      [] pc[t] = "wait" /\ Head(waiting) # t -> 2
      [] pc[t] = "wait" /\ Head(waiting) = t -> 1
      [] OTHER -> 0

\* Locks and connections are never waited for in a circle, nor from a request
\* that is over: though a loader waits for a connection with a lock in its hands,
\* nobody who is ahead of it, or has a connection, waits for a lock.
NoCircularWait ==
    \A t \in Thread : \A u \in WaitsFor(t) :
        u \in Thread /\ pc[u] # "idle" /\ Depth(u) < Depth(t)

\* A loader waits for a connection under the lock, but never for ever: the
\* threads ahead of it in the pool's queue need no lock, so it gets through or
\* fails, and releases the lock either way.
LockReleased == \A c \in Cache : owner[c] # NoThread ~> owner[c] = NoThread
================================================================================
