----------------------------- MODULE WebCacheProofs -----------------------------
(***************************************************************************)
(* Proofs about WebCache, for any number of threads, caches, connections   *)
(* and times to live.                                                      *)
(***************************************************************************)
EXTENDS WebCache, SequenceTheorems, TLAPS

(***************************************************************************)
(* Types.                                                                  *)
(***************************************************************************)

\* A queue without one of its entries is a queue.
LEMMA LeaveQueueType ==
    ASSUME waiting \in Seq(Thread), NEW t \in Thread, LeaveQueue(t)
    PROVE  waiting' \in Seq(Thread)
  BY DEF LeaveQueue

\* Every variable keeps its type.
THEOREM TypeCorrect == Spec => []TypeOK
<1>1. Init => TypeOK
  BY WebCacheAssumption DEF Init, TypeOK, PC, None
<1>2. TypeOK /\ [Next]_vars => TypeOK'
  <2> SUFFICES ASSUME TypeOK, [Next]_vars PROVE TypeOK'
    OBVIOUS
  <2> USE WebCacheAssumption DEF TypeOK, PC, times, shared, locals, Goto, Finish, Release
  <2>1. ASSUME NEW t \in Thread, NEW c \in Cache, AskCache(t, c) PROVE TypeOK'
    BY <2>1 DEF AskCache
  <2>2. ASSUME NEW t \in Thread, AskDirectly(t) PROVE TypeOK'
    BY <2>2 DEF AskDirectly
  <2>3. ASSUME NEW t \in Thread, CheckUnlocked(t) PROVE TypeOK'
    BY <2>3 DEF CheckUnlocked
  <2>4. ASSUME NEW t \in Thread, Hit(t) PROVE TypeOK'
    BY <2>4 DEF Hit
  <2>5. ASSUME NEW t \in Thread, Lock(t) PROVE TypeOK'
    <3>1. owner' \in [Cache -> Thread \cup {NoThread}] /\ now' \in [Thread -> 0..MaxTime]
      BY <2>5 DEF Lock
    <3>2. CASE Goto(t, "hit") /\ UNCHANGED waiting
      BY <2>5, <3>1, <3>2 DEF Lock
    <3>3. CASE Goto(t, "wait") /\ waiting' = Append(waiting, t)
      BY <2>5, <3>1, <3>3 DEF Lock
    <3> QED
      BY <2>5, <3>2, <3>3 DEF Lock
  <2>6. ASSUME NEW t \in Thread, StoreValue(t) PROVE TypeOK'
    BY <2>6 DEF StoreValue
  <2>7. ASSUME NEW t \in Thread, StoreExpiry(t) PROVE TypeOK'
    <3>1. expires_at' \in [Cache -> Nat]
      <4>1. CASE cache[t] \in Cache
        <5>1. now[t] + TTL[cache[t]] \in Nat
          BY <4>1
        <5> QED
          BY <2>7, <4>1, <5>1 DEF StoreExpiry
      <4>2. CASE cache[t] \notin Cache
        <5>1. expires_at' = expires_at
          BY <2>7, <4>2 DEF StoreExpiry
        <5> QED
          BY <5>1
      <4> QED
        BY <4>1, <4>2
    <3> QED
      BY <2>7, <3>1 DEF StoreExpiry
  <2>8. ASSUME NEW t \in Thread, GetConnection(t) PROVE TypeOK'
    BY <2>8 DEF GetConnection
  <2>9. ASSUME NEW t \in Thread, RunQuery(t) PROVE TypeOK'
    <3>0. clock + setback \in 0..(MaxTime + MaxSetBack)
      OBVIOUS
    <3>1. CASE cache[t] = NoCache /\ Finish(t)
      BY <2>9, <3>1 DEF RunQuery
    <3>2. CASE /\ loaded' = [loaded EXCEPT ![t] = clock + setback] /\ Goto(t, "store")
               /\ UNCHANGED <<cache, now>>
      BY <2>9, <3>0, <3>2 DEF RunQuery
    <3> QED
      BY <2>9, <3>1, <3>2 DEF RunQuery
  <2>10. ASSUME NEW t \in Thread, Fail(t) PROVE TypeOK'
    BY <2>10, LeaveQueueType DEF Fail
  <2>11. CASE Tick \/ SetClockBack
    BY <2>11 DEF Tick, SetClockBack
  <2>12. CASE UNCHANGED vars
    BY <2>12 DEF vars
  <2> QED
    BY <2>1, <2>2, <2>3, <2>4, <2>5, <2>6, <2>7, <2>8, <2>9, <2>10, <2>11, <2>12
    DEF Next, Step
<1> QED
  BY <1>1, <1>2, PTL DEF Spec

(***************************************************************************)
(* The lock.  A thread that waits for its loader, or stores what it        *)
(* returned, owns the lock of the cache its request is about.              *)
(***************************************************************************)
Holding(t) == cache[t] # NoCache /\ pc[t] \in {"wait", "query", "store", "expiry"}

LockInv ==
    \A t \in Thread :
        /\ pc[t] = "idle" => cache[t] = NoCache
        /\ pc[t] \in {"check", "lock", "hit", "store", "expiry"} => cache[t] \in Cache
        /\ Holding(t) => owner[cache[t]] = t

\* Releasing a lock takes it from nobody else.
LEMMA ReleaseOthers ==
    ASSUME TypeOK, NEW t \in Thread, Release(t), NEW c \in Cache, owner[c] # t
    PROVE  owner'[c] = owner[c]
  BY DEF Release

\* Every step keeps LockInv.
LEMMA LockStep == TypeOK /\ LockInv /\ [Next]_vars => LockInv'
<1> SUFFICES ASSUME TypeOK, LockInv, [Next]_vars PROVE LockInv'
  OBVIOUS
<1> USE WebCacheAssumption DEF LockInv, Holding, times, shared, locals, Goto
<1>0. /\ pc \in [Thread -> PC] /\ owner \in [Cache -> Thread \cup {NoThread}]
      /\ cache \in [Thread -> Cache \cup {NoCache}]
  BY DEF TypeOK
<1>f. ASSUME NEW t \in Thread, Finish(t), Release(t) PROVE LockInv'
  <2> SUFFICES ASSUME NEW u \in Thread
               PROVE  /\ pc'[u] = "idle" => cache'[u] = NoCache
                      /\ pc'[u] \in {"check", "lock", "hit", "store", "expiry"} =>
                            cache'[u] \in Cache
                      /\ Holding(u)' => owner'[cache'[u]] = u
    OBVIOUS
  <2>1. CASE u = t
    BY <1>0, <1>f, <2>1 DEF Finish
  <2>2. CASE u # t
    <3>1. pc'[u] = pc[u] /\ cache'[u] = cache[u]
      BY <1>0, <1>f, <2>2 DEF Finish
    <3>2. Holding(u) => cache[u] \in Cache /\ owner[cache[u]] # t
      BY <1>0, <2>2
    <3> QED
      BY <1>f, <3>1, <3>2, ReleaseOthers
  <2> QED
    BY <2>1, <2>2
<1>1. ASSUME NEW t \in Thread, NEW c \in Cache, AskCache(t, c) PROVE LockInv'
  BY <1>0, <1>1 DEF AskCache
<1>2. ASSUME NEW t \in Thread, AskDirectly(t) PROVE LockInv'
  BY <1>0, <1>2 DEF AskDirectly
<1>3. ASSUME NEW t \in Thread, CheckUnlocked(t) PROVE LockInv'
  BY <1>0, <1>3 DEF CheckUnlocked
<1>4. ASSUME NEW t \in Thread, Hit(t) PROVE LockInv'
  BY <1>4, <1>f DEF Hit
<1>5. ASSUME NEW t \in Thread, Lock(t) PROVE LockInv'
  <2>1. PICK next \in {"hit", "wait"} : Goto(t, next)
    BY <1>5 DEF Lock
  <2> QED
    BY <1>0, <1>5, <2>1 DEF Lock
<1>6. ASSUME NEW t \in Thread, StoreValue(t) PROVE LockInv'
  BY <1>0, <1>6 DEF StoreValue
<1>7. ASSUME NEW t \in Thread, StoreExpiry(t) PROVE LockInv'
  BY <1>7, <1>f DEF StoreExpiry
<1>8. ASSUME NEW t \in Thread, GetConnection(t) PROVE LockInv'
  BY <1>0, <1>8 DEF GetConnection
<1>9. ASSUME NEW t \in Thread, RunQuery(t) PROVE LockInv'
  <2>1. CASE cache[t] = NoCache /\ Finish(t)
    BY <1>0, <1>9, <2>1 DEF RunQuery, Finish
  <2>2. CASE cache[t] # NoCache /\ Goto(t, "store") /\ UNCHANGED cache
    BY <1>0, <1>9, <2>2 DEF RunQuery
  <2> QED
    BY <1>9, <2>1, <2>2 DEF RunQuery
<1>10. ASSUME NEW t \in Thread, Fail(t) PROVE LockInv'
  BY <1>10, <1>f DEF Fail
<1>11. CASE Tick \/ SetClockBack
  BY <1>11 DEF Tick, SetClockBack
<1>12. CASE UNCHANGED vars
  BY <1>12 DEF vars
<1> QED
  BY <1>1, <1>2, <1>3, <1>4, <1>5, <1>6, <1>7, <1>8, <1>9, <1>10, <1>11, <1>12
  DEF Next, Step

(***************************************************************************)
(* Time.  Real time does not run backwards and is never behind what the    *)
(* clock has shown, a loader reads the time, and tests the cached value    *)
(* with it, before it queries, and the expiry time is never further ahead  *)
(* of the cached value than the time to live.                              *)
(***************************************************************************)
RealTime == clock + setback

CacheTime(c) ==
    /\ value[c] <= RealTime
    /\ value[c] # None => expires_at[c] <= value[c] + TTL[c]
    /\ value[c] = None => expires_at[c] = 0

ThreadTime(t) ==
    /\ now[t] <= RealTime /\ loaded[t] <= RealTime
    /\ Loading(t) => ~ Valid(cache[t], now[t])
    /\ pc[t] = "store" => now[t] <= loaded[t] /\ value[cache[t]] <= loaded[t]
    /\ pc[t] = "expiry" => value[cache[t]] # None /\ now[t] <= value[cache[t]]
    /\ pc[t] = "hit" => /\ value[cache[t]] # None
                       /\ now[t] < value[cache[t]] + TTL[cache[t]]

TimeInv ==
    /\ \A c \in Cache : CacheTime(c)
    /\ \A t \in Thread : ThreadTime(t)

\* The types that matter for the arguments about time.
LEMMA TimeTypes ==
    ASSUME TypeOK
    PROVE  /\ clock \in Nat /\ setback \in Nat
           /\ \A c \in Cache : value[c] \in Int /\ value[c] >= None
                            /\ expires_at[c] \in Nat /\ TTL[c] \in Nat
           /\ \A t \in Thread : now[t] \in Nat /\ loaded[t] \in Nat
                             /\ cache[t] \in Cache \cup {NoCache} /\ pc[t] \in PC
           /\ pc \in [Thread -> PC] /\ value \in [Cache -> Int] /\ now \in [Thread -> Nat]
           /\ loaded \in [Thread -> Nat] /\ cache \in [Thread -> Cache \cup {NoCache}]
           /\ expires_at \in [Cache -> Nat]
  BY WebCacheAssumption DEF TypeOK, None

\* A step that leaves the caches and the clock alone, and threads other than t,
\* has to establish ThreadTime for t only.
LEMMA LocalStep ==
    ASSUME TimeInv, UNCHANGED <<clock, setback, value, expires_at>>, NEW t \in Thread,
           \A u \in Thread \ {t} : pc'[u] = pc[u] /\ cache'[u] = cache[u] /\ now'[u] = now[u]
                                   /\ loaded'[u] = loaded[u],
           ThreadTime(t)'
    PROVE  TimeInv'
<1>1. \A c \in Cache : CacheTime(c)'
  BY DEF TimeInv, CacheTime, RealTime
<1>2. ASSUME NEW u \in Thread, u # t PROVE ThreadTime(u)'
  BY <1>2 DEF TimeInv, ThreadTime, Loading, Valid, RealTime
<1> QED
  BY <1>1, <1>2 DEF TimeInv

\* A thread whose request has ended satisfies ThreadTime.
LEMMA FinishedTime ==
    ASSUME TypeOK, TypeOK', NEW t \in Thread, Finish(t)
    PROVE  /\ ThreadTime(t)'
           /\ \A u \in Thread \ {t} : pc'[u] = pc[u] /\ cache'[u] = cache[u] /\ now'[u] = now[u]
                                     /\ loaded'[u] = loaded[u]
<1>1. pc'[t] = "idle" /\ cache'[t] = NoCache /\ now'[t] = 0 /\ loaded'[t] = 0
  BY DEF Finish, Goto, TypeOK
<1>2. RealTime' \in Int /\ RealTime' >= 0
  <2>1. clock' \in Nat
    BY WebCacheAssumption DEF TypeOK
  <2>2. setback' \in Nat
    BY WebCacheAssumption DEF TypeOK
  <2>3. \A m, n \in Nat : m + n \in Int /\ m + n >= 0
    OBVIOUS
  <2>4. clock' + setback' \in Int /\ clock' + setback' >= 0
    BY <2>1, <2>2, <2>3
  <2> QED
    BY <2>4 DEF RealTime
<1>3. ThreadTime(t)'
  BY <1>1, <1>2 DEF ThreadTime, Loading
<1> QED
  BY <1>3 DEF Finish, Goto, TypeOK

\* Every step keeps TimeInv.
LEMMA TimeStep ==
    TypeOK /\ TypeOK' /\ LockInv /\ TimeInv /\ [Next]_vars => TimeInv'
<1> SUFFICES ASSUME TypeOK, TypeOK', LockInv, TimeInv, [Next]_vars PROVE TimeInv'
  OBVIOUS
<1> USE WebCacheAssumption DEF times, shared, locals, Goto, RealTime
<1>0. ASSUME NEW t \in Thread
      PROVE  /\ ThreadTime(t)
             /\ Holding(t) => cache[t] \in Cache /\ owner[cache[t]] = t
             /\ pc[t] \in {"check", "lock", "hit", "store", "expiry"} => cache[t] \in Cache
             /\ pc[t] = "idle" => cache[t] = NoCache
  BY TimeTypes DEF TimeInv, LockInv, Holding
<1>1. ASSUME NEW t \in Thread, NEW c \in Cache, AskCache(t, c) PROVE TimeInv'
  <2>1. ThreadTime(t)'
    BY <1>1, <1>0, TimeTypes DEF AskCache, ThreadTime, Loading
  <2> QED
    BY <1>1, <2>1, LocalStep, TimeTypes DEF AskCache
<1>2. ASSUME NEW t \in Thread, AskDirectly(t) PROVE TimeInv'
  <2>1. ThreadTime(t)'
    BY <1>2, <1>0, TimeTypes DEF AskDirectly, ThreadTime, Loading
  <2> QED
    BY <1>2, <2>1, LocalStep, TimeTypes DEF AskDirectly
<1>3. ASSUME NEW t \in Thread, CheckUnlocked(t) PROVE TimeInv'
  <2>1. ThreadTime(t)'
    <3>1. cache[t] \in Cache /\ CacheTime(cache[t])
      BY <1>3, <1>0 DEF CheckUnlocked, TimeInv
    <3> QED
      BY <1>3, <1>0, <3>1, TimeTypes DEF CheckUnlocked, ThreadTime, Loading, Valid, CacheTime
  <2> QED
    BY <1>3, <2>1, LocalStep, TimeTypes DEF CheckUnlocked
<1>4. ASSUME NEW t \in Thread, Hit(t) PROVE TimeInv'
  BY <1>4, FinishedTime, LocalStep DEF Hit
<1>5. ASSUME NEW t \in Thread, Lock(t) PROVE TimeInv'
  <2>1. cache[t] \in Cache /\ CacheTime(cache[t]) /\ now'[t] = clock /\ UNCHANGED <<clock, setback, value, expires_at, cache, loaded>>
    BY <1>5, <1>0, TimeTypes DEF Lock, TimeInv
  <2>2. CASE Valid(cache[t], clock) /\ Goto(t, "hit")
    <3>1. ThreadTime(t)'
      BY <1>0, <2>1, <2>2, TimeTypes DEF ThreadTime, Loading, Valid, CacheTime
    <3> QED
      BY <1>5, <2>2, <3>1, LocalStep, TimeTypes DEF Lock
  <2>3. CASE ~ Valid(cache[t], clock) /\ Goto(t, "wait")
    <3>1. ThreadTime(t)'
      BY <1>0, <2>1, <2>3, TimeTypes DEF ThreadTime, Loading, Valid, CacheTime
    <3> QED
      BY <1>5, <2>3, <3>1, LocalStep, TimeTypes DEF Lock
  <2> QED
    BY <1>5, <2>2, <2>3 DEF Lock
<1>6. ASSUME NEW t \in Thread, StoreValue(t) PROVE TimeInv'
  <2> DEFINE c == cache[t]
  <2>1. /\ c \in Cache /\ CacheTime(c) /\ ThreadTime(t) /\ Loading(t) /\ Holding(t)
        /\ c # NoCache
    BY <1>6, <1>0 DEF StoreValue, TimeInv, Loading, Holding
  <2>2. value[c] <= loaded[t] /\ now[t] <= loaded[t] /\ loaded[t] <= RealTime /\ value'[c] = loaded[t]
    BY <1>6, <2>1, TimeTypes DEF StoreValue, ThreadTime
  <2>3. \A d \in Cache \ {c} : value'[d] = value[d]
    BY <1>6, TimeTypes DEF StoreValue
  <2>4. UNCHANGED <<RealTime, expires_at, now, loaded, cache>>
    BY <1>6 DEF StoreValue, RealTime
  <2>5. ASSUME NEW d \in Cache PROVE CacheTime(d)'
    <3>1. CASE d = c
      BY <2>1, <2>2, <2>4, <3>1, TimeTypes DEF CacheTime, None
    <3>2. CASE d # c
      BY <2>3, <2>4, <3>2 DEF CacheTime, TimeInv
    <3> QED
      BY <3>1, <3>2
  <2>6. ASSUME NEW u \in Thread PROVE ThreadTime(u)'
    <3>1. CASE u = t
      BY <1>6, <2>1, <2>2, <2>4, <3>1, TimeTypes DEF ThreadTime, StoreValue, Loading, None
    <3>2. CASE u # t /\ cache[u] = c
      <4>1. pc'[u] = pc[u]
        BY <1>6, <3>2, TimeTypes DEF StoreValue
      <4>2. ~ Holding(u) /\ pc[u] \notin {"wait", "query", "store", "expiry"}
        BY <1>0, <2>1, <3>2 DEF Holding
      <4> QED
        BY <1>0, <2>1, <2>2, <2>4, <3>2, <4>1, <4>2, TimeTypes DEF ThreadTime, Loading, None
    <3>3. CASE u # t /\ cache[u] # c
      <4>1. pc'[u] = pc[u]
        BY <1>6, <3>3, TimeTypes DEF StoreValue
      <4>2. cache[u] \in Cache => value'[cache[u]] = value[cache[u]]
        BY <2>3, <3>3
      <4> QED
        BY <1>0, <2>4, <4>1, <4>2, TimeTypes DEF ThreadTime, Loading, Valid
    <3> QED
      BY <3>1, <3>2, <3>3
  <2> QED
    BY <2>5, <2>6 DEF TimeInv
<1>7. ASSUME NEW t \in Thread, StoreExpiry(t) PROVE TimeInv'
  <2> DEFINE c == cache[t]
  <2>1. c \in Cache /\ CacheTime(c) /\ ThreadTime(t) /\ Holding(t) /\ c # NoCache
    BY <1>7, <1>0 DEF StoreExpiry, TimeInv, Holding
  <2>2. value[c] # None /\ now[t] <= value[c] /\ expires_at'[c] = now[t] + TTL[c]
    BY <1>7, <2>1, TimeTypes DEF StoreExpiry, ThreadTime
  <2>3. \A d \in Cache \ {c} : expires_at'[d] = expires_at[d]
    BY <1>7, TimeTypes DEF StoreExpiry
  <2>4. UNCHANGED <<RealTime, value>>
    BY <1>7 DEF StoreExpiry, RealTime
  <2>5. ASSUME NEW d \in Cache PROVE CacheTime(d)'
    <3>1. CASE d = c
      BY <2>1, <2>2, <2>4, <3>1, TimeTypes DEF CacheTime, None
    <3>2. CASE d # c
      BY <2>3, <2>4, <3>2 DEF CacheTime, TimeInv
    <3> QED
      BY <3>1, <3>2
  <2>6. ASSUME NEW u \in Thread PROVE ThreadTime(u)'
    <3>0. Finish(t)
      BY <1>7 DEF StoreExpiry
    <3>1. CASE u = t
      BY <3>0, <3>1, FinishedTime
    <3>2. CASE u # t /\ cache[u] = c
      <4>1. pc'[u] = pc[u] /\ UNCHANGED <<cache[u], now[u], loaded[u]>>
        BY <3>0, <3>2, FinishedTime
      <4>2. ~ Holding(u) /\ pc[u] \notin {"wait", "query", "store", "expiry"}
        BY <1>0, <2>1, <3>2 DEF Holding
      <4> QED
        BY <1>0, <2>4, <3>2, <4>1, <4>2 DEF ThreadTime, Loading
    <3>3. CASE u # t /\ cache[u] # c
      <4>1. pc'[u] = pc[u] /\ UNCHANGED <<cache[u], now[u], loaded[u]>>
        BY <3>0, <3>3, FinishedTime
      <4>2. cache[u] \in Cache => expires_at'[cache[u]] = expires_at[cache[u]]
        BY <2>3, <3>3
      <4> QED
        BY <1>0, <2>4, <4>1, <4>2, TimeTypes DEF ThreadTime, Loading, Valid
    <3> QED
      BY <3>1, <3>2, <3>3
  <2> QED
    BY <2>5, <2>6 DEF TimeInv
<1>8. ASSUME NEW t \in Thread, GetConnection(t) PROVE TimeInv'
  <2>1. ThreadTime(t)'
    BY <1>8, <1>0, TimeTypes DEF GetConnection, ThreadTime, Loading, Valid
  <2> QED
    BY <1>8, <2>1, LocalStep, TimeTypes DEF GetConnection
<1>9. ASSUME NEW t \in Thread, RunQuery(t) PROVE TimeInv'
  <2>1. CASE Finish(t)
    BY <1>9, <2>1, FinishedTime, LocalStep DEF RunQuery
  <2>2. CASE /\ loaded' = [loaded EXCEPT ![t] = clock + setback] /\ Goto(t, "store")
             /\ cache[t] # NoCache /\ UNCHANGED <<cache, now>>
    <3>0. cache[t] \in Cache /\ CacheTime(cache[t])
      BY <2>2, TimeTypes DEF TimeInv
    <3>1. loaded'[t] = clock + setback /\ UNCHANGED <<clock, setback, value, expires_at>>
      BY <1>9, <2>2, TimeTypes DEF RunQuery
    <3>2. pc[t] = "query" /\ pc'[t] = "store"
      BY <1>9, <2>2, TimeTypes DEF RunQuery
    <3>3. ThreadTime(t)'
      BY <1>0, <2>2, <3>0, <3>1, <3>2, TimeTypes DEF ThreadTime, CacheTime, Loading, Valid
    <3> QED
      BY <1>9, <2>2, <3>3, LocalStep, TimeTypes DEF RunQuery
  <2> QED
    BY <1>9, <2>1, <2>2 DEF RunQuery
<1>10. ASSUME NEW t \in Thread, Fail(t) PROVE TimeInv'
  BY <1>10, FinishedTime, LocalStep DEF Fail
<1>11. CASE Tick \/ SetClockBack
  <2>1. RealTime' >= RealTime /\ UNCHANGED <<value, expires_at, pc, cache, now, loaded>>
    BY <1>11, TimeTypes DEF Tick, SetClockBack, RealTime
  <2>2. RealTime \in Int /\ RealTime' \in Int
    <3>1. clock \in Nat /\ setback \in Nat /\ clock' \in Nat /\ setback' \in Nat
      BY DEF TypeOK
    <3> QED
      BY <3>1
  <2>3. \A n : n \in Int /\ n <= RealTime => n <= RealTime'
    BY <2>1, <2>2
  <2> HIDE DEF RealTime
  <2>4. ASSUME NEW c \in Cache PROVE CacheTime(c)'
    BY <2>1, <2>3, TimeTypes DEF TimeInv, CacheTime
  <2>5. ASSUME NEW t \in Thread PROVE ThreadTime(t)'
    BY <1>0, <2>1, <2>3, TimeTypes DEF ThreadTime, Loading, Valid
  <2> QED
    BY <2>4, <2>5 DEF TimeInv
<1>12. CASE UNCHANGED vars
  BY <1>12 DEF vars, TimeInv, CacheTime, ThreadTime, Loading, Valid, RealTime
<1> QED
  BY <1>1, <1>2, <1>3, <1>4, <1>5, <1>6, <1>7, <1>8, <1>9, <1>10, <1>11, <1>12
  DEF Next, Step

\* A step that changes a cached value stores a reading that is no older.
LEMMA ValueStep ==
    ASSUME TypeOK, LockInv, TimeInv, [Next]_vars, NEW c \in Cache
    PROVE  value'[c] >= value[c]
<1>1. ASSUME NEW t \in Thread, StoreValue(t) PROVE value'[c] >= value[c]
  <2>1. CASE cache[t] = c
    <3>1. pc[t] = "store" /\ c # NoCache /\ value'[c] = loaded[t]
      BY <1>1, <2>1, WebCacheAssumption, TimeTypes DEF StoreValue
    <3>2. value[c] <= loaded[t]
      BY <2>1, <3>1 DEF TimeInv, ThreadTime
    <3> QED
      BY <3>1, <3>2, TimeTypes
  <2>2. CASE cache[t] # c
    BY <1>1, <2>2, TimeTypes DEF StoreValue
  <2> QED
    BY <2>1, <2>2
<1>2. CASE UNCHANGED value
  BY <1>2, TimeTypes
<1> QED
  BY <1>1, <1>2
  DEF Next, Step, AskCache, AskDirectly, CheckUnlocked, Hit, Lock, StoreExpiry,
      GetConnection, RunQuery, Fail, Tick, SetClockBack, vars, shared

(***************************************************************************)
(* The theorems.                                                           *)
(***************************************************************************)
LEMMA Invariants == Spec => [](TypeOK /\ LockInv /\ TimeInv)
<1>1. Init => LockInv
  BY DEF Init, LockInv, Holding
<1>2. Init => TimeInv
  BY DEF Init, TimeInv, CacheTime, ThreadTime, Loading, RealTime, None
<1>3. TypeOK /\ LockInv /\ [Next]_vars => LockInv'
  BY LockStep
<1>4. TypeOK /\ TypeOK' /\ LockInv /\ TimeInv /\ [Next]_vars => TimeInv'
  BY TimeStep
<1> QED
  BY TypeCorrect, <1>1, <1>2, <1>3, <1>4, PTL DEF Spec

\* Whatever other threads store between the unlocked test and the return, a
\* request is never served a value that was older than the time to live, and
\* what the clock was set back by.
THEOREM AlwaysServedFresh == Spec => []ServedFresh
<1>1. TimeInv => ServedFresh
  BY DEF TimeInv, ThreadTime, ServedFresh
<1> QED
  BY <1>1, Invariants, PTL

\* A loader runs alone and only when the value was out of date, so the requests
\* that queued behind it are served from what it stored.
THEOREM LoadsOnlyWhenDue == Spec => []LoadsWhenDue
<1>1. LockInv /\ TimeInv => LoadsWhenDue
  BY DEF LockInv, TimeInv, ThreadTime, LoadsWhenDue, Loading, Holding
<1> QED
  BY <1>1, Invariants, PTL

\* No order of queries and stores takes a cache back to an older reading.
THEOREM CacheNeverOlder == Spec => NeverOlder
<1>1. TypeOK /\ LockInv /\ TimeInv /\ [Next]_vars
        => [\A c \in Cache : value'[c] >= value[c]]_vars
  BY ValueStep
<1> QED
  BY <1>1, Invariants, PTL DEF Spec, NeverOlder

(***************************************************************************)
(* Waiting.  The queue of the pool holds exactly the threads that wait for *)
(* a connection, each once, and the owner of a lock is at work on the      *)
(* cache that the lock is for.                                             *)
(***************************************************************************)
QueueExact(queue, at) ==
    /\ \A i \in 1..Len(queue) : at[queue[i]] = "wait"
    /\ \A i, j \in 1..Len(queue) : queue[i] = queue[j] => i = j
    /\ \A t \in Thread : at[t] = "wait" => \E i \in 1..Len(queue) : queue[i] = t

OwnersAtWork ==
    \A c \in Cache : owner[c] # NoThread =>
        /\ cache[owner[c]] = c
        /\ pc[owner[c]] \in {"hit", "wait", "query", "store", "expiry"}

\* A thread that begins to wait goes to the end of the queue.
LEMMA JoinQueue ==
    ASSUME NEW queue \in Seq(Thread), NEW at \in [Thread -> PC], QueueExact(queue, at),
           NEW t \in Thread, at[t] # "wait"
    PROVE  QueueExact(Append(queue, t), [at EXCEPT ![t] = "wait"])
<1> DEFINE q == Append(queue, t)  a == [at EXCEPT ![t] = "wait"]
<1>1. /\ Len(q) = Len(queue) + 1 /\ q[Len(q)] = t
      /\ \A i \in 1..Len(queue) : q[i] = queue[i] /\ queue[i] \in Thread /\ queue[i] # t
  BY DEF QueueExact
<1>2. a[t] = "wait" /\ \A u \in Thread \ {t} : a[u] = at[u]
  OBVIOUS
<1>3. Len(queue) \in Nat
  OBVIOUS
<1> HIDE DEF q, a
<1>4. \A i \in 1..Len(q) : i \in 1..Len(queue) \/ i = Len(q)
  BY <1>1, <1>3
<1>5. \A i \in 1..Len(q) : a[q[i]] = "wait"
  BY <1>1, <1>2, <1>4 DEF QueueExact
<1>6. \A i, j \in 1..Len(q) : q[i] = q[j] => i = j
  BY <1>1, <1>4 DEF QueueExact
<1>7. ASSUME NEW u \in Thread, a[u] = "wait" PROVE \E i \in 1..Len(q) : q[i] = u
  <2>1. CASE u = t
    BY <1>1, <1>3, <2>1
  <2>2. CASE u # t
    <3>1. PICK i \in 1..Len(queue) : queue[i] = u
      BY <1>2, <1>7, <2>2 DEF QueueExact
    <3> QED
      BY <1>1, <1>3, <3>1
  <2> QED
    BY <2>1, <2>2
<1> QED
  BY <1>5, <1>6, <1>7 DEF QueueExact, q, a

\* A queue without its i-th entry.
LEMMA WithoutOne ==
    ASSUME NEW queue \in Seq(Thread), NEW i \in 1..Len(queue)
    PROVE  LET q == SubSeq(queue, 1, i - 1) \o SubSeq(queue, i + 1, Len(queue))
           IN  /\ q \in Seq(Thread) /\ Len(q) = Len(queue) - 1
               /\ \A k \in 1..Len(q) : q[k] = IF k < i THEN queue[k] ELSE queue[k + 1]
<1> DEFINE f == SubSeq(queue, 1, i - 1)  r == SubSeq(queue, i + 1, Len(queue))  q == f \o r
<1>0. Len(queue) \in Nat
  OBVIOUS
<1>1. f \in Seq(Thread) /\ Len(f) = i - 1 /\ \A k \in 1..i - 1 : f[k] = queue[k]
  OBVIOUS
<1>2. r \in Seq(Thread) /\ Len(r) = Len(queue) - i /\ \A k \in 1..Len(queue) - i : r[k] = queue[k + i]
  OBVIOUS
<1> HIDE DEF f, r
<1>3. q \in Seq(Thread) /\ Len(q) = Len(f) + Len(r)
  BY <1>1, <1>2, ConcatProperties
<1>4. \A k \in 1..Len(f) + Len(r) : q[k] = IF k <= Len(f) THEN f[k] ELSE r[k - Len(f)]
  BY <1>1, <1>2, ConcatProperties
<1> HIDE DEF q
<1>7. ASSUME NEW k \in 1..Len(q) PROVE q[k] = IF k < i THEN queue[k] ELSE queue[k + 1]
  <2>1. CASE k < i
    BY <1>0, <1>1, <1>2, <1>3, <1>4, <2>1
  <2>2. CASE k >= i
    <3>1. k - Len(f) \in 1..Len(queue) - i /\ q[k] = r[k - Len(f)]
      BY <1>0, <1>1, <1>2, <1>3, <1>4, <2>2
    <3>2. q[k] = queue[(k - Len(f)) + i] /\ (k - Len(f)) + i = k + 1
      BY <1>0, <1>1, <1>2, <1>3, <3>1
    <3> QED
      BY <1>0, <2>2, <3>2
  <2> QED
    BY <1>0, <2>1, <2>2
<1> QED
  <2>1. Len(q) = Len(queue) - 1
    BY <1>0, <1>1, <1>2, <1>3
  <2> QED
    BY <1>3, <1>7, <2>1 DEF q, f, r

\* A thread that stops waiting leaves the others in the queue as they are.
LEMMA QuitQueue ==
    ASSUME NEW queue \in Seq(Thread), NEW at \in [Thread -> PC], QueueExact(queue, at),
           NEW i \in 1..Len(queue), NEW q \in Seq(Thread), Len(q) = Len(queue) - 1,
           \A k \in 1..Len(q) : q[k] = IF k < i THEN queue[k] ELSE queue[k + 1],
           NEW next \in PC \ {"wait"}
    PROVE  QueueExact(q, [at EXCEPT ![queue[i]] = next])
<1> DEFINE t == queue[i]  a == [at EXCEPT ![t] = next]  Old(k) == IF k < i THEN k ELSE k + 1
<1>1. t \in Thread /\ a[t] = next /\ \A u \in Thread \ {t} : a[u] = at[u]
  OBVIOUS
<1>2. Len(queue) \in Nat /\ \A k \in 1..Len(queue) : queue[k] \in Thread
  OBVIOUS
<1>3. \A k \in 1..Len(q) : Old(k) \in 1..Len(queue) /\ Old(k) # i /\ q[k] = queue[Old(k)]
  BY <1>2
<1>4. \A k, l \in 1..Len(q) : Old(k) = Old(l) => k = l
  BY <1>2
<1>5. \A k \in 1..Len(queue) \ {i} : \E l \in 1..Len(q) : Old(l) = k
  <2> TAKE k \in 1..Len(queue) \ {i}
  <2>1. CASE k < i
    <3>1. k \in 1..Len(q) /\ Old(k) = k
      BY <1>2, <2>1
    <3> QED
      BY <3>1
  <2>2. CASE k > i
    <3>1. k - 1 \in 1..Len(q) /\ Old(k - 1) = k
      BY <1>2, <2>2
    <3> QED
      BY <3>1
  <2> QED
    BY <2>1, <2>2
<1> HIDE DEF t, a, Old
<1>6. \A k \in 1..Len(queue) \ {i} : queue[k] # t
  BY DEF QueueExact, t
<1>7. \A k \in 1..Len(q) : a[q[k]] = "wait"
  BY <1>1, <1>2, <1>3, <1>6 DEF QueueExact
<1>8. \A k, l \in 1..Len(q) : q[k] = q[l] => k = l
  BY <1>3, <1>4 DEF QueueExact
<1>9. ASSUME NEW u \in Thread, a[u] = "wait" PROVE \E k \in 1..Len(q) : q[k] = u
  <2>1. u # t /\ at[u] = "wait"
    BY <1>1, <1>9
  <2>2. PICK k \in 1..Len(queue) : queue[k] = u
    BY <2>1 DEF QueueExact
  <2>3. k # i
    BY <2>1, <2>2 DEF t
  <2>4. PICK l \in 1..Len(q) : Old(l) = k
    BY <1>5, <2>3
  <2> QED
    BY <1>3, <2>2, <2>4
<1> QED
  BY <1>7, <1>8, <1>9 DEF QueueExact, a, t

\* A thread that does not wait before or after its step is not in the queue.
LEMMA OutsideQueue ==
    ASSUME NEW queue \in Seq(Thread), NEW at \in [Thread -> PC], QueueExact(queue, at),
           NEW t \in Thread, at[t] # "wait", NEW next \in PC \ {"wait"}
    PROVE  QueueExact(queue, [at EXCEPT ![t] = next])
<1> DEFINE a == [at EXCEPT ![t] = next]
<1>1. a[t] = next /\ \A u \in Thread \ {t} : a[u] = at[u]
  OBVIOUS
<1>2. \A i \in 1..Len(queue) : queue[i] \in Thread /\ queue[i] # t
  BY DEF QueueExact
<1> HIDE DEF a
<1> QED
  BY <1>1, <1>2 DEF QueueExact, a

\* Every step keeps the queue exact.
LEMMA QueueStep ==
    TypeOK /\ QueueExact(waiting, pc) /\ [Next]_vars => QueueExact(waiting', pc')
<1> SUFFICES ASSUME TypeOK, QueueExact(waiting, pc), [Next]_vars
             PROVE  QueueExact(waiting', pc')
  OBVIOUS
<1> USE DEF Goto, Finish
<1>0. waiting \in Seq(Thread) /\ pc \in [Thread -> PC]
  BY DEF TypeOK
<1>p. {"idle", "check", "hit", "lock", "query", "store", "expiry"} \subseteq PC \ {"wait"}
  BY DEF PC
<1>o. ASSUME NEW t \in Thread, pc[t] # "wait", NEW next \in PC \ {"wait"},
             Goto(t, next), UNCHANGED waiting
      PROVE  QueueExact(waiting', pc')
  BY <1>0, <1>o, OutsideQueue
<1>j. ASSUME NEW t \in Thread, pc[t] # "wait", Goto(t, "wait"), waiting' = Append(waiting, t)
      PROVE  QueueExact(waiting', pc')
  BY <1>0, <1>j, JoinQueue
<1>q. ASSUME NEW i \in 1..Len(waiting), NEW next \in PC \ {"wait"}, Goto(waiting[i], next),
             waiting' = SubSeq(waiting, 1, i - 1) \o SubSeq(waiting, i + 1, Len(waiting))
      PROVE  QueueExact(waiting', pc')
  <2>1. /\ waiting' \in Seq(Thread) /\ Len(waiting') = Len(waiting) - 1
        /\ \A k \in 1..Len(waiting') :
              waiting'[k] = IF k < i THEN waiting[k] ELSE waiting[k + 1]
    BY <1>0, <1>q, WithoutOne
  <2> QED
    BY <1>0, <1>q, <2>1, QuitQueue
<1>1. ASSUME NEW t \in Thread, NEW c \in Cache, AskCache(t, c) PROVE QueueExact(waiting', pc')
  BY <1>1, <1>o, <1>p DEF AskCache
<1>2. ASSUME NEW t \in Thread, AskDirectly(t) PROVE QueueExact(waiting', pc')
  BY <1>2, <1>j DEF AskDirectly
<1>3. ASSUME NEW t \in Thread, CheckUnlocked(t) PROVE QueueExact(waiting', pc')
  BY <1>3, <1>o, <1>p DEF CheckUnlocked
<1>4. ASSUME NEW t \in Thread, Hit(t) PROVE QueueExact(waiting', pc')
  BY <1>4, <1>o, <1>p DEF Hit
<1>5. ASSUME NEW t \in Thread, Lock(t) PROVE QueueExact(waiting', pc')
  BY <1>5, <1>o, <1>j, <1>p DEF Lock
<1>6. ASSUME NEW t \in Thread, StoreValue(t) PROVE QueueExact(waiting', pc')
  BY <1>6, <1>o, <1>p DEF StoreValue
<1>7. ASSUME NEW t \in Thread, StoreExpiry(t) PROVE QueueExact(waiting', pc')
  BY <1>7, <1>o, <1>p DEF StoreExpiry
<1>8. ASSUME NEW t \in Thread, GetConnection(t) PROVE QueueExact(waiting', pc')
  <2>1. /\ 1 \in 1..Len(waiting) /\ waiting[1] = t
        /\ waiting' \in Seq(Thread) /\ Len(waiting') = Len(waiting) - 1
        /\ \A k \in 1..Len(waiting') :
              waiting'[k] = IF k < 1 THEN waiting[k] ELSE waiting[k + 1]
    BY <1>0, <1>8 DEF GetConnection
  <2>2. pc' = [pc EXCEPT ![waiting[1]] = "query"]
    BY <1>8, <2>1 DEF GetConnection
  <2> QED
    BY <1>0, <1>p, <2>1, <2>2, QuitQueue
<1>9. ASSUME NEW t \in Thread, RunQuery(t) PROVE QueueExact(waiting', pc')
  BY <1>9, <1>o, <1>p DEF RunQuery
<1>10. ASSUME NEW t \in Thread, Fail(t) PROVE QueueExact(waiting', pc')
  <2>1. CASE LeaveQueue(t)
    <3>1. PICK i \in 1..Len(waiting) :
            /\ waiting[i] = t
            /\ waiting' = SubSeq(waiting, 1, i - 1) \o SubSeq(waiting, i + 1, Len(waiting))
      <4>1. DOMAIN waiting = 1..Len(waiting)
        BY <1>0
      <4> QED
        BY <2>1, <4>1 DEF LeaveQueue
    <3>2. Goto(waiting[i], "idle")
      BY <1>10, <3>1 DEF Fail
    <3> QED
      BY <1>q, <1>p, <3>1, <3>2
  <2>2. CASE pc[t] = "query" /\ UNCHANGED waiting
    BY <1>10, <1>o, <1>p, <2>2 DEF Fail
  <2> QED
    BY <1>10, <2>1, <2>2 DEF Fail
<1>11. CASE Tick \/ SetClockBack
  BY <1>11 DEF Tick, SetClockBack
<1>12. CASE UNCHANGED vars
  BY <1>12 DEF vars
<1> QED
  BY <1>1, <1>2, <1>3, <1>4, <1>5, <1>6, <1>7, <1>8, <1>9, <1>10, <1>11, <1>12
  DEF Next, Step

\* Every step leaves each lock to a thread that is at work on its cache.
LEMMA OwnersStep == TypeOK /\ OwnersAtWork /\ [Next]_vars => OwnersAtWork'
<1> SUFFICES ASSUME TypeOK, OwnersAtWork, [Next]_vars, NEW c \in Cache, owner'[c] # NoThread
             PROVE  /\ cache'[owner'[c]] = c
                    /\ pc'[owner'[c]] \in {"hit", "wait", "query", "store", "expiry"}
  BY DEF OwnersAtWork
<1> USE WebCacheAssumption DEF times, shared, locals, Goto
<1> DEFINE AtWork(t) == /\ cache'[t] = c
                        /\ pc'[t] \in {"hit", "wait", "query", "store", "expiry"}
<1>0. /\ pc \in [Thread -> PC] /\ owner \in [Cache -> Thread \cup {NoThread}]
      /\ cache \in [Thread -> Cache \cup {NoCache}]
  BY DEF TypeOK
<1>a. owner[c] # NoThread => /\ owner[c] \in Thread /\ cache[owner[c]] = c
                             /\ pc[owner[c]] \in {"hit", "wait", "query", "store", "expiry"}
  BY <1>0 DEF OwnersAtWork
<1>f. ASSUME NEW t \in Thread, Finish(t), Release(t) PROVE AtWork(owner'[c])
  <2>1. owner[c] # t /\ owner'[c] = owner[c]
    BY <1>0, <1>f DEF Release
  <2> QED
    BY <1>0, <1>a, <1>f, <2>1 DEF Finish
<1>1. ASSUME NEW t \in Thread, NEW d \in Cache, AskCache(t, d) PROVE AtWork(owner'[c])
  BY <1>0, <1>a, <1>1 DEF AskCache
<1>2. ASSUME NEW t \in Thread, AskDirectly(t) PROVE AtWork(owner'[c])
  BY <1>0, <1>a, <1>2 DEF AskDirectly
<1>3. ASSUME NEW t \in Thread, CheckUnlocked(t) PROVE AtWork(owner'[c])
  BY <1>0, <1>a, <1>3 DEF CheckUnlocked
<1>4. ASSUME NEW t \in Thread, Hit(t) PROVE AtWork(owner'[c])
  BY <1>4, <1>f DEF Hit
<1>5. ASSUME NEW t \in Thread, Lock(t) PROVE AtWork(owner'[c])
  <2>1. PICK next \in {"hit", "wait"} : Goto(t, next)
    BY <1>5 DEF Lock
  <2>2. CASE c = cache[t]
    BY <1>0, <1>5, <2>1, <2>2 DEF Lock
  <2>3. CASE c # cache[t]
    <3>1. owner'[c] = owner[c] /\ owner[c] # t
      BY <1>0, <1>a, <1>5, <2>3 DEF Lock
    <3> QED
      BY <1>0, <1>a, <1>5, <2>1, <3>1 DEF Lock
  <2> QED
    BY <2>2, <2>3
<1>6. ASSUME NEW t \in Thread, StoreValue(t) PROVE AtWork(owner'[c])
  BY <1>0, <1>a, <1>6 DEF StoreValue
<1>7. ASSUME NEW t \in Thread, StoreExpiry(t) PROVE AtWork(owner'[c])
  BY <1>7, <1>f DEF StoreExpiry
<1>8. ASSUME NEW t \in Thread, GetConnection(t) PROVE AtWork(owner'[c])
  BY <1>0, <1>a, <1>8 DEF GetConnection
<1>9. ASSUME NEW t \in Thread, RunQuery(t) PROVE AtWork(owner'[c])
  <2>1. CASE cache[t] = NoCache /\ Finish(t)
    BY <1>0, <1>a, <1>9, <2>1 DEF RunQuery, Finish
  <2>2. CASE Goto(t, "store") /\ UNCHANGED cache
    BY <1>0, <1>a, <1>9, <2>2 DEF RunQuery
  <2> QED
    BY <1>9, <2>1, <2>2 DEF RunQuery
<1>10. ASSUME NEW t \in Thread, Fail(t) PROVE AtWork(owner'[c])
  BY <1>10, <1>f DEF Fail
<1>11. CASE Tick \/ SetClockBack
  BY <1>a, <1>11 DEF Tick, SetClockBack
<1>12. CASE UNCHANGED vars
  BY <1>a, <1>12 DEF vars
<1> QED
  BY <1>1, <1>2, <1>3, <1>4, <1>5, <1>6, <1>7, <1>8, <1>9, <1>10, <1>11, <1>12
  DEF Next, Step

\* A wait for a lock ends at a thread that has it, one in the queue at its head, and
\* one at the head at a thread that has a connection and waits for nothing.
LEMMA WaitsDescend ==
    ASSUME TypeOK, QueueExact(waiting, pc), OwnersAtWork,
           \A w \in Thread : pc[w] = "lock" => cache[w] \in Cache,
           NEW t \in Thread, NEW u \in WaitsFor(t)
    PROVE  u \in Thread /\ pc[u] # "idle" /\ Depth(u) < Depth(t)
<1>0. /\ pc \in [Thread -> PC] /\ owner \in [Cache -> Thread \cup {NoThread}]
      /\ cache \in [Thread -> Cache \cup {NoCache}] /\ waiting \in Seq(Thread)
  BY DEF TypeOK
<1>1. \A w \in Thread : pc[w] = "wait" => Head(waiting) \in Thread /\ pc[Head(waiting)] = "wait"
  <2> TAKE w \in Thread
  <2> HAVE pc[w] = "wait"
  <2>1. PICK i \in 1..Len(waiting) : waiting[i] = w
    BY DEF QueueExact
  <2>2. 1 \in 1..Len(waiting) /\ Head(waiting) = waiting[1] /\ waiting[1] \in Thread
    BY <1>0, <2>1
  <2> QED
    BY <2>2 DEF QueueExact
<1>2. CASE pc[t] = "lock"
  <2>1. u = owner[cache[t]] /\ u # NoThread /\ Depth(t) = 3
    BY <1>2 DEF WaitsFor, Depth
  <2>2. cache[t] \in Cache
    BY <1>2
  <2>3. u \in Thread /\ pc[u] \in {"hit", "wait", "query", "store", "expiry"}
    BY <1>0, <2>1, <2>2 DEF OwnersAtWork
  <2>4. Depth(u) \in {0, 1, 2}
    BY <2>3 DEF Depth
  <2> QED
    BY <2>1, <2>3, <2>4
<1>3. CASE pc[t] = "wait" /\ Head(waiting) # t
  <2>1. u = Head(waiting) /\ Depth(t) = 2
    BY <1>3 DEF WaitsFor, Depth
  <2>2. u \in Thread /\ pc[u] = "wait" /\ Depth(u) = 1
    BY <1>1, <1>3, <2>1 DEF Depth
  <2> QED
    BY <2>1, <2>2
<1>4. CASE pc[t] = "wait" /\ Head(waiting) = t
  <2>1. u \in Connected /\ Depth(t) = 1
    BY <1>4 DEF WaitsFor, Depth
  <2>2. u \in Thread /\ pc[u] = "query" /\ Depth(u) = 0
    BY <2>1 DEF Connected, Depth
  <2> QED
    BY <2>1, <2>2
<1>5. CASE pc[t] \notin {"lock", "wait"}
  BY <1>5 DEF WaitsFor
<1> QED
  BY <1>2, <1>3, <1>4, <1>5

\* Locks and pooled connections are never waited for in a circle, with any number
\* of threads, caches and connections: every chain of waits ends at a thread that
\* runs.
THEOREM WaitsEnd == Spec => []NoCircularWait
<1>1. Init => QueueExact(waiting, pc) /\ OwnersAtWork
  BY DEF Init, QueueExact, OwnersAtWork
<1>2. TypeOK /\ LockInv /\ QueueExact(waiting, pc) /\ OwnersAtWork => NoCircularWait
  <2> SUFFICES ASSUME TypeOK, LockInv, QueueExact(waiting, pc), OwnersAtWork PROVE NoCircularWait
    OBVIOUS
  <2>1. \A w \in Thread : pc[w] = "lock" => cache[w] \in Cache
    BY DEF LockInv
  <2> QED
    BY <2>1, WaitsDescend DEF NoCircularWait
<1>3. TypeOK /\ QueueExact(waiting, pc) /\ [Next]_vars => QueueExact(waiting', pc')
  BY QueueStep
<1>4. TypeOK /\ OwnersAtWork /\ [Next]_vars => OwnersAtWork'
  BY OwnersStep
<1> DEFINE Inv == QueueExact(waiting, pc) /\ OwnersAtWork
<1>5. TypeOK /\ Inv /\ [Next]_vars => Inv'
  BY <1>3, <1>4
<1>6. Init => Inv
  BY <1>1
<1>7. TypeOK /\ LockInv /\ Inv => NoCircularWait
  BY <1>2
<1> HIDE DEF Inv
<1> QED
  BY TypeCorrect, Invariants, <1>5, <1>6, <1>7, PTL DEF Spec
================================================================================
