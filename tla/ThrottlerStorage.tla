-------------------------- MODULE ThrottlerStorage --------------------------
(* InMemoryThrottlerStorage (src/throttler/storage.ts): a Map of counters, *)
(* each with an eviction timer of the event loop.                          *)
EXTENDS Naturals

CONSTANTS
    Keys,      \* the callers and routes that are told apart
    Ttls,      \* the durations of windows, in milliseconds
    MaxDelay,  \* the longest delay setTimeout can wait for, 2^31 - 1
    LastHit,   \* bound: no hit after this time
    MaxTime,   \* bound: the clock stops here
    MaxHits,   \* bound: hits of a key within one window
    None       \* an absent record

ASSUME TtlsAssumption == Ttls \subseteq Nat
ASSUME BoundsAssumption ==
    /\ MaxDelay \in Nat /\ MaxHits \in Nat
    /\ LastHit \in Nat /\ MaxTime \in Nat
    /\ \A ttl \in Ttls : LastHit + ttl <= MaxTime

(* No duration is longer than setTimeout's longest delay, so that none     *)
(* wraps around.  The theorems need it, the runs meet it.                  *)
TtlsFit == \A ttl \in Ttls : ttl <= MaxDelay

VARIABLES
    now,      \* Date.now()
    records,  \* the Map
    timers,   \* the event loop's pending timers
    lastId,   \* the id of the last timer that was set
    reply,    \* what the last increment returned
    closed    \* whether onAppClose has run

storageVars == <<now, records, timers, lastId, reply, closed>>

Record == [totalHits : Nat, expiresAt : Nat, timeoutId : Nat]
Timer == [id : Nat, key : Keys, due : Nat]
Reply == [totalHits : Nat, timeToExpire : Nat]
Window == [hits : Nat, until : Nat]

ASSUME NoneAssumption == None \notin Record /\ None \notin Window

StorageInit ==
    /\ now = 0
    /\ records = [k \in Keys |-> None]
    /\ timers = {}
    /\ lastId = 0
    /\ reply = None
    /\ closed = FALSE

-----------------------------------------------------------------------------
(* setTimeout and clearTimeout.  A delay is a signed integer: one that     *)
(* does not fit wraps around, and a negative delay does not wait.          *)
Delay(ttl) ==
    LET wrapped == ttl % (2 * (MaxDelay + 1)) IN
    IF wrapped > MaxDelay THEN 0 ELSE wrapped

NewTimer(k, ttl) == [id |-> lastId + 1, key |-> k, due |-> now + Delay(ttl)]
Cleared(set, id) == {tm \in set : tm.id # id}

(* Mutant: a window ends one tick late, its timer does not.                *)
LiveLate(k) == records[k] # None /\ records[k].expiresAt >= now

Live(k) == records[k] # None /\ records[k].expiresAt > now

CountHit(k) ==
    /\ Live(k)
    /\ now <= LastHit /\ records[k].totalHits < MaxHits
    /\ records' = [records EXCEPT ![k].totalHits = @ + 1]
    /\ reply' = [totalHits |-> records[k].totalHits + 1,
                 timeToExpire |-> records[k].expiresAt - now]
    /\ UNCHANGED <<now, timers, lastId, closed>>

(* Mutants: the timer of the window before is not cleared; a timer is only *)
(* set for a key that has no record.                                       *)
OpenWindowUncleared(k, ttl) ==
    /\ ~ Live(k)
    /\ now <= LastHit
    /\ lastId' = lastId + 1
    /\ timers' = timers \cup {NewTimer(k, ttl)}
    /\ records' = [records EXCEPT ![k] =
                     [totalHits |-> 1, expiresAt |-> now + ttl,
                      timeoutId |-> lastId + 1]]
    /\ reply' = [totalHits |-> 1, timeToExpire |-> ttl]
    /\ UNCHANGED <<now, closed>>

OpenWindowUntimed(k, ttl) ==
    /\ ~ Live(k)
    /\ now <= LastHit
    /\ lastId' = lastId + 1
    /\ timers' = IF records[k] = None THEN timers \cup {NewTimer(k, ttl)}
                 ELSE Cleared(timers, records[k].timeoutId)
    /\ records' = [records EXCEPT ![k] =
                     [totalHits |-> 1, expiresAt |-> now + ttl,
                      timeoutId |-> lastId + 1]]
    /\ reply' = [totalHits |-> 1, timeToExpire |-> ttl]
    /\ UNCHANGED <<now, closed>>

(* A new window, in the place of one that is over but not evicted yet.     *)
OpenWindow(k, ttl) ==
    /\ ~ Live(k)
    /\ now <= LastHit
    /\ lastId' = lastId + 1
    /\ timers' = {NewTimer(k, ttl)} \cup
                 (IF records[k] = None THEN timers
                  ELSE Cleared(timers, records[k].timeoutId))
    /\ records' = [records EXCEPT ![k] =
                     [totalHits |-> 1, expiresAt |-> now + ttl,
                      timeoutId |-> lastId + 1]]
    /\ reply' = [totalHits |-> 1, timeToExpire |-> ttl]
    /\ UNCHANGED <<now, closed>>

Increment(k, ttl) == CountHit(k) \/ OpenWindow(k, ttl)

(* Mutant: the timer is an interval, which stays when it has fired.        *)
EvictEvery(tm) ==
    /\ tm.due <= now
    /\ records' = [records EXCEPT ![tm.key] = None]
    /\ UNCHANGED <<now, timers, lastId, reply, closed>>

(* A due timer fires, perhaps late: the event loop may be busy.            *)
Evict(tm) ==
    /\ tm.due <= now
    /\ timers' = timers \ {tm}
    /\ records' = [records EXCEPT ![tm.key] = None]
    /\ UNCHANGED <<now, lastId, reply, closed>>

OnAppClose ==
    /\ ~ closed
    /\ closed' = TRUE
    /\ timers' = {tm \in timers : \A k \in Keys :
                    records[k] # None => records[k].timeoutId # tm.id}
    /\ records' = [k \in Keys |-> None]
    /\ UNCHANGED <<now, lastId, reply>>

Tick ==
    /\ now < MaxTime
    /\ now' = now + 1
    /\ UNCHANGED <<records, timers, lastId, reply, closed>>

-----------------------------------------------------------------------------
(* The storage on its own, called with any key and duration at any time.   *)

StorageIdle == now = MaxTime /\ timers = {} /\ UNCHANGED storageVars

StorageNext ==
    \/ \E k \in Keys, ttl \in Ttls : Increment(k, ttl)
    \/ \E tm \in timers : Evict(tm)
    \/ OnAppClose
    \/ Tick
    \/ StorageIdle

(* Time passes, and the event loop fires every due timer.                  *)
EvictKey(k) == \E tm \in timers : tm.key = k /\ Evict(tm)
StorageFairness ==
    /\ WF_storageVars(Tick)
    /\ \A k \in Keys : WF_storageVars(EvictKey(k))

StorageSpec == StorageInit /\ [][StorageNext]_storageVars /\ StorageFairness

-----------------------------------------------------------------------------
(* The maps, the timers and the clock keep their types.                    *)
StorageTypeOK ==
    /\ now \in Nat
    /\ records \in [Keys -> Record \cup {None}]
    /\ timers \subseteq Timer
    /\ lastId \in Nat
    /\ reply \in Reply \cup {None}
    /\ closed \in BOOLEAN

(* A pending timer belongs to the record it will evict, and is due when    *)
(* that record's window is over: it never evicts a later window.  There is *)
(* a timer for every record: none is kept for ever.                        *)
TimersMatchRecords ==
    /\ \A tm \in timers :
         /\ records[tm.key] # None
         /\ records[tm.key].timeoutId = tm.id
         /\ records[tm.key].expiresAt = tm.due
    /\ \A k \in Keys : records[k] # None =>
         \E tm \in timers : tm.key = k

(* The live windows are those of FixedWindow: a timer that is late, early  *)
(* or replaced never shows in what increment answers.                      *)
LiveWindow(k) ==
    IF Live(k)
    THEN [hits |-> records[k].totalHits, until |-> records[k].expiresAt]
    ELSE None

Windows == INSTANCE FixedWindow WITH window <- [k \in Keys |-> LiveWindow(k)]

ImplementsFixedWindow == Windows!Spec

(* "expired entries are removed instead of leaking forever": no record     *)
(* stays once its window is over.                                          *)
Expiries == {t + d : t \in 0 .. LastHit, d \in Ttls}
Holds(k, e) == records[k] # None /\ records[k].expiresAt = e
RecordsEvicted ==
    \A k \in Keys, e \in Expiries : Holds(k, e) ~> ~ Holds(k, e)

=============================================================================
