-------------------------- MODULE ThrottlerProofs --------------------------
(* The in-memory storage implements fixed windows, for any keys and for    *)
(* any durations that setTimeout can wait for, and the guard over it keeps *)
(* the limits: the hits of one window are told 1, 2, ... n.                *)
EXTENDS Throttler, FiniteSetTheorems, TLAPS

LEMMA DelayFits ==
    ASSUME TtlsFit, NEW ttl \in Ttls
    PROVE  Delay(ttl) = ttl
<1>1. ttl \in Nat /\ MaxDelay \in Nat /\ ttl <= MaxDelay
  BY TtlsAssumption, BoundsAssumption DEF TtlsFit
<1>2. \A a, n \in Nat : a < n => a % n = a
  OBVIOUS
<1>3. ttl % (2 * (MaxDelay + 1)) = ttl
  BY <1>1, <1>2
<1> QED
  BY <1>1, <1>3 DEF Delay

-----------------------------------------------------------------------------
(* The inductive invariant: ids are fresh and no two records share one.    *)

IdsFresh ==
    \A k \in Keys : records[k] # None => records[k].timeoutId <= lastId
IdsDistinct ==
    \A j, k \in Keys :
        /\ records[j] # None /\ records[k] # None
        /\ records[j].timeoutId = records[k].timeoutId
        => j = k

StorageInv ==
    /\ StorageTypeOK /\ IdsFresh /\ IdsDistinct /\ TimersMatchRecords

LEMMA InitInv == StorageInit => StorageInv
<1> SUFFICES ASSUME StorageInit PROVE StorageInv
  OBVIOUS
<1>1. StorageTypeOK
  <2>1. now \in Nat /\ lastId \in Nat /\ timers \subseteq Timer
    BY DEF StorageInit
  <2>2. records \in [Keys -> Record \cup {None}] /\ reply \in Reply \cup {None}
    BY DEF StorageInit
  <2>3. closed \in BOOLEAN
    BY DEF StorageInit
  <2> QED
    BY <2>1, <2>2, <2>3 DEF StorageTypeOK
<1>2. IdsFresh /\ IdsDistinct /\ TimersMatchRecords
  BY DEF StorageInit, IdsFresh, IdsDistinct, TimersMatchRecords
<1> QED
  BY <1>1, <1>2 DEF StorageInv

LEMMA CountHitInv ==
    ASSUME StorageInv, NEW k \in Keys, CountHit(k)
    PROVE  StorageInv'
<1> DEFINE e == [records[k] EXCEPT !.totalHits = @ + 1]
<1>1. records[k] \in Record /\ records[k] # None
  BY DEF CountHit, Live, StorageInv, StorageTypeOK
<1>2. /\ e \in Record /\ e.expiresAt = records[k].expiresAt
      /\ e.timeoutId = records[k].timeoutId
  BY <1>1 DEF Record
<1>3. /\ records'[k] = e
      /\ \A j \in Keys : j # k => records'[j] = records[j]
      /\ records' \in [Keys -> Record \cup {None}]
  BY <1>1, <1>2 DEF CountHit, StorageInv, StorageTypeOK
<1>4. reply' \in Reply
  BY <1>1 DEF CountHit, Live, Reply, Record, StorageInv, StorageTypeOK
<1>5. UNCHANGED <<now, timers, lastId, closed>>
  BY DEF CountHit
<1> HIDE DEF e
<1>6. StorageTypeOK'
  BY <1>3, <1>4, <1>5 DEF StorageInv, StorageTypeOK
<1>7. \A j \in Keys : /\ (records'[j] = None) <=> (records[j] = None)
                      /\ records[j] # None =>
                           /\ records'[j].timeoutId = records[j].timeoutId
                           /\ records'[j].expiresAt = records[j].expiresAt
  BY <1>1, <1>2, <1>3, NoneAssumption
<1>8. \A tm \in timers : tm.key \in Keys
  BY DEF StorageInv, StorageTypeOK, Timer
<1>9. IdsFresh' /\ IdsDistinct'
  BY <1>5, <1>7 DEF StorageInv, IdsFresh, IdsDistinct
<1>10. TimersMatchRecords'
  BY <1>5, <1>7, <1>8 DEF StorageInv, TimersMatchRecords
<1> QED
  BY <1>6, <1>9, <1>10 DEF StorageInv

LEMMA OpenWindowInv ==
    ASSUME TtlsFit, StorageInv, NEW k \in Keys, NEW ttl \in Ttls,
           OpenWindow(k, ttl)
    PROVE  StorageInv'
<1> DEFINE e == [totalHits |-> 1, expiresAt |-> now + ttl,
                 timeoutId |-> lastId + 1]
           new == NewTimer(k, ttl)
           kept == IF records[k] = None THEN timers
                   ELSE Cleared(timers, records[k].timeoutId)
<1>1. now \in Nat /\ lastId \in Nat /\ ttl \in Nat
  BY TtlsAssumption DEF StorageInv, StorageTypeOK
<1>2. /\ e \in Record /\ e # None /\ e.timeoutId = lastId + 1
      /\ e.expiresAt = now + ttl
  BY <1>1, NoneAssumption DEF Record
<1>3. /\ records'[k] = e
      /\ \A j \in Keys : j # k => records'[j] = records[j]
      /\ records' \in [Keys -> Record \cup {None}]
  BY <1>2 DEF OpenWindow, StorageInv, StorageTypeOK
<1>4. /\ new \in Timer /\ new.key = k /\ new.id = lastId + 1
      /\ new.due = now + ttl
  BY <1>1, DelayFits DEF NewTimer, Timer
<1>5. timers' = {new} \cup kept /\ lastId' = lastId + 1 /\ kept \subseteq timers
  BY DEF OpenWindow, Cleared
<1>6. \A tm \in timers :
        /\ tm.key \in Keys /\ records[tm.key] # None
        /\ records[tm.key].timeoutId = tm.id
        /\ records[tm.key].expiresAt = tm.due
  BY DEF StorageInv, StorageTypeOK, Timer, TimersMatchRecords
<1>7. \A tm \in timers : tm \in kept <=> tm.key # k
  <2>1. ASSUME NEW tm \in timers, tm.key = k
        PROVE  tm \notin kept
    BY <1>6, <2>1 DEF Cleared
  <2>2. ASSUME NEW tm \in timers, tm.key # k
        PROVE  tm \in kept
    <3>1. CASE records[k] = None
      BY <3>1
    <3>2. CASE records[k] # None
      <4>1. tm.id # records[k].timeoutId
        BY <1>6, <2>2, <3>2 DEF StorageInv, IdsDistinct
      <4> QED
        BY <3>2, <4>1 DEF Cleared
    <3> QED
      BY <3>1, <3>2
  <2> QED
    BY <2>1, <2>2
<1>8. reply' \in Reply /\ now' = now /\ closed' = closed
  BY <1>1 DEF OpenWindow, Reply
<1> HIDE DEF e, new, kept
<1>9. StorageTypeOK'
  BY <1>1, <1>3, <1>4, <1>5, <1>8 DEF StorageInv, StorageTypeOK
<1>10. \A j \in Keys : records[j] # None => records[j].timeoutId \in Nat
  BY DEF StorageInv, StorageTypeOK, Record
<1>11. IdsFresh' /\ IdsDistinct'
  BY <1>1, <1>2, <1>3, <1>5, <1>10 DEF StorageInv, IdsFresh, IdsDistinct
<1>12. TimersMatchRecords'
  <2>1. \A tm \in timers' :
          /\ records'[tm.key] # None
          /\ records'[tm.key].timeoutId = tm.id
          /\ records'[tm.key].expiresAt = tm.due
    BY <1>2, <1>3, <1>4, <1>5, <1>6, <1>7
  <2>2. ASSUME NEW j \in Keys, records'[j] # None
        PROVE  \E tm \in timers' : tm.key = j
    <3>1. CASE j = k
      BY <1>4, <1>5, <3>1
    <3>2. CASE j # k
      <4>1. PICK tm \in timers : tm.key = j
        BY <1>3, <2>2, <3>2 DEF StorageInv, TimersMatchRecords
      <4> QED
        BY <1>5, <1>7, <3>2, <4>1
    <3> QED
      BY <3>1, <3>2
  <2> QED
    BY <2>1, <2>2 DEF TimersMatchRecords
<1> QED
  BY <1>9, <1>11, <1>12 DEF StorageInv

LEMMA EvictInv ==
    ASSUME StorageInv, NEW tm \in timers, Evict(tm)
    PROVE  StorageInv'
<1>1. /\ tm \in Timer /\ tm.key \in Keys
      /\ records'[tm.key] = None
      /\ \A j \in Keys : j # tm.key => records'[j] = records[j]
      /\ records' \in [Keys -> Record \cup {None}]
  BY DEF Evict, StorageInv, StorageTypeOK, Timer
<1>2. timers' = timers \ {tm} /\ UNCHANGED <<now, lastId, reply, closed>>
  BY DEF Evict
<1>3. StorageTypeOK'
  BY <1>1, <1>2 DEF StorageInv, StorageTypeOK
<1>4. IdsFresh' /\ IdsDistinct'
  BY <1>1, <1>2 DEF StorageInv, IdsFresh, IdsDistinct
<1>5. \A u \in timers : u.key = tm.key => u = tm
  BY DEF StorageInv, StorageTypeOK, Timer, TimersMatchRecords
<1>6. \A u \in timers : u.key \in Keys
  BY DEF StorageInv, StorageTypeOK, Timer
<1>7. TimersMatchRecords'
  BY <1>1, <1>2, <1>5, <1>6 DEF StorageInv, TimersMatchRecords
<1> QED
  BY <1>3, <1>4, <1>7 DEF StorageInv

LEMMA OnAppCloseInv ==
    ASSUME StorageInv, OnAppClose
    PROVE  StorageInv'
<1>1. \A j \in Keys : records'[j] = None
  BY DEF OnAppClose
<1>2. timers' = {}
  <2>1. \A tm \in timers : /\ tm.key \in Keys /\ records[tm.key] # None
                           /\ records[tm.key].timeoutId = tm.id
    BY DEF StorageInv, StorageTypeOK, Timer, TimersMatchRecords
  <2> QED
    BY <2>1 DEF OnAppClose
<1>3. StorageTypeOK'
  <2>1. records' \in [Keys -> Record \cup {None}] /\ UNCHANGED <<now, lastId, reply>>
    BY DEF OnAppClose
  <2>2. closed' \in BOOLEAN
    BY DEF OnAppClose
  <2> QED
    BY <1>2, <2>1, <2>2 DEF StorageInv, StorageTypeOK
<1>4. IdsFresh' /\ IdsDistinct' /\ TimersMatchRecords'
  BY <1>1, <1>2 DEF IdsFresh, IdsDistinct, TimersMatchRecords
<1> QED
  BY <1>3, <1>4 DEF StorageInv

LEMMA TickInv ==
    ASSUME StorageInv, Tick
    PROVE  StorageInv'
BY DEF Tick, StorageInv, StorageTypeOK, IdsFresh, IdsDistinct,
       TimersMatchRecords

LEMMA NextInv ==
    ASSUME TtlsFit, StorageInv, [StorageNext]_storageVars
    PROVE  StorageInv'
<1>1. CASE UNCHANGED storageVars
  BY <1>1 DEF storageVars, StorageInv, StorageTypeOK, IdsFresh, IdsDistinct,
              TimersMatchRecords
<1>2. CASE StorageNext
  BY <1>1, <1>2, CountHitInv, OpenWindowInv, EvictInv, OnAppCloseInv, TickInv
     DEF StorageNext, Increment, StorageIdle
<1> QED
  BY <1>1, <1>2

(* For any keys and durations, at any time of any schedule of late timers: *)
(* every pending timer belongs to the record it will evict and is due when *)
(* that record's window is over, and every record has one.                 *)
THEOREM TimersMatch ==
    ASSUME TtlsFit
    PROVE  StorageSpec => []TimersMatchRecords
<1>1. StorageInit => StorageInv
  BY InitInv
<1>2. StorageInv /\ [StorageNext]_storageVars => StorageInv'
  BY NextInv
<1>3. StorageInv => TimersMatchRecords
  BY DEF StorageInv
<1> QED
  BY <1>1, <1>2, <1>3, PTL DEF StorageSpec

-----------------------------------------------------------------------------
(* The refinement: a step of the storage is a step of FixedWindow or a     *)
(* stutter.  Only a late timer needs the invariant: what it evicts is over.*)

Mapped == [k \in Keys |-> LiveWindow(k)]

LEMMA LiveFacts ==
    ASSUME StorageInv, NEW k \in Keys
    PROVE  /\ Live(k) => /\ Mapped[k] = [hits |-> records[k].totalHits,
                                         until |-> records[k].expiresAt]
                         /\ Mapped[k] # None
                         /\ records[k] \in Record
           /\ ~ Live(k) => Mapped[k] = None
<1>1. Live(k) => records[k] \in Record
  BY DEF Live, StorageInv, StorageTypeOK
<1>2. Live(k) => [hits |-> records[k].totalHits,
                  until |-> records[k].expiresAt] \in Window
  BY <1>1 DEF Record, Window
<1> QED
  BY <1>1, <1>2, NoneAssumption DEF Mapped, LiveWindow

LEMMA InitRefines == StorageInit => Windows!Init
BY DEF StorageInit, Windows!Init, LiveWindow, Live

LEMMA CountHitRefines ==
    ASSUME StorageInv, NEW k \in Keys, NEW ttl \in Ttls, CountHit(k)
    PROVE  Windows!Hit(k, ttl)
<1> DEFINE e == [records[k] EXCEPT !.totalHits = @ + 1]
           w == [Mapped[k] EXCEPT !.hits = @ + 1]
<1>1. /\ Live(k) /\ records[k] \in Record /\ Mapped[k] # None
      /\ Mapped[k] = [hits |-> records[k].totalHits,
                      until |-> records[k].expiresAt]
  BY LiveFacts DEF CountHit
<1>2. /\ e.totalHits = records[k].totalHits + 1
      /\ e.expiresAt = records[k].expiresAt /\ e \in Record
  BY <1>1 DEF Record
<1>3. w = [hits |-> records[k].totalHits + 1,
           until |-> records[k].expiresAt]
  BY <1>1
<1>4. /\ records'[k] = e /\ now' = now
      /\ \A j \in Keys : j # k => records'[j] = records[j]
  BY DEF CountHit, StorageInv, StorageTypeOK
<1>5. Live(k)'
  <2>1. e # None /\ e.expiresAt > now
    BY <1>1, <1>2, NoneAssumption DEF Live
  <2> HIDE DEF e
  <2> QED
    BY <1>4, <2>1 DEF Live
<1>6. LiveWindow(k)' = w
  <2> HIDE DEF e, w
  <2> QED
    BY <1>2, <1>3, <1>4, <1>5 DEF LiveWindow
<1>7. \A j \in Keys : j # k => LiveWindow(j)' = LiveWindow(j)
  BY <1>4 DEF LiveWindow, Live
<1>8. Mapped' = [Mapped EXCEPT ![k] = w]
  <2> HIDE DEF w
  <2> QED
    BY <1>6, <1>7 DEF Mapped
<1>9. /\ reply' = [totalHits |-> Mapped[k].hits + 1,
                   timeToExpire |-> Mapped[k].until - now]
      /\ UNCHANGED <<now, closed>>
  BY <1>1 DEF CountHit
<1> QED
  BY <1>1, <1>8, <1>9 DEF Windows!Hit, Windows!Told, Mapped

LEMMA OpenWindowRefines ==
    ASSUME StorageInv, NEW k \in Keys, NEW ttl \in Ttls, OpenWindow(k, ttl)
    PROVE  Windows!Hit(k, ttl)
<1> DEFINE e == [totalHits |-> 1, expiresAt |-> now + ttl,
                 timeoutId |-> lastId + 1]
           w == IF ttl = 0 THEN None ELSE [hits |-> 1, until |-> now + ttl]
<1>1. now \in Nat /\ lastId \in Nat /\ ttl \in Nat
  BY TtlsAssumption DEF StorageInv, StorageTypeOK
<1>2. Mapped[k] = None
  BY LiveFacts DEF OpenWindow
<1>3. /\ e \in Record /\ e # None /\ e.totalHits = 1
      /\ e.expiresAt = now + ttl
  BY <1>1, NoneAssumption DEF Record
<1>4. /\ records'[k] = e /\ now' = now
      /\ \A j \in Keys : j # k => records'[j] = records[j]
  BY DEF OpenWindow, StorageInv, StorageTypeOK
<1>5. LiveWindow(k)' = w
  <2> HIDE DEF e
  <2>1. Live(k)' <=> ttl # 0
    BY <1>1, <1>3, <1>4 DEF Live
  <2> QED
    BY <1>3, <1>4, <2>1 DEF LiveWindow
<1>6. \A j \in Keys : j # k => LiveWindow(j)' = LiveWindow(j)
  BY <1>4 DEF LiveWindow, Live
<1>7. Mapped' = [Mapped EXCEPT ![k] = w]
  <2> HIDE DEF w
  <2> QED
    BY <1>5, <1>6 DEF Mapped
<1>8. /\ reply' = [totalHits |-> 1, timeToExpire |-> ttl]
      /\ UNCHANGED <<now, closed>>
  BY DEF OpenWindow
<1> QED
  BY <1>2, <1>7, <1>8 DEF Windows!Hit, Windows!Told, Mapped

(* A timer of a record is due when its window is over, so nothing live is  *)
(* evicted.                                                                *)
LEMMA EvictRefines ==
    ASSUME StorageInv, NEW tm \in timers, Evict(tm)
    PROVE  UNCHANGED Windows!vars
<1>1. /\ tm.key \in Keys /\ records[tm.key] # None
      /\ records[tm.key].expiresAt = tm.due /\ tm.due <= now
      /\ now \in Nat /\ tm.due \in Nat
  BY DEF Evict, StorageInv, StorageTypeOK, Timer, TimersMatchRecords
<1>2. /\ records'[tm.key] = None
      /\ \A j \in Keys : j # tm.key => records'[j] = records[j]
      /\ UNCHANGED <<now, reply, closed>>
  BY <1>1 DEF Evict, StorageInv, StorageTypeOK
<1>3. LiveWindow(tm.key) = None /\ LiveWindow(tm.key)' = None
  BY <1>1, <1>2 DEF LiveWindow, Live
<1>4. \A j \in Keys : LiveWindow(j)' = LiveWindow(j)
  BY <1>2, <1>3 DEF LiveWindow, Live
<1>5. Mapped' = Mapped
  BY <1>4 DEF Mapped
<1> QED
  BY <1>2, <1>5 DEF Windows!vars, Mapped

LEMMA OnAppCloseRefines ==
    ASSUME StorageInv, OnAppClose
    PROVE  Windows!Close
<1>1. \A j \in Keys : LiveWindow(j)' = None
  BY DEF OnAppClose, LiveWindow, Live
<1> QED
  BY <1>1 DEF OnAppClose, Windows!Close

LEMMA TickRefines ==
    ASSUME StorageInv, Tick
    PROVE  Windows!Tick
<1>1. now' = now + 1 /\ UNCHANGED <<records, reply, closed>> /\ now \in Nat
  BY DEF Tick, StorageInv, StorageTypeOK
<1>2. ASSUME NEW k \in Keys
      PROVE  LiveWindow(k)' = IF Mapped[k] # None /\ Mapped[k].until > now + 1
                              THEN Mapped[k] ELSE None
  <2>1. CASE Live(k)
    <3>1. /\ Mapped[k] = [hits |-> records[k].totalHits,
                          until |-> records[k].expiresAt]
          /\ Mapped[k] # None /\ records[k] # None
          /\ Mapped[k].until = records[k].expiresAt
      BY <2>1, LiveFacts DEF Live
    <3>2. Live(k)' <=> records[k].expiresAt > now + 1
      BY <1>1, <3>1 DEF Live
    <3> QED
      BY <1>1, <3>1, <3>2 DEF LiveWindow
  <2>2. CASE ~ Live(k)
    <3>1. Mapped[k] = None
      BY <2>2, LiveFacts
    <3>2. ~ Live(k)'
      <4>1. records[k] # None => records[k].expiresAt \in Nat
        BY DEF StorageInv, StorageTypeOK, Record
      <4> QED
        BY <1>1, <2>2, <4>1 DEF Live
    <3> QED
      BY <3>1, <3>2 DEF LiveWindow
  <2> QED
    BY <2>1, <2>2
<1> QED
  BY <1>1, <1>2 DEF Windows!Tick, Mapped

LEMMA NextRefines ==
    ASSUME StorageInv, [StorageNext]_storageVars
    PROVE  [Windows!Next]_(Windows!vars)
<1>1. CASE UNCHANGED storageVars
  BY <1>1 DEF storageVars, Windows!vars, LiveWindow, Live
<1>2. CASE \E k \in Keys, ttl \in Ttls : Increment(k, ttl)
  BY <1>2, CountHitRefines, OpenWindowRefines DEF Increment, Windows!Next
<1>3. CASE \E tm \in timers : Evict(tm)
  BY <1>3, EvictRefines
<1>4. CASE OnAppClose
  BY <1>4, OnAppCloseRefines DEF Windows!Next
<1>5. CASE Tick
  BY <1>5, TickRefines DEF Windows!Next
<1> QED
  BY <1>1, <1>2, <1>3, <1>4, <1>5 DEF StorageNext, StorageIdle

(* The storage's counters, timers and evictions implement FixedWindow: for *)
(* any keys and durations, whatever increment answers is what a plain      *)
(* fixed window answers, however late the timers fire.                     *)
THEOREM StorageImplementsFixedWindow ==
    ASSUME TtlsFit
    PROVE  StorageSpec => ImplementsFixedWindow
<1>1. StorageInit => StorageInv /\ Windows!Init
  BY InitInv, InitRefines
<1>2. StorageInv /\ [StorageNext]_storageVars
        => StorageInv' /\ [Windows!Next]_(Windows!vars)
  BY NextInv, NextRefines
<1> QED
  BY <1>1, <1>2, PTL DEF StorageSpec, ImplementsFixedWindow, Windows!Spec

-----------------------------------------------------------------------------
(* The guard: what its requests were told, and what they have passed.      *)

Hit == [request : Requests, key : Keys, total : Nat \ {0}, at : Nat, until : Nat]

(* The rule of the throttler that counted a hit.                           *)
OptionOf(h) == CHOOSE m \in DOMAIN config.options :
                 config.options[m].name = h.key[1]
RuleOfHit(h) == RuleFor(config.route[h.request], config.options[OptionOf(h)])

GuardTypes ==
    /\ TypeOK
    /\ turn \in [Requests -> Nat]
    /\ told \in [Requests -> Hit \cup {None}]
    /\ hits \subseteq Hit /\ IsFiniteSet(hits)

KeyFor(r, n) == <<config.options[n].name, config.caller[r],
                  config.method[config.route[r]]>>
HitsAreKeyed ==
    \A h \in hits : /\ h.at <= now
                    /\ \E n \in DOMAIN config.options :
                         h.key = KeyFor(h.request, n)

RequestsWereTold ==
    \A r \in Requests :
        /\ phase[r] \in {"waiting", "rejected"} =>
             /\ turn[r] \in DOMAIN config.options
             /\ told[r] \in hits /\ told[r].request = r
             /\ told[r].key = generateKey(r)
        /\ phase[r] = "rejected" => Exceeds(r)

(* A window that has counted to n has told 1, 2, ... n to hits of its key. *)
HasTold(k, until, i) ==
    \E g \in hits : g.key = k /\ g.until = until /\ g.total = i
WindowCounted(k) ==
    /\ records[k].totalHits >= 1
    /\ \A i \in 1 .. records[k].totalHits :
         HasTold(k, records[k].expiresAt, i)
AllCounted ==
    /\ \A h \in hits : \A i \in 1 .. h.total : HasTold(h.key, h.until, i)
    /\ \A k \in Keys : Live(k) => WindowCounted(k)

CountInv ==
    GuardTypes /\ HitsAreKeyed /\ RequestsWereTold /\ AllCounted

Widths == \A h \in hits : h.until > h.at <=> RuleOfHit(h).ttl > 0
PassedFit == \A p \in passed : p.total <= Limit(p)

(* While the server is open, the window of a hit is the record's until it  *)
(* is over, its hits are told different totals, and who hits within it     *)
(* belongs to it.                                                          *)
Current(h) ==
    h.until > now => /\ Live(h.key) /\ records[h.key].expiresAt = h.until
                     /\ h.total <= records[h.key].totalHits
Apart(g, h) ==
    g.key = h.key /\ g.until = h.until /\ g.total = h.total /\ g.at < g.until
      => g = h
Together(g, h) ==
    g.key = h.key /\ h.at <= g.at /\ g.at < h.until => g.until = h.until
WindowsHold ==
    server = "open" =>
        /\ \A h \in hits : Current(h)
        /\ \A g, h \in hits : Apart(g, h) /\ Together(g, h)

LimitInv == CountInv /\ StorageInv /\ Widths /\ PassedFit /\ WindowsHold

-----------------------------------------------------------------------------
LEMMA ConfigTypes ==
    ASSUME config \in Configs
    PROVE  /\ config.options \in Seq([name : Names, limit : Nat, ttl : Ttls])
           /\ config.method \in [Routes -> Methods]
           /\ config.caller \in [Requests -> Callers]
           /\ config.route \in [Requests -> Routes]
           /\ config.onHandler \in [Routes -> Overrides \cup {None}]
           /\ config.onClass \in [Routes -> Overrides \cup {None}]
           /\ DOMAIN config.options = 1 .. Len(config.options)
           /\ Len(config.options) \in Nat
           /\ \A n \in DOMAIN config.options :
                config.options[n] \in [name : Names, limit : Nat, ttl : Ttls]
<1>1. config \in Config
  BY ConfigsAssumption
<1>2. config.options \in Seq([name : Names, limit : Nat, ttl : Ttls])
  BY <1>1 DEF Config
<1>3. \A n \in DOMAIN config.options :
        config.options[n] \in [name : Names, limit : Nat, ttl : Ttls]
  <2> DEFINE o == config.options
             E == [name : Names, limit : Nat, ttl : Ttls]
  <2>1. o \in Seq(E)
    BY <1>2
  <2> HIDE DEF o, E
  <2>2. \A n \in DOMAIN o : o[n] \in E
    BY <2>1
  <2> QED
    BY <2>2 DEF o, E
<1> QED
  BY <1>1, <1>2, <1>3 DEF Config

LEMMA RuleTypes ==
    ASSUME config \in Configs, NEW route \in Routes,
           NEW n \in DOMAIN config.options
    PROVE  /\ RuleFor(route, config.options[n]).limit \in Nat
           /\ RuleFor(route, config.options[n]).ttl \in Ttls
<1>1. config.options[n] \in [name : Names, limit : Nat, ttl : Ttls]
  BY ConfigTypes
<1> DEFINE overrides == getOverrides(route)
           name == config.options[n].name
<1>2. overrides \in Overrides \cup {None}
  BY ConfigTypes DEF getOverrides
<1>3. CASE overrides # None /\ overrides[name] # None
  <2>1. overrides[name] \in Rule
    BY <1>1, <1>2, <1>3 DEF Overrides
  <2> QED
    BY <1>3, <2>1 DEF RuleFor, Rule
<1>4. CASE ~ (overrides # None /\ overrides[name] # None)
  <2>1. RuleFor(route, config.options[n]) =
          [limit |-> config.options[n].limit, ttl |-> config.options[n].ttl]
    BY <1>4 DEF RuleFor
  <2> QED
    BY <1>1, <2>1
<1> QED
  BY <1>3, <1>4

LEMMA KeyTypes ==
    ASSUME config \in Configs, NEW r \in Requests, NEW n \in DOMAIN config.options
    PROVE  KeyFor(r, n) \in Keys
<1>1. config.options[n].name \in Names
  BY ConfigTypes
<1> QED
  BY <1>1, ConfigTypes, ConfigsAssumption DEF KeyFor

(* A key tells which throttler counted, who called and what.               *)
LEMMA KeyTells ==
    ASSUME NEW r \in Requests, NEW s \in Requests,
           NEW m \in DOMAIN config.options, NEW n \in DOMAIN config.options,
           KeyFor(r, m) = KeyFor(s, n)
    PROVE  /\ config.options[m].name = config.options[n].name
           /\ config.caller[r] = config.caller[s]
           /\ config.method[config.route[r]] = config.method[config.route[s]]
BY DEF KeyFor

LEMMA RuleOfKeyed ==
    ASSUME NamesDistinct, config \in Configs, NEW h,
           NEW n \in DOMAIN config.options, h.key = KeyFor(h.request, n)
    PROVE  RuleOfHit(h) = RuleFor(config.route[h.request], config.options[n])
<1>1. h.key[1] = config.options[n].name
  BY DEF KeyFor
<1>2. \A m \in DOMAIN config.options :
        config.options[m].name = h.key[1] => m = n
  BY <1>1 DEF NamesDistinct
<1>3. OptionOf(h) = n
  BY <1>1, <1>2 DEF OptionOf
<1> QED
  BY <1>3 DEF RuleOfHit

LEMMA SameKeySameRule ==
    ASSUME NamesDistinct, RoutesDistinct, config \in Configs,
           NEW g, NEW h, g.request \in Requests, h.request \in Requests,
           NEW m \in DOMAIN config.options, g.key = KeyFor(g.request, m),
           NEW n \in DOMAIN config.options, h.key = KeyFor(h.request, n),
           g.key = h.key
    PROVE  /\ RuleOfHit(g) = RuleOfHit(h)
           /\ config.route[g.request] = config.route[h.request]
           /\ config.caller[g.request] = config.caller[h.request]
<1>1. /\ config.options[m].name = config.options[n].name
      /\ config.caller[g.request] = config.caller[h.request]
      /\ config.method[config.route[g.request]] =
           config.method[config.route[h.request]]
  <2>1. KeyFor(g.request, m) = KeyFor(h.request, n)
    OBVIOUS
  <2> QED
    BY <2>1, KeyTells
<1>2. m = n
  BY <1>1 DEF NamesDistinct
<1>3. config.route[g.request] = config.route[h.request]
  BY <1>1, ConfigTypes DEF RoutesDistinct
<1>4. /\ RuleOfHit(g) = RuleFor(config.route[g.request], config.options[m])
      /\ RuleOfHit(h) = RuleFor(config.route[h.request], config.options[n])
  BY RuleOfKeyed
<1> QED
  BY <1>1, <1>2, <1>3, <1>4

(* What increment changes and answers.                                     *)
LEMMA Increments ==
    ASSUME StorageTypeOK, NEW k \in Keys, NEW ttl \in Ttls, Increment(k, ttl)
    PROVE  /\ StorageTypeOK'
           /\ now' = now /\ now \in Nat /\ ttl \in Nat
           /\ \A j \in Keys : j # k => records'[j] = records[j]
           /\ records'[k] # None
           /\ records'[k].totalHits = reply'.totalHits
           /\ records'[k].expiresAt = now + reply'.timeToExpire
           /\ reply'.totalHits \in Nat \ {0} /\ reply'.timeToExpire \in Nat
           /\ \/ /\ Live(k)
                 /\ reply'.totalHits = records[k].totalHits + 1
                 /\ now + reply'.timeToExpire = records[k].expiresAt
              \/ /\ ~ Live(k)
                 /\ reply'.totalHits = 1 /\ reply'.timeToExpire = ttl
<1>1. now \in Nat /\ lastId \in Nat /\ ttl \in Nat
  BY TtlsAssumption DEF StorageTypeOK
<1>2. CASE CountHit(k)
  <2> DEFINE e == [records[k] EXCEPT !.totalHits = @ + 1]
  <2>1. records[k] \in Record /\ records[k] # None /\ records[k].expiresAt > now
    BY <1>2 DEF CountHit, Live, StorageTypeOK
  <2>2. /\ e \in Record /\ e # None /\ e.totalHits = records[k].totalHits + 1
        /\ e.expiresAt = records[k].expiresAt
    BY <2>1, NoneAssumption DEF Record
  <2>3. /\ records'[k] = e
        /\ \A j \in Keys : j # k => records'[j] = records[j]
        /\ records' \in [Keys -> Record \cup {None}]
    BY <1>2, <2>2 DEF CountHit, StorageTypeOK
  <2>4. /\ reply'.totalHits = records[k].totalHits + 1
        /\ reply'.timeToExpire = records[k].expiresAt - now
        /\ reply' \in Reply
    BY <1>1, <1>2, <2>1 DEF CountHit, Reply, Record
  <2>5. reply'.totalHits \in Nat \ {0} /\ reply'.timeToExpire \in Nat
    <3>1. records[k].totalHits \in Nat
      BY <2>1 DEF Record
    <3> QED
      BY <2>4, <3>1 DEF Reply
  <2>6. UNCHANGED <<now, timers, lastId, closed>> /\ Live(k)
    BY <1>2 DEF CountHit
  <2>7. StorageTypeOK'
    BY <2>3, <2>4, <2>6 DEF StorageTypeOK
  <2> HIDE DEF e
  <2>8. now + reply'.timeToExpire = records[k].expiresAt
    BY <1>1, <2>1, <2>4 DEF Record
  <2> QED
    BY <1>1, <2>2, <2>3, <2>4, <2>5, <2>6, <2>7, <2>8
<1>3. CASE OpenWindow(k, ttl)
  <2> DEFINE e == [totalHits |-> 1, expiresAt |-> now + ttl,
                   timeoutId |-> lastId + 1]
  <2>1. /\ e \in Record /\ e # None /\ e.totalHits = 1
        /\ e.expiresAt = now + ttl
    BY <1>1, NoneAssumption DEF Record
  <2>2. /\ records'[k] = e
        /\ \A j \in Keys : j # k => records'[j] = records[j]
        /\ records' \in [Keys -> Record \cup {None}]
    BY <1>3, <2>1 DEF OpenWindow, StorageTypeOK
  <2>3. /\ reply'.totalHits = 1 /\ reply'.timeToExpire = ttl /\ reply' \in Reply
        /\ UNCHANGED <<now, closed>> /\ ~ Live(k)
        /\ lastId' = lastId + 1
    BY <1>1, <1>3 DEF OpenWindow, Reply
  <2>4. timers' \subseteq Timer
    <3>1. MaxDelay + 1 \in Nat \ {0} /\ MaxDelay \in Nat
      BY BoundsAssumption
    <3>2. Delay(ttl) \in Nat
      <4>1. ttl % (2 * (MaxDelay + 1)) \in Nat
        <5>1. \A a \in Nat, b \in Nat \ {0} : a % b \in Nat
          OBVIOUS
        <5>2. 2 * (MaxDelay + 1) \in Nat \ {0}
          BY <3>1
        <5> QED
          BY <1>1, <5>1, <5>2
      <4> QED
        BY <4>1 DEF Delay
    <3>3. NewTimer(k, ttl) \in Timer
      BY <1>1, <3>2 DEF NewTimer, Timer
    <3>4. timers' \subseteq timers \cup {NewTimer(k, ttl)}
      BY <1>3 DEF OpenWindow, Cleared
    <3> QED
      BY <3>3, <3>4 DEF StorageTypeOK
  <2>5. StorageTypeOK'
    BY <1>1, <2>2, <2>3, <2>4 DEF StorageTypeOK
  <2> HIDE DEF e
  <2> QED
    BY <1>1, <2>1, <2>2, <2>3, <2>5
<1> QED
  BY <1>2, <1>3 DEF Increment

LEMMA StorageTypes ==
    ASSUME StorageTypeOK, [StorageNext]_storageVars
    PROVE  StorageTypeOK'
<1>1. CASE UNCHANGED storageVars
  BY <1>1 DEF storageVars, StorageTypeOK
<1>2. ASSUME NEW k \in Keys, NEW ttl \in Ttls, Increment(k, ttl)
      PROVE  StorageTypeOK'
  BY <1>2, Increments
<1>3. ASSUME NEW tm \in timers, Evict(tm)
      PROVE  StorageTypeOK'
  <2>1. records' \in [Keys -> Record \cup {None}]
    BY <1>3 DEF Evict, StorageTypeOK
  <2> QED
    BY <1>3, <2>1 DEF Evict, StorageTypeOK
<1>4. CASE OnAppClose
  BY <1>4 DEF OnAppClose, StorageTypeOK
<1>5. CASE Tick
  BY <1>5 DEF Tick, StorageTypeOK
<1> QED
  BY <1>1, <1>2, <1>3, <1>4, <1>5 DEF StorageNext, StorageIdle

(* A request that is counted is told the next hit of its key's window, or  *)
(* the first of a new one.                                                 *)
Counts(r, h) ==
    /\ h \in Hit /\ h.request = r /\ h.at = now
    /\ turn[r] \in DOMAIN config.options
    /\ h.key = KeyFor(r, turn[r]) /\ h.key = generateKey(r)
    /\ told' = [told EXCEPT ![r] = h] /\ hits' = hits \cup {h}
    /\ now' = now /\ now \in Nat
    /\ records'[h.key] # None
    /\ records'[h.key].totalHits = h.total
    /\ records'[h.key].expiresAt = h.until
    /\ \A k \in Keys : k # h.key => records'[k] = records[k]
    /\ \/ /\ Live(h.key)
          /\ h.total = records[h.key].totalHits + 1
          /\ h.until = records[h.key].expiresAt
       \/ /\ ~ Live(h.key)
          /\ h.total = 1 /\ h.until = now + RuleOf(r).ttl
    /\ RuleOf(r).ttl \in Nat

LEMMA CountTells ==
    ASSUME GuardTypes, NEW r \in Requests, Count(r)
    PROVE  StorageTypeOK' /\ \E h : Counts(r, h)
<1> DEFINE k == generateKey(r)
           ttl == RuleOf(r).ttl
           h == [request |-> r, key |-> k, total |-> reply'.totalHits,
                 at |-> now, until |-> now + reply'.timeToExpire]
<1>1. turn[r] \in DOMAIN config.options /\ config \in Configs /\ StorageTypeOK
  <2>1. turn[r] \in 1 .. Len(config.options) + 1 /\ turn[r] <= Len(config.options)
    BY DEF GuardTypes, TypeOK, Count
  <2>2. config \in Configs /\ StorageTypeOK
    BY DEF GuardTypes, TypeOK
  <2>3. Len(config.options) \in Nat /\ DOMAIN config.options = 1 .. Len(config.options)
    BY <2>2, ConfigTypes
  <2> QED
    BY <2>1, <2>2, <2>3
<1>2. k = KeyFor(r, turn[r]) /\ k \in Keys
  BY <1>1, KeyTypes DEF KeyFor, generateKey, Option
<1>3. ttl \in Ttls
  BY <1>1, ConfigTypes, RuleTypes DEF RuleOf, Option
<1>4. Increment(k, ttl)
  BY DEF Count
<1> HIDE DEF k, ttl
<1>5. /\ StorageTypeOK'
      /\ now' = now /\ now \in Nat /\ ttl \in Nat
      /\ \A j \in Keys : j # k => records'[j] = records[j]
      /\ records'[k] # None
      /\ records'[k].totalHits = reply'.totalHits
      /\ records'[k].expiresAt = now + reply'.timeToExpire
      /\ reply'.totalHits \in Nat \ {0} /\ reply'.timeToExpire \in Nat
      /\ \/ /\ Live(k)
            /\ reply'.totalHits = records[k].totalHits + 1
            /\ now + reply'.timeToExpire = records[k].expiresAt
         \/ /\ ~ Live(k)
            /\ reply'.totalHits = 1 /\ reply'.timeToExpire = ttl
  BY <1>1, <1>2, <1>3, <1>4, Increments
<1>6. /\ h \in Hit /\ h.request = r /\ h.at = now /\ h.key = k
      /\ h.total = reply'.totalHits /\ h.until = now + reply'.timeToExpire
  BY <1>2, <1>5 DEF Hit
<1>7. told' = [told EXCEPT ![r] = h]
  BY DEF Count, k
<1>8. hits' = hits \cup {told'[r]}
  BY DEF Count
<1>9. told'[r] = h
  BY <1>7 DEF GuardTypes
<1> HIDE DEF h
<1>10. Counts(r, h)
  BY <1>1, <1>2, <1>3, <1>5, <1>6, <1>7, <1>8, <1>9 DEF Counts, k, ttl
<1> QED
  BY <1>5, <1>10

(* The other steps of the guard make no hit.                               *)
LEMMA GuardSteps ==
    ASSUME GuardTypes, [Next]_vars
    PROVE  /\ config' = config
           /\ \/ \E r \in Requests : Count(r) /\ UNCHANGED server
              \/ /\ hits' = hits
                 /\ \/ UNCHANGED storageVars
                    \/ OnAppClose
                    \/ \E tm \in timers : Evict(tm)
                    \/ Tick
           /\ server' = "open" => server = "open" /\ ~ OnAppClose
           /\ [StorageNext]_storageVars
<1>1. ASSUME NEW r \in Requests, Count(r)
      PROVE  [StorageNext]_storageVars
  <2>1. turn[r] \in DOMAIN config.options /\ config \in Configs
    <3>1. turn[r] \in 1 .. Len(config.options) + 1 /\ turn[r] <= Len(config.options)
      BY <1>1 DEF GuardTypes, TypeOK, Count
    <3>2. config \in Configs
      BY DEF GuardTypes, TypeOK
    <3>3. Len(config.options) \in Nat /\ DOMAIN config.options = 1 .. Len(config.options)
      BY <3>2, ConfigTypes
    <3> QED
      BY <3>1, <3>2, <3>3
  <2>2. generateKey(r) \in Keys
    BY <2>1, KeyTypes DEF KeyFor, generateKey, Option
  <2>3. RuleOf(r).ttl \in Ttls
    BY <2>1, ConfigTypes, RuleTypes DEF RuleOf, Option
  <2> QED
    BY <1>1, <2>2, <2>3 DEF Count, StorageNext
<1>2. CASE UNCHANGED vars
  BY <1>2 DEF vars, guardVars, storageVars, OnAppClose
<1>3. CASE Next
  <2>1. ASSUME NEW r \in Requests, Arrive(r) \/ Allow(r) \/ Reject(r) \/ Admit(r)
        PROVE  /\ UNCHANGED <<config, hits, server, storageVars>>
    BY <2>1 DEF Arrive, Allow, Reject, Admit
  <2>2. CASE \E r \in Requests : Arrive(r) \/ Allow(r) \/ Reject(r) \/ Admit(r)
    BY <2>1, <2>2 DEF storageVars, OnAppClose
  <2>3. ASSUME NEW r \in Requests, Count(r)
        PROVE  UNCHANGED <<config, server>> /\ ~ OnAppClose
    <3>1. closed' = closed
      BY <2>3 DEF Count, Increment, CountHit, OpenWindow
    <3> QED
      BY <2>3, <3>1 DEF Count, OnAppClose
  <2>4. CASE Close
    BY <2>4 DEF Close, StorageNext
  <2>5. CASE Shutdown \/ Drained \/ Stopped
    BY <2>5
    DEF Shutdown, Drained, Stopped, vars, guardVars, storageVars, OnAppClose
  <2>6. CASE Environment
    BY <2>6 DEF Environment, guardVars, Evict, Tick, OnAppClose, StorageNext
  <2> QED
    BY <1>1, <1>3, <2>2, <2>3, <2>4, <2>5, <2>6 DEF Next, Serve
<1> QED
  BY <1>2, <1>3

LEMMA GuardTypesHold ==
    ASSUME GuardTypes, RequestsWereTold, [Next]_vars
    PROVE  GuardTypes'
<1>1. config' = config /\ StorageTypeOK' /\ config \in Configs
  BY GuardSteps, StorageTypes DEF GuardTypes, TypeOK
<1>2. ASSUME NEW r \in Requests, Count(r)
      PROVE  GuardTypes'
  <2>1. PICK h : Counts(r, h)
    BY <1>2, CountTells
  <2>2. IsFiniteSet(hits')
    BY <2>1, FS_AddElement DEF Counts, GuardTypes
  <2>3. /\ told' \in [Requests -> Hit \cup {None}] /\ hits' \subseteq Hit
        /\ passed' \subseteq hits'
    BY <1>2, <2>1 DEF Counts, GuardTypes, TypeOK, Count
  <2>4. /\ phase' \in [Requests -> {"coming", "counting", "waiting", "admitted",
                                    "rejected"}]
        /\ UNCHANGED <<turn, server>>
    BY <1>2 DEF Count, GuardTypes, TypeOK
  <2> QED
    BY <1>1, <2>2, <2>3, <2>4 DEF GuardTypes, TypeOK
<1>3. ASSUME NEW r \in Requests, Allow(r)
      PROVE  GuardTypes'
  <2>1. /\ turn[r] \in DOMAIN config.options /\ turn[r] \in Nat
        /\ turn[r] \in 1 .. Len(config.options) /\ Len(config.options) \in Nat
        /\ told[r] \in hits
    BY <1>1, <1>3, ConfigTypes DEF Allow, RequestsWereTold, GuardTypes
  <2>2. /\ turn' \in [Requests -> Nat]
        /\ \A s \in Requests : turn'[s] \in 1 .. Len(config.options) + 1
    BY <1>3, <2>1 DEF Allow, GuardTypes, TypeOK
  <2>3. /\ phase' \in [Requests -> {"coming", "counting", "waiting", "admitted",
                                    "rejected"}]
        /\ passed' \subseteq hits
        /\ UNCHANGED <<told, hits, server>>
    BY <1>3, <2>1 DEF Allow, GuardTypes, TypeOK
  <2> QED
    BY <1>1, <2>2, <2>3 DEF GuardTypes, TypeOK
<1>4. ASSUME NEW r \in Requests, Arrive(r) \/ Reject(r) \/ Admit(r)
      PROVE  GuardTypes'
  <2>1. /\ phase' \in [Requests -> {"coming", "counting", "waiting", "admitted",
                                    "rejected"}]
        /\ UNCHANGED <<turn, told, passed, hits, server>>
    BY <1>4 DEF Arrive, Reject, Admit, GuardTypes, TypeOK
  <2> QED
    BY <1>1, <2>1 DEF GuardTypes, TypeOK
<1>5. CASE Close \/ Shutdown \/ Drained
  BY <1>1, <1>5 DEF Close, Shutdown, Drained, GuardTypes, TypeOK
<1>6. CASE Environment \/ Stopped \/ UNCHANGED vars
  BY <1>1, <1>6 DEF Environment, Stopped, vars, guardVars, GuardTypes, TypeOK
<1> QED
  BY <1>2, <1>3, <1>4, <1>5, <1>6 DEF Next, Serve

LEMMA KeyedHolds ==
    ASSUME GuardTypes, HitsAreKeyed, [Next]_vars
    PROVE  HitsAreKeyed'
<1>1. config' = config
  BY GuardSteps
<1>2. \A h \in hits : h.at \in Nat
  BY DEF GuardTypes, Hit
<1>3. ASSUME NEW r \in Requests, Count(r)
      PROVE  HitsAreKeyed'
  <2>1. PICK h : Counts(r, h)
    BY <1>3, CountTells
  <2>2. /\ hits' = hits \cup {h} /\ now' = now /\ h.at = now /\ now \in Nat
        /\ turn[r] \in DOMAIN config.options
        /\ h.key = KeyFor(h.request, turn[r])
    BY <2>1 DEF Counts
  <2>3. \A q, n : KeyFor(q, n)' = KeyFor(q, n)
    BY <1>1 DEF KeyFor
  <2> QED
    BY <1>1, <2>2, <2>3 DEF HitsAreKeyed
<1>4. CASE hits' = hits /\ now' \in {now, now + 1}
  <2>1. now \in Nat
    BY DEF GuardTypes, TypeOK, StorageTypeOK
  <2>2. \A q, n : KeyFor(q, n)' = KeyFor(q, n)
    BY <1>1 DEF KeyFor
  <2> QED
    BY <1>1, <1>2, <1>4, <2>1, <2>2 DEF HitsAreKeyed
<1>5. (\E r \in Requests : Count(r)) \/ (hits' = hits /\ now' \in {now, now + 1})
  BY GuardSteps DEF storageVars, OnAppClose, Evict, Tick
<1> QED
  BY <1>3, <1>4, <1>5

LEMMA ToldHolds ==
    ASSUME GuardTypes, RequestsWereTold, [Next]_vars
    PROVE  RequestsWereTold'
<1>1. config' = config /\ config \in Configs /\ hits \subseteq hits'
  BY GuardSteps DEF GuardTypes, TypeOK, Count
<1>2. ASSUME NEW q \in Requests, phase'[q] = phase[q], turn'[q] = turn[q],
             told'[q] = told[q]
      PROVE  /\ phase'[q] \in {"waiting", "rejected"} =>
                  /\ turn'[q] \in DOMAIN config'.options
                  /\ told'[q] \in hits' /\ told'[q].request = q
                  /\ told'[q].key = generateKey(q)'
             /\ phase'[q] = "rejected" => Exceeds(q)'
  <2>1. generateKey(q)' = generateKey(q) /\ (Exceeds(q)' <=> Exceeds(q))
    BY <1>1, <1>2
    DEF generateKey, Option, Exceeds, RuleOf, RuleFor, getOverrides
  <2> QED
    BY <1>1, <1>2, <2>1 DEF RequestsWereTold
<1>3. ASSUME NEW r \in Requests, Count(r)
      PROVE  RequestsWereTold'
  <2>1. PICK h : Counts(r, h)
    BY <1>3, CountTells
  <2>2. \A q \in Requests : q # r => /\ phase'[q] = phase[q] /\ turn'[q] = turn[q]
                                     /\ told'[q] = told[q]
    BY <1>3, <2>1 DEF Count, Counts, GuardTypes, TypeOK
  <2>3. /\ phase'[r] = "waiting" /\ turn'[r] \in DOMAIN config'.options
        /\ told'[r] = h /\ h \in hits' /\ h.request = r /\ h.key = generateKey(r)
        /\ turn' = turn
    BY <1>1, <1>3, <2>1 DEF Count, Counts, GuardTypes, TypeOK
  <2>4. generateKey(r)' = generateKey(r)
    BY <1>1, <2>3 DEF generateKey, Option
  <2> QED
    BY <1>2, <2>2, <2>3, <2>4 DEF RequestsWereTold
<1>4. ASSUME NEW r \in Requests, Reject(r)
      PROVE  RequestsWereTold'
  <2>1. \A q \in Requests : /\ q # r => phase'[q] = phase[q]
                            /\ turn'[q] = turn[q] /\ told'[q] = told[q]
    BY <1>4 DEF Reject, GuardTypes, TypeOK
  <2>2. Exceeds(r) /\ phase[r] = "waiting" /\ UNCHANGED <<turn, told, hits>>
    BY <1>4 DEF Reject
  <2>3. generateKey(r)' = generateKey(r) /\ (Exceeds(r)' <=> Exceeds(r))
    BY <1>1, <2>1
    DEF generateKey, Option, Exceeds, RuleOf, RuleFor, getOverrides
  <2> QED
    BY <1>1, <1>2, <2>1, <2>2, <2>3 DEF RequestsWereTold
<1>5. ASSUME NEW r \in Requests, Arrive(r) \/ Allow(r) \/ Admit(r)
      PROVE  RequestsWereTold'
  <2>1. \A q \in Requests : q # r => /\ phase'[q] = phase[q]
                                     /\ turn'[q] = turn[q] /\ told'[q] = told[q]
    BY <1>5 DEF Arrive, Allow, Admit, GuardTypes, TypeOK
  <2>2. phase'[r] \in {"admitted", "counting"}
    BY <1>5 DEF Arrive, Allow, Admit, GuardTypes, TypeOK
  <2> QED
    BY <1>2, <2>1, <2>2 DEF RequestsWereTold
<1>6. CASE UNCHANGED <<phase, turn, told>>
  BY <1>2, <1>6 DEF RequestsWereTold
<1> QED
  BY <1>3, <1>4, <1>5, <1>6
  DEF Next, Serve, Close, Shutdown, Drained, Environment, Stopped, vars, guardVars

(* Once the totals up to n were told they stay told; the next hit of the   *)
(* window is told n + 1.                                                   *)
LEMMA CountedHolds ==
    ASSUME GuardTypes, HitsAreKeyed, AllCounted, [Next]_vars
    PROVE  AllCounted'
<1>1. \A h \in hits : h \in Hit /\ h.total \in Nat
  BY DEF GuardTypes, Hit
<1>2. hits \subseteq hits' => \A k, until, i :
        HasTold(k, until, i) => HasTold(k, until, i)'
  BY DEF HasTold
<1>3. \A k \in Keys : Live(k) => records[k].totalHits \in Nat
  BY DEF GuardTypes, TypeOK, StorageTypeOK, Record, Live
<1>4. ASSUME NEW r \in Requests, Count(r)
      PROVE  AllCounted'
  <2>1. PICK h : Counts(r, h)
    BY <1>4, CountTells
  <2>2. hits' = hits \cup {h} /\ h \in Hit /\ h.key \in Keys /\ h.total \in Nat
    BY <2>1 DEF Counts, Hit
  <2>3. ASSUME NEW i \in 1 .. h.total
        PROVE  HasTold(h.key, h.until, i)'
    <3>1. CASE i = h.total
      BY <2>2, <3>1 DEF HasTold
    <3>2. CASE i # h.total
      <4>1. /\ Live(h.key) /\ i \in 1 .. records[h.key].totalHits
            /\ h.until = records[h.key].expiresAt
        BY <1>3, <2>1, <2>2, <3>2 DEF Counts
      <4>2. HasTold(h.key, h.until, i)
        BY <2>2, <4>1 DEF AllCounted, WindowCounted
      <4> QED
        BY <1>2, <2>2, <4>2
    <3> QED
      BY <3>1, <3>2
  <2>4. ASSUME NEW g \in hits', NEW i \in 1 .. g.total
        PROVE  HasTold(g.key, g.until, i)'
    <3>1. CASE g = h
      BY <2>3, <3>1
    <3>2. CASE g \in hits
      BY <1>2, <2>2, <2>4, <3>2 DEF AllCounted
    <3> QED
      BY <2>2, <3>1, <3>2
  <2>5. ASSUME NEW k \in Keys, Live(k)'
        PROVE  WindowCounted(k)'
    <3>1. CASE k = h.key
      <4>1. records'[k].totalHits = h.total /\ records'[k].expiresAt = h.until
        BY <2>1, <3>1 DEF Counts
      <4>2. h.total >= 1
        BY <1>3, <2>1, <2>2 DEF Counts, AllCounted, WindowCounted
      <4> QED
        BY <2>3, <3>1, <4>1, <4>2 DEF WindowCounted, HasTold
    <3>2. CASE k # h.key
      <4>1. records'[k] = records[k] /\ Live(k)
        BY <2>1, <2>5, <3>2 DEF Counts, Live
      <4>2. WindowCounted(k)
        BY <4>1 DEF AllCounted
      <4> QED
        BY <2>2, <4>1, <4>2 DEF WindowCounted, HasTold
    <3> QED
      BY <3>1, <3>2
  <2> QED
    BY <2>4, <2>5 DEF AllCounted
<1>5. ASSUME hits' = hits,
             \A k \in Keys : Live(k)' => Live(k) /\ records'[k] = records[k]
      PROVE  AllCounted'
  BY <1>5 DEF AllCounted, WindowCounted, HasTold
<1>6. \A k \in Keys : records[k] # None => records[k].expiresAt \in Nat
  BY DEF GuardTypes, TypeOK, StorageTypeOK, Record
<1>7. now \in Nat
  BY DEF GuardTypes, TypeOK, StorageTypeOK
<1>8. ASSUME OnAppClose \/ \E tm \in timers : Evict(tm)
      PROVE  \A k \in Keys : Live(k)' => Live(k) /\ records'[k] = records[k]
  BY <1>8 DEF OnAppClose, Evict, Live, GuardTypes, TypeOK, StorageTypeOK, Timer
<1>9. ASSUME Tick
       PROVE  \A k \in Keys : Live(k)' => Live(k) /\ records'[k] = records[k]
  BY <1>6, <1>7, <1>9 DEF Tick, Live
<1>10. ASSUME UNCHANGED storageVars
       PROVE  \A k \in Keys : Live(k)' => Live(k) /\ records'[k] = records[k]
  BY <1>10 DEF storageVars, Live
<1> QED
  BY <1>4, <1>5, <1>8, <1>9, <1>10, GuardSteps

(* What the guard counts: the hits it was told are at least those before.  *)
LEMMA CountInit == Init => CountInv
<1> SUFFICES ASSUME Init PROVE CountInv
  OBVIOUS
<1>1. StorageTypeOK
  BY InitInv DEF Init, StorageInv
<1>2. config \in Configs /\ Len(config.options) \in Nat
  BY ConfigTypes DEF Init
<1>3. \A r \in Requests : turn[r] \in 1 .. Len(config.options) + 1
  BY <1>2 DEF Init
<1>4. IsFiniteSet(hits)
  BY FS_EmptySet DEF Init
<1>5. GuardTypes
  BY <1>1, <1>2, <1>3, <1>4 DEF Init, GuardTypes, TypeOK
<1>6. \A k \in Keys : ~ Live(k)
  BY DEF Init, StorageInit, Live
<1> QED
  BY <1>5, <1>6
  DEF Init, CountInv, HitsAreKeyed, RequestsWereTold, AllCounted

LEMMA CountNext == CountInv /\ [Next]_vars => CountInv'
BY GuardTypesHold, KeyedHolds, ToldHolds, CountedHolds DEF CountInv

LEMMA Occur ==
    ASSUME NEW S, IsFiniteSet(S), NEW n \in Nat,
           \A i \in 1 .. n : \E g \in S : g.total = i
    PROVE  Cardinality(S) >= n
<1> DEFINE f == [i \in 1 .. n |-> CHOOSE g \in S : g.total = i]
<1>1. \A i \in 1 .. n : f[i] \in S /\ f[i].total = i
  OBVIOUS
<1>2. f \in Injection(1 .. n, S)
  BY <1>1 DEF Injection, IsInjective
<1>3. Cardinality(1 .. n) <= Cardinality(S)
  BY <1>2, FS_Injection
<1>4. Cardinality(1 .. n) = n
  BY FS_Interval
<1>5. Cardinality(S) \in Nat
  BY FS_CardinalityType
<1> QED
  BY <1>3, <1>4, <1>5

LEMMA RejectedFromInv ==
    ASSUME NamesDistinct, RoutesDistinct, CountInv
    PROVE  RejectedOverLimit
<1> SUFFICES ASSUME NEW r \in Requests, phase[r] = "rejected"
             PROVE  Cardinality({h \in hits : Same(h, told[r])}) > Limit(told[r])
  BY DEF RejectedOverLimit
<1> DEFINE t == told[r]
           S == {h \in hits : Same(h, t)}
<1>1. /\ turn[r] \in DOMAIN config.options /\ t \in hits /\ t.request = r
      /\ t.key = generateKey(r) /\ t.total > RuleOf(r).limit
  BY DEF CountInv, RequestsWereTold, Exceeds
<1>2. t.total \in Nat /\ config \in Configs /\ hits \subseteq Hit /\ IsFiniteSet(hits)
  BY <1>1 DEF CountInv, GuardTypes, Hit, TypeOK
<1>3. t.key = KeyFor(t.request, turn[r])
  BY <1>1 DEF generateKey, KeyFor, Option
<1>4. Limit(t) = RuleOf(r).limit
  <2>1. RuleOfHit(t) = RuleFor(config.route[r], config.options[turn[r]])
    BY <1>1, <1>2, <1>3, RuleOfKeyed
  <2>2. Limit(t) = RuleOfHit(t).limit
    BY DEF Limit, RuleOfHit, OptionOf
  <2> QED
    BY <2>1, <2>2 DEF RuleOf, Option
<1>5. RuleOf(r).limit \in Nat
  BY <1>1, <1>2, ConfigTypes, RuleTypes DEF RuleOf, Option
<1> HIDE DEF t
<1>6. ASSUME NEW i \in 1 .. t.total
      PROVE  \E g \in S : g.total = i
  <2>1. PICK g \in hits : g.key = t.key /\ g.until = t.until /\ g.total = i
    BY <1>1 DEF CountInv, AllCounted, HasTold
  <2>2. PICK m \in DOMAIN config.options : g.key = KeyFor(g.request, m)
    BY DEF CountInv, HitsAreKeyed
  <2>3. g.request \in Requests /\ t.request \in Requests
    BY <1>1, <1>2 DEF Hit
  <2>4. /\ config.route[g.request] = config.route[t.request]
        /\ config.caller[g.request] = config.caller[t.request]
    BY <1>1, <1>2, <1>3, <2>1, <2>2, <2>3, SameKeySameRule
  <2> QED
    BY <2>1, <2>4 DEF Same
<1>7. IsFiniteSet(S)
  BY <1>2, FS_Subset
<1>8. Cardinality(S) >= t.total
  <2> HIDE DEF S
  <2> QED
    BY <1>2, <1>6, <1>7, Occur
<1>9. Cardinality(S) \in Nat
  BY <1>7, FS_CardinalityType
<1> QED
  BY <1>1, <1>2, <1>4, <1>5, <1>8, <1>9 DEF t

-----------------------------------------------------------------------------
(* What the guard lets pass.                                               *)

LEMMA WidthsHold ==
    ASSUME NamesDistinct, RoutesDistinct, CountInv, Widths, [Next]_vars
    PROVE  Widths'
<1>1. config' = config /\ config \in Configs
  BY GuardSteps DEF CountInv, GuardTypes, TypeOK
<1>2. \A h : RuleOfHit(h)' = RuleOfHit(h)
  BY <1>1 DEF RuleOfHit, OptionOf, RuleFor, getOverrides
<1>3. ASSUME NEW r \in Requests, Count(r)
      PROVE  Widths'
  <2>1. PICK h : Counts(r, h)
    BY <1>3, CountTells DEF CountInv
  <2>2. /\ hits' = hits \cup {h} /\ h \in Hit /\ h.at = now /\ now \in Nat
        /\ h.request = r /\ h.key = KeyFor(r, turn[r]) /\ h.key \in Keys
        /\ turn[r] \in DOMAIN config.options
        /\ RuleOf(r).ttl \in Nat
    BY <2>1 DEF Counts, Hit
  <2>3. h.until > h.at <=> RuleOfHit(h).ttl > 0
    <3>1. CASE Live(h.key)
      <4>1. h.until = records[h.key].expiresAt /\ h.until > now
        BY <2>1, <3>1 DEF Counts, Live
      <4>2. 1 \in 1 .. records[h.key].totalHits
        <5>1. records[h.key].totalHits \in Nat
          BY <2>2, <3>1
          DEF Live, CountInv, GuardTypes, TypeOK, StorageTypeOK, Record
        <5> QED
          BY <2>2, <3>1, <5>1 DEF CountInv, AllCounted, WindowCounted
      <4>3. PICK g \in hits : g.key = h.key /\ g.until = h.until
        BY <2>2, <3>1, <4>1, <4>2
        DEF CountInv, AllCounted, WindowCounted, HasTold
      <4>4. g.until > g.at
        BY <2>2, <4>1, <4>3 DEF CountInv, HitsAreKeyed, GuardTypes, Hit
      <4>5. PICK m \in DOMAIN config.options : g.key = KeyFor(g.request, m)
        BY DEF CountInv, HitsAreKeyed
      <4>6. g.request \in Requests
        BY DEF CountInv, GuardTypes, Hit
      <4>7. RuleOfHit(g) = RuleOfHit(h)
        BY <1>1, <2>2, <4>3, <4>5, <4>6, SameKeySameRule
      <4> QED
        BY <2>2, <4>1, <4>4, <4>7 DEF Widths
    <3>2. CASE ~ Live(h.key)
      <4>1. h.until = now + RuleOf(r).ttl
        BY <2>1, <3>2 DEF Counts
      <4>2. RuleOfHit(h) = RuleOf(r)
        BY <1>1, <2>2, RuleOfKeyed DEF RuleOf, Option
      <4> QED
        BY <2>2, <4>1, <4>2
    <3> QED
      BY <3>1, <3>2
  <2> QED
    BY <1>2, <2>2, <2>3 DEF Widths
<1>4. CASE hits' = hits
  BY <1>2, <1>4 DEF Widths
<1> QED
  BY <1>3, <1>4, GuardSteps DEF CountInv

LEMMA PassedHold ==
    ASSUME NamesDistinct, CountInv, PassedFit, [Next]_vars
    PROVE  PassedFit'
<1>1. config' = config /\ config \in Configs
  BY GuardSteps DEF CountInv, GuardTypes, TypeOK
<1>2. \A h : Limit(h)' = Limit(h)
  BY <1>1 DEF Limit, RuleFor, getOverrides
<1>3. ASSUME NEW r \in Requests, Allow(r)
      PROVE  PassedFit'
  <2>1. /\ turn[r] \in DOMAIN config.options /\ told[r] \in hits
        /\ told[r].request = r /\ told[r].key = generateKey(r)
        /\ ~ Exceeds(r) /\ passed' = passed \cup {told[r]}
    BY <1>3 DEF Allow, CountInv, RequestsWereTold
  <2>2. told[r].key = KeyFor(told[r].request, turn[r])
    BY <2>1 DEF generateKey, KeyFor, Option
  <2>3. Limit(told[r]) = RuleOf(r).limit
    <3>1. RuleOfHit(told[r]) = RuleFor(config.route[r], config.options[turn[r]])
      BY <1>1, <2>1, <2>2, RuleOfKeyed
    <3>2. Limit(told[r]) = RuleOfHit(told[r]).limit
      BY DEF Limit, RuleOfHit, OptionOf
    <3> QED
      BY <3>1, <3>2 DEF RuleOf, Option
  <2>4. RuleOf(r).limit \in Nat /\ told[r].total \in Nat
    BY <1>1, <2>1, ConfigTypes, RuleTypes
    DEF RuleOf, Option, CountInv, GuardTypes, Hit
  <2>5. told[r].total <= Limit(told[r])
    BY <2>1, <2>3, <2>4 DEF Exceeds
  <2> QED
    BY <1>2, <2>1, <2>5 DEF PassedFit
<1>4. CASE passed' = passed
  BY <1>2, <1>4 DEF PassedFit
<1> QED
  BY <1>3, <1>4
  DEF Next, Serve, Arrive, Count, Reject, Admit, Close, Shutdown, Drained,
      Environment, Stopped, vars, guardVars

(* A hit belongs to the record's window, or that window is over.           *)
LEMMA WindowsKeep ==
    ASSUME LimitInv, WindowsHold, server = "open", hits' = hits,
           now' \in Nat, now <= now',
           \A h \in hits : h.until > now' =>
             records'[h.key] = records[h.key]
    PROVE  WindowsHold'
<1>1. \A h \in hits : h.until \in Nat /\ h.key \in Keys
  BY DEF LimitInv, CountInv, GuardTypes, Hit
<1>2. now \in Nat
  BY DEF LimitInv, CountInv, GuardTypes, TypeOK, StorageTypeOK
<1>3. ASSUME NEW h \in hits, h.until > now'
      PROVE  /\ Live(h.key)' /\ records'[h.key].expiresAt = h.until
             /\ h.total <= records'[h.key].totalHits
  BY <1>1, <1>2, <1>3 DEF WindowsHold, Current, Live
<1>4. \A h \in hits : Current(h)'
  BY <1>3 DEF Current
<1>5. \A g, h \in hits : Apart(g, h)' /\ Together(g, h)'
  BY DEF WindowsHold, Apart, Together
<1> QED
  BY <1>4, <1>5 DEF WindowsHold

LEMMA WindowsHit ==
    ASSUME NamesDistinct, RoutesDistinct, LimitInv, server = "open",
           Widths', HitsAreKeyed', config' = config,
           NEW r \in Requests, NEW h, Counts(r, h)
    PROVE  WindowsHold'
<1>1. /\ hits' = hits \cup {h} /\ h \in Hit /\ h.at = now /\ now' = now
      /\ now \in Nat /\ h.key \in Keys /\ h.until \in Nat /\ h.total \in Nat
      /\ records'[h.key] # None /\ records'[h.key].totalHits = h.total
      /\ records'[h.key].expiresAt = h.until
      /\ \A k \in Keys : k # h.key => records'[k] = records[k]
  BY DEF Counts, Hit
<1>2. \A g \in hits' : /\ g.key \in Keys /\ g.until \in Nat /\ g.at \in Nat
                       /\ g.total \in Nat /\ g.at <= now /\ g.request \in Requests
  BY <1>1 DEF LimitInv, CountInv, GuardTypes, HitsAreKeyed, Hit
<1>3. \A g \in hits : Current(g)
  BY DEF LimitInv, WindowsHold
<1>4. ASSUME NEW g \in hits', g.key = h.key
      PROVE  g.until > g.at <=> h.until > h.at
  <2>1. \A q, n : KeyFor(q, n)' = KeyFor(q, n)
    BY DEF KeyFor
  <2>2. PICK m \in DOMAIN config.options : g.key = KeyFor(g.request, m)
    BY <2>1 DEF HitsAreKeyed
  <2>3. PICK n \in DOMAIN config.options : h.key = KeyFor(h.request, n)
    BY <1>1, <2>1 DEF HitsAreKeyed
  <2>4. config \in Configs /\ g.request \in Requests /\ h.request \in Requests
    BY <1>1, <1>2 DEF LimitInv, CountInv, GuardTypes, TypeOK
  <2>5. RuleOfHit(g) = RuleOfHit(h)
    BY <1>4, <2>2, <2>3, <2>4, SameKeySameRule
  <2>6. \A x : RuleOfHit(x)' = RuleOfHit(x)
    BY DEF RuleOfHit, OptionOf, RuleFor, getOverrides
  <2> QED
    BY <1>1, <2>5, <2>6 DEF Widths
(* An earlier hit whose window is not over shares it with the new one.     *)
<1>5. ASSUME NEW g \in hits, g.key = h.key, g.until > now
      PROVE  h.until = g.until /\ g.total < h.total
  <2>1. /\ Live(h.key) /\ records[h.key].expiresAt = g.until
        /\ g.total <= records[h.key].totalHits
    BY <1>3, <1>5 DEF Current
  <2>2. records[h.key].totalHits \in Nat
    BY <1>1, <2>1 DEF Live, LimitInv, CountInv, GuardTypes, TypeOK,
                      StorageTypeOK, Record
  <2>3. h.until = records[h.key].expiresAt
        /\ h.total = records[h.key].totalHits + 1
    BY <2>1 DEF Counts
  <2> QED
    BY <1>2, <2>1, <2>2, <2>3, <1>1
<1>6. ASSUME NEW g \in hits'
      PROVE  Current(g)'
  <2>1. CASE g.key = h.key
    <3>1. g.until > now => g.until = h.until /\ g.total <= h.total
      BY <1>1, <1>2, <1>5, <2>1
    <3> QED
      BY <1>1, <2>1, <3>1 DEF Current, Live
  <2>2. CASE g.key # h.key
    <3>1. g \in hits /\ records'[g.key] = records[g.key]
      BY <1>1, <1>2, <2>2
    <3> QED
      BY <1>1, <1>3, <3>1 DEF Current, Live
  <2> QED
    BY <2>1, <2>2
<1>7. \A g, f \in hits : Apart(g, f) /\ Together(g, f)
  BY DEF LimitInv, WindowsHold
<1>8. ASSUME NEW g \in hits', NEW f \in hits'
      PROVE  Apart(g, f) /\ Together(g, f)
  <2>1. CASE g \in hits /\ f \in hits
    BY <1>7, <2>1
  <2>2. CASE g = h /\ f = h
    BY <2>2 DEF Apart, Together
  <2>3. CASE g = h /\ f \in hits
    <3>1. Apart(g, f)
      BY <1>1, <1>2, <1>5, <2>3 DEF Apart
    <3>2. Together(g, f)
      BY <1>1, <1>2, <1>5, <2>3 DEF Together
    <3> QED
      BY <3>1, <3>2
  <2>4. CASE g \in hits /\ f = h
    <3>1. Apart(g, f)
      <4>1. SUFFICES ASSUME g.key = h.key, g.until = h.until,
                            g.total = h.total, g.at < g.until
                     PROVE  FALSE
        BY <2>4 DEF Apart
      <4>2. h.until > now
        BY <1>1, <1>2, <1>4, <2>4, <4>1
      <4> QED
        BY <1>1, <1>2, <1>5, <2>4, <4>1, <4>2
    <3>2. Together(g, f)
      <4>1. SUFFICES ASSUME g.key = h.key, h.at <= g.at, g.at < h.until
                     PROVE  g.until = h.until
        BY <2>4 DEF Together
      <4>2. g.at = now /\ h.until > h.at
        BY <1>1, <1>2, <2>4, <4>1
      <4>3. g.until > now
        BY <1>1, <1>2, <1>4, <2>4, <4>1, <4>2
      <4> QED
        BY <1>5, <2>4, <4>1, <4>3
    <3> QED
      BY <3>1, <3>2
  <2> QED
    BY <1>1, <2>1, <2>2, <2>3, <2>4
<1> QED
  BY <1>6, <1>8 DEF WindowsHold, Apart, Together

LEMMA WindowsHoldOn ==
    ASSUME NamesDistinct, RoutesDistinct, LimitInv, [Next]_vars,
           Widths', HitsAreKeyed'
    PROVE  WindowsHold'
<1>1. config' = config /\ now \in Nat
  BY GuardSteps DEF LimitInv, CountInv, GuardTypes, TypeOK, StorageTypeOK
<1>2. CASE server' # "open"
  BY <1>2 DEF WindowsHold
<1>3. CASE server' = "open"
  <2>1. server = "open" /\ ~ OnAppClose
    BY <1>3, GuardSteps DEF LimitInv, CountInv
  <2>2. ASSUME NEW r \in Requests, Count(r)
        PROVE  WindowsHold'
    <3>1. PICK h : Counts(r, h)
      BY <2>2, CountTells DEF LimitInv, CountInv
    <3> QED
      BY <1>1, <2>1, <3>1, WindowsHit
  <2>3. CASE UNCHANGED <<hits, now, records>>
    BY <1>1, <2>1, <2>3, WindowsKeep DEF LimitInv
  <2>4. ASSUME NEW tm \in timers, Evict(tm), hits' = hits
        PROVE  WindowsHold'
    <3>1. /\ tm.key \in Keys /\ records[tm.key] # None
          /\ records[tm.key].expiresAt = tm.due /\ tm.due <= now
      BY <2>4 DEF Evict, LimitInv, StorageInv, StorageTypeOK, Timer,
                  TimersMatchRecords
    <3>2. \A k \in Keys : k # tm.key => records'[k] = records[k]
      BY <2>4 DEF Evict, LimitInv, StorageInv, StorageTypeOK
    <3>3. now' = now
      BY <2>4 DEF Evict
    <3>4. ASSUME NEW h \in hits, h.until > now
          PROVE  records'[h.key] = records[h.key]
      <4>1. h.key \in Keys /\ h.until \in Nat
        BY DEF LimitInv, CountInv, GuardTypes, Hit
      <4>2. records[h.key].expiresAt = h.until
        BY <2>1, <3>4 DEF LimitInv, WindowsHold, Current
      <4>3. h.key # tm.key
        BY <1>1, <3>1, <3>4, <4>1, <4>2
      <4> QED
        BY <3>2, <4>1, <4>3
    <3> QED
      BY <1>1, <2>1, <2>4, <3>3, <3>4, WindowsKeep DEF LimitInv
  <2>5. ASSUME Tick, hits' = hits
        PROVE  WindowsHold'
    <3>1. now' = now + 1 /\ records' = records
      BY <2>5 DEF Tick
    <3> QED
      BY <1>1, <2>1, <2>5, <3>1, WindowsKeep DEF LimitInv
  <2> QED
    BY <2>1, <2>2, <2>3, <2>4, <2>5, GuardSteps
    DEF LimitInv, CountInv, storageVars
<1> QED
  BY <1>2, <1>3

LEMMA LimitInit == Init => LimitInv
BY CountInit, InitInv
DEF Init, LimitInv, Widths, PassedFit, WindowsHold

LEMMA LimitNext ==
    ASSUME TtlsFit, NamesDistinct, RoutesDistinct, LimitInv, [Next]_vars
    PROVE  LimitInv'
<1>1. CountInv' /\ Widths' /\ PassedFit'
  BY CountNext, WidthsHold, PassedHold DEF LimitInv
<1>2. StorageInv'
  BY GuardSteps, NextInv DEF LimitInv, CountInv
<1>3. WindowsHold'
  BY <1>1, WindowsHoldOn DEF CountInv
<1> QED
  BY <1>1, <1>2, <1>3 DEF LimitInv

LEMMA TellApart ==
    ASSUME NEW S, NEW n \in Nat,
           \A g \in S : g.total \in 1 .. n,
           \A g, h \in S : g.total = h.total => g = h
    PROVE  Cardinality(S) <= n
<1> DEFINE f == [g \in S |-> g.total]
<1>1. f \in Injection(S, 1 .. n)
  BY DEF Injection, IsInjective
<1>2. Cardinality(S) <= Cardinality(1 .. n) /\ IsFiniteSet(1 .. n)
  BY <1>1, FS_Injection, FS_Interval
<1>3. Cardinality(1 .. n) = n
  BY FS_Interval
<1> QED
  BY <1>2, <1>3

LEMMA LimitFromInv ==
    ASSUME NamesDistinct, RoutesDistinct, LimitInv
    PROVE  LimitHolds
<1> SUFFICES ASSUME server = "open", NEW h \in hits
             PROVE  Cardinality({p \in passed : /\ p.key = h.key
                                                /\ h.at <= p.at /\ p.at < h.until})
                      <= Limit(h)
  BY DEF LimitHolds
<1> DEFINE S == {p \in passed : /\ p.key = h.key
                                /\ h.at <= p.at /\ p.at < h.until}
<1>1. passed \subseteq hits /\ hits \subseteq Hit /\ config \in Configs
  BY DEF LimitInv, CountInv, GuardTypes, TypeOK
<1>2. \A g \in hits : \E n \in DOMAIN config.options :
        g.key = KeyFor(g.request, n)
  BY DEF LimitInv, CountInv, HitsAreKeyed
<1>3. \A g \in hits : g.key = h.key => Limit(g) = Limit(h)
  <2>1. ASSUME NEW g \in hits, g.key = h.key
        PROVE  RuleOfHit(g) = RuleOfHit(h)
    <3>1. g.request \in Requests /\ h.request \in Requests
      BY <1>1 DEF Hit
    <3> QED
      BY <1>1, <1>2, <2>1, <3>1, SameKeySameRule
  <2>2. \A g : Limit(g) = RuleOfHit(g).limit
    BY DEF Limit, RuleOfHit, OptionOf
  <2> QED
    BY <2>1, <2>2
<1>4. Limit(h) \in Nat
  <2>1. PICK n \in DOMAIN config.options : h.key = KeyFor(h.request, n)
    BY <1>2
  <2>2. RuleOfHit(h) = RuleFor(config.route[h.request], config.options[n])
    BY <1>1, <2>1, RuleOfKeyed
  <2>3. config.route[h.request] \in Routes
    BY <1>1, ConfigTypes DEF Hit
  <2>4. Limit(h) = RuleOfHit(h).limit
    BY DEF Limit, RuleOfHit, OptionOf
  <2> QED
    BY <1>1, <2>1, <2>2, <2>3, <2>4, RuleTypes
<1>5. \A p \in hits : p.total >= 1 /\ p.total \in Nat
  BY <1>1 DEF Hit
<1>6. ASSUME NEW p \in S
      PROVE  p.total \in 1 .. Limit(h)
  <2>1. p.total <= Limit(p) /\ Limit(p) = Limit(h)
    BY <1>1, <1>3 DEF LimitInv, PassedFit
  <2> QED
    BY <1>1, <1>4, <1>5, <2>1
<1>7. ASSUME NEW p \in S, NEW q \in S, p.total = q.total
      PROVE  p = q
  <2>1. p.until = h.until /\ q.until = h.until
    BY <1>1 DEF LimitInv, WindowsHold, Together
  <2> QED
    BY <1>1, <1>7, <2>1 DEF LimitInv, WindowsHold, Apart
<1> HIDE DEF S
<1>8. Cardinality(S) <= Limit(h)
  BY <1>4, <1>6, <1>7, TellApart
<1> QED
  BY <1>8 DEF S

-----------------------------------------------------------------------------
(* "The maximum number of requests allowed within the `ttl` window"        *)
(* (throttler/interface.ts): for any number of requests, callers, routes   *)
(* and throttlers, whenever the timers fire, no more hits pass a throttler *)
(* within a window than its limit, as long as the server is open.          *)
THEOREM LimitIsKept ==
    ASSUME TtlsFit, NamesDistinct, RoutesDistinct
    PROVE  Spec => []LimitHolds
<1>1. Init => LimitInv
  BY LimitInit
<1>2. LimitInv /\ [Next]_vars => LimitInv'
  BY LimitNext
<1>3. LimitInv => LimitHolds
  BY LimitFromInv
<1> QED
  BY <1>1, <1>2, <1>3, PTL DEF Spec

(* canActivate rejects a request only when its own caller has hit its own  *)
(* route more often than the limit within one window, whatever the         *)
(* durations are and also while the application closes.                    *)
THEOREM RejectionsAreEarned ==
    ASSUME NamesDistinct, RoutesDistinct
    PROVE  Spec => []RejectedOverLimit
<1>1. CountInv => RejectedOverLimit
  BY RejectedFromInv
<1> QED
  BY <1>1, CountInit, CountNext, PTL DEF Spec

(* The guard only uses the storage through increment and the closing of    *)
(* the application, so what holds of the storage on its own holds in it.   *)
THEOREM GuardKeepsTimers ==
    ASSUME TtlsFit
    PROVE  Spec => []TimersMatchRecords
<1>1. Init => CountInv /\ StorageInv
  BY CountInit, InitInv DEF Init
<1>2. CountInv /\ StorageInv /\ [Next]_vars => CountInv' /\ StorageInv'
  BY CountNext, NextInv, GuardSteps DEF CountInv
<1>3. StorageInv => TimersMatchRecords
  BY DEF StorageInv
<1> QED
  BY <1>1, <1>2, <1>3, PTL DEF Spec

=============================================================================
