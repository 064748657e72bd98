----------------------------- MODULE Throttler -----------------------------
(* ThrottlerGuard.canActivate (src/throttler/guard.ts) for concurrent      *)
(* requests over the in-memory storage, and the closing of the application *)
(* (DanetApplication.close in src/app.ts): the storage's onAppClose runs   *)
(* while the server still serves.                                          *)
EXTENDS ThrottlerStorage, Sequences, FiniteSets

CONSTANTS
    Requests,   \* the requests
    Callers,    \* what getTracker tells apart
    Routes,     \* the handlers, each a method of a controller
    Names,      \* the names of the throttlers
    Methods,    \* what className and methodName tell apart
    Configs     \* the configurations considered

(* A configuration: the options of forRoot, the names of the routes'       *)
(* classes and methods, the metadata of @Throttle and @SkipThrottle, and   *)
(* who asks for what.                                                      *)
Rule == [limit : Nat, ttl : Ttls]
Overrides == [Names -> Rule \cup {None}]
Config == [options   : Seq([name : Names, limit : Nat, ttl : Ttls]),
           method    : [Routes -> Methods],
           onHandler : [Routes -> Overrides \cup {None}],
           onClass   : [Routes -> Overrides \cup {None}],
           skipped   : SUBSET Routes,
           caller    : [Requests -> Callers],
           route     : [Requests -> Routes]]

ASSUME ConfigsAssumption ==
    /\ \A c \in Configs : c \in Config
    /\ Keys = Names \X Callers \X Methods

(* What the limits of the guard need: the throttlers of a configuration    *)
(* have names of their own, and no two routes share the names of class and *)
(* method that a key is made of.  The theorems need it.                    *)
NamesDistinct ==
    \A c \in Configs : \A m, n \in DOMAIN c.options :
        c.options[m].name = c.options[n].name => m = n
RoutesDistinct ==
    \A c \in Configs : \A a, b \in Routes : c.method[a] = c.method[b] => a = b


VARIABLES
    config,  \* the configuration, fixed from the start
    phase,   \* how far each request is
    turn,    \* the throttler each request is at
    told,    \* the hit each request made at that throttler
    hits,    \* history: the hits of every request
    passed,  \* history: the hits that were allowed
    server   \* how far DanetApplication.close is

guardVars == <<phase, turn, told, hits, passed, server>>
vars == <<storageVars, guardVars, config>>

Init ==
    /\ StorageInit
    /\ config \in Configs
    /\ phase = [r \in Requests |-> "coming"]
    /\ turn = [r \in Requests |-> 1]
    /\ told = [r \in Requests |-> None]
    /\ hits = {}
    /\ passed = {}
    /\ server = "open"

-----------------------------------------------------------------------------
Option(r) == config.options[turn[r]]

(* The overrides of the handler hide all of the controller's.              *)
getOverrides(route) ==
    IF config.onHandler[route] # None THEN config.onHandler[route]
    ELSE config.onClass[route]

(* The limit and duration a throttler has for a route.                     *)
RuleFor(route, option) ==
    LET overrides == getOverrides(route) IN
    IF overrides # None /\ overrides[option.name] # None
    THEN overrides[option.name]
    ELSE [limit |-> option.limit, ttl |-> option.ttl]

RuleOf(r) == RuleFor(config.route[r], Option(r))

generateKey(r) ==
    <<Option(r).name, config.caller[r], config.method[config.route[r]]>>

(* The server takes requests until shutdown is called.                     *)
Arrive(r) ==
    /\ phase[r] = "coming"
    /\ server \in {"open", "hooked"} /\ now <= LastHit
    /\ phase' = [phase EXCEPT ![r] =
         IF config.route[r] \in config.skipped THEN "admitted" ELSE "counting"]
    /\ UNCHANGED <<storageVars, turn, told, hits, passed, server, config>>

(* increment is called; its result is awaited.                             *)
Count(r) ==
    /\ phase[r] = "counting"
    /\ turn[r] <= Len(config.options)
    /\ Increment(generateKey(r), RuleOf(r).ttl)
    /\ told' = [told EXCEPT ![r] =
                  [request |-> r, key |-> generateKey(r),
                   total |-> reply'.totalHits, at |-> now,
                   until |-> now + reply'.timeToExpire]]
    /\ hits' = hits \cup {told'[r]}
    /\ phase' = [phase EXCEPT ![r] = "waiting"]
    /\ UNCHANGED <<turn, passed, server, config>>

(* Mutants: one request too many; one too few.                             *)
ExceedsLater(r) == told[r].total > RuleOf(r).limit + 1
ExceedsSooner(r) == told[r].total >= RuleOf(r).limit

Exceeds(r) == told[r].total > RuleOf(r).limit

Allow(r) ==
    /\ phase[r] = "waiting"
    /\ ~ Exceeds(r)
    /\ turn' = [turn EXCEPT ![r] = @ + 1]
    /\ phase' = [phase EXCEPT ![r] = "counting"]
    /\ passed' = passed \cup {told[r]}
    /\ UNCHANGED <<storageVars, told, hits, server, config>>

(* A ThrottlerException: the hits before this one stay counted.            *)
Reject(r) ==
    /\ phase[r] = "waiting"
    /\ Exceeds(r)
    /\ phase' = [phase EXCEPT ![r] = "rejected"]
    /\ UNCHANGED <<storageVars, turn, told, hits, passed, server, config>>

Admit(r) ==
    /\ phase[r] = "counting"
    /\ turn[r] > Len(config.options)
    /\ phase' = [phase EXCEPT ![r] = "admitted"]
    /\ UNCHANGED <<storageVars, turn, told, hits, passed, server, config>>

-----------------------------------------------------------------------------
(* DanetApplication.close.                                                 *)

Close ==
    /\ server = "open"
    /\ OnAppClose
    /\ server' = "hooked"
    /\ UNCHANGED <<phase, turn, told, hits, passed, config>>

Shutdown ==
    /\ server = "hooked"
    /\ server' = "draining"
    /\ UNCHANGED <<storageVars, phase, turn, told, hits, passed, config>>

InFlight == {r \in Requests : phase[r] \in {"counting", "waiting"}}

Drained ==
    /\ server = "draining"
    /\ InFlight = {}
    /\ server' = "down"
    /\ UNCHANGED <<storageVars, phase, turn, told, hits, passed, config>>

-----------------------------------------------------------------------------
Serve(r) == Count(r) \/ Allow(r) \/ Reject(r) \/ Admit(r)

Environment ==
    /\ \/ \E tm \in timers : Evict(tm)
       \/ (now < LastHit \/ InFlight = {}) /\ Tick
    /\ UNCHANGED <<guardVars, config>>

(* The process is left with nothing to do.                                 *)
Stopped ==
    /\ server = "down" /\ timers = {} /\ now = MaxTime
    /\ UNCHANGED vars

Next ==
    \/ \E r \in Requests : Arrive(r) \/ Serve(r)
    \/ Close \/ Shutdown \/ Drained
    \/ Environment
    \/ Stopped

(* The event loop fires due timers and resumes what it has accepted, and   *)
(* close goes on; requests need not arrive, nor the application close.     *)
Fairness ==
    /\ \A r \in Requests : WF_vars(Serve(r))
    /\ WF_vars(Shutdown) /\ WF_vars(Drained)
    /\ WF_vars(Environment)

Spec == Init /\ [][Next]_vars /\ Fairness

-----------------------------------------------------------------------------
(* Every request is at a throttler of the list, with what it was told.     *)
TypeOK ==
    /\ StorageTypeOK
    /\ config \in Configs
    /\ phase \in [Requests -> {"coming", "counting", "waiting", "admitted",
                               "rejected"}]
    /\ \A r \in Requests : turn[r] \in 1 .. Len(config.options) + 1
    /\ passed \subseteq hits
    /\ server \in {"open", "hooked", "draining", "down"}

(* What the throttler named in a hit's key allows the route of the hit.    *)
Limit(h) ==
    LET n == CHOOSE m \in DOMAIN config.options :
               config.options[m].name = h.key[1]
    IN RuleFor(config.route[h.request], config.options[n]).limit

(* "The maximum number of requests allowed within the `ttl` window": from  *)
(* a hit to the end of its window no throttler lets more requests pass     *)
(* than its limit, whenever the timers fire.                               *)
LimitHolds ==
    server = "open" =>
        \A h \in hits :
            Cardinality({p \in passed : /\ p.key = h.key
                                        /\ h.at <= p.at /\ p.at < h.until})
              <= Limit(h)

(* "The unique key identifying the caller and route": a request is only    *)
(* rejected when its own caller has hit its own route more often than the  *)
(* limit within one window.                                                *)
Same(h, g) ==
    /\ config.caller[h.request] = config.caller[g.request]
    /\ config.route[h.request] = config.route[g.request]
    /\ h.key[1] = g.key[1]
    /\ h.until = g.until
RejectedOverLimit ==
    \A r \in Requests : phase[r] = "rejected" =>
        Cardinality({h \in hits : Same(h, told[r])}) > Limit(told[r])

(* The process can end: a window that a late request opened after the      *)
(* storage was closed is evicted too, so that no timer is left for ever.   *)
ProcessEnds ==
    server = "hooked" ~> (server = "down" /\ timers = {})

=============================================================================
