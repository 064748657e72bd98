------------------------------ MODULE Routing ------------------------------
(***************************************************************************)
(* From the declared controllers to the routes that requests find:         *)
(* DanetApplication.bootstrap gives each controller to a transport, to the *)
(* WebSocket router or to the HTTP router (src/app.ts), which add to one   *)
(* table of Hono (src/router/router.ts, src/router/websocket/router.ts).   *)
(* Modules are bootstrapped one after the other, with awaits between them, *)
(* while the application may be configured and requests may arrive.        *)
(***************************************************************************)
EXTENDS Parameters

CONSTANTS
    Controllers,
    Describe,    \* what the decorators of each controller say
    Transports,  \* metadata keys of external transports
    Setups,      \* the controllers of each module, in the order of bootstrap
    BasePaths,   \* what registerBasePath may be called with
    Files,       \* the paths of static files
    Slash        \* the character; a path is a sequence of it and of names

Undefined == <<"undefined">>
Uses == {"cors", "use", "static"}

IsSequence(s) == s \in Seq(Range(s))

ASSUME ControllersAssumption ==
    /\ \A s \in Setups : s \in Seq(Seq(Controllers))
    /\ \A c \in Controllers :
         /\ IsSequence(Describe[c].endpoint) /\ IsSequence(Describe[c].socket)
         /\ IsSequence(Describe[c].methods)
         /\ \A m \in Range(Describe[c].methods) :
              IsSequence(m.endpoint) /\ IsSequence(m.decorators)
    /\ \A p \in BasePaths : IsSequence(p)

VARIABLES
    setup,      \* the modules, fixed from the start
    phase,      \* of init
    next,       \* the module whose turn it is
    prefix,     \* of the HTTP router
    transports, \* externalTransports
    table,      \* Hono's routes and middlewares, in the order of their adding
    built,      \* whether Hono has compiled its matcher
    delegated,  \* the controllers each transport was given
    early,      \* history: the middlewares added before init
    late,       \* history: whether a setting was changed after init began
    request,    \* where each request is
    route,      \* the route that takes it
    seen        \* history: the middlewares it passed

vars == <<setup, phase, next, prefix, transports, table, built, delegated,
          early, late, request, route, seen, resolving>>
settings == <<prefix, transports>>
requests == <<request, route, seen, resolving>>

Init ==
    /\ setup \in Setups
    /\ phase = "new" /\ next = 1
    /\ prefix = <<>> /\ transports = {}
    /\ table = <<>> /\ built = FALSE /\ delegated = {}
    /\ early = {} /\ late = FALSE
    /\ request = [r \in Requests |-> "coming"]
    /\ route = [r \in Requests |-> None]
    /\ seen = [r \in Requests |-> {}]
    /\ ParametersInit

-----------------------------------------------------------------------------
(* Paths.                                                                  *)

(* Mutant: only a leading slash is taken away.                             *)
TrimSlashFirst(p) == IF p # <<>> /\ Head(p) = Slash THEN Tail(p) ELSE p

TrimSlash(p) ==
    LET q == IF p # <<>> /\ Last(p) = Slash THEN Front(p) ELSE p
    IN  IF q # <<>> /\ Head(q) = Slash THEN Tail(q) ELSE q

RoutePath(base, endpoint) ==
    LET b == TrimSlash(base)
        e == TrimSlash(endpoint)
        path == (IF b = <<>> THEN <<>> ELSE <<Slash>> \o b)
                  \o (IF e = <<>> THEN <<>> ELSE <<Slash>> \o e)
    IN  prefix \o (IF path = <<>> THEN <<Slash>> ELSE path)

(* No empty segment before the end.                                        *)
Tidy(p) == \A i \in DOMAIN p : i > 1 => ~ (p[i] = Slash /\ p[i - 1] = Slash)

(* What is joined has no empty segments.  The theorem on paths needs it.   *)
PathsTidy ==
    /\ \A p \in BasePaths : Tidy(p)
    /\ \A c \in Controllers :
         /\ Tidy(Describe[c].endpoint)
         /\ \A m \in Range(Describe[c].methods) : Tidy(m.endpoint)

(* The names of a path.                                                    *)
Segments(p) ==
    LET names[n \in 0 .. Len(p)] ==
          IF n = 0 THEN <<>>
          ELSE IF p[n] = Slash THEN names[n - 1] ELSE Append(names[n - 1], p[n])
    IN  names[Len(p)]

-----------------------------------------------------------------------------
(* The registration of a module's controllers: no await between them.      *)

(* Mutant: a route that Hono does not take is passed over.                 *)
AddSilently(st, entry) ==
    IF built THEN st ELSE [st EXCEPT !.table = Append(@, entry)]

(* Mutant: routes are put in front of the middlewares.                     *)
AddInFront(st, entry) ==
    IF built THEN [st EXCEPT !.ok = FALSE]
    ELSE [st EXCEPT !.table = <<entry>> \o @]

(* Once its matcher is built Hono takes no more routes.                    *)
Add(st, entry) ==
    IF built THEN [st EXCEPT !.ok = FALSE]
    ELSE [st EXCEPT !.table = Append(@, entry)]

(* A method without a decorator has no endpoint to trim.                   *)
CreateRoute(c, st, m) ==
    CASE ~ st.ok -> st
      [] st.ok /\ Undefined \in {Describe[c].endpoint, m.endpoint} ->
           [st EXCEPT !.ok = FALSE]
      [] OTHER -> Add(st, [kind |-> "route", verb |-> m.verb,
                           path |-> RoutePath(Describe[c].endpoint, m.endpoint),
                           by |-> <<c, m>>])

RegisterHttp(st, c) ==
    LET methods == Describe[c].methods
        after[n \in 0 .. Len(methods)] ==
          IF n = 0 THEN st ELSE CreateRoute(c, after[n - 1], methods[n])
    IN  after[Len(methods)]

RegisterWebSocket(st, c) ==
    LET p == TrimSlash(Describe[c].socket) IN
    Add(st, [kind |-> "socket", verb |-> "GET",
             path |-> IF p = <<>> THEN <<>> ELSE <<Slash>> \o p,
             by |-> <<c>>])

Owners(c) == transports \cap Describe[c].keys

Delegate(st, c) ==
    [st EXCEPT !.delegated = @ \cup {<<CHOOSE t \in Owners(c) : TRUE, c>>}]

(* An empty endpoint is falsy: such a controller goes to the HTTP router.  *)
Register(st, c) ==
    CASE ~ st.ok -> st
      [] st.ok /\ Owners(c) # {} -> Delegate(st, c)
      [] OTHER -> IF Describe[c].socket \notin {Undefined, <<>>}
                  THEN RegisterWebSocket(st, c) ELSE RegisterHttp(st, c)

RegisterAll(st, controllers) ==
    LET after[n \in 0 .. Len(controllers)] ==
          IF n = 0 THEN st ELSE Register(after[n - 1], controllers[n])
    IN  after[Len(controllers)]

BootstrapModule ==
    /\ phase = "init" /\ next <= Len(setup)
    /\ LET st == RegisterAll(
                     [table |-> table, delegated |-> delegated, ok |-> TRUE],
                     setup[next])
       IN  /\ table' = st.table
           /\ delegated' = st.delegated
           /\ phase' = IF st.ok THEN "init" ELSE "failed"
    /\ next' = next + 1
    /\ UNCHANGED <<setup, settings, built, early, late, requests>>

CallInit ==
    /\ phase = "new"
    /\ phase' = "init"
    /\ UNCHANGED <<setup, next, settings, table, built, delegated, early, late,
                   requests>>

InitDone ==
    /\ phase = "init" /\ next > Len(setup)
    /\ phase' = "done"
    /\ UNCHANGED <<setup, next, settings, table, built, delegated, early, late,
                   requests>>

-----------------------------------------------------------------------------
(* The setters, which may be called at any time.                           *)

SetPrefix(p) == IF p # <<>> /\ Last(p) = Slash THEN Front(p) ELSE p

RegisterBasePath(p) ==
    /\ prefix # SetPrefix(p)
    /\ prefix' = SetPrefix(p)
    /\ late' = (late \/ phase # "new")
    /\ UNCHANGED <<setup, phase, next, transports, table, built, delegated,
                   early, requests>>

UseTransport(t) ==
    /\ t \notin transports
    /\ transports' = transports \cup {t}
    /\ late' = (late \/ phase # "new")
    /\ UNCHANGED <<setup, phase, next, prefix, table, built, delegated, early,
                   requests>>

Added == {table[i].kind : i \in DOMAIN table}

(* enableCors, use and useStaticAssets, each once; they throw when Hono    *)
(* has built its matcher.                                                  *)
Use(u) ==
    /\ u \notin Added /\ ~ built
    /\ table' = Append(table, [kind |-> u, verb |-> "ALL", path |-> <<>>, by |-> <<u>>])
    /\ early' = IF phase = "new" THEN early \cup {u} ELSE early
    /\ UNCHANGED <<setup, phase, next, settings, built, delegated, late, requests>>

-----------------------------------------------------------------------------
(* A request: Hono runs what matches in the order of the table.            *)

(* HEAD is looked up as GET.                                               *)
Verb(r) == IF content[r].verb = "HEAD" THEN "GET" ELSE content[r].verb

Matches(entry, r) ==
    \/ entry.kind \in Uses
    \/ entry.verb \in {"ALL", Verb(r)}
         /\ Segments(entry.path) = Segments(content[r].path)

(* CORS answers a preflight, a static file is served, a route answers;     *)
(* any other middleware calls next().                                      *)
Ends(entry, r) ==
    CASE entry.kind = "cors" -> Verb(r) = "OPTIONS"
      [] entry.kind = "static" -> Segments(content[r].path) \in Files
      [] entry.kind = "use" -> FALSE
      [] OTHER -> TRUE

Ending(r) == {i \in DOMAIN table : Matches(table[i], r) /\ Ends(table[i], r)}
Passed(r, n) == {table[i].kind : i \in {j \in 1 .. n : table[j].kind \in Uses}}

Dispatch(r) ==
    /\ request[r] = "coming"
    /\ built' = TRUE
    /\ IF Ending(r) = {}
       THEN /\ request' = [request EXCEPT ![r] = "notFound"]
            /\ seen' = [seen EXCEPT ![r] = Passed(r, Len(table))]
            /\ UNCHANGED route
       ELSE LET i == CHOOSE k \in Ending(r) : \A n \in Ending(r) : k <= n IN
            /\ seen' = [seen EXCEPT ![r] = Passed(r, i)]
            /\ request' = [request EXCEPT ![r] =
                 IF table[i].kind = "route" THEN "resolving" ELSE "answered"]
            /\ route' = [route EXCEPT ![r] = table[i].by]
    /\ UNCHANGED <<setup, phase, next, settings, table, delegated, early, late,
                   resolving>>

Decorators(r) == route[r][2].decorators

Resolve(r) ==
    /\ request[r] = "resolving"
    /\ \/ ResolveNext(Decorators(r), r) /\ UNCHANGED request
       \/ ResolveThrows(Decorators(r), r)
            /\ request' = [request EXCEPT ![r] = "refused"]
       \/ ~ Pending(Decorators(r), r) /\ UNCHANGED resolving
            /\ request' = [request EXCEPT ![r] = "called"]
    /\ UNCHANGED <<setup, phase, next, settings, table, built, delegated, early,
                   late, route, seen>>

Idle ==
    /\ phase \in {"done", "failed"}
    /\ \A r \in Requests : request[r] \notin {"resolving"}
    /\ UNCHANGED vars

-----------------------------------------------------------------------------
Next ==
    \/ CallInit \/ BootstrapModule \/ InitDone
    \/ \E p \in BasePaths : RegisterBasePath(p)
    \/ \E t \in Transports : UseTransport(t)
    \/ \E u \in Uses : Use(u)
    \/ \E r \in Requests : Dispatch(r) \/ Resolve(r)
    \/ Idle

Spec == Init /\ [][Next]_vars

-----------------------------------------------------------------------------
Routes == {table[i] : i \in {k \in DOMAIN table : table[k].kind = "route"}}
Sockets == {table[i] : i \in {k \in DOMAIN table : table[k].kind = "socket"}}
Bootstrapped == UNION {Range(setup[k]) : k \in DOMAIN setup}

TypeOK ==
    /\ setup \in Setups
    /\ phase \in {"new", "init", "done", "failed"}
    /\ next \in 1 .. Len(setup) + 1
    /\ transports \subseteq Transports
    /\ \A e \in Range(table) : e.kind \in Uses \cup {"route", "socket"}
    /\ delegated \subseteq Transports \X Controllers
    /\ early \subseteq Uses
    /\ request \in [Requests -> {"coming", "notFound", "answered", "resolving",
                                 "refused", "called"}]

(* When init resolves, every controller of every module can be reached:    *)
(* each method by its route, or the controller through its socket or its   *)
(* transport, however the application was configured and whatever requests *)
(* arrived meanwhile.  What a transport owns has no route and no socket,   *)
(* unless the transports changed while init ran.                           *)
InitRegistersAll ==
    /\ phase = "done" =>
         \A c \in Bootstrapped :
            \/ \E t \in Transports : <<t, c>> \in delegated
            \/ \E s \in Sockets : s.by = <<c>>
            \/ \A m \in Range(Describe[c].methods) :
                 \E e \in Routes : e.by = <<c, m>>
    /\ ~ late => \A d \in delegated : \A e \in Routes \cup Sockets : e.by[1] # d[2]

(* Unless it is changed while init runs, the base path is in front of      *)
(* every route, and a route's path has the names of its parts ...          *)
NamesAreJoined ==
    ~ late => \A e \in Routes :
        Segments(e.path) =
          Segments(prefix) \o Segments(Describe[e.by[1]].endpoint)
                           \o Segments(e.by[2].endpoint)

(* ... and no empty segment before its end.                                *)
PathsAreJoined ==
    NamesAreJoined /\ (~ late => \A e \in Routes : Tidy(e.path))

(* A request that reaches a controller has passed every middleware that    *)
(* the application added before init.                                      *)
MiddlewaresComeFirst ==
    \A r \in Requests : request[r] \in {"resolving", "called"} =>
        early \subseteq seen[r]

(* Each decorated parameter gets its own part of its own request, and the  *)
(* method is never called with a body that its class refuses.              *)
ArgumentsInPlace ==
    \A r \in Requests : request[r] = "called" =>
        \A i \in DOMAIN Decorators(r) : Decorators(r)[i] # None =>
            /\ i \in DOMAIN params[r]
            /\ params[r][i] = ValueOf(Decorators(r)[i], r)
            /\ Decorators(r)[i].of = "body" =>
                 content[r].body \in
                   {"falsy", "accepted"}
                     \cup (IF Decorators(r)[i].prop # None THEN {"part"} ELSE {})

=============================================================================
