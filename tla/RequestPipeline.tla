-------------------------- MODULE RequestPipeline --------------------------
(***************************************************************************)
(* One HTTP request through the two handlers that DanetHTTPRouter gives to *)
(* Hono for a route (src/router/router.ts): the first runs the middlewares *)
(* (src/router/middleware/executor.ts), the last one's next() runs the     *)
(* second, handleRoute: guards, parameters, controller, response.  Both    *)
(* send what they catch to handleError and its exception filters.          *)
(*                                                                         *)
(* A middleware is any program: it may call next never, once or again, and *)
(* await its promise or not.  A step is the code between two awaits.       *)
(***************************************************************************)
EXTENDS Integers, Sequences

CONSTANTS
    MaxMiddlewares,  \* bound: middlewares of a route, global ones included
    Thrown,          \* what the application's code may throw
    Nullish,         \* undefined or null, which can be thrown too
    Forbidden,       \* the ForbiddenException of a guard that says no
    Internal,        \* an error of the framework or of the engine
    Setups,          \* the routes considered
    None

Errors == Thrown \cup {Forbidden, Internal}

(* The first handler is at position 0, the middlewares follow, and the     *)
(* second handler is last.                                                 *)
First == 0
Route == MaxMiddlewares + 1
Positions == First .. Route
Handlers == {First, Route}

(* The guards of a route: 1 the global one, 2 the controller's, 3 the      *)
(* method's.  Its filters in the order they are tried: the controller's,   *)
(* the method's, the global ones; a scoped one is not a singleton.         *)
Guards == 1 .. 3
Filter == [scoped : BOOLEAN, catches : SUBSET Errors]
Setup == [middlewares : 0 .. MaxMiddlewares,
          scopedMiddlewares : SUBSET (1 .. MaxMiddlewares),
          guards : SUBSET Guards, scopedGuards : SUBSET {2, 3},
          scopedController : BOOLEAN,
          filters : Seq(Filter)]

ASSUME SetupsAssumption == \A s \in Setups : s \in Setup
(* The stages of handleRoute: its guards, then what follows them.          *)
Params == 4
Instance == 5
Call == 6
Send == 7
Stages == 1 .. Send

Response == [kind : {"empty", "route", "filter", "default", "hono"},
             by : Handlers, filter : Nat]

ASSUME ErrorsAssumption ==
    /\ MaxMiddlewares \in Nat
    /\ Nullish \notin {Forbidden, Internal}
    /\ None \notin Errors \cup [error : Errors, at : Nat] \cup Response

VARIABLES
    setup,     \* the route, fixed from the start
    status,    \* how far the code at each position is
    failure,   \* what the middleware at a position threw
    index,     \* the executor's: the last call of dispatch
    stage,     \* where handleRoute is
    handling,  \* the error each handler handles and the filter it is at
    res,       \* context.res
    sent,      \* what the client got
    cached,    \* whether contextInjectables has an entry for the request
    runs,      \* history: how often each position was entered
    calls,     \* history: how often the controller's method was called
    allowed,   \* history: the guards that said yes
    asked,     \* history: the filters that were asked, by each handler
    declined,  \* history: those that gave no response
    floated    \* history: whether a middleware left a next() behind

history == <<runs, calls, allowed, asked, declined, floated>>
vars == <<setup, status, failure, index, stage, handling, res, sent, cached,
          history>>

Reply(kind, h, k) == [kind |-> kind, by |-> h, filter |-> k]

Init ==
    /\ setup \in Setups
    /\ status = [p \in Positions |-> IF p = First THEN "running" ELSE "idle"]
    /\ failure = [p \in Positions |-> None]
    /\ index = -1
    /\ stage = 1
    /\ handling = [h \in Handlers |-> None]
    /\ res = Reply("empty", First, 0)
    /\ sent = None
    /\ cached = FALSE
    /\ runs = [p \in Positions |-> 0]
    /\ calls = 0
    /\ allowed = {}
    /\ asked = {}
    /\ declined = {}
    /\ floated = FALSE

-----------------------------------------------------------------------------
(* MiddlewareExecutor.executeAllRelevantMiddlewares.                       *)

Middlewares == 1 .. setup.middlewares
Callee(p) == IF p < setup.middlewares THEN p + 1 ELSE Route

(* Mutant: next() may be called again.                                     *)
FreshAlways(p) == TRUE

Fresh(p) == p > index

(* Mutant: a middleware that throws never settles its caller's await.      *)
SettledWell(p) == status[p] = "returned"

Settled(p) == status[p] \in {"returned", "threw"}

Fail(p, e) ==
    /\ status' = [status EXCEPT ![p] = "threw"]
    /\ failure' = [failure EXCEPT ![p] = e]

(* dispatch(p), called from position p, which is then in state `caller'.   *)
(* An instance that is not a singleton is a promise without an action.     *)
Dispatch(p, caller) ==
    /\ index' = p
    /\ LET c == Callee(p) IN
         IF c \in setup.scopedMiddlewares
         THEN /\ status' = [status EXCEPT ![p] = caller, ![c] = "threw"]
              /\ failure' = [failure EXCEPT ![c] = Internal]
              /\ UNCHANGED runs
         ELSE /\ status' = [status EXCEPT ![p] = caller, ![c] = "running"]
              /\ runs' = [runs EXCEPT ![c] = @ + 1]
              /\ UNCHANGED failure

Handle(h, e) ==
    /\ handling' = [handling EXCEPT ![h] = [error |-> e, at |-> 1]]
    /\ status' = [status EXCEPT ![h] = "handling"]

(* The middlewares' classes are registered before the first one runs.      *)
Register ==
    /\ status[First] = "running"
    /\ \/ /\ Dispatch(First, "waiting")
          /\ UNCHANGED handling
       \/ /\ Middlewares # {}
          /\ Handle(First, Internal)
          /\ UNCHANGED <<failure, index, runs>>
    /\ UNCHANGED <<setup, stage, res, sent, cached, calls, allowed, asked,
                   declined, floated>>

(* Called again, next() rejects and changes nothing.                       *)
CallNext(p) ==
    /\ p \in Middlewares /\ status[p] = "running"
    /\ Fresh(p)
    /\ Dispatch(p, "running")
    /\ UNCHANGED <<setup, stage, handling, res, sent, cached, calls, allowed,
                   asked, declined, floated>>

AwaitNext(p) ==
    /\ p \in Middlewares /\ status[p] = "running"
    /\ status[Callee(p)] # "idle" /\ ~ Settled(Callee(p))
    /\ status' = [status EXCEPT ![p] = "waiting"]
    /\ UNCHANGED <<setup, failure, index, stage, handling, res, sent, cached,
                   history>>

Resume(p) ==
    /\ p \in Middlewares /\ status[p] = "waiting"
    /\ Settled(Callee(p))
    /\ status' = [status EXCEPT ![p] = "running"]
    /\ UNCHANGED <<setup, failure, index, stage, handling, res, sent, cached,
                   history>>

LeavesBehind(p) == status[Callee(p)] # "idle" /\ ~ Settled(Callee(p))

(* A middleware ends: by itself, or with an error of its own, of next() or *)
(* of what it awaited.                                                     *)
Settle(p) ==
    /\ p \in Middlewares /\ status[p] = "running"
    /\ floated' = (floated \/ LeavesBehind(p))
    /\ \/ /\ status' = [status EXCEPT ![p] = "returned"]
          /\ UNCHANGED failure
       \/ \E e \in Thrown \cup {Internal} : Fail(p, e)
    /\ UNCHANGED <<setup, index, stage, handling, res, sent, cached, runs,
                   calls, allowed, asked, declined>>

(* The first handler awaits the middlewares.                               *)
FirstDone ==
    /\ status[First] = "waiting"
    /\ Settled(Callee(First))
    /\ IF status[Callee(First)] = "threw"
       THEN Handle(First, failure[Callee(First)])
       ELSE /\ status' = [status EXCEPT ![First] = "returned"]
            /\ UNCHANGED handling
    /\ UNCHANGED <<setup, failure, index, stage, res, sent, cached, history>>

-----------------------------------------------------------------------------
(* handleRoute.                                                            *)

Routing(s) == status[Route] = "running" /\ stage = s

NoGuard(g) ==
    /\ Routing(g)
    /\ g \notin setup.guards
    /\ stage' = g + 1
    /\ UNCHANGED <<setup, status, failure, index, handling, res, sent, cached,
                   history>>

Allow(g) ==
    /\ Routing(g)
    /\ g \in setup.guards \ setup.scopedGuards
    /\ allowed' = allowed \cup {g}
    /\ stage' = g + 1
    /\ UNCHANGED <<setup, status, failure, index, handling, res, sent, cached,
                   runs, calls, asked, declined, floated>>

(* Mutant: the answer of a guard is not looked at.                         *)
RefuseIgnored(g) ==
    /\ Routing(g)
    /\ g \in setup.guards
    /\ stage' = g + 1
    /\ UNCHANGED <<setup, status, failure, index, handling, res, sent, cached,
                   history>>

(* A guard of a controller or method that is not a singleton is a promise, *)
(* which has no canActivate.                                               *)
Refuse(g) ==
    /\ Routing(g)
    /\ g \in setup.guards
    /\ Handle(Route, IF g \in setup.scopedGuards THEN Internal ELSE Forbidden)
    /\ UNCHANGED <<setup, failure, index, stage, res, sent, cached, history>>

Resolve ==
    /\ Routing(Params)
    /\ stage' = Params + 1
    /\ UNCHANGED <<setup, status, failure, index, handling, res, sent, cached,
                   history>>

GetInstance ==
    /\ Routing(Instance)
    /\ cached' = (cached \/ setup.scopedController)
    /\ stage' = Instance + 1
    /\ UNCHANGED <<setup, status, failure, index, handling, res, sent, history>>

CallMethod ==
    /\ Routing(Call)
    /\ calls' = calls + 1
    /\ stage' = Call + 1
    /\ UNCHANGED <<setup, status, failure, index, handling, res, sent, cached,
                   runs, allowed, asked, declined, floated>>

SendResponse ==
    /\ Routing(Send)
    /\ res' = Reply("route", Route, 0)
    /\ status' = [status EXCEPT ![Route] = "returned"]
    /\ UNCHANGED <<setup, failure, index, stage, handling, sent, cached,
                   history>>

(* Code of the application throws, or the framework does: a parameter that *)
(* does not parse, a body that a status does not allow.                    *)
RouteThrows ==
    /\ status[Route] = "running"
    /\ stage \in Guards => stage \in setup.guards
    /\ \E e \in Thrown \cup {Internal} : Handle(Route, e)
    /\ UNCHANGED <<setup, failure, index, stage, res, sent, cached, history>>

-----------------------------------------------------------------------------
(* handleError and FilterExecutor.                                         *)

Tried(h) == setup.filters[handling[h].at]
MoreFilters(h) ==
    /\ status[h] = "handling"
    /\ handling[h].at <= Len(setup.filters)

Finish(h, kind, k) ==
    /\ res' = Reply(kind, h, k)
    /\ status' = [status EXCEPT ![h] = "returned"]

TryNext(h) == handling' = [handling EXCEPT ![h].at = @ + 1]

(* Mutant: the filter after one that does not catch the error is skipped.  *)
SkipTwo(h) ==
    /\ MoreFilters(h)
    /\ ~ Tried(h).scoped /\ handling[h].error \notin Tried(h).catches
    /\ handling' = [handling EXCEPT ![h].at = @ + 2]
    /\ UNCHANGED <<setup, status, failure, index, stage, res, sent, cached,
                   history>>

Skip(h) ==
    /\ MoreFilters(h)
    /\ ~ Tried(h).scoped /\ handling[h].error \notin Tried(h).catches
    /\ TryNext(h)
    /\ UNCHANGED <<setup, status, failure, index, stage, res, sent, cached,
                   history>>

(* A filter that is not a singleton is a promise.  It has a `catch' of its *)
(* own, which the code calls, and resolves to the filter itself.           *)
TakePromise(h) ==
    /\ MoreFilters(h)
    /\ Tried(h).scoped
    /\ Finish(h, "filter", handling[h].at)
    /\ UNCHANGED <<setup, failure, index, stage, handling, sent, cached,
                   history>>

(* A filter that throws leaves the answer to Hono.                         *)
Ask(h) ==
    /\ MoreFilters(h)
    /\ ~ Tried(h).scoped /\ handling[h].error \in Tried(h).catches
    /\ asked' = asked \cup {<<h, handling[h].at>>}
    /\ \/ /\ \E kind \in {"filter", "hono"} : Finish(h, kind, handling[h].at)
          /\ UNCHANGED <<handling, declined>>
       \/ /\ declined' = declined \cup {<<h, handling[h].at>>}
          /\ TryNext(h)
          /\ UNCHANGED <<status, res>>
    /\ UNCHANGED <<setup, failure, index, stage, sent, cached, runs, calls,
                   allowed, floated>>

(* The status of what was thrown cannot be read when it is nullish.        *)
AnswerDefault(h) ==
    /\ status[h] = "handling"
    /\ handling[h].at > Len(setup.filters)
    /\ \/ /\ handling[h].error = Nullish
          /\ Finish(h, "hono", 0)
          /\ UNCHANGED cached
       \/ /\ handling[h].error # Nullish
          /\ Finish(h, "default", 0)
          /\ cached' = FALSE
    /\ UNCHANGED <<setup, failure, index, stage, handling, sent, history>>

(* Mutant: Hono does not wait for the first handler.                       *)
DeliverEarly ==
    /\ status[First] \in {"waiting", "returned"} /\ sent = None
    /\ sent' = res
    /\ UNCHANGED <<setup, status, failure, index, stage, handling, res, cached,
                   history>>

(* Hono reads context.res when the first handler's promise is settled.     *)
Deliver ==
    /\ status[First] = "returned" /\ sent = None
    /\ sent' = res
    /\ UNCHANGED <<setup, status, failure, index, stage, handling, res, cached,
                   history>>

-----------------------------------------------------------------------------
Middleware(p) == CallNext(p) \/ AwaitNext(p) \/ Resume(p) \/ Settle(p)

HandleRoute ==
    \/ \E g \in Guards : NoGuard(g) \/ Allow(g) \/ Refuse(g)
    \/ Resolve \/ GetInstance \/ CallMethod \/ SendResponse \/ RouteThrows

HandleError(h) == Skip(h) \/ TakePromise(h) \/ Ask(h) \/ AnswerDefault(h)

(* The request is answered; what was left behind may still run.            *)
Over ==
    /\ sent # None
    /\ \A p \in Positions : status[p] = "idle" \/ Settled(p)
    /\ UNCHANGED vars

Next ==
    \/ Register \/ FirstDone \/ Deliver
    \/ \E p \in 1 .. MaxMiddlewares : Middleware(p)
    \/ HandleRoute
    \/ \E h \in Handlers : HandleError(h)
    \/ Over

(* Promises that are settled resume their awaits, and the application's    *)
(* middlewares, guards, methods and filters end.                           *)
Fairness ==
    /\ WF_vars(Register) /\ WF_vars(FirstDone) /\ WF_vars(Deliver)
    /\ \A p \in 1 .. MaxMiddlewares : WF_vars(Resume(p)) /\ WF_vars(Settle(p))
    /\ WF_vars(HandleRoute)
    /\ \A h \in Handlers : WF_vars(HandleError(h))

Spec == Init /\ [][Next]_vars /\ Fairness

-----------------------------------------------------------------------------
(* Every position is in a state of its own kind.                           *)
TypeOK ==
    /\ setup \in Setups
    /\ status \in [Positions -> {"idle", "running", "waiting", "handling",
                                 "returned", "threw"}]
    /\ failure \in [Positions -> Errors \cup {None}]
    /\ index \in -1 .. MaxMiddlewares
    /\ stage \in Stages
    /\ handling \in [Handlers -> [error : Errors, at : Nat] \cup {None}]
    /\ res \in Response
    /\ sent \in Response \cup {None}
    /\ cached \in BOOLEAN
    /\ allowed \subseteq Guards
    /\ asked \cup declined \subseteq Handlers \X Nat

(* However often and whenever the middlewares call next(), each of them    *)
(* runs at most once in a request, and so do handleRoute and the method.   *)
OncePerRequest ==
    /\ \A p \in Positions : runs[p] <= 1
    /\ calls <= 1

(* The controller's method is called only when every middleware has run    *)
(* and every guard of the route has said yes.                              *)
MethodIsGuarded ==
    calls > 0 => /\ \A p \in Middlewares : runs[p] = 1
                 /\ setup.guards \subseteq allowed

(* Unless a middleware left a next() behind, the response is sent when all *)
(* code of the request has ended, and it is the last one that was decided: *)
(* the first handler's error, else what handleRoute gave, else nothing.    *)
AnswerIsTheLast ==
    sent # None /\ ~ floated =>
        /\ \A p \in Positions : status[p] = "idle" \/ Settled(p)
        /\ CASE handling[First] # None ->
                  sent.by = First /\ sent.kind # "empty"
             [] handling[First] = None /\ runs[Route] > 0 ->
                  sent.by = Route
             [] OTHER -> sent.kind = "empty"

(* Of the filters of a route, an error is passed on only by those that do  *)
(* not catch it and those that gave no response, in the order controller,  *)
(* method, global.                                                         *)
FiltersInOrder ==
    \A h \in Handlers : handling[h] # None =>
        \A k \in 1 .. Len(setup.filters) :
            k < handling[h].at /\ handling[h].error \in setup.filters[k].catches
              => <<h, k>> \in declined

(* The answer that is taken for a filter's comes from that filter.         *)
FilterWasAsked ==
    res.kind = "filter" => <<res.by, res.filter>> \in asked

(* Every request is answered, whatever its middlewares, guards, method and *)
(* filters throw.                                                          *)
Answered == <>(sent # None)

=============================================================================
