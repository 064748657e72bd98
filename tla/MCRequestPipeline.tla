------------------------- MODULE MCRequestPipeline -------------------------
(* Instances of RequestPipeline for TLC.                                   *)
EXTENDS ServerSentEvents

CONSTANTS domain

CatchesAll == [scoped |-> FALSE, catches |-> Errors]
CatchesDomain == [scoped |-> FALSE, catches |-> {domain}]

NotSingleton == [CatchesAll EXCEPT !.scoped = TRUE]

(* No middleware to two of them, every place of a guard that refuses or is *)
(* not a singleton, and filters that catch one type or everything.         *)
Routes ==
    {[middlewares |-> n, scopedMiddlewares |-> sm, guards |-> g[1],
      scopedGuards |-> g[2], scopedController |-> sc, filters |-> fs] :
       n \in 0 .. MaxMiddlewares, sm \in {{}, {2}},
       g \in {<<{}, {}>>, <<{1, 2, 3}, {}>>, <<{1, 3}, {3}>>},
       sc \in BOOLEAN,
       fs \in {<<>>, <<CatchesDomain, CatchesAll>>,
               <<CatchesDomain, NotSingleton>>}}

(* Streams behind a middleware and a guard.                                *)
StreamRoutes ==
    {r \in Routes : r.middlewares = 1 /\ r.scopedMiddlewares = {}
       /\ r.guards \in {{}, Guards} /\ r.filters = <<>> /\ r.scopedController}

(* A controller's filter that is not a singleton.                          *)
ScopedFilterRoutes ==
    {[middlewares |-> 1, scopedMiddlewares |-> {}, guards |-> {},
      scopedGuards |-> {}, scopedController |-> FALSE,
      filters |-> <<NotSingleton, CatchesAll>>]}

=============================================================================
