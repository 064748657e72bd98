----------------------------- MODULE MCRouting -----------------------------
(* Controllers of each kind, in one or two modules, and two requests.      *)
EXTENDS Routing

CONSTANTS todo, live, rpc, plain, unnamed, grpc, r1, r2, items, item, api

Reads(of, prop, value) == [of |-> of, prop |-> prop, value |-> value]
Method(verb, endpoint, decorators) ==
    [verb |-> verb, endpoint |-> endpoint, decorators |-> decorators]
Described(endpoint, socket, keys, methods) ==
    [endpoint |-> endpoint, socket |-> socket, keys |-> keys, methods |-> methods]

MCDescribe == [c \in Controllers |->
    CASE c = todo ->
           Described(<<items, Slash>>, Undefined, {},
             <<Method("GET", <<Slash, item>>,
                 <<Reads("query", None, None), Reads("query", "k", "last"),
                   Reads("session", "id", None)>>),
               Method("POST", <<>>,
                 <<Reads("body", None, None), None, Reads("context", None, None)>>),
               Method("ALL", <<item>>, <<Reads("body", "p", None)>>)>>)
      [] c = live -> Described(Undefined, <<Slash, item>>, {}, <<>>)
      [] c = rpc ->
           Described(<<>>, Undefined, {grpc},
             <<Method("ALL", <<>>, <<None, Reads("query", "k", "array")>>)>>)
      [] c = plain ->
           Described(<<item>>, Undefined, {},
             <<Method("GET", <<>>, <<>>), Method("ALL", Undefined, <<>>)>>)
      [] c = unnamed ->
           Described(Undefined, <<>>, {}, <<Method("ALL", Undefined, <<>>)>>)]
MCSetups == {<<<<todo, rpc>>, <<live>>>>, <<<<rpc>>, <<rpc, todo>>>>,
             <<<<todo, plain>>>>, <<<<live>>, <<unnamed>>>>}

MCBasePaths == {<<Slash, api, Slash>>}
MCFiles == {<<items>>}

Asks(verb, path, body, values) ==
    [verb |-> verb, path |-> path, body |-> body,
     queries |-> [k \in Keys |-> values], session |-> values # <<>>]
Item == <<Slash, api, Slash, items, Slash, item>>
MCPayloads ==
    {[r \in Requests |-> IF r = r1 THEN p[1] ELSE p[2]] : p \in
       {<<Asks("HEAD", Item, "malformed", <<1, 2>>),
          Asks("POST", <<Slash, items>>, "part", <<>>)>>,
        <<Asks("PUT", Item, "part", <<>>),
          Asks("POST", <<Slash, items, Slash>>, "accepted", <<1>>)>>,
        <<Asks("PUT", Item, "malformed", <<1>>),
          Asks("OPTIONS", <<Slash>>, "falsy", <<1, 2>>)>>}}

(* What the theorem on paths assumes holds of these.                       *)
ASSUME MCHypotheses == PathsTidy

=============================================================================
