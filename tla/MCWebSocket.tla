---------------------------- MODULE MCWebSocket ----------------------------
(* Two connections and two messages; controllers with one method of each   *)
(* kind of guard, filter and scope.                                        *)
EXTENDS WebSocket

CONSTANTS c1, c2, m1, m2, hello

Controller(n, g, f, s) ==
    [methods |-> <<{hello}>>, middlewares |-> n, guards |-> g,
     filtered |-> f, scoped |-> s]
MCSetups ==
    {Controller(0, Guards, TRUE, TRUE),
     Controller(1, {"controller"}, FALSE, FALSE)}

=============================================================================
