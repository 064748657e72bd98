---------------------------- MODULE MCThrottler ----------------------------
(* Instances of Throttler for TLC.                                         *)
EXTENDS Throttler

CONSTANTS r1, r2, r3, alice, bob, list, show, short, long, getList, getShow

AllKeys == Names \X Callers \X Methods

Option2(name, limit, ttl) == [name |-> name, limit |-> limit, ttl |-> ttl]
NoOverride == [o \in Routes |-> None]
Only(name, rule) == [n \in Names |-> IF n = name THEN rule ELSE None]
On(route, overrides) == [o \in Routes |-> IF o = route THEN overrides ELSE None]
Rule2(limit, ttl) == [limit |-> limit, ttl |-> ttl]
ByRequest(a, b, c) == [r \in Requests |-> CASE r = r1 -> a [] r = r2 -> b
                                            [] r = r3 -> c]
OneMethodEach == [o \in Routes |-> IF o = list THEN getList ELSE getShow]

Base == [options |-> <<Option2(short, 1, 1), Option2(long, 2, 2)>>,
         method |-> OneMethodEach, onHandler |-> NoOverride,
         onClass |-> NoOverride, skipped |-> {},
         caller |-> ByRequest(alice, alice, alice),
         route |-> ByRequest(list, list, list)]

(* One caller against two throttlers; a route of its own limits, among     *)
(* them a limit of none; another caller, and a route that is skipped.      *)
GuardConfigs ==
    {Base,
     [Base EXCEPT !.options = <<Option2(long, 2, 2)>>,
                  !.onHandler = On(list, Only(long, Rule2(1, 1))),
                  !.onClass = On(list, Only(long, Rule2(0, 1))),
                  !.route = ByRequest(list, list, show)],
     [Base EXCEPT !.options = <<Option2(short, 1, 2)>>,
                  !.onClass = On(show, Only(short, Rule2(0, 1))),
                  !.caller = ByRequest(alice, alice, bob),
                  !.route = ByRequest(list, show, list)],
     [Base EXCEPT !.options = <<Option2(short, 1, 2)>>, !.skipped = {show},
                  !.route = ByRequest(list, show, list)]}

(* The instance meets what the theorems of ThrottlerProofs assume.         *)
ASSUME MCHypotheses == TtlsFit /\ NamesDistinct /\ RoutesDistinct

=============================================================================
