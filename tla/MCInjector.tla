----------------------------- MODULE MCInjector -----------------------------
(* Instances of Injector for TLC: families of small applications.          *)
EXTENDS Injector, FiniteSets, SequencesExt

CONSTANTS A, B, C, K, L, T, V, M, N, r1, r2

Class(c) == [key |-> c, class |-> c]
UseClass(t, c) == [key |-> t, class |-> c]
UseValue(t) == [key |-> t, class |-> Value]

(* The elements of S in the order of the list.                             *)
InOrder(S, list) == SelectSeq(list, LAMBDA x : x \in S)

(* One module M, importing N as often as said; K is M's controller.        *)
Application(imports, listN, listM, params, scopes, hooked) ==
    [entry |-> M,
     imports |-> [m \in Modules |-> IF m = M THEN imports ELSE <<>>],
     injectables |-> [m \in Modules |-> IF m = M THEN listM ELSE listN],
     controllers |-> [m \in Modules |-> IF m = M THEN <<K>> ELSE <<>>],
     params |-> params, scope |-> scopes, hooked |-> hooked,
     clients |-> {},
     lazy |-> [r \in Requests |-> <<>>],
     route |-> [r \in Requests |-> K]]

(* boot: every dependency graph over three classes, cyclic ones included,  *)
(* with every declared scope; the last class is listed or missing, and the *)
(* first may come from a module that is imported twice.                    *)
Graphs == [{A, B, C} -> SUBSET {A, B, C}]
BootLists == {<< <<N, N>>, <<Class(A)>>, <<Class(B), Class(C)>>, <<B, C>> >>,
              << <<>>, <<>>, <<Class(A), Class(B)>>, <<A>> >>}
BootApps ==
    {Application(l[1], l[2], l[3],
                 [c \in Classes |-> CASE c = K -> l[4]
                                      [] c = L -> <<>>
                                      [] OTHER -> InOrder(g[c], <<A, B, C>>)],
                 s, {}) :
       l \in BootLists,
       g \in {h \in Graphs : \A c \in {A, B, C} : c \notin h[c]},
       s \in {h \in [Services -> Scopes] : h[L] = "GLOBAL"}}

(* tokens: a class A, a class B known as token T only and a value V, all   *)
(* three listed or fewer, in any order.                                    *)
TokenLists == UNION {SetToSeqs(S) : S \in SUBSET {Class(A), UseClass(T, B),
                                                  UseValue(V)}}
TokenApps ==
    {Application(<<>>, <<>>, list,
                 [c \in Classes |-> CASE c = A -> InOrder(pa, <<T, V>>)
                                      [] c = B -> InOrder(pb, <<A, V>>)
                                      [] c = K -> InOrder(pk, <<A, T, V>>)
                                      [] OTHER -> <<>>],
                 s, {}) :
       list \in TokenLists,
       pa \in SUBSET {T, V}, pb \in SUBSET {A, V}, pk \in {{A, T}, {T, V}},
       s \in {h \in [Services -> Scopes] :
                h[C] = "GLOBAL" /\ h[L] = "GLOBAL"}}

(* requests: a diamond of dependencies below the controller, listed in     *)
(* either order, once through a module that is imported twice, with four   *)
(* assignments of scopes and a hook on some of the classes.  The first     *)
(* request also registers guard L.                                         *)
Diamond == [c \in Classes |-> CASE c = A -> <<>>
                                [] c = B -> <<A>>
                                [] c = C -> <<A, B>>
                                [] c = L -> <<B>>
                                [] c = K -> <<B, C>>]
DiamondScopes(a, b, c) ==
    [x \in Services |-> CASE x = A -> a [] x = B -> b [] x = C -> c
                          [] x = L -> "GLOBAL"]
RequestApps ==
    {[Application(l[1], l[2], l[3], Diamond, s, l[4]) EXCEPT
        !.clients = Requests,
        !.lazy = [r \in Requests |-> IF r = r1 THEN <<Class(L)>> ELSE <<>>]] :
       l \in {<< <<N, N>>, <<Class(A)>>, <<Class(B), Class(C)>>, {A} >>,
              << <<>>, <<>>, <<Class(C), Class(B), Class(A)>>, {B} >>},
       s \in {DiamondScopes("REQUEST", "GLOBAL", "GLOBAL"),
              DiamondScopes("REQUEST", "TRANSIENT", "GLOBAL"),
              DiamondScopes("TRANSIENT", "REQUEST", "GLOBAL"),
              DiamondScopes("GLOBAL", "REQUEST", "TRANSIENT")}}

AllApps == BootApps \cup TokenApps \cup RequestApps

(* What the theorems assume of the applications holds of these.            *)
ASSUME MCHypotheses == OneKeyPerClass(AllApps) /\ SoleRegistrar(AllApps)

(* A class known by a token only, needed by one listed before it.          *)
TokenOnlyApps ==
    {Application(<<>>, <<>>, <<Class(A), UseClass(T, B)>>,
                 [c \in Classes |-> IF c \in {A, K} THEN <<T>> ELSE <<>>],
                 [c \in Services |-> "GLOBAL"], {})}

(* What the hypotheses leave out: a class that is listed under its own key *)
(* and then under a token, which is never registered.                      *)
OwnKeyAndTokenApps ==
    {Application(<<>>, <<>>, <<Class(A), UseClass(T, A)>>,
                 [c \in Classes |-> IF c = K THEN <<A>> ELSE <<>>],
                 [c \in Services |-> "GLOBAL"], {})}

(* Two requests that register the same guard for the first time, which     *)
(* both of them build.                                                     *)
SharedGuardApps ==
    {[Application(<<>>, <<>>, <<Class(A)>>,
                  [c \in Classes |-> IF c \in {K, L} THEN <<A>> ELSE <<>>],
                  [c \in Services |-> "GLOBAL"], {}) EXCEPT
        !.clients = Requests,
        !.lazy = [r \in Requests |-> <<Class(L)>>]]}

ASSUME MCExcluded ==
    ~ OneKeyPerClass(OwnKeyAndTokenApps) /\ ~ SoleRegistrar(SharedGuardApps)

=============================================================================
