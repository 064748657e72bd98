----------------------------- MODULE Lifecycle -----------------------------
(***************************************************************************)
(* DanetApplication.init, listen and close (src/app.ts) with the           *)
(* HookExecutor (src/hook/executor.ts).  All the applications of a process *)
(* share one injector, and the executor walks its Map while other code     *)
(* adds to it: a JavaScript Map iterates in the order of insertion and     *)
(* reaches what is added before the end.                                   *)
(***************************************************************************)
EXTENDS Naturals, Sequences

CONSTANTS
    Apps,       \* the applications of the process
    Services,   \* what the injector can hold: services, controllers, modules
    Global,     \* those with hooks; the others are scoped or plain values
    Declares,   \* what the modules of each application declare, in order
    Rejecting,  \* the hooks that may reject: pairs of a service and a job
    Requests,
    GuardOf     \* the guard each request registers lazily

ASSUME LifecycleAssumption ==
    /\ Global \subseteq Services
    /\ Declares \in [Apps -> Seq(Services)]
    /\ GuardOf \in [Requests -> Services]

Jobs == Apps \X {"init", "close"}

VARIABLES
    registry,     \* Injector.resolved: its keys in the order of insertion
    job,          \* each call of init and close: its phase and its cursor
    called,       \* whose hook each job has called
    server,       \* the internalHttpServer of each application
    request       \* what each request is at, and at which application

vars == <<registry, job, called, server, request>>

Phases == {"idle", "registering", "hooking", "waiting", "shutdown", "done",
           "failed"}

Registered == {registry[i] : i \in DOMAIN registry}
Declared(a) == {Declares[a][i] : i \in DOMAIN Declares[a]}

Init ==
    /\ registry = <<>>
    /\ job = [j \in Jobs |-> [phase |-> "idle", at |-> 1]]
    /\ called = [j \in Jobs |-> {}]
    /\ server = [a \in Apps |-> "none"]
    /\ request = [r \in Requests |-> <<"coming">>]

(* Mutant: the key is deleted first, and so moves to the end.              *)
WithMoved(s) == Append(SelectSeq(registry, LAMBDA t : t # s), s)

(* Map.set of a key that may be there already, which keeps its place.      *)
With(s) == IF s \in Registered THEN registry ELSE Append(registry, s)

-----------------------------------------------------------------------------
(* init.                                                                   *)

CallInit(a) ==
    /\ job[<<a, "init">>].phase = "idle"
    /\ job' = [job EXCEPT ![<<a, "init">>].phase = "registering"]
    /\ UNCHANGED <<registry, called, server, request>>

(* bootstrap resolves one provider, controller or module after another.    *)
Register(a) ==
    LET j == <<a, "init">> IN
    /\ job[j].phase = "registering"
    /\ job[j].at <= Len(Declares[a])
    /\ registry' = With(Declares[a][job[j].at])
    /\ job' = [job EXCEPT ![j].at = @ + 1]
    /\ UNCHANGED <<called, server, request>>

Bootstrapped(a) ==
    LET j == <<a, "init">> IN
    /\ job[j].phase = "registering"
    /\ job[j].at > Len(Declares[a])
    /\ job' = [job EXCEPT ![j] = [phase |-> "hooking", at |-> 1]]
    /\ UNCHANGED <<registry, called, server, request>>

Initialised(a) ==
    LET j == <<a, "init">> IN
    /\ job[j].phase = "hooking"
    /\ job[j].at > Len(registry)
    /\ job' = [job EXCEPT ![j].phase = "done"]
    /\ UNCHANGED <<registry, called, server, request>>

-----------------------------------------------------------------------------
(* executeHookForEveryInjectable, for init and for close.                  *)

(* Mutant: `continue' without going on to the next one.                    *)
PassOverStuck(j) ==
    /\ job[j].phase = "hooking"
    /\ job[j].at <= Len(registry)
    /\ registry[job[j].at] \notin Global
    /\ UNCHANGED vars

(* A scoped service is built in vain: its promise has no hook.             *)
PassOver(j) ==
    /\ job[j].phase = "hooking"
    /\ job[j].at <= Len(registry)
    /\ registry[job[j].at] \notin Global
    /\ job' = [job EXCEPT ![j].at = @ + 1]
    /\ UNCHANGED <<registry, called, server, request>>

CallHook(j) ==
    /\ job[j].phase = "hooking"
    /\ job[j].at <= Len(registry)
    /\ registry[job[j].at] \in Global
    /\ called' = [called EXCEPT ![j] = @ \cup {registry[job[j].at]}]
    /\ job' = [job EXCEPT ![j].phase = "waiting"]
    /\ UNCHANGED <<registry, server, request>>

HookReturns(j) ==
    /\ job[j].phase = "waiting"
    /\ job' = [job EXCEPT ![j] = [phase |-> "hooking", at |-> @.at + 1]]
    /\ UNCHANGED <<registry, called, server, request>>

(* The rejection ends the loop, and init or close with it.                 *)
HookRejects(j) ==
    /\ job[j].phase = "waiting"
    /\ <<registry[job[j].at], j[2]>> \in Rejecting
    /\ job' = [job EXCEPT ![j].phase = "failed"]
    /\ UNCHANGED <<registry, called, server, request>>

-----------------------------------------------------------------------------
(* listen, as documented: once, after init.                                *)
Listen(a) ==
    /\ job[<<a, "init">>].phase = "done"
    /\ job[<<a, "close">>].phase = "idle"
    /\ server[a] = "none"
    /\ server' = [server EXCEPT ![a] = "open"]
    /\ UNCHANGED <<registry, job, called, request>>

-----------------------------------------------------------------------------
(* close, which may be called while init is still at work.                 *)

(* Mutant: the server is shut down before the hooks.                       *)
CallCloseFirst(a) ==
    /\ job[<<a, "init">>].phase # "idle"
    /\ job[<<a, "close">>].phase = "idle"
    /\ job' = [job EXCEPT ![<<a, "close">>].phase = "hooking"]
    /\ server' = [server EXCEPT ![a] = IF @ = "open" THEN "draining" ELSE @]
    /\ UNCHANGED <<registry, called, request>>

CallClose(a) ==
    /\ job[<<a, "init">>].phase # "idle"
    /\ job[<<a, "close">>].phase = "idle"
    /\ job' = [job EXCEPT ![<<a, "close">>].phase = "hooking"]
    /\ UNCHANGED <<registry, called, server, request>>

Shutdown(a) ==
    LET j == <<a, "close">> IN
    /\ job[j].phase = "hooking"
    /\ job[j].at > Len(registry)
    /\ job' = [job EXCEPT ![j].phase = "shutdown"]
    /\ server' = [server EXCEPT ![a] = IF @ = "open" THEN "draining" ELSE @]
    /\ UNCHANGED <<registry, called, request>>

InFlight(a) == {r \in Requests : request[r] \in {<<"guarded", a>>, <<"served", a>>}}

(* Mutant: shutdown is not awaited.                                        *)
ClosedAtOnce(a) ==
    LET j == <<a, "close">> IN
    /\ job[j].phase = "shutdown"
    /\ job' = [job EXCEPT ![j].phase = "done"]
    /\ server' = [server EXCEPT ![a] = IF @ = "draining" THEN "down" ELSE @]
    /\ UNCHANGED <<registry, called, request>>

(* HttpServer.shutdown resolves when the last request has been answered;   *)
(* without a server there is nothing to wait for.                          *)
Closed(a) ==
    LET j == <<a, "close">> IN
    /\ job[j].phase = "shutdown"
    /\ server[a] = "draining" => InFlight(a) = {}
    /\ job' = [job EXCEPT ![j].phase = "done"]
    /\ server' = [server EXCEPT ![a] = IF @ = "draining" THEN "down" ELSE @]
    /\ UNCHANGED <<registry, called, request>>

-----------------------------------------------------------------------------
(* Requests: the guard executor registers the guard with the injector.     *)

Arrive(r, a) ==
    /\ request[r] = <<"coming">>
    /\ server[a] = "open"
    /\ request' = [request EXCEPT ![r] = <<"guarded", a>>]
    /\ UNCHANGED <<registry, job, called, server>>

RegisterGuard(r, a) ==
    /\ request[r] = <<"guarded", a>>
    /\ registry' = With(GuardOf[r])
    /\ request' = [request EXCEPT ![r] = <<"served", a>>]
    /\ UNCHANGED <<job, called, server>>

Respond(r, a) ==
    /\ request[r] = <<"served", a>>
    /\ request' = [request EXCEPT ![r] = <<"answered">>]
    /\ UNCHANGED <<registry, job, called, server>>

-----------------------------------------------------------------------------
Initialising(a) ==
    CallInit(a) \/ Register(a) \/ Bootstrapped(a) \/ Initialised(a)
Hooking(j) == PassOver(j) \/ CallHook(j)
Settling(j) == HookReturns(j) \/ HookRejects(j)
Closing(a) == Shutdown(a) \/ Closed(a)
Serving(r, a) == RegisterGuard(r, a) \/ Respond(r, a)

(* Nothing is in progress: the process may stay as it is.                  *)
Stopped ==
    /\ \A j \in Jobs : job[j].phase \in {"idle", "done", "failed"}
    /\ \A a \in Apps : InFlight(a) = {}
    /\ UNCHANGED vars

Next ==
    \/ \E a \in Apps : Initialising(a) \/ Listen(a) \/ CallClose(a) \/ Closing(a)
    \/ \E j \in Jobs : Hooking(j) \/ Settling(j)
    \/ \E r \in Requests, a \in Apps : Arrive(r, a) \/ Serving(r, a)
    \/ Stopped

(* The event loop runs what is ready, hooks settle, handlers answer.       *)
Fairness ==
    /\ \A a \in Apps : WF_vars(Closing(a))
    /\ \A j \in Jobs : WF_vars(Hooking(j)) /\ WF_vars(Settling(j))
    /\ \A r \in Requests, a \in Apps : WF_vars(Serving(r, a))

Spec == Init /\ [][Next]_vars
FairSpec == Spec /\ Fairness

-----------------------------------------------------------------------------
(* Every variable has its type.                                            *)
TypeOK ==
    /\ registry \in Seq(Services)
    /\ job \in [Jobs -> [phase : Phases, at : Nat \ {0}]]
    /\ called \in [Jobs -> SUBSET Global]
    /\ server \in [Apps -> {"none", "open", "draining", "down"}]
    /\ request \in [Requests -> {<<"coming">>, <<"answered">>}
                               \cup ({"guarded", "served"} \X Apps)]

(* A loop over the hooks that is not rejected has called the hook of       *)
(* everything the injector holds when it ends: also of what other          *)
(* applications and requests have added since it began.                    *)
RunsReachAll ==
    [][\A j \in Jobs :
         /\ job[j].phase = "hooking"
         /\ job'[j].phase \in {"shutdown", "done"}
         => called[j] = Global \cap Registered]_vars

(* A server is only shut down when every service that its application      *)
(* declares has been told to close, by this close and not by another's.    *)
StoppedBeforeTheServer ==
    \A a \in Apps : server[a] \in {"draining", "down"} =>
        Declared(a) \cap Global \subseteq called[<<a, "close">>]

(* "A promise that resolves when the application has been closed": then    *)
(* its server is down, if it had one, and no request is being answered.    *)
ClosedIsQuiet ==
    \A a \in Apps : job[<<a, "close">>].phase = "done" =>
        server[a] \in {"none", "down"} /\ InFlight(a) = {}

(* close settles, whatever is registered meanwhile and though its server   *)
(* keeps answering until the last hook is over.                            *)
CloseSettles ==
    \A a \in Apps : job[<<a, "close">>].phase = "hooking"
                      ~> job[<<a, "close">>].phase \in {"done", "failed"}

=============================================================================
