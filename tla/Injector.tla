------------------------------ MODULE Injector ------------------------------
(***************************************************************************)
(* The dependency-injection container of src/injector/injector.ts, driven  *)
(* by DanetApplication.bootstrap (src/app.ts) and, once the application is *)
(* up, by the requests that register guards and middlewares lazily and     *)
(* then get their controller with an execution context.                    *)
(*                                                                         *)
(* Every async function in progress is a frame of its task's stack.  A     *)
(* step is a stretch of code that no other task can interrupt: `running'   *)
(* names the task that has not reached an `await' yet, so that tasks       *)
(* interleave exactly where the code awaits.                               *)
(***************************************************************************)
EXTENDS Naturals, Sequences

CONSTANTS
    Services,     \* injectable classes; a class is also its own key
    Controllers,  \* controller classes
    Tokens,       \* string tokens of `useClass' and `useValue' providers
    Modules,      \* module classes
    Requests,     \* requests, each with its own execution context
    Apps,         \* the applications considered: what the decorators declare
    StackLimit,   \* frames after which the engine throws a RangeError
    Boot,         \* the task that runs DanetApplication.bootstrap
    Value,        \* stands for the class of a `useValue' provider
    None          \* an absent map entry, parent or context

Keys == Services \cup Tokens
Classes == Services \cup Controllers
AllKeys == Keys \cup Controllers \cup Modules
Tasks == Requests \cup {Boot}
Scopes == {"GLOBAL", "REQUEST", "TRANSIENT"}

(* A provider listed by a module: a class under its own key, a class under *)
(* a token, or a value under a token.                                      *)
Provider == {p \in [key : Keys, class : Services \cup {Value}] :
               p.key \in Services => p.class = p.key}

(* What the decorators of an application say, and the requests it may get. *)
App == [entry       : Modules,
        imports     : [Modules -> Seq(Modules)],
        injectables : [Modules -> Seq(Provider)],
        controllers : [Modules -> Seq(Controllers)],
        params      : [Classes -> Seq(Keys)],
        scope       : [Services -> Scopes],
        hooked      : SUBSET Classes,
        clients     : SUBSET Requests,
        lazy        : [Requests -> Seq(Provider)],
        route       : [Requests -> Controllers]]

(* Every provider that application a lists anywhere.                       *)
Offered(a) ==
    (UNION {{a.injectables[m][n] : n \in DOMAIN a.injectables[m]} :
              m \in Modules}) \cup
    (UNION {{a.lazy[r][n] : n \in DOMAIN a.lazy[r]} : r \in Requests})

(* No class is provided under its own key and under a token as well.       *)
OneKeyPerClass(apps) ==
    \A a \in apps : \A p, q \in Offered(a) : p.class = q.key => p.key = q.key

(* At most one request registers providers that were not bootstrapped.     *)
SoleRegistrar(apps) ==
    \A a \in apps : \A r, q \in Requests :
        a.lazy[r] # <<>> /\ a.lazy[q] # <<>> => r = q

ASSUME AppsAssumption == \A a \in Apps : a \in App
ASSUME StackAssumption == StackLimit \in Nat \ {0}
ASSUME NamesAssumption ==
    /\ Boot \notin Requests
    /\ None \notin Requests
    /\ None \notin Services
    /\ Modules \cap Requests = {}
    /\ Controllers \cap Modules = {}
    /\ Keys \cap (Controllers \cup Modules) = {}

(* An instance is its position in `made'; 0 is any object the injector     *)
(* did not build: a provided value or a module.                            *)
Instance == [class : Classes, key : AllKeys, ctx : Requests \cup {None},
             args : Seq(Nat), shared : BOOLEAN, cached : BOOLEAN]

Entry == [kind : {"value", "single", "factory"},
          class : Classes \cup {Value}, ref : Nat, transient : BOOLEAN]

ASSUME NoneAssumption == None \notin Entry

Labels == {"imports", "list", "controllers", "get", "enter", "deps", "scope",
           "args", "control", "make", "hook"}

Frame == [at : Labels, who : Classes \cup Modules \cup Requests,
          key : AllKeys \cup {None}, parent : Services \cup {None},
          ctx : Requests \cup {None}, cached : BOOLEAN,
          i : Nat \ {0}, args : Seq(Nat)]

VARIABLES
    app,        \* the application, fixed from the start
    available,  \* availableTypes
    resolved,   \* resolved and resolvedTypes, always updated together
    scope,      \* the injectionData metadata of every class
    made,       \* every instance built so far, in order
    ctxCache,   \* contextInjectables
    stack,      \* the async functions in progress, per task
    outcome,    \* how far each task is
    running     \* the task between two awaits, or None

store == <<app, available, resolved, scope, made, ctxCache>>
vars == <<store, stack, outcome, running>>

Call(label, who, key, parent) ==
    [at |-> label, who |-> who, key |-> key, parent |-> parent,
     ctx |-> None, cached |-> FALSE, i |-> 1, args |-> <<>>]

Init ==
    /\ app \in Apps
    /\ available = [k \in Keys |-> None]
    /\ resolved = [k \in AllKeys |-> None]
    /\ scope = app.scope
    /\ made = <<>>
    /\ ctxCache = [r \in Requests |-> [k \in AllKeys |-> 0]]
    /\ stack = [t \in Tasks |->
          IF t = Boot THEN <<Call("imports", app.entry, None, None)>> ELSE <<>>]
    /\ outcome = [t \in Tasks |-> IF t = Boot THEN "busy" ELSE "idle"]
    /\ running = None

-----------------------------------------------------------------------------
(* The stack of a task.                                                    *)

Depth(t) == Len(stack[t])
Top(t) == stack[t][Depth(t)]
Below(t) == SubSeq(stack[t], 1, Depth(t) - 1)

At(t, label) ==
    /\ running \in {None, t}
    /\ stack[t] # <<>>
    /\ Top(t).at = label

Goto(f, label) == [f EXCEPT !.at = label, !.i = 1]
Advance(f) == [f EXCEPT !.i = @ + 1]

(* The frame goes on as f, at once or when its await is settled.           *)
Continue(t, f) ==
    /\ stack' = [stack EXCEPT ![t] = Append(Below(t), f)]
    /\ running' = t
    /\ UNCHANGED outcome

Await(t, f) ==
    /\ stack' = [stack EXCEPT ![t] = Append(Below(t), f)]
    /\ running' = None
    /\ UNCHANGED outcome

(* Mutant: the rejection is swallowed and the caller waits for ever.       *)
ThrowSwallowed(t) ==
    /\ stack' = [stack EXCEPT ![t] = <<>>]
    /\ running' = None
    /\ UNCHANGED outcome

(* A rejection, which nothing on the stack catches.                        *)
Throw(t) ==
    /\ stack' = [stack EXCEPT ![t] = <<>>]
    /\ outcome' = [outcome EXCEPT ![t] = "failed"]
    /\ running' = None

(* The frame, now f, calls an async function, which starts synchronously.  *)
Push(t, f, callee) ==
    IF Depth(t) < StackLimit
    THEN /\ stack' = [stack EXCEPT ![t] = Append(Append(Below(t), f), callee)]
         /\ running' = t
         /\ UNCHANGED outcome
    ELSE Throw(t)

Return(t) ==
    /\ stack' = [stack EXCEPT ![t] = Below(t)]
    /\ outcome' = [outcome EXCEPT ![t] = IF Depth(t) = 1 THEN "done" ELSE @]
    /\ running' = None

(* A factory's promise resolves: its caller resumes with the instance.     *)
Answer(t, ref) ==
    /\ stack' = [stack EXCEPT ![t] =
                   [Below(t) EXCEPT ![Depth(t) - 1].args = Append(@, ref)]]
    /\ running' = None
    /\ UNCHANGED outcome

-----------------------------------------------------------------------------
(* DanetApplication.bootstrap, Injector.bootstrapModule and                *)
(* registerInjectables.  The public arrays of the injector are left out:   *)
(* they list what `made' and `resolved' say, in the order of `made'.       *)

Providers(f) ==
    IF f.who \in Modules THEN app.injectables[f.who] ELSE app.lazy[f.who]

ValueEntry ==
    [kind |-> "value", class |-> Value, ref |-> 0, transient |-> FALSE]
SingleEntry(c) ==
    [kind |-> "single", class |-> c, ref |-> Len(made) + 1, transient |-> FALSE]
FactoryEntry(c, transient) ==
    [kind |-> "factory", class |-> c, ref |-> 0, transient |-> transient]

(* Mutant: setNonSingleton forgets whether the class is transient.         *)
ResolveBare(k, entry) ==
    resolved' = [resolved EXCEPT ![k] =
                   [kind |-> entry.kind, class |-> entry.class, ref |-> entry.ref]]

Resolve(k, entry) == resolved' = [resolved EXCEPT ![k] = entry]

Import(t) ==
    /\ At(t, "imports")
    /\ LET f == Top(t) imports == app.imports[f.who] IN
         /\ f.i <= Len(imports)
         /\ Push(t, Advance(f), Call("imports", imports[f.i], None, None))
    /\ UNCHANGED store

(* addAvailableInjectable: the last provider of a key wins it.             *)
Offer(t) ==
    /\ At(t, "imports")
    /\ LET f == Top(t)
           list == Providers(f)
           Last(k) == {n \in DOMAIN list :
                         /\ list[n].key = k
                         /\ \A m \in DOMAIN list : list[m].key = k => m <= n}
       IN /\ f.i > Len(app.imports[f.who])
          /\ available' = [k \in Keys |->
               IF Last(k) = {} THEN available[k]
               ELSE list[CHOOSE n \in Last(k) : TRUE].class]
          /\ Continue(t, Goto(f, "list"))
    /\ UNCHANGED <<app, resolved, scope, made, ctxCache>>

ProvideValue(t) ==
    /\ At(t, "list")
    /\ LET f == Top(t) list == Providers(f) IN
         /\ f.i <= Len(list)
         /\ list[f.i].class = Value
         /\ Resolve(list[f.i].key, ValueEntry)
         /\ Await(t, Advance(f))
    /\ UNCHANGED <<app, available, scope, made, ctxCache>>

ProvideClass(t) ==
    /\ At(t, "list")
    /\ LET f == Top(t) list == Providers(f) IN
         /\ f.i <= Len(list)
         /\ list[f.i].class \in Services
         /\ Push(t, Advance(f),
                 Call("enter", list[f.i].class, list[f.i].key, None))
    /\ UNCHANGED store

(* Mutant: the loop stops one provider early.                              *)
ListedEarly(t) ==
    /\ At(t, "list")
    /\ LET f == Top(t) IN
         /\ f.i >= Len(Providers(f))
         /\ Await(t, Goto(f, IF f.who \in Modules THEN "controllers" ELSE "get"))
    /\ UNCHANGED store

Listed(t) ==
    /\ At(t, "list")
    /\ LET f == Top(t) IN
         /\ f.i > Len(Providers(f))
         /\ Await(t, Goto(f, IF f.who \in Modules THEN "controllers" ELSE "get"))
    /\ UNCHANGED store

NextController(t) ==
    /\ At(t, "controllers")
    /\ LET f == Top(t) list == app.controllers[f.who] IN
         /\ f.i <= Len(list)
         /\ Push(t, Advance(f), Call("control", list[f.i], list[f.i], None))
    /\ UNCHANGED store

Publish(t) ==
    /\ At(t, "controllers")
    /\ Top(t).i > Len(app.controllers[Top(t).who])
    /\ Resolve(Top(t).who, ValueEntry)
    /\ Return(t)
    /\ UNCHANGED <<app, available, scope, made, ctxCache>>

-----------------------------------------------------------------------------
(* Mutant: no check that the class is already resolved.                    *)
EnterAgain(t) ==
    /\ At(t, "enter")
    /\ LET f == Top(t) IN
         Continue(t, Goto(f, IF app.params[f.who] = <<>> THEN "scope"
                             ELSE "deps"))
    /\ UNCHANGED store

(* resolveInjectable.  The registry is asked for the class, whatever key   *)
(* it is being provided under.                                             *)
Enter(t) ==
    /\ At(t, "enter")
    /\ LET f == Top(t) IN
         \/ /\ resolved[f.who] # None
            /\ Return(t)
         \/ /\ resolved[f.who] = None
            /\ Continue(t, Goto(f, IF app.params[f.who] = <<>> THEN "scope"
                                   ELSE "deps"))
    /\ UNCHANGED store

(* One turn of resolveDependencies.  It rejects for a key nobody provides, *)
(* and for a value that is only offered: a value is not constructible.     *)
ResolveDependency(t) ==
    /\ At(t, "deps")
    /\ LET f == Top(t)
           k == app.params[f.who][f.i]
       IN /\ f.i <= Len(app.params[f.who])
          /\ \/ /\ resolved[k] # None
                /\ Continue(t, Advance(f))
             \/ /\ resolved[k] = None
                /\ available[k] \in Services
                /\ Push(t, Advance(f), Call("enter", available[k], k, f.who))
             \/ /\ resolved[k] = None
                /\ available[k] \notin Services
                /\ Throw(t)
    /\ UNCHANGED store

DependenciesResolved(t) ==
    /\ At(t, "deps")
    /\ Top(t).i > Len(app.params[Top(t).who])
    /\ Await(t, Goto(Top(t), "scope"))
    /\ UNCHANGED store

Dependencies(c) == {app.params[c][n] : n \in DOMAIN app.params[c]}

(* The scopes, in the metadata of now, of what c's parameters resolve to.  *)
DependencyScopes(c) ==
    {scope[resolved[k].class] :
       k \in {j \in Dependencies(c) : /\ resolved[j] # None
                                      /\ resolved[j].class \in Services}}

(* Mutant: dependencies are ignored.                                       *)
CanBeSingletonAlone(c) == scope[c] = "GLOBAL"

CanBeSingleton(c) ==
    scope[c] = "GLOBAL" /\ DependencyScopes(c) \subseteq {"GLOBAL"}

DecideSingle(t) ==
    /\ At(t, "scope")
    /\ CanBeSingleton(Top(t).who)
    /\ Continue(t, Goto(Top(t), "args"))
    /\ UNCHANGED store

(* The metadata of the class, and of the class that asked for it, are      *)
(* overwritten before setNonSingleton.                                     *)
DecideScoped(t) ==
    /\ At(t, "scope")
    /\ ~ CanBeSingleton(Top(t).who)
    /\ LET f == Top(t) IN
         /\ scope' = [c \in Services |->
                        IF (c = f.who /\ scope[c] = "GLOBAL") \/ c = f.parent
                        THEN "REQUEST" ELSE scope[c]]
         /\ Resolve(f.key, FactoryEntry(f.who, scope[f.who] = "TRANSIENT"))
    /\ Return(t)
    /\ UNCHANGED <<app, available, made, ctxCache>>

(* resolveControllerParameters, up to the same decision: only a dependency *)
(* in REQUEST scope makes a controller scoped.                             *)
Control(t) ==
    /\ At(t, "control")
    /\ LET c == Top(t).who
           missing == \E k \in Dependencies(c) : resolved[k] = None
       IN \/ missing /\ Throw(t)
          \/ /\ ~ missing
             /\ "REQUEST" \notin DependencyScopes(c)
             /\ Continue(t, Goto(Top(t), "args"))
    /\ UNCHANGED store

ControlScoped(t) ==
    /\ At(t, "control")
    /\ LET c == Top(t).who IN
         /\ \A k \in Dependencies(c) : resolved[k] # None
         /\ "REQUEST" \in DependencyScopes(c)
         /\ Resolve(c, FactoryEntry(c, FALSE))
    /\ Return(t)
    /\ UNCHANGED <<app, available, scope, made, ctxCache>>

-----------------------------------------------------------------------------
(* The three loops that read a constructor's arguments: of a singleton     *)
(* injectable, of a singleton controller and of a factory.                 *)

Complete(f) == Len(f.args) >= Len(app.params[f.who])

(* A factory starts; the context cache is for what is not transient.       *)
Factory(k, ctx) ==
    [Call("make", resolved[k].class, k, None) EXCEPT
       !.ctx = ctx, !.cached = (ctx # None /\ ~ resolved[k].transient)]

(* The value of resolved.get(k)!(ctx), awaited; undefined is not callable. *)
Read(t, k, ctx) ==
    \/ /\ resolved[k] = None
       /\ Throw(t)
    \/ /\ resolved[k] # None
       /\ resolved[k].kind # "factory"
       /\ Await(t, [Top(t) EXCEPT !.args = Append(@, resolved[k].ref)])
    \/ /\ resolved[k] # None
       /\ resolved[k].kind = "factory"
       /\ Push(t, Top(t), Factory(k, ctx))

ReadArgument(t) ==
    /\ At(t, "args") \/ At(t, "make")
    /\ LET f == Top(t) IN
         /\ ~ Complete(f)
         /\ Read(t, app.params[f.who][Len(f.args) + 1], f.ctx)
    /\ UNCHANGED store

Built(f, shared) ==
    [class |-> f.who, key |-> f.key, ctx |-> f.ctx, args |-> f.args,
     shared |-> shared, cached |-> f.cached]

Construct(t) ==
    /\ At(t, "args")
    /\ Complete(Top(t))
    /\ made' = Append(made, Built(Top(t), TRUE))
    /\ Resolve(Top(t).key, SingleEntry(Top(t).who))
    /\ Return(t)
    /\ UNCHANGED <<app, available, scope, ctxCache>>

(* Mutant: the cache is filled but never consulted.                        *)
HitNever(f) == FALSE

(* The cache is consulted after the dependencies have been evaluated.      *)
Hit(f) == f.cached /\ ctxCache[f.ctx][f.key] # 0

CacheHit(t) ==
    /\ At(t, "make")
    /\ Complete(Top(t))
    /\ Hit(Top(t))
    /\ Answer(t, ctxCache[Top(t).ctx][Top(t).key])
    /\ UNCHANGED store

(* Mutant: the cache forgets which context it is for.                      *)
RememberForAll(f, ref) ==
    ctxCache' = IF f.cached
                THEN [r \in Requests |-> [ctxCache[r] EXCEPT ![f.key] = ref]]
                ELSE ctxCache

Remember(f, ref) ==
    ctxCache' = IF f.cached THEN [ctxCache EXCEPT ![f.ctx][f.key] = ref]
                ELSE ctxCache

Make(t) ==
    /\ At(t, "make")
    /\ LET f == Top(t) IN
         /\ Complete(f)
         /\ ~ Hit(f)
         /\ f.who \notin app.hooked \/ f.ctx = None
         /\ made' = Append(made, Built(f, FALSE))
         /\ Remember(f, Len(made) + 1)
         /\ Answer(t, Len(made) + 1)
    /\ UNCHANGED <<app, available, resolved, scope>>

(* beforeControllerMethodIsCalled is awaited before the instance is cached.*)
MakeHooked(t) ==
    /\ At(t, "make")
    /\ LET f == Top(t) IN
         /\ Complete(f)
         /\ ~ Hit(f)
         /\ f.who \in app.hooked /\ f.ctx # None
         /\ made' = Append(made, Built(f, FALSE))
         /\ Await(t, [f EXCEPT !.at = "hook", !.i = Len(made) + 1])
    /\ UNCHANGED <<app, available, resolved, scope, ctxCache>>

HookDone(t) ==
    /\ At(t, "hook")
    /\ Remember(Top(t), Top(t).i)
    /\ Answer(t, Top(t).i)
    /\ UNCHANGED <<app, available, resolved, scope, made>>

HookThrows(t) ==
    /\ At(t, "hook")
    /\ Throw(t)
    /\ UNCHANGED store

-----------------------------------------------------------------------------
(* A request, as DanetRouter serves it: guards and middlewares are         *)
(* registered, then the controller is got with the request's context.      *)

Arrive(r) ==
    /\ r \in app.clients
    /\ running = None
    /\ outcome[Boot] = "done"
    /\ outcome[r] = "idle"
    /\ outcome' = [outcome EXCEPT ![r] = "busy"]
    /\ stack' = [stack EXCEPT ![r] =
                   <<[Call("list", r, app.route[r], None) EXCEPT !.ctx = r]>>]
    /\ UNCHANGED <<store, running>>

GetController(r) ==
    /\ At(r, "get")
    /\ Top(r).args = <<>>
    /\ Read(r, Top(r).key, Top(r).ctx)
    /\ UNCHANGED store

(* The controller method runs; it may throw.                               *)
Serve(r) ==
    /\ At(r, "get")
    /\ Top(r).args # <<>>
    /\ Return(r) \/ Throw(r)
    /\ UNCHANGED store

(* handleError: the context is cleaned only when no filter answered.       *)
HandleError(r) ==
    /\ running = None
    /\ outcome[r] = "failed"
    /\ outcome' = [outcome EXCEPT ![r] = "answered"]
    /\ \/ ctxCache' = [ctxCache EXCEPT ![r] = [k \in AllKeys |-> 0]]
       \/ UNCHANGED ctxCache
    /\ UNCHANGED <<app, available, resolved, scope, made, stack, running>>

-----------------------------------------------------------------------------
Step(t) ==
    \/ Import(t) \/ Offer(t) \/ ProvideValue(t) \/ ProvideClass(t)
    \/ Listed(t) \/ NextController(t) \/ Publish(t)
    \/ Enter(t) \/ ResolveDependency(t) \/ DependenciesResolved(t)
    \/ DecideSingle(t) \/ DecideScoped(t) \/ Control(t) \/ ControlScoped(t)
    \/ ReadArgument(t) \/ Construct(t)
    \/ CacheHit(t) \/ Make(t) \/ MakeHooked(t) \/ HookDone(t) \/ HookThrows(t)

RequestStep(r) == GetController(r) \/ Serve(r) \/ HandleError(r)

(* Nothing is in flight: the event loop waits for a request.               *)
Quiet ==
    /\ \A t \in Tasks : stack[t] = <<>>
    /\ \A r \in Requests : outcome[r] # "failed"
    /\ UNCHANGED vars

Next ==
    \/ \E t \in Tasks : Step(t)
    \/ \E r \in Requests : Arrive(r) \/ RequestStep(r)
    \/ Quiet

(* The microtask queue is first in, first out: a task whose await is       *)
(* settled is resumed.  Requests need not arrive.                          *)
Fairness ==
    /\ \A t \in Tasks : WF_vars(Step(t))
    /\ \A r \in Requests : WF_vars(RequestStep(r))

Spec == Init /\ [][Next]_vars /\ Fairness

-----------------------------------------------------------------------------
(* Every variable keeps its type: the maps of the injector hold entries    *)
(* for known keys, and references name instances.                          *)
TypeOK ==
    /\ app \in App
    /\ available \in [Keys -> Services \cup {Value, None}]
    /\ resolved \in [AllKeys -> Entry \cup {None}]
    /\ scope \in [Services -> Scopes]
    /\ made \in Seq(Instance)
    /\ ctxCache \in [Requests -> [AllKeys -> Nat]]
    /\ stack \in [Tasks -> Seq(Frame)]
    /\ outcome \in [Tasks -> {"idle", "busy", "done", "failed", "answered"}]
    /\ running \in Tasks \cup {None}

Instances == DOMAIN made
Captured(i) == {made[i].args[n] : n \in DOMAIN made[i].args} \ {0}

(* A factory hands an instance only to what is built with the same         *)
(* execution context; every other captured instance is a shared one.       *)
RequestIsolation ==
    \A i \in Instances : \A a \in Captured(i) :
        /\ a \in Instances
        /\ made[a].shared \/ made[a].ctx = made[i].ctx

(* The context cache of a request only holds instances built for it.       *)
CacheIsolation ==
    \A r \in Requests : \A k \in AllKeys :
        ctxCache[r][k] # 0 =>
            /\ ctxCache[r][k] \in Instances
            /\ made[ctxCache[r][k]].ctx = r
            /\ made[ctxCache[r][k]].key = k

(* Within one execution context a request-scoped key has one instance,     *)
(* although the dependencies of a cached class are evaluated before the    *)
(* cache is consulted and a hook is awaited before it is filled.           *)
OnePerContext ==
    \A i, j \in Instances :
        /\ made[i].cached /\ made[j].cached
        /\ made[i].ctx = made[j].ctx /\ made[i].key = made[j].key
        => i = j

(* A singleton injectable never captures an instance made by a factory, a  *)
(* singleton controller at most a transient one: the scope metadata of a   *)
(* dependency is final when its dependents decide.                         *)
PureSingletons ==
    \A i \in Instances : made[i].shared =>
        \A a \in Captured(i) :
            \/ made[a].shared
            \/ /\ made[i].class \in Controllers
               /\ scope[made[a].class] = "TRANSIENT"

(* An injectable that is provided under its own key is instantiated once   *)
(* as a singleton, whichever way it is reached first.                      *)
ClassesAreShared ==
    \A i, j \in Instances :
        /\ made[i].shared /\ made[j].shared
        /\ made[i].class = made[j].class /\ made[i].class \in Services
        /\ made[i].key = made[i].class /\ made[j].key = made[j].class
        => i = j

(* "the instance is shared across the entire application": no injectable   *)
(* class is instantiated twice as a singleton, under a token neither.      *)
GlobalIsShared ==
    \A i, j \in Instances :
        /\ made[i].shared /\ made[j].shared
        /\ made[i].class = made[j].class
        => i = j

(* "resolves when all injectables have been registered": once the modules  *)
(* are bootstrapped, every provider they list can be got.                  *)
EveryProviderRegistered ==
    outcome[Boot] = "done" =>
        \A m \in {n \in Modules : resolved[n] # None} :
            LET list == app.injectables[m] IN
            \A p \in DOMAIN list : resolved[list[p].key] # None

(* The bootstrap settles, whatever the dependency graph: it never hangs.   *)
BootSettles == <>(outcome[Boot] \in {"done", "failed"})

(* A request that arrived is answered.                                     *)
RequestsSettle ==
    \A r \in Requests :
        outcome[r] = "busy" ~> outcome[r] \in {"done", "answered"}

=============================================================================
