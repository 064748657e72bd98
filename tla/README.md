# A TLA+ verification project for Danet

Danet is a web framework for Deno in the manner of Nest: modules, controllers
and injectable classes are declared with decorators, and one process-wide
container builds them, at start-up and again for every request. It is a small
program (4,900 lines of TypeScript under `src/`), single-threaded, and almost
all of its functions are asynchronous. What is hard in it is therefore not
data but order: what another request, timer or hook can do while a function
awaits; what a second bootstrap, a late timer or a middleware that calls
`next()` twice finds; which of several errors becomes the answer.

The specifications are plain TLA+. TLC checks small instances, TLAPS proves the
results listed under *What is proved* for every instance.

## 1. The system

| Component | Source (`src/`) | State | Operations | Module |
|---|---|---|---|---|
| Injector | `injector/` | `resolved`, `availableTypes`, `contextInjectables`, the scope metadata of classes | `bootstrapModule`, `registerInjectables`, `resolveInjectable`, `resolveDependencies`, `get`, the factories of scoped classes, `cleanRequestInjectables` | `Injector` |
| Application | `app.ts`, `hook/` | entry module, server, transports | `bootstrap`, `init`, `listen`, `close`, hooks | `Lifecycle`; `bootstrap` also in `Injector` and `Routing`, `close` also in `Throttler` and `Background` |
| HTTP pipeline | `router/router.ts`, `router/middleware/`, `guard/`, `exception/filter/`, `router/controller/params/resolver.ts` | per request: the context, its response, the dispatch index; process-wide: the lists of global middlewares and filters | `createRoute`, `executeAllRelevantMiddlewares`, `executeAllRelevantGuards`, `handleRoute`, `sendResponse`, `handleError`, `executeControllerAndMethodFilter` | `RequestPipeline` |
| Throttler | `throttler/` | a map of windows and their timers | `canActivate`, `increment`, eviction, `onAppClose` | `ThrottlerStorage`, `Throttler`, `FixedWindow` |
| Event emitter | `events/` | channels and an `EventTarget` | `emit`, `subscribe`, `unsubscribe`, the module's hooks | `EventEmitter`, `Subscriptions` |
| KV queue | `kv-queue/` | the connection, one listener per type | `sendMessage`, `addListener`, `attachListeners`, hooks | `KvQueue`, in `Background` |
| Scheduler | `schedule/` | sets of intervals and timeouts, an abort controller | registration at bootstrap, cleaning at close | `Scheduler`, in `Background` |
| WebSocket router | `router/websocket/` | per socket: the guard of its connection, messages in flight | connection, message, guard, filter | `WebSocket` |
| Server-sent events | `router/router.ts` (`handleSSE`), `sse/` | the stream, its pending writes, `canContinue` | event, close, the loop | `ServerSentEvents` |
| Routes and settings | `app.ts`, `router/router.ts`, `router/websocket/router.ts`, `router/utils.ts`, `router/controller/decorator.ts` | base path, transports, Hono's table | `registerBasePath`, `useTransport`, `enableCors`, `use`, `useStaticAssets`, `registerController`, `trimSlash` | `Routing` |
| Parameters | `router/controller/params/` | the argument list of a request | the resolvers of `@Query`, `@Body`, `@Param`, `@Session`..., `resolveMethodParam` | `Parameters`, in `Routing` |
| Metadata, exceptions, renderer, static files, logger, MIME types | the rest | none of their own | | not modelled: wrappers, constants and input/output |

How they meet. `DanetApplication.init` bootstraps the imported modules depth
first, each through the injector, gives the controllers to a router and then
runs the `onAppBootstrap` hooks of everything in the registry. A request goes
through Hono to the router's two handlers; they use the injector twice, to
register and get the classes of middlewares, guards and filters (lazily, at the
first request that needs them) and to get the controller with the request's
context. The throttler is such a guard. `close` runs the `onAppClose` hooks and
then shuts the server down, so requests are still served while services close;
the queue goes on delivering and timers go on firing until the hook of their own
module, somewhere in the middle of that loop.

What each must get right:

- **Injector.** An instance built for one request is never visible to another;
  a singleton never captures a scoped instance; a class has one instance per
  scope; a bootstrap ends, with every provider registered or with an error.
- **Throttler.** The storage counts in fixed windows however late its timers
  fire; nobody passes beyond the limit of a window, nobody is rejected below
  it; no record and no timer is left for ever.
- **HTTP pipeline.** Nothing of a request runs twice; the method runs only
  behind its middlewares and guards; every error is answered, by the right
  filter; what is sent is the last thing that was decided.
- **Lifecycle.** A loop over the hooks reaches everything that is registered
  while it runs; services stop before their server does; a close that resolves
  leaves nothing running.
- **Events.** A listener gets each event once, for as long as it is subscribed.
- **Queue.** A message is done only when its listener is, and meets a listener
  whenever there is one, through closes, crashes and restarts.
- **Scheduler.** Nothing fires after the module's close, not even when `init`
  failed half-way.
- **WebSocket.** A message is handled only when every guard has allowed that
  very message; it is answered at most once, on its own socket; a refusal is
  final.
- **Streams.** The client gets the events in order, once each; `close` ends it.
- **Routes.** When `init` resolves every controller can be reached, by one
  router, behind the middlewares; arguments come from the right request.


`PROJECT.json` lists, line by line, the hazards behind these properties and
which property would notice each of them.

## 2. Modules

### Injector

Every asynchronous function in progress is a frame of its task's stack; a task
is the bootstrap or a request. A step is a stretch of code without an `await`:
`running` names the task that has not reached its next `await`, and only that
task may step, so tasks interleave exactly where the code awaits. `Push` is a
call, `Return` and `Answer` settle a promise, `Throw` is a rejection, which
nothing between a frame and the task's top catches.

| Variable | Code |
|---|---|
| `app` | what the decorators say: imports, lists of providers, parameters, scopes, hooks |
| `available` | `availableTypes` |
| `resolved` | `resolved` and `resolvedTypes`: a value, a singleton's closure or a factory per key |
| `scope` | the `injectionData` metadata, which the code overwrites when it promotes a class |
| `made` | history: every instance, with the arguments it captured and the context it was built for |
| `ctxCache` | `contextInjectables` |
| `stack`, `outcome`, `running` | the async functions in progress |

Left out: the public arrays of instances (they list what `made` says), the
controllers' registration on the routers, the text of errors. The recursion of
the engine is bounded by `StackLimit`: a cyclic dependency recurses until then.
`ClassesAreShared` speaks of injectables: the code builds the controllers of a
module that is imported twice again, since it asks the registry only when it
registers injectables.

### ThrottlerStorage, Throttler, FixedWindow

`FixedWindow` is what the interface promises: windows, no timers.
`ThrottlerStorage` is `InMemoryThrottlerStorage` with the event loop's timers as
a set and a clock; a due timer may fire late. `Throttler` composes it with `ThrottlerGuard.canActivate` for concurrent requests (each `await
storage.increment` is an interleaving point) and with `close`, which runs the
storage's hook first and shuts the server down later (`server`). A key is the
tuple the code formats into a string. Headers are left out.

### RequestPipeline

One request. Position 0 is the first of `createRoute`'s handlers, then come the
middlewares, last the second handler, `handleRoute`. A middleware is any
program over four actions: call `next()`, await it, resume, end (with or without
an error). `handleRoute` goes through its stages (global, controller and method
guard, parameters, controller, method, response) and each handler may hand an
error to `handleError`, so two of them can be in progress at once. A class that
is not a singleton is a promise where the executors of middlewares, guards and
filters expect an instance (`injector.get` is not awaited there), and the model
does what the code then does. Requests share no state here: what they share is
in `Injector`. Hono's `compose` (which catches what a handler throws and answers
500, and sends `context.res` when the first handler has settled) is external.

### Lifecycle

`init`, `listen` and `close` of every application of a process, over the one
injector they share. `registry` is the injector's Map as the sequence of its
keys; `job` gives every call of `init` and `close` its phase and its place in
the loop of `executeHookForEveryInjectable`, which awaits each hook while other
bootstraps (`Register`) and requests (`RegisterGuard`) add entries: a JavaScript
Map iterates in the order of insertion and also reaches what is added before the
end. A hook in `Rejecting` may reject, which ends the loop and its caller.
`called` is history. `server` is `internalHttpServer`; Deno's server (accept,
drain, resolve `shutdown`) is external. `close` may come while `init` is at
work; `listen` comes once, after `init`, as documented. Keys stand for what is
stored under them: a second bootstrap of a module puts a new object in the place
of the first, which this model does not tell apart.

### EventEmitter, Subscriptions

Everything in the emitter is synchronous; what interleaves are the frames of
nested emissions, a stack in `dispatching`. The emitter keeps its listeners
twice, in the Map that `emit` and `unsubscribe` read (`listenersRegistered`) and
in the `EventTarget` that dispatches (`eventTarget`); both are in the model.
`bootstrap` is the place in the module's loop over the methods with `@OnEvent`.
`EventTarget` is external: it calls the listeners of the moment of the dispatch,
except those removed since. `Subscriptions` is what an emitter promises: a set
of subscribers per channel, and emissions that owe their event to those who were
subscribed then and still are. Channel names are not empty (`unsubscribe('')`
empties every channel), and listeners do not throw.

### ServerSentEvents

`handleSSE` at the end of the pipeline, for the routes in `Streaming`. The
listener is attached, without an await, in the step in which the method's
promise settles; every event then starts a write of its own (`writing`), which
the stream takes one at a time, when the client reads. `canContinue` is set by
the listener when the write of an event named `close` has ended; the loop looks
at it every millisecond. What the middlewares do after `next()` interleaves with
all of it: a middleware may replace the response, and then nobody reads the
stream. The stream is Hono's and external: it swallows what is written once the
client has left.

### WebSocket

| Variable | Code |
|---|---|
| `opening`, `instance` | where `handleConnectionRequest` and `onConnection` are, and the controller instance of that connection |
| `socket` | `readyState` |
| `stage`, `at` | where the handler of each message is, and its middleware |
| `context` | whose topic and data an execution context holds: the handler makes an object for each message |
| `given`, `judged`, `denied`, `served` | history: whose data the parameters were read from, what each guard saw when it said yes, what was refused, the instance the method ran on |
| `answers` | what was sent on each socket |

A step is the code between two awaits. Messages are handled beside each other
and beside the guards of the connection: `Receive` needs an open socket, not an
admitted one. A rejection of a handler is handled by nobody (`"rejected"`): that
is `JSON.parse`, a topic without a method, a middleware, a parameter, a filter.
The order in which methods match is left to `Topics`: the first match is
called. What a middleware may do with `next()` is in `RequestPipeline`; here it
calls it once, stops, or throws.

### KvQueue, Scheduler, Background

`KvQueue` has the connection (`kv`, `open`), the consumers, the listener of each
type, and the queue itself, which is Deno's and external: it outlives the
process, delivers at least once, and tries a message whose handler throws again,
`MaxAttempts` times. Two deliveries of one message may be in progress when a
connection was closed under the first. `Scheduler` has the jobs Deno holds and
those the module can clear: the same until a second bootstrap makes a new
module. Neither has a specification of its own: `Background` runs their actions
in one application. `registry` is the order in which `init` and `close` call the
hooks, `phase` and `at` where the loop is; a hook may reject, at bootstrap
(`"failed"`) or at close (`"broken"`); the process may crash at any time and
start again (`life`); `fired` is history. In the queue a connection has the
number of its life. `attachListeners` is called once per injectable, which adds
consumers that share one queue; they are one here. `close` comes after `init` has
settled (`Lifecycle` has the other case), a `broken` application restarts only
after a crash, and a second application beside the first is in `Lifecycle` only.
`UsesThis`, the listeners that read `this`, is empty in the passing run:
section 6 says what happens to them.

### Parameters, Routing

`Routing` is what a declared controller becomes. `BootstrapModule` is the code
between two awaits of `bootstrap`: all controllers of a module, each given to a
transport, a socket or its routes. `table` is Hono's, in the order of addition;
Hono is external: it runs what matches in that order, looks `HEAD` up as `GET`,
takes no more routes once it has served a request (`built`), and its CORS
middleware answers `OPTIONS`. Paths are sequences of names and slashes, so that
`trimSlash` and the joining of base path, controller and method are the code's
own; matching compares the names, without parameters or wildcards. Settings may
be changed and requests may come at any time, `init` included.

`Parameters` resolves the arguments: the Map of resolvers goes from the last
parameter to the first, each is awaited, and `params[key] = value` leaves holes.
A body is one of five verdicts (malformed, falsy, accepted, accepted in part,
refused), since the validator is a library.

## 3. Runs


| Run | Instance | Shows |
|---|---|---|
| `injector` | three families of applications: 3 classes with every dependency graph and scope, two modules, one imported twice; every order of a list of a class, a `useClass` token and a `useValue` token; and 2 requests over a diamond of four classes in 4 assignments of scopes and 2 orders, with hooks that may reject and a guard registered lazily | `TypeOK`, `PureSingletons`, `EveryProviderRegistered`, `RequestIsolation`, `CacheIsolation`, `OnePerContext`, `ClassesAreShared`, `BootSettles`, `RequestsSettle` |
| `injector_shared_token` | one application | a disagreement (section 6): `GlobalIsShared` |
| `throttler_storage` | 2 keys, windows of 1 and 3 ticks, a clock to 6 | `TimersMatchRecords`, `ImplementsFixedWindow`, `RecordsEvicted` |
| `throttler` | 3 requests, 2 callers, 2 routes, 2 throttlers, 4 configurations with overrides and a skipped route, and a close | `LimitHolds`, `RejectedOverLimit`, `ProcessEnds` |
| `request_pipeline` | 0 to 2 middlewares, three guards, two filters, singletons or not: 108 routes, 4 of them streams of up to 2 events | `OncePerRequest`, `MethodIsGuarded`, `AnswerIsTheLast`, `FiltersInOrder`, `Answered`, `EventsInOrder`, `CloseEndsTheStream` |
| `request_scoped_filter` | one scoped filter | a disagreement (section 6): `FilterWasAsked` |
| `event_emitter` | 2 channels, 3 declared methods, 5 subscriptions, 3 nested emissions, repeated bootstraps | `ImplementsSubscriptions` |
| `lifecycle` | 2 applications with a common service and one of their own, one hook of each that may reject, a request whose guard is registered lazily | `StoppedBeforeTheServer`, `ClosedIsQuiet`, `RunsReachAll`, `CloseSettles` |
| `websocket` | 2 connections, 2 messages on either, a controller with every guard, a filter and a request scope, and one with a middleware and a guard of its connections only | `JudgedIsHandled`, `AnswersGoHome`, `RefusalIsFinal`, `MessagesSettle` |
| `background` | 2 services around the queue and the scheduler in 3 orders, 2 messages (one that both services listen to, one that nobody does), jobs of every kind, two cron jobs of one name, 2 lives, 2 attempts | `DoneWhenHandled`, `NeverUnheard`, `StoppedBehind`, `JobsMeetServices`, `MessagesSettle` |
| `queue_listener_this` | the same, with listeners that read `this` | a disagreement (section 6): `ListenersKeepThis` |
| `routing` | 4 applications out of 5 controllers (HTTP, WebSocket, of a transport, without endpoints), 1 or 2 modules, a base path, 3 middlewares, 2 requests in 3 combinations | `InitRegistersAll`, `PathsAreJoined`, `MiddlewaresComeFirst`, `ArgumentsInPlace` |

Why the bounds are enough. *Injector:* three classes give every shape of a
dependency (direct, shared, transitive, cyclic); the promotion of a scope and
the override of a parent's metadata reach one level at a time. Two requests
give every pair of contexts, and the isolation properties relate two instances;
`StackLimit` 7 is above the depth of every acyclic graph here, so only cycles
meet it. *Throttler:* a window of three ticks outlives one of one tick by two,
so that a timer can fire on time, late, and after the next window has opened,
and the clock runs past the end of every window (`LastHit` plus the longest
`ttl`). Three requests exceed every limit used (0, 1, 2). *Pipeline:* two
middlewares are the least with one whose `next()` is another middleware and one
whose `next()` is the route; every repeated or late call reduces to these.
`ThrottlerStorage` bounds the number of hits in a window (`MaxHits`), the time
of the last hit (`LastHit`) and the clock (`MaxTime`); `Throttler` also holds
the clock at `LastHit` while a request is in flight. *Emitter:* `MaxDepth` 3
nests an emission in one that is itself nested, so that what a listener removes
can be owed by an emission on either side; `MaxListeners` 5 lets a channel be
emptied and filled again while it is dispatched. *Lifecycle:* two applications
are enough for a loop and a bootstrap, or two loops, to run beside each other,
and the guard adds an entry from a third side.
*WebSocket:* two messages give every pair of handlers, two connections a socket
that is not the message's own, and the two controllers every stage. *Background:*
two lives give a message left by an earlier process and a module that is made a
second time (`MaxLives`); two attempts are the least with a retry
(`MaxAttempts`: the queue tries a few times and gives up). The
orders put a service before, between and behind the two modules. *Routing:* two
modules give an await between registrations, in which a setting may change or a
request arrive; two requests resolve parameters beside each other. *Streams:*
two events (`MaxEvents`) are the least that can be out of order. No other
counter is bounded.

What the instances keep out, because the code then does something else (section
6): in `injector`, no application lists a class both under its own name and under
a token (`OneKeyPerClass`), and only one of the requests registers the lazy guard
(`SoleRegistrar`). In the throttler's runs every `ttl` fits the delay of a timer
(`TtlsFit`; a longer one, of 24.9 days, fires at once), no two throttlers have
one name (`NamesDistinct`), and no two routes share the names of class and method
that a key is made of (`RoutesDistinct`). In `routing`, no base path or endpoint
has an empty segment inside (`PathsTidy`). These six are the hypotheses of the
theorems that need them, and `MCHypotheses` has TLC evaluate them of the very
instances; `MCExcluded` in `MCInjector` holds two families that the first two
exclude.

Deadlock is checked in every run: an idle application is an explicit stuttering
action (`Quiet`, `StorageIdle`, `Stopped`, `Over`, `Idle`, `Rest`), enabled only
when nothing is in progress. The emitter can always be emptied.

### Fairness

Weak fairness throughout, and only of what the event loop does by itself: a
settled promise resumes what awaits it (`Step`, `RequestStep`, the pipeline's
actions), time passes, a due timer fires. Requests need not arrive and nobody
needs to close the application. `RequestPipeline` also assumes that the
application's own middlewares, guards, methods and filters end (`Settle`,
`HandleRoute`, `HandleError`), and `Injector` and `Lifecycle` that a hook
settles and a request is answered, since no code of Danet limits their time.
`WebSocket` assumes the same of a message's handler and of the guards of a
connection, `Background` of hooks and listeners, and that the queue delivers
while a consumer listens; nobody need start, close or crash the application, and
no job need come due. `ServerSentEvents` assumes that a client which is there
reads. `Throttler` assumes that `close`, once called, goes on, and that the
clock does: then no timer is left for ever, although requests set timers in a
storage that is closed already (`ProcessEnds`). `Routing` is safety only. The fairness is per task, request or key because
the microtask queue is first in, first out: no task overtakes another for ever.

## 4. What is proved

| Theorem | Module | Statement |
|---|---|---|
| `TypeCorrect` | `InjectorProofs` | `Spec => []TypeOK` |
| `ProvidersRegistered` | `InjectorProofs` | under `OneKeyPerClass`, `Spec => []EveryProviderRegistered` |
| `SingletonsShared` | `InjectorProofs` | under `OneKeyPerClass` and `SoleRegistrar`, `Spec => []ClassesAreShared` |
| `SingletonsPure` | `InjectorProofs` | under the same, `Spec => []PureSingletons` |
| `RequestsIsolated` | `InjectorProofs` | `Spec => []RequestIsolation` |
| `CachesIsolated` | `InjectorProofs` | `Spec => []CacheIsolation` |
| `OneInstancePerContext` | `InjectorProofs` | `Spec => []OnePerContext` |
| `TimersMatch` | `ThrottlerProofs` | under `TtlsFit`, `StorageSpec => []TimersMatchRecords` |
| `StorageImplementsFixedWindow` | `ThrottlerProofs` | under `TtlsFit`, `StorageSpec => ImplementsFixedWindow` |
| `GuardKeepsTimers` | `ThrottlerProofs` | under `TtlsFit`, the guard and `close` keep `TimersMatchRecords` |
| `LimitIsKept` | `ThrottlerProofs` | under `TtlsFit`, `NamesDistinct` and `RoutesDistinct`, `Spec => []LimitHolds` |
| `RejectionsAreEarned` | `ThrottlerProofs` | under `NamesDistinct` and `RoutesDistinct`, `Spec => []RejectedOverLimit` |
| `StreamsKeepThePipeline` | `PipelineProofs` | `SSESpec => Spec`: the stream only adds to the pipeline |
| `OnlyOnce` | `PipelineProofs` | `SSESpec => []OncePerRequest` |
| `Guarded` | `PipelineProofs` | `SSESpec => []MethodIsGuarded` |
| `LastAnswer` | `PipelineProofs` | `SSESpec => []AnswerIsTheLast` |
| `FilterOrder` | `PipelineProofs` | `SSESpec => []FiltersInOrder` |
| `EventOrder` | `PipelineProofs` | `SSESpec => []EventsInOrder` |
| `EmitterImplementsSubscriptions` | `EmitterProofs` | `Spec => ImplementsSubscriptions` |
| `CopiesKept` | `EmitterProofs` | `Spec => []CopiesAgree` |
| `ServicesStopFirst` | `LifecycleProofs` | `Spec => []StoppedBeforeTheServer` |
| `CloseIsQuiet` | `LifecycleProofs` | `Spec => []ClosedIsQuiet` |
| `HooksReachAll` | `LifecycleProofs` | `Spec => RunsReachAll` |
| `GuardsJudgeTheirMessage` | `WebSocketProofs` | `Spec => []JudgedIsHandled` |
| `AnswersAreSentHome` | `WebSocketProofs` | `Spec => []AnswersGoHome` |
| `RefusalHolds` | `WebSocketProofs` | `Spec => []RefusalIsFinal` |
| `DoneIsHandled` | `BackgroundProofs` | `Spec => []DoneWhenHandled` |
| `ListenersComeFirst` | `BackgroundProofs` | `Spec => []NeverUnheard` |
| `NothingIsLeft` | `BackgroundProofs` | `Spec => []StoppedBehind` |
| `JobsKeepTheOrder` | `BackgroundProofs` | `Spec => []JobsMeetServices` |
| `InitRegisters` | `RoutingProofs` | `Spec => []InitRegistersAll` |
| `NamesJoined` | `RoutingProofs` | `Spec => []NamesAreJoined`, the first half of `PathsAreJoined` |
| `PathsJoined` | `RoutingProofs` | under `PathsTidy`, `Spec => []PathsAreJoined` |
| `MiddlewaresFirst` | `RoutingProofs` | `Spec => []MiddlewaresComeFirst` |
| `ArgumentsArePlaced` | `RoutingProofs` | `Spec => []ArgumentsInPlace` |

*Assumptions.* `Injector`: applications are well-typed (`AppsAssumption`), the
stack limit is positive, and classes, tokens, modules and requests have
different names (`NamesAssumption`: a class and a token that were equal would be
one key of the registry), `None` is none of them and no entry of the registry,
and a provider whose key is a class is that class (`Provider`: `useClass` and
`useValue` come with a token). `ThrottlerStorage`: durations and bounds are naturals,
and `None` is no record. `TtlsFit`, `NamesDistinct`, `RoutesDistinct`,
`OneKeyPerClass`, `SoleRegistrar` and `PathsTidy` are hypotheses of theorems and not
assumptions of a module, because the code does not enforce them; section 6 says
what it does without them. `RequestPipeline`: setups are well-typed, and what
stands for a missing error is no error. `WebSocket`:
setups are well-typed and `None` is no connection or message. `Background`: in
every registry `KvQueue` comes before its module and before the services that
send, which is how `KvQueueModule.forRoot` lists its injectables and how the
injector registers a dependency before its dependents. `Routing`: endpoints,
methods, decorators, modules and base paths are finite sequences. `Parameters`:
what stands for no error is none of the three errors.

*Types.* `TypeOK` is not inductive: a frame must also have arguments that fit
its label. A frame that reads arguments is one of a class and not of a module, a
frame of a request's list carries that request, a frame that makes an instance
has below it the frame that waits for it. `TypeInv` says so; `InjectorProofs`
shows that every call, return and rejection keeps it, then every action.

*Isolation.* That finished instances only capture instances of their own
context says nothing about the half-read argument list of a factory in
progress, nor about where the answer of a nested factory will go. `IsoInv` adds:
the arguments collected in every frame are shared or of that frame's context; a
factory frame has the context of the frame below it, which takes its answer;
entries of the registry name shared instances; the cache of a context holds
instances of that context. `made` only grows, so what is finished stays true;
each action disturbs one frame. The theorem covers any number of requests,
classes and modules and any graph.

*One instance per context.* Between a factory's question whether the cache has
its key and its answer lies the hook of the new instance, which may take its
time. `Once` says that only a request's own task works under its context
(`TasksMine`), and that an instance meant for the cache is in it, or in a hook
on top of that task's stack, or its request is over and builds nothing any more,
whose cache may be gone (`CachedHeld`). So nobody can build a second one
meanwhile.

*Registration.* That everything a finished bootstrap lists is registered says
nothing of a list half-way, or of a dependency that is being built inside it.
`RegInv` gives every frame its dues (`Due`, `Awaits`): each key that the frame is
done with is in the registry, or the frame directly above is at work on it. A
call pays nothing, a return of the frame above pays its key, and nothing leaves
the registry. `enter` returns early for a class that is registered, under
whatever key: without `OneKeyPerClass` the key of a second token would then stay
unpaid, which is what the code does.

*Sharing.* A second singleton of a class is built only if two frames look the
class up before either has registered it. Within one task `ShareInv` says that a
class a stack waits for is still unresolved (`Unbuilt`), that each frame works on
a dependency of the one below (`Needed`), and, since whatever finishes has its
dependencies resolved first, that no lower frame has the class of a higher one
(`Above`). Between tasks, registration is never in progress twice: the bootstrap
comes before the requests (`Phases`), and of those only one registers
(`SoleRegistrar`).

*Purity.* A singleton reads its arguments from the registry long after it has
settled to be one. `Pure` says that whoever is past its scope (`Settled`) has its
dependencies registered, that what is registered as a factory never has the
global scope again, and that the arguments collected so far capture nothing
scoped. Two facts carry it over a promotion, where the code overwrites the
metadata of the class that asked: that class still waits for the dependency that
does it, so nobody who has settled loses a TRANSIENT mark; and while a
singleton's arguments are read nothing is registered and no scope changes.

*Throttler.* The inductive invariant adds to `TimersMatchRecords` that ids of
timers are not reused (every id is at most `lastId`), that a record's timer is
still pending while the record exists, and that its hits are positive. The
refinement maps a record to a window only while it is live: a hit maps to a hit,
the eviction of a live window is impossible (its timer is due when it ends), any
other eviction is a stutter, a tick drops the windows that end.

*Guard.* `LimitHolds` counts the requests let through in one window, and the
prover has no induction over them. The proof names them instead: in one window of
one key the storage tells its hits 1, 2, ..., n (`CountInv`). Whoever is rejected was
told a number above the limit, so each number up to it was told to a hit of its
own: `1 .. n` goes one to one into the hits. And while the server is open no
number of a window is told twice, and whoever hits within a window belongs to it
(`WindowsHold`), so those let through go one to one into `1 .. limit`.
`FiniteSetTheorems` does the counting. Two throttlers of one name, or two routes
with one key, would share a count; a timer that fires early would begin a new
count in the same window, which is why `LimitIsKept` needs `TtlsFit` and
`RejectionsAreEarned` does not.

*Pipeline.* The executor of middlewares keeps one number, `index`, and refuses a
`dispatch` at or below it. `PipelineInv` says what it counts: the positions that
have been entered, each exactly once, each by the one before it, and that no one
who threw when entered was followed by another (`ChainInv`). `handleRoute` is
behind all of them, and its stage says which guards have answered (`RouteInv`).
Unless a middleware let `next()` float, a position that has left its part of the
request leaves nothing at work behind it (`OrderInv`), so the answer that is sent
is the one decided last (`AnswerInv`). Every step of the stream is one of the
pipeline or a stutter of it. A stream begins once, in the step in which
`handleRoute` returns, with its listener attached (`StreamInv`): from then on
each event is put behind those being written.

*Emitter.* Listeners are numbered as they subscribe, so the order of a sequence
is the order of subscription (`Rising`) and a sequence is given by its set of
elements. `EmitterInv` says that the Map and the `EventTarget` hold the same
listeners, though each subscription writes them one after the other and each
removal goes through two loops; the refinement then maps a channel to the set of
its listeners and a dispatch to those it still owes. That removing all listeners
of a channel leaves none speaks of a recursive function; the proof takes the
least place at which something would be left (`WFMin`), since the theorems of
induction are out of the prover's reach.

*Lifecycle.* None of the three is inductive: that everything has been called
when a loop ends says nothing about a loop half-way. `IInv` says that a loop has
called exactly the global services among the entries it has passed (`Reached`),
which stays true because the registry only grows at its end (`Growth`); that
`init` has registered what it has passed of its declarations (`Prepared`); that
only an application whose `init` is done has a server, and which states of the
server each phase of `close` allows (`Ordered`); and that requests are in flight
only at a server that is up or draining. When `close` shuts the server down its
loop is at the end of a registry that contains the declarations. The theorems
cover any number of applications, services and requests and any set of rejecting
hooks.

*WebSocket.* That a method that was called was allowed says nothing of a message
half-way through its handler, whose guards may still be pending. `IInv` says for
every stage of a message which guards have answered (`Asked`), that from the
middlewares to the answer `context` and, once resolved, `given` are those of the
message itself, and that a method runs on the instance of the message's own
connection (`HandlerInv`, `ServedInv`); that a refused message never gets past
its refusal and leaves the socket closed (`DeniedInv`), which stays so because
no action opens a socket twice (`ConnectionInv`); and that the list of answers
has no message twice (`AnswersInv`). A step disturbs one message or one
connection. The theorems cover any number of both.

*Background.* All four properties speak of what is left when a loop has passed a
module. `IInv` says what there is on the way: the one connection is open from
the queue's bootstrap hook to its close hook, and a consumer of it has found
every listener registered (`ConnectionInv`, from the order of the registry);
every live job is held by the module, and none lives before the module's
bootstrap hook or behind its close hook (`JobsInv`); a service that the
bootstrap loop has passed is up, one that is stopped has been passed by the
close loop (`PassedInv`). A failed bootstrap stops the loop where it is, so the
same facts hold of it. The theorems cover any order of the registry, any number
of lives and any hooks that reject.

*Routing.* What one registration does to the table is `Leads`: it adds entries
of controllers that no transport owns behind those that are there, and until it
throws it leaves each controller reached. A step of `bootstrap` is a chain of
them. `TableInv` says that the modules passed are reached (`RegisteredInv`), that
until a setting changes every entry is what would be added now (`CurrentInv`), and
that the early middlewares are in front of every other entry (`EarlyInv`), because
before `init` there are none. `RequestInv` says that a request that has come has
closed the table, and that the resolvers called so far have put their values in
their places (`Filled`); the Map lists each decorated parameter once (`Lists`), so
no value is overwritten and, at the end of the Map, none is missing. Segments,
the Map and the two loops of registration are recursive functions: that each has
a value and what it is, is shown by the least place at which it would not
(`Least`), from `WFMin` again. Trimming takes at most one slash from either end,
and never a name: `JoinedPath` needs no hypothesis for the names, and for the
slashes that the joint is the only place where two can meet.

Only model-checked is liveness (`BootSettles`, `RequestsSettle`,
`RecordsEvicted`, `ProcessEnds`, `Answered`, `CloseEndsTheStream`, `CloseSettles`
and the two `MessagesSettle`), since the prover does not handle fairness. Every
other property of a passing run is stated by a theorem.

## 5. Plan

Done: `Injector`, `FixedWindow`, `ThrottlerStorage`, `Throttler`,
`RequestPipeline`, `ServerSentEvents`, `Lifecycle`, `Subscriptions`,
`EventEmitter`, `WebSocket`, `KvQueue`, `Scheduler`, `Background`, `Parameters`
and `Routing`, with the theorems of section 4. What is left: a second `listen` of
one application, whose first server no `close` reaches.

### Not modelled

Metadata (`Reflect`-like maps from decorators: what they store is a constant of
the modules), the exception classes (a status and a message each), the view
renderer, static files and the logger (I/O or formatting, with no state of their
own). The text of paths and values is abstracted: a path is a sequence of
segments, a body is valid or not. Cron expressions are Deno's. What only costs
memory is not a property: the injector's cache of a request is deleted when it
ends, and a queue consumer is added for each injectable.

## 6. Where the code and its comments disagree

Each has a run whose counterexample is the shortest history.

- **A class behind a token is built twice** (`injector_shared_token`,
  `injector.ts:203`, `248`). The injector asks the registry for the class and
  registers it under its token: a class that a dependent has already had built
  under its token is built again when its own turn in the list comes, and
  everything later gets the second instance of what is declared global. Two first
  requests build a lazily registered guard twice as well, since dependencies are
  awaited between the two lines (`injector.ts:208`).
- **A filter that is not a singleton is never asked**
  (`request_scoped_filter`): a promise's own `catch` is called in its place.
- **A queue listener loses its `this`** (`queue_listener_this`,
  `kv-queue/module.ts:61`): the bare method is stored, so a listener that reads
  a field of its service throws at every delivery and the message is lost.

More were met on the way. They have no run of their own: most contradict no
line of the repository, and some are kept out of the instances.

- A TRANSIENT class listed before its REQUEST dependency becomes
  REQUEST-scoped: the promotion overwrites its metadata before it is read
  (`injector.ts:262`). A singleton controller keeps a REQUEST instance that it
  reaches through a TRANSIENT class, because only direct dependencies are looked
  at (`injector.ts:160`). A token for a class that is already registered is not
  registered, and whoever depends on the token ends the bootstrap
  (`injector.ts:203`, `130`): `OneKeyPerClass` keeps it out of
  `ProvidersRegistered`, and `MCInjector`'s `OwnKeyAndTokenApps` is such an
  application. Two requests that register one guard at the same time are its
  `SharedGuardApps`, kept out by `SoleRegistrar`.
- Two controllers with one class name and method name share a rate limit, since
  the key is made of names and not of routes (`throttler/guard.ts:137`). A timer
  that a request sets between the close hooks and the shutdown outlives both,
  though `throttler/storage.ts:56` says that none is left dangling;
  `ProcessEnds` shows that it fires in the end. A
  `ttl` of more than 24.9 days fires at once (`throttler/storage.ts:48`).
- Closing one application runs the close hooks of everything in the process's
  injector, so of another application's services too (`app.ts:94`, `250`). A
  second `listen` overwrites the handle of the first server (`app.ts:276`).
- Two cron jobs with one method name end the bootstrap (`schedule/module.ts:100`),
  and a plain value without a constructor does in the loop over event listeners
  (`events/module.ts:30`).
- `trimSlash` takes one slash from either end, so a base path or an endpoint that
  is written with two keeps an empty segment in the route (`router/utils.ts:2`):
  `PathsTidy` keeps it out.
- `registerBasePath` does not reach WebSocket controllers, and a method of one
  without a topic makes every message fail (`router/websocket/router.ts:170`).
