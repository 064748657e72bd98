---------------------------- MODULE Background -----------------------------
(***************************************************************************)
(* The queue and the scheduler in one application: init calls the          *)
(* bootstrap hooks in the order of the registry, close the close hooks in  *)
(* the same order (src/hook/executor.ts), and meanwhile the queue delivers,*)
(* jobs come due and requests are served.  An application starts again     *)
(* in the same process after a close, and in a new one after a crash.      *)
(***************************************************************************)
EXTENDS KvQueue, Scheduler

CONSTANTS
    Queue, QueueModule, ScheduleModule,  \* their entries of the registry
    Setups,       \* the applications considered
    Rejecting,    \* the hooks that may reject: pairs of a service and a phase
    MaxLives      \* bound on the number of starts

Entries == Services \cup {Queue, QueueModule, ScheduleModule}

(* An application: the order of its registry, its jobs, and what sends     *)
(* each message.  Each import lists KvQueue before its module, and a       *)
(* service that sends is injected with KvQueue, registered before it.      *)
Position(order, e) == CHOOSE i \in DOMAIN order : order[i] = e
Senders == {"booting", "closing", "job", "request"}

Ordered(setup) ==
    /\ setup.order \in Seq(Entries)
    /\ \A e \in Entries : \E i \in DOMAIN setup.order : setup.order[i] = e
    /\ \A i, j \in DOMAIN setup.order : setup.order[i] = setup.order[j] => i = j
    /\ Position(setup.order, Queue) < Position(setup.order, QueueModule)
    /\ \A m \in Messages : setup.sender[m] \in Services =>
         Position(setup.order, Queue) < Position(setup.order, setup.sender[m])

ASSUME BackgroundAssumption ==
    /\ Queue # QueueModule /\ Queue # ScheduleModule
    /\ QueueModule # ScheduleModule
    /\ Services \cap {Queue, QueueModule, ScheduleModule, None} = {}
    /\ MaxLives \in Nat
    /\ \A j \in ScheduledJobs : j.service \in Services
    /\ \A setup \in Setups :
         /\ Ordered(setup)
         /\ setup.jobs \subseteq ScheduledJobs
         /\ setup.sender \in [Messages -> Services \cup {None}]
         /\ setup.by \in [Messages -> Senders]

VARIABLES
    registry,  \* the order of the registry, and
    sender, by, \* who sends each message when, fixed from the start
    phase,     \* of the application
    at,        \* the entry its loop over the hooks is at
    life,      \* the number of starts
    up,        \* the services whose bootstrap hook has ended, and
    stopped,   \* those whose close hook has ended, in this life
    fired      \* history: each job that came due, and what its service was

application == <<registry, sender, by>>
loop == <<phase, at, life, up, stopped>>
vars == <<application, loop, fired, queueVars, scheduleVars>>

Phases == {"down", "booting", "failed", "up", "closing", "closed", "broken"}

Init ==
    /\ \E setup \in Setups :
         /\ registry = setup.order /\ jobs = setup.jobs
         /\ sender = setup.sender /\ by = setup.by
    /\ phase = "down" /\ at = 1 /\ life = 0 /\ up = {} /\ stopped = {}
    /\ fired = {}
    /\ QueueInit
    /\ ScheduleInit

-----------------------------------------------------------------------------
(* The loop over the hooks.                                                *)

(* Mutant: close runs the hooks in the reverse order.                      *)
AtReversed(p, e) ==
    /\ phase = p /\ at \in DOMAIN registry
    /\ registry[IF p = "closing" THEN Len(registry) + 1 - at ELSE at] = e

At(p, e) == phase = p /\ at \in DOMAIN registry /\ registry[at] = e

GoOn ==
    /\ at' = at + 1
    /\ UNCHANGED <<application, phase, life, fired>>

(* A hook rejects: the loop and what called it end.                        *)
Reject ==
    /\ phase' = IF phase = "booting" THEN "failed" ELSE "broken"
    /\ UNCHANGED <<application, at, life, up, stopped, fired>>

(* init, of a first or another application of the process.                 *)
Start ==
    /\ phase \in {"down", "closed"} /\ life < MaxLives
    /\ phase' = "booting" /\ at' = 1 /\ life' = life + 1
    /\ up' = {} /\ stopped' = {}
    /\ NewModule
    /\ UNCHANGED <<application, fired, queueVars>>

BootQueue ==
    /\ At("booting", Queue)
    /\ \/ OpenConnection(life) /\ GoOn /\ UNCHANGED <<up, stopped>>
       \/ Reject /\ UNCHANGED queueVars
    /\ UNCHANGED scheduleVars

BootQueueModule ==
    /\ At("booting", QueueModule)
    /\ RegisterListeners(registry)
    /\ GoOn
    /\ UNCHANGED <<up, stopped, scheduleVars>>

BootScheduleModule ==
    /\ At("booting", ScheduleModule)
    /\ \/ RegisterJobs(registry) /\ GoOn /\ UNCHANGED <<up, stopped>>
       \/ RegisterSomeJobs(registry) /\ Reject
    /\ UNCHANGED queueVars

(* A hook of the application sends; if that fails, the hook rejects.       *)
SendFromHook(s, m) ==
    /\ At(by[m], s) /\ sender[m] = s
    /\ SendMessage(m)
    /\ IF kv \in open THEN UNCHANGED <<application, loop, fired>> ELSE Reject
    /\ UNCHANGED scheduleVars

BootService(s) ==
    /\ At("booting", s)
    /\ \/ GoOn /\ up' = up \cup {s} /\ UNCHANGED stopped
       \/ <<s, "booting">> \in Rejecting /\ Reject
    /\ UNCHANGED <<queueVars, scheduleVars>>

Booted ==
    /\ phase = "booting" /\ at > Len(registry)
    /\ phase' = "up"
    /\ UNCHANGED <<application, at, life, up, stopped, fired, queueVars, scheduleVars>>

(* close, once init has settled: tests call it in a finally clause.        *)
Close ==
    /\ phase \in {"up", "failed"}
    /\ phase' = "closing" /\ at' = 1
    /\ UNCHANGED <<application, life, up, stopped, fired, queueVars, scheduleVars>>

(* kv is undefined, or a connection that is closed.                        *)
CloseQueue ==
    /\ At("closing", Queue)
    /\ \/ kv \in open /\ CloseConnection /\ GoOn /\ UNCHANGED <<up, stopped>>
       \/ kv \notin open /\ Reject /\ UNCHANGED queueVars
    /\ UNCHANGED scheduleVars

CloseQueueModule ==
    /\ At("closing", QueueModule)
    /\ GoOn
    /\ UNCHANGED <<up, stopped, queueVars, scheduleVars>>

CloseScheduleModule ==
    /\ At("closing", ScheduleModule)
    /\ ClearJobs
    /\ GoOn
    /\ UNCHANGED <<up, stopped, queueVars>>

CloseService(s) ==
    /\ At("closing", s)
    /\ \/ GoOn /\ stopped' = stopped \cup {s} /\ UNCHANGED up
       \/ <<s, "closing">> \in Rejecting /\ Reject
    /\ UNCHANGED <<queueVars, scheduleVars>>

Closed ==
    /\ phase = "closing" /\ at > Len(registry)
    /\ phase' = "closed"
    /\ UNCHANGED <<application, at, life, up, stopped, fired, queueVars, scheduleVars>>

-----------------------------------------------------------------------------
(* Meanwhile.                                                              *)

(* A job runs on its instance; it may send, and nobody awaits it.          *)
Fire(j) ==
    /\ Due(j)
    /\ fired' = fired \cup {<<j, j.service \in up, j.service \in stopped>>}
    /\ \/ UNCHANGED queueVars
       \/ \E m \in Messages :
            /\ by[m] = "job" /\ sender[m] = j.service
            /\ SendMessage(m)
    /\ UNCHANGED <<application, loop>>

(* A request is served until close has shut the server down.               *)
Request(m) ==
    /\ phase \in {"up", "closing"} /\ by[m] = "request"
    /\ SendMessage(m)
    /\ UNCHANGED <<application, loop, fired, scheduleVars>>

Consume(m, c) ==
    /\ Deliver(m, c) \/ Complete(m, c) \/ Fail(m, c)
    /\ UNCHANGED <<application, loop, fired, scheduleVars>>

Crash ==
    /\ phase # "down"
    /\ phase' = "down" /\ up' = {} /\ stopped' = {} /\ at' = 1
    /\ QueueCrash /\ ScheduleCrash
    /\ UNCHANGED <<application, life, fired>>

Rest ==
    /\ phase \in {"down", "failed", "up", "closed", "broken"}
    /\ UNCHANGED vars

Hook ==
    \/ BootQueue \/ BootQueueModule \/ BootScheduleModule
    \/ \E s \in Services : BootService(s) \/ CloseService(s)
    \/ CloseQueue \/ CloseQueueModule \/ CloseScheduleModule
    \/ Booted \/ Closed

Next ==
    \/ Start \/ Close \/ Hook \/ Crash \/ Rest
    \/ \E s \in Services, m \in Messages : SendFromHook(s, m)
    \/ \E j \in ScheduledJobs : Fire(j)
    \/ \E m \in Messages : Request(m)
    \/ \E m \in Messages, c \in 1 .. MaxLives : Consume(m, c)

(* Hooks settle, the queue delivers and listeners end.  Nobody need start  *)
(* or close the application.                                               *)
Fairness ==
    /\ WF_vars(Hook)
    /\ \A m \in Messages, c \in 1 .. MaxLives : WF_vars(Consume(m, c))

Spec == Init /\ [][Next]_vars
FairSpec == Spec /\ Fairness

-----------------------------------------------------------------------------
TypeOK ==
    /\ QueueTypeOK
    /\ ScheduleTypeOK
    /\ registry \in Seq(Entries)
    /\ phase \in Phases
    /\ at \in Nat /\ life \in 0 .. MaxLives
    /\ up \subseteq Services /\ stopped \subseteq Services
    /\ fired \subseteq (ScheduledJobs \X BOOLEAN \X BOOLEAN)

(* The queue is told that a message is done only when its listener is, and *)
(* gives one up only when its listener fails or it has none, whatever      *)
(* closes, reopens and crashes come between.                               *)
DoneWhenHandled ==
    \A m \in Messages :
        /\ queue[m] = "done" => m \in completed
        /\ queue[m] = "dropped" => m \in unheard \/
             \E s \in UsesThis \cup Failing : TypeOf[m] \in Listens[s]

(* A message of a type that some service listens to always meets a         *)
(* listener: none is delivered between the opening of the connection and   *)
(* the end of the registration, not even one left by an earlier process.   *)
NeverUnheard ==
    \A m \in unheard : \A s \in Services : TypeOf[m] \notin Listens[s]

(* Where the close loop has passed the two modules, even after an init     *)
(* that failed half-way, no job and no connection is left; in the end      *)
(* nothing of the application runs by itself.                              *)
StoppedBehind ==
    phase \in {"closing", "broken", "closed"} =>
        /\ at > Position(registry, ScheduleModule) => live = {}
        /\ at > Position(registry, Queue) => open = {} /\ consumers = {}

(* A job runs before the bootstrap hook of its service only if the service *)
(* is registered after the scheduler, and after its close hook only if it  *)
(* is registered before.                                                   *)
JobsMeetServices ==
    \A f \in fired :
        LET early == Position(registry, f[1].service)
                       < Position(registry, ScheduleModule)
        IN  (early => f[2]) /\ (~early => ~f[3])

(* While the application is up every message that is queued is handled or  *)
(* given up.                                                               *)
MessagesSettle ==
    \A m \in Messages :
        (phase = "up" /\ queue[m] \in {"queued", "running"})
          ~> (phase # "up" \/ queue[m] \in {"done", "dropped"})

(* A message is given up only because of its own listener.                 *)
ListenersKeepThis ==
    \A m \in Messages : queue[m] = "dropped" =>
        \A s \in Services : TypeOf[m] \in Listens[s] => s \in Failing

=============================================================================
