------------------------------ MODULE KvQueue ------------------------------
(***************************************************************************)
(* KvQueue and KvQueueModule (src/kv-queue/): one connection to a Deno KV  *)
(* database, opened and closed by hooks, and a map of one listener per     *)
(* type of message, filled from the decorated methods of everything that   *)
(* is injectable.  The queue itself is Deno's: it survives the process, it *)
(* delivers at least once, and it tries a message whose handler throws     *)
(* again, a number of times.  Background runs these actions.               *)
(***************************************************************************)
EXTENDS Naturals, Sequences, FiniteSets

CONSTANTS
    Services,     \* the injectables
    Types,        \* the types of messages
    Listens,      \* what each service has an @OnQueueMessage method for
    UsesThis,     \* the services whose listeners read a field of `this'
    Failing,      \* those whose listeners may throw of their own accord
    Messages,
    TypeOf,       \* the type each message is sent with
    MaxAttempts,  \* how often the queue tries a message
    None          \* no listener

ASSUME QueueAssumption ==
    /\ Listens \in [Services -> SUBSET Types]
    /\ UsesThis \subseteq Services /\ Failing \subseteq Services
    /\ TypeOf \in [Messages -> Types]
    /\ MaxAttempts \in Nat \ {0}
    /\ None \notin Services

VARIABLES
    kv,           \* the connection in KvQueue.kv; 0 is undefined
    open,         \* the connections that are open
    consumers,    \* the connections that listenQueue was called on
    listenersMap, \* the listener of each type
    queue,        \* where each message is
    attempts,     \* how often it was delivered
    handling,     \* the deliveries in progress, with their connection
    completed,    \* history: the messages whose listener ended well
    unheard       \* history: those that met no listener

queueVars == <<kv, open, consumers, listenersMap, queue, attempts, handling,
               completed, unheard>>

Places == {"unsent", "refused", "queued", "running", "done", "dropped"}

QueueInit ==
    /\ kv = 0 /\ open = {} /\ consumers = {}
    /\ listenersMap = [t \in Types |-> None]
    /\ queue = [m \in Messages |-> "unsent"]
    /\ attempts = [m \in Messages |-> 0]
    /\ handling = {} /\ completed = {} /\ unheard = {}

-----------------------------------------------------------------------------
(* Mutant: the connection listens as soon as it is open.                   *)
OpenAndListen(c) ==
    /\ kv' = c
    /\ open' = open \cup {c}
    /\ consumers' = consumers \cup {c}
    /\ UNCHANGED <<listenersMap, queue, attempts, handling, completed, unheard>>

(* KvQueue.onAppBootstrap, when openKv resolves.                           *)
OpenConnection(c) ==
    /\ kv' = c
    /\ open' = open \cup {c}
    /\ UNCHANGED <<consumers, listenersMap, queue, attempts, handling, completed,
                   unheard>>

(* Of the injectables that listen to a type the last one is kept.          *)
Listening(injectables, t) ==
    {i \in DOMAIN injectables :
       injectables[i] \in Services /\ t \in Listens[injectables[i]]}
LastListener(injectables, t) ==
    LET who == Listening(injectables, t)
    IN  IF who = {} THEN listenersMap[t]
        ELSE injectables[CHOOSE i \in who : \A j \in who : j <= i]

(* Mutant: listenQueue is called for the first listeners only.             *)
AttachIfNew(c) ==
    IF \E t \in Types : listenersMap[t] # None THEN consumers
    ELSE consumers \cup {c}

(* attachListeners, once per injectable (KvQueue itself is one): the       *)
(* consumers of a connection share the queue.                              *)
Attach(c) == consumers \cup {c}

(* KvQueueModule.onAppBootstrap: no await in its loop.                     *)
RegisterListeners(injectables) ==
    /\ listenersMap' = [t \in Types |-> LastListener(injectables, t)]
    /\ consumers' = Attach(kv)
    /\ UNCHANGED <<kv, open, queue, attempts, handling, completed, unheard>>

(* KvQueue.onAppClose.  What is being handled goes back to the queue, and  *)
(* its handler goes on.                                                    *)
CloseConnection ==
    /\ open' = open \ {kv}
    /\ consumers' = consumers \ {kv}
    /\ queue' = [m \in Messages |->
                   IF <<m, kv>> \in handling /\ queue[m] = "running"
                   THEN "queued" ELSE queue[m]]
    /\ UNCHANGED <<kv, listenersMap, attempts, handling, completed, unheard>>

(* sendMessage: enqueue fails unless the connection is open.               *)
SendMessage(m) ==
    /\ queue[m] = "unsent"
    /\ queue' = [queue EXCEPT ![m] = IF kv \in open THEN "queued" ELSE "refused"]
    /\ UNCHANGED <<kv, open, consumers, listenersMap, attempts, handling,
                   completed, unheard>>

-----------------------------------------------------------------------------
(* The queue and the function given to listenQueue.                        *)

(* A failed delivery is tried again, unless it was the last.               *)
Failed(m) == IF attempts'[m] < MaxAttempts THEN "queued" ELSE "dropped"

(* Mutant: the promise of the listener is not returned to the queue.       *)
DeliverAndForget(m, c) ==
    /\ queue[m] = "queued" /\ c \in open \cap consumers
    /\ attempts' = [attempts EXCEPT ![m] = @ + 1]
    /\ handling' = handling \cup {<<m, c>>}
    /\ queue' = [queue EXCEPT ![m] = "done"]
    /\ UNCHANGED <<kv, open, consumers, listenersMap, completed, unheard>>

Deliver(m, c) ==
    /\ queue[m] = "queued" /\ c \in open \cap consumers
    /\ attempts' = [attempts EXCEPT ![m] = @ + 1]
    /\ \/ /\ listenersMap[TypeOf[m]] # None
          /\ handling' = handling \cup {<<m, c>>}
          /\ queue' = [queue EXCEPT ![m] = "running"]
          /\ UNCHANGED unheard
       \/ (* Unhandled message type *)
          /\ listenersMap[TypeOf[m]] = None
          /\ unheard' = unheard \cup {m}
          /\ queue' = [queue EXCEPT ![m] = Failed(m)]
          /\ UNCHANGED handling
    /\ UNCHANGED <<kv, open, consumers, listenersMap, completed>>

(* Only a connection that is still open can report the outcome.            *)
Report(m, c, outcome) ==
    /\ handling' = handling \ {<<m, c>>}
    /\ queue' = IF c \in open /\ queue[m] = "running"
                THEN [queue EXCEPT ![m] = outcome] ELSE queue

(* The listener is called without its instance.                            *)
Complete(m, c) ==
    /\ <<m, c>> \in handling
    /\ listenersMap[TypeOf[m]] \notin UsesThis
    /\ Report(m, c, "done")
    /\ completed' = completed \cup {m}
    /\ UNCHANGED <<kv, open, consumers, listenersMap, attempts, unheard>>

Fail(m, c) ==
    /\ <<m, c>> \in handling
    /\ listenersMap[TypeOf[m]] \in UsesThis \cup Failing
    /\ UNCHANGED attempts
    /\ Report(m, c, Failed(m))
    /\ UNCHANGED <<kv, open, consumers, listenersMap, completed, unheard>>

(* The process ends; the queue does not.                                   *)
QueueCrash ==
    /\ kv' = 0 /\ open' = {} /\ consumers' = {} /\ handling' = {}
    /\ listenersMap' = [t \in Types |-> None]
    /\ queue' = [m \in Messages |->
                   IF queue[m] = "running" THEN "queued" ELSE queue[m]]
    /\ UNCHANGED <<attempts, completed, unheard>>

-----------------------------------------------------------------------------
QueueTypeOK ==
    /\ kv \in Nat
    /\ open \subseteq Nat /\ consumers \subseteq Nat
    /\ listenersMap \in [Types -> Services \cup {None}]
    /\ queue \in [Messages -> Places]
    /\ attempts \in [Messages -> Nat]
    /\ handling \subseteq Messages \X Nat
    /\ completed \subseteq Messages /\ unheard \subseteq Messages

=============================================================================
