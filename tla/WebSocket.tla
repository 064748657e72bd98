----------------------------- MODULE WebSocket -----------------------------
(***************************************************************************)
(* WebSocketRouter (src/router/websocket/router.ts): the handlers of the   *)
(* connections to one controller and of their messages.  The handler of a  *)
(* message awaits its middlewares, guards, parameters, method and filters  *)
(* while other messages of the socket, and the guards of the connection    *)
(* itself, are at theirs.  A step is the code between two awaits.          *)
(***************************************************************************)
EXTENDS Naturals, Sequences

CONSTANTS
    Connections,
    Messages,
    Topics,     \* what the topic of a message may be
    Setups,     \* the controllers considered
    Shared,     \* the instance of a controller that is a singleton
    None

(* A controller: the topics that match each method, in the order of their  *)
(* registration, how many middlewares and which guards it has, global ones *)
(* included, whether it has a filter, and whether it is request-scoped.    *)
Guards == {"global", "controller", "method"}
Setup == [methods : Seq(SUBSET Topics), middlewares : Nat,
          guards : SUBSET Guards, filtered : BOOLEAN, scoped : BOOLEAN]

ASSUME SetupsAssumption == Setups \subseteq Setup
ASSUME DistinctAssumption ==
    /\ None \notin Messages \cup Connections
    /\ Shared # None /\ Shared \notin Connections
    /\ Messages \cap Connections = {}

VARIABLES
    setup,     \* the controller, fixed from the start
    socket,    \* readyState of each connection's socket
    opening,   \* where handleConnectionRequest and onConnection are
    instance,  \* the controller instance each connection has got
    stage,     \* where the handler of each message is
    at,        \* the middleware it is at
    from,      \* the connection it came on
    context,   \* whose topic and data each execution context holds
    given,     \* whose data the parameters of the method were read from
    answers,   \* what was sent on each socket: the messages answered
    judged,    \* history: what each guard saw when it said yes
    denied,    \* history: the messages a guard said no to
    served     \* history: the instance the method was called on

vars == <<setup, socket, opening, instance, stage, at, from, context, given,
          answers, judged, denied, served>>
connection == <<socket, opening, instance>>
handler == <<at, from, context, given, judged, denied, served>>

Opening == {"none", "building", "failed", "ready", "global", "controller",
            "admitted", "refusing", "refused"}
Pending == {"middlewares", "global", "method", "params", "call", "calling",
            "filtering", "refusing"}
Settled == {"answered", "silent", "lost", "dropped", "refused", "rejected"}

Init ==
    /\ setup \in Setups
    /\ socket = [c \in Connections |-> "none"]
    /\ opening = [c \in Connections |-> "none"]
    /\ instance = [c \in Connections |-> None]
    /\ stage = [m \in Messages |-> "coming"]
    /\ at = [m \in Messages |-> 0]
    /\ from = [m \in Messages |-> None]
    /\ context = [x \in Connections \cup Messages |-> None]
    /\ given = [m \in Messages |-> None]
    /\ answers = [c \in Connections |-> <<>>]
    /\ judged = [m \in Messages |-> {}]
    /\ denied = {}
    /\ served = [m \in Messages |-> None]

-----------------------------------------------------------------------------
(* The connection.                                                         *)

Connect(c) ==
    /\ opening[c] = "none"
    /\ opening' = [opening EXCEPT ![c] = "building"]
    /\ UNCHANGED <<setup, socket, instance, stage, answers, handler>>

(* injector.get(Controller, executionContext)                              *)
Built(c) == IF setup.scoped THEN c ELSE Shared

GetInstance(c) ==
    /\ opening[c] = "building"
    /\ instance' = [instance EXCEPT ![c] = Built(c)]
    /\ opening' = [opening EXCEPT ![c] = "ready"]
    /\ UNCHANGED <<setup, socket, stage, answers, handler>>

(* A hook of a scoped dependency may reject: there is no response.         *)
GetFails(c) ==
    /\ opening[c] = "building" /\ setup.scoped
    /\ opening' = [opening EXCEPT ![c] = "failed"]
    /\ UNCHANGED <<setup, socket, instance, stage, answers, handler>>

(* The response is returned; then the socket opens.                        *)
Open(c) ==
    /\ opening[c] = "ready"
    /\ socket' = [socket EXCEPT ![c] = "open"]
    /\ opening' = [opening EXCEPT ![c] = "global"]
    /\ UNCHANGED <<setup, instance, stage, answers, handler>>

(* onConnection: the global guard, then the controller's.                  *)
AdmitConnection(c) ==
    /\ opening[c] \in {"global", "controller"}
    /\ opening' = [opening EXCEPT ![c] =
                     IF @ = "global" THEN "controller" ELSE "admitted"]
    /\ UNCHANGED <<setup, socket, instance, stage, answers, handler>>

RefuseConnection(c) ==
    /\ opening[c] \in {"global", "controller"} \cap setup.guards
    /\ opening' = [opening EXCEPT ![c] = "refusing"]
    /\ UNCHANGED <<setup, socket, instance, stage, answers, handler>>

(* close(1008) of a socket that may be closed already.                     *)
HangUpConnection(c) ==
    /\ opening[c] = "refusing"
    /\ opening' = [opening EXCEPT ![c] = "refused"]
    /\ socket' = [socket EXCEPT ![c] = "closed"]
    /\ UNCHANGED <<setup, instance, stage, answers, handler>>

(* The client, or the network, closes it.                                  *)
Leave(c) ==
    /\ socket[c] = "open"
    /\ socket' = [socket EXCEPT ![c] = "closed"]
    /\ UNCHANGED <<setup, opening, instance, stage, answers, handler>>

-----------------------------------------------------------------------------
(* A message.  A rejection of its handler is handled by nobody.            *)

Move(m, s) == stage' = [stage EXCEPT ![m] = s]

Reject(m) ==
    /\ Move(m, "rejected")
    /\ UNCHANGED <<setup, connection, answers, handler>>

(* Mutant: the context of the connection is used for its messages.         *)
ContextOfConnection(m, c) == c

(* messageExecutionContext: an object of its own.                          *)
ContextOf(m, c) == m

(* Up to the first await: the topic and the data are parsed, the methods   *)
(* are matched and the context is made.                                    *)
Receive(m, c) ==
    /\ stage[m] = "coming" /\ socket[c] = "open"
    /\ from' = [from EXCEPT ![m] = c]
    /\ \/ /\ \E t \in Topics, n \in DOMAIN setup.methods : t \in setup.methods[n]
          /\ context' = [context EXCEPT ![ContextOf(m, c)] = m]
          /\ at' = [at EXCEPT ![m] = 1]
          /\ Move(m, "middlewares")
       \/ (* It is no JSON, or the topic of no method. *)
          /\ Move(m, "rejected")
          /\ UNCHANGED <<context, at>>
    /\ UNCHANGED <<setup, connection, given, answers, judged,
                   denied, served>>

(* A middleware calls next(), once.                                        *)
PassMiddleware(m) ==
    /\ stage[m] = "middlewares" /\ at[m] <= setup.middlewares
    /\ at' = [at EXCEPT ![m] = @ + 1]
    /\ UNCHANGED <<setup, connection, stage, from, context, given, answers,
                   judged, denied, served>>

StopAtMiddleware(m) ==
    /\ stage[m] = "middlewares" /\ at[m] <= setup.middlewares
    /\ Move(m, "dropped")
    /\ UNCHANGED <<setup, connection, answers, handler>>

MiddlewareThrows(m) ==
    /\ stage[m] = "middlewares" /\ at[m] <= setup.middlewares
    /\ Reject(m)

PassMiddlewares(m) ==
    /\ stage[m] = "middlewares" /\ at[m] > setup.middlewares
    /\ Move(m, "global")
    /\ UNCHANGED <<setup, connection, answers, handler>>

(* The guards of a message are the global one and the method's.            *)
AfterGuard(g) == IF g = "global" THEN "method" ELSE "params"

NoGuard(m) ==
    /\ stage[m] \in {"global", "method"} \ setup.guards
    /\ Move(m, AfterGuard(stage[m]))
    /\ UNCHANGED <<setup, connection, answers, handler>>

Allow(m) ==
    /\ stage[m] \in {"global", "method"} \cap setup.guards
    /\ judged' = [judged EXCEPT ![m] =
                    @ \cup {<<stage[m], context[ContextOf(m, from[m])]>>}]
    /\ Move(m, AfterGuard(stage[m]))
    /\ UNCHANGED <<setup, connection, at, from, context, given, answers,
                   denied, served>>

(* The guard says no, or throws, or is not a singleton.                    *)
Refuse(m) ==
    /\ stage[m] \in {"global", "method"} \cap setup.guards
    /\ denied' = denied \cup {m}
    /\ Move(m, "refusing")
    /\ UNCHANGED <<setup, connection, at, from, context, given, answers, judged,
                   served>>

(* Mutant: no return after the close.                                      *)
HangUpGoingOn(m) ==
    /\ stage[m] = "refusing"
    /\ Move(m, "params")
    /\ socket' = [socket EXCEPT ![from[m]] = "closed"]
    /\ UNCHANGED <<setup, opening, instance, answers, handler>>

HangUp(m) ==
    /\ stage[m] = "refusing"
    /\ Move(m, "refused")
    /\ socket' = [socket EXCEPT ![from[m]] = "closed"]
    /\ UNCHANGED <<setup, opening, instance, answers, handler>>

Resolve(m) ==
    /\ stage[m] = "params"
    /\ given' = [given EXCEPT ![m] = context[ContextOf(m, from[m])]]
    /\ Move(m, "call")
    /\ UNCHANGED <<setup, connection, at, from, context, answers, judged,
                   denied, served>>

(* Mutant: parameters that cannot be resolved are tried again.             *)
ResolveRetries(m) ==
    /\ stage[m] = "params"
    /\ Move(m, "global")
    /\ UNCHANGED <<setup, connection, answers, handler>>

(* The parameters are resolved outside the try block.                      *)
ResolveThrows(m) == stage[m] = "params" /\ Reject(m)

CallMethod(m) ==
    /\ stage[m] = "call"
    /\ served' = [served EXCEPT ![m] = instance[from[m]]]
    /\ Move(m, "calling")
    /\ UNCHANGED <<setup, connection, at, from, context, given, answers,
                   judged, denied>>

MethodThrows(m) ==
    /\ stage[m] = "calling"
    /\ Move(m, "filtering")
    /\ UNCHANGED <<setup, connection, answers, handler>>

(* The method, or a filter, gives nothing that is sent.                    *)
Silent(m) ==
    /\ stage[m] \in {"calling", "filtering"}
    /\ Move(m, "silent")
    /\ UNCHANGED <<setup, connection, answers, handler>>

(* Mutant: sent to the socket that was last connected.                     *)
SendSwitched(m) ==
    /\ stage[m] = "calling" \/ (stage[m] = "filtering" /\ setup.filtered)
    /\ \E c \in Connections : socket[c] = "open"
    /\ Move(m, "answered")
    /\ LET c == CHOOSE d \in Connections : socket[d] = "open" IN
         answers' = [answers EXCEPT ![c] = Append(@, m)]
    /\ UNCHANGED <<setup, connection, handler>>

Send(m) ==
    /\ stage[m] = "calling" \/ (stage[m] = "filtering" /\ setup.filtered)
    /\ socket[from[m]] = "open"
    /\ Move(m, "answered")
    /\ answers' = [answers EXCEPT ![from[m]] = Append(@, m)]
    /\ UNCHANGED <<setup, connection, handler>>

(* send() of a socket that is closed: nothing is sent.                     *)
SendInVain(m) ==
    /\ stage[m] = "calling" \/ (stage[m] = "filtering" /\ setup.filtered)
    /\ socket[from[m]] = "closed"
    /\ Move(m, "lost")
    /\ UNCHANGED <<setup, connection, answers, handler>>

(* A filter throws, or the response cannot be written as JSON.             *)
AnswerThrows(m) == stage[m] \in {"calling", "filtering"} /\ Reject(m)

-----------------------------------------------------------------------------
Admission(c) ==
    GetInstance(c) \/ GetFails(c) \/ Open(c) \/ AdmitConnection(c)
      \/ RefuseConnection(c) \/ HangUpConnection(c)

Handling(m) ==
    \/ PassMiddleware(m) \/ StopAtMiddleware(m) \/ MiddlewareThrows(m)
    \/ PassMiddlewares(m)
    \/ NoGuard(m) \/ Allow(m) \/ Refuse(m) \/ HangUp(m)
    \/ Resolve(m) \/ ResolveThrows(m) \/ CallMethod(m) \/ MethodThrows(m)
    \/ Silent(m) \/ Send(m) \/ SendInVain(m) \/ AnswerThrows(m)

Idle ==
    /\ \A m \in Messages : stage[m] \notin Pending
    /\ \A c \in Connections :
         opening[c] \in {"none", "failed", "admitted", "refused"}
    /\ UNCHANGED vars

Next ==
    \/ \E c \in Connections : Connect(c) \/ Admission(c) \/ Leave(c)
    \/ \E m \in Messages, c \in Connections : Receive(m, c)
    \/ \E m \in Messages : Handling(m)
    \/ Idle

(* Settled promises resume what awaits them, and the application's guards, *)
(* middlewares, methods and filters end.  Nobody need connect or speak.    *)
Fairness ==
    /\ \A c \in Connections : WF_vars(Admission(c))
    /\ \A m \in Messages : WF_vars(Handling(m))

Spec == Init /\ [][Next]_vars
FairSpec == Spec /\ Fairness

-----------------------------------------------------------------------------
(* Every handler is at one of its stages, with data that fits.             *)
TypeOK ==
    /\ setup \in Setups
    /\ socket \in [Connections -> {"none", "open", "closed"}]
    /\ opening \in [Connections -> Opening]
    /\ instance \in [Connections -> Connections \cup {Shared, None}]
    /\ stage \in [Messages -> {"coming"} \cup Pending \cup Settled]
    /\ at \in [Messages -> Nat]
    /\ from \in [Messages -> Connections \cup {None}]
    /\ context \in [Connections \cup Messages -> Messages \cup {None}]
    /\ given \in [Messages -> Messages \cup {None}]
    /\ answers \in [Connections -> Seq(Messages)]
    /\ judged \in [Messages -> SUBSET ({"global", "method"}
                                         \X (Messages \cup {None}))]
    /\ denied \subseteq Messages
    /\ served \in [Messages -> Connections \cup {Shared, None}]

(* The method is called with the data of its own message, and every guard  *)
(* of the message has said yes to the same data, however many messages of  *)
(* the socket are in progress and whatever the connection's guards say     *)
(* meanwhile.                                                              *)
JudgedIsHandled ==
    \A m \in Messages : served[m] # None =>
        /\ given[m] = m
        /\ judged[m] = ({"global", "method"} \cap setup.guards) \X {m}
        /\ at[m] = setup.middlewares + 1

(* A message is answered at most once, on the socket it came on, by the    *)
(* instance of that connection: its own if the controller is scoped.       *)
AnswersGoHome ==
    /\ \A c \in Connections : \A k \in DOMAIN answers[c] :
         /\ from[answers[c][k]] = c
         /\ \A n \in DOMAIN answers[c] : answers[c][n] = answers[c][k] => n = k
    /\ \A m \in Messages : served[m] # None =>
         served[m] = IF setup.scoped THEN from[m] ELSE Shared

(* A message that a guard said no to never reaches the method nor has an   *)
(* answer, and it settles only when its socket is closed: no further       *)
(* message comes on it, though those on their way are still handled.  So   *)
(* is the socket of a connection that a guard said no to, for good.        *)
RefusalIsFinal ==
    /\ \A c \in Connections : opening[c] = "refused" => socket[c] = "closed"
    /\ \A m \in denied :
        /\ served[m] = None
        /\ \A c \in Connections : \A k \in DOMAIN answers[c] : answers[c][k] # m
        /\ stage[m] \in Settled => socket[from[m]] = "closed"

(* Every message ends, though it may wait for guards, methods and filters  *)
(* beside others.                                                          *)
MessagesSettle ==
    \A m \in Messages : stage[m] \in Pending ~> stage[m] \in Settled

=============================================================================
