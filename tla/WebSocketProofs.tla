-------------------------- MODULE WebSocketProofs --------------------------
(***************************************************************************)
(* What WebSocketRouter does with a message, for any number of connections *)
(* and messages, any guards and middlewares: JudgedIsHandled,              *)
(* AnswersGoHome and RefusalIsFinal.  None of them is inductive: they say  *)
(* nothing of a message half-way through its handler.  IInv does.          *)
(***************************************************************************)
EXTENDS WebSocket, TLAPS

(* Stages of a connection that is open, of a message that the middlewares  *)
(* have let through, and of one whose guards are behind it.                *)
Opened == {"global", "controller", "admitted", "refusing", "refused"}
PastMiddlewares == {"global", "method", "params", "call", "calling",
                    "filtering", "refusing"}
Done == {"calling", "filtering"} \cup Settled

(* The guards that have said yes when a message is at a stage.             *)
Asked(s) ==
    IF s = "method" THEN {"global"} \cap setup.guards
    ELSE IF s \in {"params", "call"} THEN {"global", "method"} \cap setup.guards
    ELSE {}

(* A socket is what onConnection has left it, with an instance behind it.  *)
ConnectionInv ==
    \A c \in Connections :
        /\ opening[c] \in Opened <=> socket[c] # "none"
        /\ opening[c] \in Opened \cup {"ready"} => instance[c] = Built(c)
        /\ opening[c] = "refused" => socket[c] = "closed"

(* What the handler of a message has behind it at each of its stages.      *)
HandlerInv(m) ==
    /\ stage[m] = "coming" <=> from[m] = None
    /\ from[m] # None => socket[from[m]] # "none"
    /\ stage[m] = "coming" => judged[m] = {}
    /\ stage[m] \in Pending => context[m] = m
    /\ stage[m] = "middlewares" => at[m] <= setup.middlewares + 1
    /\ stage[m] \in PastMiddlewares => at[m] = setup.middlewares + 1
    /\ stage[m] \in {"middlewares", "global", "method", "params", "call"} =>
         judged[m] = Asked(stage[m]) \X {m}
    /\ stage[m] = "call" => given[m] = m
    /\ stage[m] \notin Done => served[m] = None

(* What is so for good once the method is called, or a guard has refused.  *)
ServedInv(m) == served[m] # None =>
    /\ given[m] = m /\ at[m] = setup.middlewares + 1
    /\ judged[m] = ({"global", "method"} \cap setup.guards) \X {m}
    /\ served[m] = Built(from[m])
DeniedInv(m) == m \in denied =>
    /\ stage[m] \in {"refusing", "refused"} /\ served[m] = None
    /\ stage[m] = "refused" => socket[from[m]] = "closed"

(* An answer is that of a message which is answered, and there is one.     *)
AnswersInv ==
    \A c \in Connections : \A k \in DOMAIN answers[c] :
        /\ stage[answers[c][k]] = "answered" /\ from[answers[c][k]] = c
        /\ \A n \in DOMAIN answers[c] : answers[c][n] = answers[c][k] => n = k

MessagesInv ==
    \A m \in Messages : HandlerInv(m) /\ ServedInv(m) /\ DeniedInv(m)

IInv == TypeOK /\ ConnectionInv /\ MessagesInv /\ AnswersInv

-----------------------------------------------------------------------------
LEMMA SetupType ==
    ASSUME TypeOK
    PROVE  /\ setup.middlewares \in Nat /\ setup.guards \subseteq Guards
           /\ setup.scoped \in BOOLEAN
BY SetupsAssumption DEF TypeOK, Setup

LEMMA InitInv == Init => IInv
<1> SUFFICES ASSUME Init PROVE IInv
  OBVIOUS
<1>1. TypeOK
  BY DEF Init, TypeOK, Opening
<1>2. ConnectionInv
  BY DEF Init, ConnectionInv, Opened
<1>3. MessagesInv
  BY DistinctAssumption
  DEF Init, MessagesInv, HandlerInv, ServedInv, DeniedInv, Pending,
      PastMiddlewares, Done, Settled
<1>4. AnswersInv
  BY DEF Init, AnswersInv
<1> QED
  BY <1>1, <1>2, <1>3, <1>4 DEF IInv

-----------------------------------------------------------------------------
(* Types.                                                                  *)

LEMMA ConnectionTypes ==
    ASSUME TypeOK, NEW c \in Connections,
           Connect(c) \/ Admission(c) \/ Leave(c)
    PROVE  TypeOK'
<1> USE DEF TypeOK, handler, Opening
<1>1. CASE Connect(c)
  BY <1>1 DEF Connect
<1>2. CASE GetInstance(c)
  BY <1>2 DEF GetInstance, Built
<1>3. CASE GetFails(c)
  BY <1>3 DEF GetFails
<1>4. CASE Open(c)
  BY <1>4 DEF Open
<1>5. CASE AdmitConnection(c)
  BY <1>5 DEF AdmitConnection
<1>6. CASE RefuseConnection(c)
  BY <1>6 DEF RefuseConnection
<1>7. CASE HangUpConnection(c)
  BY <1>7 DEF HangUpConnection
<1>8. CASE Leave(c)
  BY <1>8 DEF Leave
<1> QED
  BY <1>1, <1>2, <1>3, <1>4, <1>5, <1>6, <1>7, <1>8 DEF Admission

LEMMA MessageTypes ==
    ASSUME TypeOK, NEW m \in Messages, MessagesInv,
           Handling(m) \/ \E c \in Connections : Receive(m, c)
    PROVE  TypeOK'
<1> USE DEF TypeOK, connection, handler, Pending, Settled, Move
<1>f. stage[m] # "coming" => from[m] \in Connections
  BY DEF MessagesInv, HandlerInv
<1>1. CASE \E c \in Connections : Receive(m, c)
  <2>1. PICK c \in Connections : Receive(m, c)
    BY <1>1
  <2>2. from' \in [Messages -> Connections \cup {None}]
    BY <2>1 DEF Receive
  <2>3. \/ stage' = [stage EXCEPT ![m] = "middlewares"]
             /\ at' = [at EXCEPT ![m] = 1]
             /\ context' = [context EXCEPT ![m] = m]
        \/ stage' = [stage EXCEPT ![m] = "rejected"] /\ UNCHANGED <<context, at>>
    BY <2>1 DEF Receive, ContextOf
  <2>4. stage' \in [Messages -> {"coming"} \cup Pending \cup Settled]
    BY <2>3 DEF TypeOK, Pending, Settled
  <2>5. at' \in [Messages -> Nat]
    <3>1. CASE at' = [at EXCEPT ![m] = 1]
      BY <3>1
    <3>2. CASE at' = at
      BY <3>2
    <3> QED
      BY <2>3, <3>1, <3>2
  <2>6. context' \in [Connections \cup Messages -> Messages \cup {None}]
    <3>1. CASE context' = [context EXCEPT ![m] = m]
      BY <3>1
    <3>2. CASE context' = context
      BY <3>2
    <3> QED
      BY <2>3, <3>1, <3>2
  <2>7. UNCHANGED <<setup, socket, opening, instance, given, answers, judged,
                    denied, served>>
    BY <2>1 DEF Receive
  <2> QED
    BY <2>2, <2>4, <2>5, <2>6, <2>7
<1>2. CASE PassMiddleware(m)
  BY <1>2 DEF PassMiddleware
<1>3. CASE StopAtMiddleware(m) \/ PassMiddlewares(m) \/ Silent(m) \/ SendInVain(m)
  BY <1>3 DEF StopAtMiddleware, PassMiddlewares, Silent, SendInVain
<1>4. CASE MiddlewareThrows(m) \/ ResolveThrows(m) \/ AnswerThrows(m)
  BY <1>4 DEF MiddlewareThrows, ResolveThrows, AnswerThrows, Reject
<1>5. CASE NoGuard(m) \/ MethodThrows(m)
  BY <1>5 DEF NoGuard, MethodThrows, AfterGuard
<1>6. CASE Allow(m)
  <2>1. stage[m] \in {"global", "method"} /\ context[m] \in Messages \cup {None}
    BY <1>6 DEF Allow
  <2>2. judged[m] \cup {<<stage[m], context[m]>>}
          \in SUBSET ({"global", "method"} \X (Messages \cup {None}))
    BY <2>1
  <2> QED
    BY <1>6, <2>1, <2>2 DEF Allow, AfterGuard, ContextOf
<1>7. CASE Refuse(m)
  BY <1>7 DEF Refuse
<1>8. CASE HangUp(m)
  BY <1>8 DEF HangUp
<1>9. CASE Resolve(m)
  BY <1>9 DEF Resolve, ContextOf
<1>10. CASE CallMethod(m)
  BY <1>10, <1>f DEF CallMethod
<1>11. CASE Send(m)
  BY <1>11, <1>f DEF Send
<1> QED
  BY <1>1, <1>2, <1>3, <1>4, <1>5, <1>6, <1>7, <1>8, <1>9, <1>10, <1>11
  DEF Handling

-----------------------------------------------------------------------------
(* A socket that has opened is not taken back, and one that is closed      *)
(* stays so; of a message nothing changes but by its own handler.          *)

SocketsOnlyClose ==
    \A c \in Connections :
        /\ socket[c] # "none" => socket'[c] # "none"
        /\ socket[c] = "closed" => socket'[c] = "closed"

Same(m) ==
    /\ stage'[m] = stage[m] /\ at'[m] = at[m] /\ from'[m] = from[m]
    /\ context'[m] = context[m] /\ given'[m] = given[m]
    /\ judged'[m] = judged[m] /\ served'[m] = served[m]
    /\ m \in denied' <=> m \in denied

MessageInv(m) == HandlerInv(m) /\ ServedInv(m) /\ DeniedInv(m)

LEMMA SameInv ==
    ASSUME TypeOK, NEW m \in Messages, MessageInv(m), Same(m),
           SocketsOnlyClose, UNCHANGED setup
    PROVE  MessageInv(m)'
<1>1. from[m] # None => from[m] \in Connections
  BY DEF TypeOK
<1>2. HandlerInv(m)'
  BY <1>1 DEF MessageInv, HandlerInv, Same, SocketsOnlyClose, Asked
<1>3. ServedInv(m)'
  BY DEF MessageInv, ServedInv, Same, Built
<1>4. DeniedInv(m)'
  BY <1>1, DistinctAssumption
  DEF MessageInv, HandlerInv, DeniedInv, Same, SocketsOnlyClose
<1> QED
  BY <1>2, <1>3, <1>4 DEF MessageInv

LEMMA AnswersKept ==
    ASSUME TypeOK, AnswersInv, UNCHANGED answers,
           \A n \in Messages : stage[n] = "answered" => Same(n)
    PROVE  AnswersInv'
BY DEF AnswersInv, Same, TypeOK

LEMMA ConnectionStep ==
    ASSUME TypeOK, ConnectionInv, NEW c \in Connections,
           Connect(c) \/ Admission(c) \/ Leave(c)
    PROVE  /\ ConnectionInv' /\ SocketsOnlyClose /\ UNCHANGED <<setup, answers>>
           /\ \A m \in Messages : Same(m)
<1> USE DEF TypeOK, ConnectionInv, SocketsOnlyClose, Opened, Built
<1>s. handler' = handler /\ UNCHANGED <<setup, stage, answers>>
  BY DEF Connect, Admission, Leave, GetInstance, GetFails, Open,
         AdmitConnection, RefuseConnection, HangUpConnection
<1>1. \A m \in Messages : Same(m)
  BY <1>s DEF Same, handler
<1>2. CASE Connect(c)
  BY <1>s, <1>1, <1>2 DEF Connect
<1>3. CASE GetInstance(c)
  BY <1>s, <1>1, <1>3 DEF GetInstance
<1>4. CASE GetFails(c)
  BY <1>s, <1>1, <1>4 DEF GetFails
<1>5. CASE Open(c)
  BY <1>s, <1>1, <1>5 DEF Open
<1>6. CASE AdmitConnection(c)
  BY <1>s, <1>1, <1>6 DEF AdmitConnection
<1>7. CASE RefuseConnection(c)
  BY <1>s, <1>1, <1>7 DEF RefuseConnection
<1>8. CASE HangUpConnection(c)
  BY <1>s, <1>1, <1>8 DEF HangUpConnection
<1>9. CASE Leave(c)
  BY <1>s, <1>1, <1>9 DEF Leave
<1> QED
  BY <1>2, <1>3, <1>4, <1>5, <1>6, <1>7, <1>8, <1>9 DEF Admission

(* The step of a message's handler is at a stage that is not settled, and  *)
(* leaves every other message alone.                                       *)
LEMMA OthersSame ==
    ASSUME TypeOK, NEW m \in Messages,
           Handling(m) \/ \E c \in Connections : Receive(m, c)
    PROVE  /\ \A n \in Messages \ {m} : Same(n)
           /\ stage[m] \notin Settled /\ UNCHANGED <<setup, opening, instance>>
           /\ SocketsOnlyClose
<1> USE DEF TypeOK, Same, handler, connection, Move, Pending, Settled
<1> DEFINE Alone == /\ \A n \in Messages \ {m} : Same(n)
                    /\ stage[m] \notin Settled
                    /\ UNCHANGED <<setup, opening, instance>>
                    /\ socket' = socket
<1>o. Alone => /\ \A n \in Messages \ {m} : Same(n)
               /\ stage[m] \notin Settled /\ UNCHANGED <<setup, opening, instance>>
               /\ SocketsOnlyClose
  BY DEF SocketsOnlyClose
<1>1. CASE \E c \in Connections : Receive(m, c)
  <2>1. PICK c \in Connections : Receive(m, c)
    BY <1>1
  <2>2. \/ stage' = [stage EXCEPT ![m] = "middlewares"]
             /\ at' = [at EXCEPT ![m] = 1]
             /\ context' = [context EXCEPT ![m] = m]
        \/ stage' = [stage EXCEPT ![m] = "rejected"] /\ UNCHANGED <<context, at>>
    BY <2>1 DEF Receive, ContextOf
  <2>3. /\ UNCHANGED <<setup, opening, instance, socket, given, judged, denied, served>>
        /\ from' = [from EXCEPT ![m] = c] /\ stage[m] = "coming"
    BY <2>1 DEF Receive
  <2>4. \A n \in Messages \ {m} : Same(n)
    BY <2>2, <2>3
  <2> QED
    BY <2>3, <2>4, <1>o
<1>2. CASE HangUp(m)
  <2>1. SocketsOnlyClose
    BY <1>2 DEF HangUp, SocketsOnlyClose
  <2> QED
    BY <1>2, <2>1 DEF HangUp
<1>3. CASE PassMiddleware(m)
  <2>1. Alone
    BY <1>3 DEF PassMiddleware
  <2> QED
    BY <1>o, <2>1
<1>4. CASE StopAtMiddleware(m)
  <2>1. Alone
    BY <1>4 DEF StopAtMiddleware
  <2> QED
    BY <1>o, <2>1
<1>5. CASE MiddlewareThrows(m)
  <2>1. Alone
    BY <1>5 DEF MiddlewareThrows, Reject
  <2> QED
    BY <1>o, <2>1
<1>6. CASE PassMiddlewares(m)
  <2>1. Alone
    BY <1>6 DEF PassMiddlewares
  <2> QED
    BY <1>o, <2>1
<1>7. CASE NoGuard(m)
  <2>1. Alone
    BY <1>7 DEF NoGuard
  <2> QED
    BY <1>o, <2>1
<1>8. CASE Allow(m)
  <2>1. Alone
    BY <1>8 DEF Allow
  <2> QED
    BY <1>o, <2>1
<1>9. CASE Refuse(m)
  <2>1. Alone
    BY <1>9 DEF Refuse
  <2> QED
    BY <1>o, <2>1
<1>10. CASE Resolve(m)
  <2>1. Alone
    BY <1>10 DEF Resolve
  <2> QED
    BY <1>o, <2>1
<1>11. CASE ResolveThrows(m)
  <2>1. Alone
    BY <1>11 DEF ResolveThrows, Reject
  <2> QED
    BY <1>o, <2>1
<1>12. CASE CallMethod(m)
  <2>1. Alone
    BY <1>12 DEF CallMethod
  <2> QED
    BY <1>o, <2>1
<1>13. CASE MethodThrows(m)
  <2>1. Alone
    BY <1>13 DEF MethodThrows
  <2> QED
    BY <1>o, <2>1
<1>14. CASE Silent(m)
  <2>1. Alone
    BY <1>14 DEF Silent
  <2> QED
    BY <1>o, <2>1
<1>15. CASE Send(m)
  <2>1. Alone
    BY <1>15 DEF Send
  <2> QED
    BY <1>o, <2>1
<1>16. CASE SendInVain(m)
  <2>1. Alone
    BY <1>16 DEF SendInVain
  <2> QED
    BY <1>o, <2>1
<1>17. CASE AnswerThrows(m)
  <2>1. Alone
    BY <1>17 DEF AnswerThrows, Reject
  <2> QED
    BY <1>o, <2>1
<1> QED
  BY <1>1, <1>2, <1>3, <1>4, <1>5, <1>6, <1>7, <1>8, <1>9,
     <1>10, <1>11, <1>12, <1>13, <1>14, <1>15, <1>16, <1>17 DEF Handling

-----------------------------------------------------------------------------
(* What a handler has behind it at the stage it reaches.                   *)
LEMMA HandlerStep ==
    ASSUME TypeOK, TypeOK', ConnectionInv, NEW m \in Messages, MessageInv(m),
           Handling(m) \/ \E c \in Connections : Receive(m, c)
    PROVE  MessageInv(m)'
<1> USE SetupType, DistinctAssumption
    DEF TypeOK, handler, connection, Move, Pending, Settled, PastMiddlewares,
        Done, MessageInv, HandlerInv, ServedInv, DeniedInv
<1>1. CASE \E c \in Connections : Receive(m, c)
  <2>1. PICK c \in Connections : Receive(m, c)
    BY <1>1
  <2>2. \/ stage' = [stage EXCEPT ![m] = "middlewares"]
             /\ at' = [at EXCEPT ![m] = 1]
             /\ context' = [context EXCEPT ![m] = m]
        \/ stage' = [stage EXCEPT ![m] = "rejected"] /\ UNCHANGED <<context, at>>
    BY <2>1 DEF Receive, ContextOf
  <2>3. /\ UNCHANGED <<setup, opening, instance, socket, given, judged, denied, served>>
        /\ from' = [from EXCEPT ![m] = c] /\ stage[m] = "coming"
        /\ socket[c] = "open"
    BY <2>1 DEF Receive
  <2> QED
    BY <2>2, <2>3 DEF Asked
<1>2. CASE PassMiddleware(m)
  BY <1>2 DEF PassMiddleware, Asked, Built
<1>3. CASE StopAtMiddleware(m)
  BY <1>3 DEF StopAtMiddleware, Asked, Built
<1>4. CASE MiddlewareThrows(m)
  BY <1>4 DEF MiddlewareThrows, Reject, Asked, Built
<1>5. CASE PassMiddlewares(m)
  <2>1. /\ stage[m] = "middlewares" /\ at[m] > setup.middlewares
        /\ stage'[m] = "global"
        /\ UNCHANGED <<setup, socket, at, from, context, given, judged, denied,
                       served>>
    BY <1>5 DEF PassMiddlewares
  <2>2. at[m] = setup.middlewares + 1
    <3>1. at[m] \in Nat /\ at[m] <= setup.middlewares + 1
      BY <2>1
    <3> QED
      BY <2>1, <3>1, SetupType
  <2>3. Asked(stage[m]) = {} /\ Asked(stage[m])' = {}
    BY <2>1 DEF Asked
  <2> QED
    BY <2>1, <2>2, <2>3
<1>6. CASE NoGuard(m)
  <2>1. /\ stage[m] \in {"global", "method"} /\ stage[m] \notin setup.guards
        /\ stage'[m] = IF stage[m] = "global" THEN "method" ELSE "params"
        /\ UNCHANGED <<setup, socket, at, from, context, given, judged, denied,
                       served>>
    BY <1>6 DEF NoGuard, AfterGuard
  <2>2. Asked(stage[m])' = Asked(stage[m])
    <3>1. CASE stage[m] = "global"
      BY <2>1, <3>1 DEF Asked
    <3>2. CASE stage[m] = "method"
      BY <2>1, <3>2 DEF Asked
    <3> QED
      BY <2>1, <3>1, <3>2
  <2> QED
    BY <2>1, <2>2
<1>7. CASE Allow(m)
  <2>1. /\ stage[m] \in {"global", "method"} /\ stage[m] \in setup.guards
        /\ context[m] = m
        /\ judged'[m] = judged[m] \cup {<<stage[m], m>>}
        /\ stage'[m] = IF stage[m] = "global" THEN "method" ELSE "params"
        /\ UNCHANGED <<setup, socket, at, from, context, given, denied, served>>
    BY <1>7 DEF Allow, AfterGuard, ContextOf
  <2>2. judged[m] = Asked(stage[m]) \X {m}
    BY <2>1
  <2>3. (judged[m] = Asked(stage[m]) \X {m})'
    <3>1. CASE stage[m] = "global"
      <4>1. Asked(stage[m]) = {} /\ Asked(stage[m])' = {"global"}
        BY <2>1, <3>1 DEF Asked
      <4> QED
        BY <2>1, <2>2, <3>1, <4>1
    <3>2. CASE stage[m] = "method"
      <4>1. Asked(stage[m])' = Asked(stage[m]) \cup {"method"}
        BY <2>1, <3>2 DEF Asked
      <4> QED
        BY <2>1, <2>2, <3>2, <4>1
    <3> QED
      BY <2>1, <3>1, <3>2
  <2> QED
    BY <2>1, <2>3
<1>8. CASE Refuse(m)
  BY <1>8 DEF Refuse, Asked, Built
<1>9. CASE HangUp(m)
  BY <1>9 DEF HangUp, Asked, Built
<1>10. CASE Resolve(m)
  BY <1>10 DEF Resolve, ContextOf, Asked, Built
<1>11. CASE ResolveThrows(m)
  BY <1>11 DEF ResolveThrows, Reject, Asked, Built
<1>12. CASE CallMethod(m)
  <2>1. /\ stage[m] = "call" /\ stage'[m] = "calling"
        /\ served'[m] = instance[from[m]]
        /\ UNCHANGED <<setup, socket, at, from, context, given, judged, denied>>
    BY <1>12 DEF CallMethod
  <2>2. instance[from[m]] = Built(from[m])
    BY <2>1 DEF ConnectionInv, Opened
  <2> QED
    BY <2>1, <2>2 DEF Asked, Built
<1>13. CASE MethodThrows(m)
  BY <1>13 DEF MethodThrows, Asked, Built
<1>14. CASE Silent(m)
  BY <1>14 DEF Silent, Asked, Built
<1>15. CASE Send(m)
  BY <1>15 DEF Send, Asked, Built
<1>16. CASE SendInVain(m)
  BY <1>16 DEF SendInVain, Asked, Built
<1>17. CASE AnswerThrows(m)
  BY <1>17 DEF AnswerThrows, Reject, Asked, Built
<1> QED
  BY <1>1, <1>2, <1>3, <1>4, <1>5, <1>6, <1>7, <1>8, <1>9,
     <1>10, <1>11, <1>12, <1>13, <1>14, <1>15, <1>16, <1>17 DEF Handling

(* The connections and the answers, when a message's handler steps: only   *)
(* a refusal touches a socket, only Send an answer.                        *)
LEMMA AnswersStep ==
    ASSUME TypeOK, TypeOK', MessagesInv, AnswersInv, NEW m \in Messages,
           Handling(m) \/ \E c \in Connections : Receive(m, c)
    PROVE  AnswersInv'
<1>1. /\ \A n \in Messages \ {m} : Same(n)
      /\ stage[m] \notin Settled
  BY OthersSame
<1>2. \A n \in Messages : stage[n] = "answered" => Same(n)
  BY <1>1 DEF Settled
<1>3. CASE UNCHANGED answers
  BY <1>2, <1>3, AnswersKept
<1>4. CASE Send(m)
  <2>1. /\ stage[m] \in {"calling", "filtering"} /\ stage'[m] = "answered"
        /\ answers' = [answers EXCEPT ![from[m]] = Append(@, m)]
        /\ UNCHANGED <<setup, from>> /\ from[m] \in Connections
    BY <1>4 DEF Send, Move, handler, TypeOK, MessagesInv, HandlerInv
  <2>2. \A c \in Connections : \A k \in DOMAIN answers[c] :
          /\ answers[c][k] # m /\ answers[c][k] \in Messages
          /\ Same(answers[c][k])
    BY <1>2, <2>1 DEF AnswersInv, TypeOK
  <2> SUFFICES ASSUME NEW c \in Connections, NEW k \in DOMAIN answers'[c]
               PROVE  /\ stage'[answers'[c][k]] = "answered"
                      /\ from'[answers'[c][k]] = c
                      /\ \A n \in DOMAIN answers'[c] :
                           answers'[c][n] = answers'[c][k] => n = k
    BY DEF AnswersInv
  <2>3. CASE c # from[m]
    <3>1. answers'[c] = answers[c]
      BY <2>1, <2>3 DEF TypeOK
    <3> QED
      BY <2>2, <3>1 DEF AnswersInv, Same
  <2>4. CASE c = from[m]
    <3>1. answers'[c] = Append(answers[c], m) /\ answers[c] \in Seq(Messages)
      BY <2>1, <2>4 DEF TypeOK
    <3>2. /\ DOMAIN answers[c] = 1 .. Len(answers[c]) /\ Len(answers[c]) \in Nat
          /\ DOMAIN answers'[c] = 1 .. Len(answers[c]) + 1
          /\ answers'[c][Len(answers[c]) + 1] = m
          /\ \A n \in 1 .. Len(answers[c]) : answers'[c][n] = answers[c][n]
      BY <3>1
    <3>3. CASE k = Len(answers[c]) + 1
      BY <2>1, <2>2, <2>4, <3>2, <3>3
    <3>4. CASE k \in 1 .. Len(answers[c])
      <4>1. answers'[c][k] = answers[c][k] /\ answers[c][k] # m
        BY <2>2, <3>2, <3>4
      <4>2. stage'[answers[c][k]] = "answered" /\ from'[answers[c][k]] = c
        BY <2>2, <3>2, <3>4 DEF AnswersInv, Same
      <4>3. \A n \in 1 .. Len(answers[c]) : answers[c][n] = answers[c][k] => n = k
        BY <3>2, <3>4 DEF AnswersInv
      <4> QED
        BY <3>2, <4>1, <4>2, <4>3
    <3> QED
      BY <3>2, <3>3, <3>4
  <2> QED
    BY <2>3, <2>4
<1> QED
  BY <1>3, <1>4
  DEF Handling, Receive, PassMiddleware, StopAtMiddleware, MiddlewareThrows,
      Reject, PassMiddlewares, NoGuard, Allow, Refuse, HangUp, Resolve,
      ResolveThrows, CallMethod, MethodThrows, Silent, SendInVain, AnswerThrows

LEMMA MessageConnections ==
    ASSUME TypeOK, ConnectionInv, MessagesInv, NEW m \in Messages,
           Handling(m) \/ \E c \in Connections : Receive(m, c)
    PROVE  ConnectionInv'
<1>1. UNCHANGED <<setup, opening, instance>>
  BY OthersSame
<1>2. CASE socket' = socket
  BY <1>1, <1>2 DEF ConnectionInv, Built
<1>3. CASE HangUp(m)
  <2>1. /\ socket' = [socket EXCEPT ![from[m]] = "closed"]
        /\ stage[m] = "refusing"
    BY <1>3 DEF HangUp
  <2>2. from[m] \in Connections /\ socket[from[m]] # "none"
    BY <2>1 DEF MessagesInv, HandlerInv, TypeOK
  <2> QED
    BY <1>1, <2>1, <2>2 DEF TypeOK, ConnectionInv, Built
<1> QED
  BY <1>2, <1>3
  DEF Handling, Receive, PassMiddleware, StopAtMiddleware, MiddlewareThrows,
      Reject, PassMiddlewares, NoGuard, Allow, Refuse, Resolve, ResolveThrows,
      CallMethod, MethodThrows, Silent, Send, SendInVain, AnswerThrows,
      connection, handler

-----------------------------------------------------------------------------
LEMMA NextInv == IInv /\ [Next]_vars => IInv'
<1> SUFFICES ASSUME IInv, [Next]_vars PROVE IInv'
  OBVIOUS
<1> USE DEF IInv
<1>m. MessagesInv <=> \A m \in Messages : MessageInv(m)
  BY DEF MessagesInv, MessageInv
<1>n. MessagesInv' <=> \A m \in Messages : MessageInv(m)'
  BY DEF MessagesInv, MessageInv
<1>1. ASSUME NEW c \in Connections, Connect(c) \/ Admission(c) \/ Leave(c)
      PROVE  IInv'
  <2>1. TypeOK'
    BY <1>1, ConnectionTypes
  <2>2. /\ ConnectionInv' /\ SocketsOnlyClose /\ UNCHANGED <<setup, answers>>
        /\ \A m \in Messages : Same(m)
    BY <1>1, ConnectionStep
  <2>3. \A m \in Messages : MessageInv(m)'
    BY <1>m, <2>2, SameInv
  <2>4. AnswersInv'
    BY <2>2, AnswersKept
  <2> QED
    BY <1>n, <2>1, <2>2, <2>3, <2>4
<1>2. ASSUME NEW m \in Messages,
             Handling(m) \/ \E c \in Connections : Receive(m, c)
      PROVE  IInv'
  <2>1. TypeOK'
    BY <1>2, MessageTypes
  <2>2. ConnectionInv'
    BY <1>2, MessageConnections
  <2>3. ASSUME NEW n \in Messages PROVE MessageInv(n)'
    <3>1. CASE n = m
      BY <1>2, <1>m, <2>1, <3>1, HandlerStep
    <3>2. CASE n # m
      <4>1. Same(n) /\ SocketsOnlyClose /\ UNCHANGED setup
        BY <1>2, <3>2, OthersSame
      <4> QED
        BY <1>m, <4>1, SameInv
    <3> QED
      BY <3>1, <3>2
  <2>4. AnswersInv'
    BY <1>2, <2>1, AnswersStep
  <2> QED
    BY <1>n, <2>1, <2>2, <2>3, <2>4
<1>3. CASE UNCHANGED vars
  BY <1>3
  DEF vars, TypeOK, ConnectionInv, MessagesInv, HandlerInv, ServedInv,
      DeniedInv, AnswersInv, Asked, Built
<1> QED
  BY <1>1, <1>2, <1>3 DEF Next, Idle

LEMMA Inductive == Spec => []IInv
<1>1. Init => IInv
  BY InitInv
<1>2. IInv /\ [Next]_vars => IInv'
  BY NextInv
<1> QED
  BY <1>1, <1>2, PTL DEF Spec

(* A method is called with the data of its own message, which every guard  *)
(* has allowed, in any number of interleaved messages and connections.     *)
THEOREM GuardsJudgeTheirMessage == Spec => []JudgedIsHandled
<1>1. IInv => JudgedIsHandled
  BY DEF IInv, MessagesInv, ServedInv, JudgedIsHandled
<1> QED
  BY <1>1, Inductive, PTL

(* Every answer goes to the socket of its message, once.                   *)
THEOREM AnswersAreSentHome == Spec => []AnswersGoHome
<1>1. IInv => AnswersGoHome
  BY DEF IInv, MessagesInv, ServedInv, AnswersInv, AnswersGoHome, Built
<1> QED
  BY <1>1, Inductive, PTL

(* What a guard has refused is never handled, and its socket is closed.    *)
THEOREM RefusalHolds == Spec => []RefusalIsFinal
<1>1. ASSUME IInv PROVE RefusalIsFinal
  <2>1. \A c \in Connections : opening[c] = "refused" => socket[c] = "closed"
    BY <1>1 DEF IInv, ConnectionInv
  <2>2. ASSUME NEW m \in denied
        PROVE  /\ served[m] = None
               /\ \A c \in Connections : \A k \in DOMAIN answers[c] : answers[c][k] # m
               /\ stage[m] \in Settled => socket[from[m]] = "closed"
    BY <1>1 DEF IInv, TypeOK, MessagesInv, DeniedInv, AnswersInv, Settled
  <2> QED
    BY <2>1, <2>2 DEF RefusalIsFinal
<1> QED
  BY <1>1, Inductive, PTL

=============================================================================
