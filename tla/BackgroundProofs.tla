-------------------------- MODULE BackgroundProofs -------------------------
(***************************************************************************)
(* What the queue and the scheduler do in an application that starts,      *)
(* fails, closes and crashes, for any services, messages and jobs in any   *)
(* order of the registry: DoneWhenHandled, NeverUnheard, StoppedBehind and *)
(* JobsMeetServices.  They speak of what is left when a loop over the      *)
(* hooks has passed a module; IInv says what there is while the loop is on *)
(* its way, from a start to the next.                                      *)
(***************************************************************************)
EXTENDS Background, WellFoundedInduction, TLAPS

Pos(e) == Position(registry, e)

(* The application, which never changes.                                   *)
Shape ==
    /\ registry \in Seq(Entries)
    /\ \A e \in Entries : Pos(e) \in DOMAIN registry /\ registry[Pos(e)] = e
    /\ \A i \in DOMAIN registry : Pos(registry[i]) = i
    /\ Pos(Queue) < Pos(QueueModule)
    /\ by \in [Messages -> Senders]
    /\ jobs \subseteq ScheduledJobs

Ending == {"closing", "broken", "closed"}

LoopInv ==
    /\ phase \in Phases /\ at \in Nat /\ life \in Nat
    /\ phase \in {"up", "closed"} => at > Len(registry)
    /\ phase # "down" => at > 0

(* There is one connection at most, open from the queue's bootstrap hook   *)
(* to its close hook, and listened to only once listeners are registered.  *)
Heard == \A t \in Types : \A s \in Services :
             t \in Listens[s] => listenersMap[t] # None
ConnectionInv ==
    /\ open \subseteq {kv} /\ consumers \subseteq open
    /\ phase = "down" => open = {}
    /\ phase = "booting" => (open = {} <=> at <= Pos(Queue))
    /\ phase \in Ending /\ at > Pos(Queue) => open = {}
    /\ consumers # {} => Heard
    /\ \A t \in Types : listenersMap[t] # None => t \in Listens[listenersMap[t]]

(* Jobs live from the scheduler's bootstrap hook to its close hook, and    *)
(* the module holds all of them.                                           *)
JobsInv ==
    /\ live \subseteq held
    /\ phase = "down" => live = {}
    /\ phase = "booting" /\ at <= Pos(ScheduleModule) => live = {}
    /\ phase = "failed" /\ at < Pos(ScheduleModule) => live = {}
    /\ phase \in Ending /\ at > Pos(ScheduleModule) => live = {}

(* What the loops have passed.                                             *)
PassedInv ==
    /\ phase \in {"booting", "failed"} =>
         \A s \in Services : Pos(s) < at => s \in up
    /\ live # {} => \A s \in Services : Pos(s) < Pos(ScheduleModule) => s \in up
    /\ phase \in {"down", "booting", "failed", "up"} => stopped = {}
    /\ phase \in {"closing", "broken"} => \A s \in stopped : Pos(s) < at

IInv ==
    /\ TypeOK /\ Shape /\ LoopInv /\ ConnectionInv /\ JobsInv /\ PassedInv
    /\ DoneWhenHandled /\ NeverUnheard /\ JobsMeetServices

-----------------------------------------------------------------------------
(* Of the injectables that listen to a type, one is the last.              *)
LEMMA LastIsListening ==
    ASSUME registry \in Seq(Entries), NEW t \in Types, Listening(registry, t) # {}
    PROVE  /\ LastListener(registry, t) \in Services
           /\ t \in Listens[LastListener(registry, t)]
<1> DEFINE who == Listening(registry, t)
           back == {Len(registry) - i : i \in who}
<1>0. DOMAIN registry = 1 .. Len(registry) /\ Len(registry) \in Nat
  OBVIOUS
<1>1. who \subseteq 1 .. Len(registry) /\ Len(registry) \in Nat
  BY <1>0 DEF Listening
<1>2. back \subseteq Nat /\ back # {}
  BY <1>1
<1>3. PICK x \in back : \A y \in back : x <= y
  <2> DEFINE Less == OpToRel(<, Nat)
  <2>1. IsWellFoundedOn(Less, Nat)
    BY NatLessThanWellFounded
  <2>2. \A y, z \in Nat : <<y, z>> \notin Less => z <= y
    BY DEF OpToRel
  <2> HIDE DEF back, Less
  <2>3. \E z \in back : \A y \in back : <<y, z>> \notin Less
    BY <1>2, <2>1, WFMin
  <2> QED
    BY <1>2, <2>2, <2>3
<1>4. PICK i \in who : x = Len(registry) - i
  BY <1>3
<1>5. \A j \in who : j <= i
  <2> TAKE j \in who
  <2>1. Len(registry) - j \in back
    OBVIOUS
  <2>2. x <= Len(registry) - j
    BY <1>3, <2>1
  <2>3. i \in Nat /\ j \in Nat
    BY <1>1
  <2> QED
    BY <1>1, <1>4, <2>2, <2>3
<1>6. (CHOOSE k \in who : \A j \in who : j <= k) \in who
  BY <1>5
<1> QED
  BY <1>6 DEF LastListener, Listening

LEMMA ShapeFacts ==
    ASSUME Shape
    PROVE  /\ DOMAIN registry = 1 .. Len(registry) /\ Len(registry) \in Nat
           /\ \A e \in Entries : Pos(e) \in 1 .. Len(registry)
           /\ \A p, e : At(p, e) => at = Pos(e) /\ e \in Entries /\ phase = p
BY DEF Shape, At

(* The parts of the registry differ, so their places do.                   *)
LEMMA PlacesDiffer ==
    ASSUME Shape, NEW d \in Entries, NEW e \in Entries, Pos(d) = Pos(e)
    PROVE  d = e
BY DEF Shape

LEMMA EntriesDiffer ==
    /\ Queue \in Entries /\ QueueModule \in Entries /\ ScheduleModule \in Entries
    /\ Services \subseteq Entries /\ None \notin Services
    /\ Queue # QueueModule /\ Queue # ScheduleModule
    /\ QueueModule # ScheduleModule
    /\ Queue \notin Services /\ QueueModule \notin Services
    /\ ScheduleModule \notin Services
BY BackgroundAssumption DEF Entries

-----------------------------------------------------------------------------
(* What a step may do to the queue, whatever the loop is at.               *)
QueueStep ==
    \/ UNCHANGED queueVars
    \/ OpenConnection(life)
    \/ RegisterListeners(registry)
    \/ CloseConnection
    \/ \E m \in Messages : SendMessage(m)
    \/ \E m \in Messages, c \in 1 .. MaxLives :
         Deliver(m, c) \/ Complete(m, c) \/ Fail(m, c)
    \/ QueueCrash

LEMMA StepOfQueue == [Next]_vars => QueueStep /\ UNCHANGED <<application, jobs>>
<1> SUFFICES ASSUME [Next]_vars
             PROVE  QueueStep /\ UNCHANGED <<application, jobs>>
  OBVIOUS
<1> USE DEF QueueStep, application
<1>1. CASE Start
  BY <1>1 DEF Start, NewModule, application
<1>2. CASE Close
  BY <1>2 DEF Close, scheduleVars
<1>3. CASE Hook
  <2>1. CASE BootQueue
    BY <2>1 DEF BootQueue, GoOn, Reject, scheduleVars
  <2>2. CASE BootQueueModule
    BY <2>2 DEF BootQueueModule, GoOn, scheduleVars
  <2>3. CASE BootScheduleModule
    BY <2>3 DEF BootScheduleModule, RegisterJobs, RegisterSomeJobs, GoOn, Reject
  <2>4. CASE \E s \in Services : BootService(s) \/ CloseService(s)
    BY <2>4 DEF BootService, CloseService, GoOn, Reject, scheduleVars
  <2>5. CASE CloseQueue
    BY <2>5 DEF CloseQueue, GoOn, Reject, scheduleVars
  <2>6. CASE CloseQueueModule
    BY <2>6 DEF CloseQueueModule, GoOn, scheduleVars
  <2>7. CASE CloseScheduleModule
    BY <2>7 DEF CloseScheduleModule, ClearJobs, GoOn
  <2>8. CASE Booted \/ Closed
    BY <2>8 DEF Booted, Closed, scheduleVars
  <2> QED
    BY <1>3, <2>1, <2>2, <2>3, <2>4, <2>5, <2>6, <2>7, <2>8 DEF Hook
<1>4. CASE Crash
  BY <1>4 DEF Crash, ScheduleCrash
<1>5. CASE Rest \/ UNCHANGED vars
  BY <1>5 DEF Rest, vars, scheduleVars
<1>6. CASE \E s \in Services, m \in Messages : SendFromHook(s, m)
  <2>1. PICK s \in Services, m \in Messages : SendFromHook(s, m)
    BY <1>6
  <2> QED
    BY <2>1 DEF SendFromHook, Reject, scheduleVars
<1>7. CASE \E j \in ScheduledJobs : Fire(j)
  <2>1. PICK j \in ScheduledJobs : Fire(j)
    BY <1>7
  <2> QED
    BY <2>1 DEF Fire, Due
<1>8. CASE \E m \in Messages : Request(m)
  BY <1>8 DEF Request, scheduleVars
<1>9. CASE \E m \in Messages, c \in 1 .. MaxLives : Consume(m, c)
  BY <1>9 DEF Consume, scheduleVars
<1> QED
  BY <1>1, <1>2, <1>3, <1>4, <1>5, <1>6, <1>7, <1>8, <1>9 DEF Next

(* The queue is told the truth, and no message meets no listener.          *)
LEMMA QueueTypes ==
    ASSUME QueueTypeOK, registry \in Seq(Entries), life \in Nat, QueueStep,
           MaxLives \in Nat
    PROVE  QueueTypeOK'
<1> USE DEF QueueTypeOK, Places
<1>1. CASE UNCHANGED queueVars
  BY <1>1 DEF queueVars
<1>2. CASE OpenConnection(life)
  BY <1>2 DEF OpenConnection
<1>3. CASE RegisterListeners(registry)
  <2>1. \A t \in Types : LastListener(registry, t) \in Services \cup {None}
    <3> TAKE t \in Types
    <3>1. CASE Listening(registry, t) = {}
      BY <3>1 DEF LastListener
    <3>2. CASE Listening(registry, t) # {}
      BY <3>2, LastIsListening
    <3> QED
      BY <3>1, <3>2
  <2>2. listenersMap' \in [Types -> Services \cup {None}]
    BY <1>3, <2>1 DEF RegisterListeners
  <2> QED
    BY <1>3, <2>2 DEF RegisterListeners, Attach
<1>4. CASE CloseConnection
  BY <1>4 DEF CloseConnection
<1>5. CASE \E m \in Messages : SendMessage(m)
  BY <1>5 DEF SendMessage
<1>6. ASSUME NEW m \in Messages, NEW c \in 1 .. MaxLives, Deliver(m, c)
      PROVE  QueueTypeOK'
  <2>1. attempts' \in [Messages -> Nat] /\ c \in Nat
    BY <1>6 DEF Deliver
  <2> QED
    BY <1>6, <2>1 DEF Deliver, Failed
<1>7. ASSUME NEW m \in Messages, NEW c \in 1 .. MaxLives,
             Complete(m, c) \/ Fail(m, c)
      PROVE  QueueTypeOK'
  BY <1>7 DEF Complete, Fail, Report, Failed
<1>8. CASE QueueCrash
  BY <1>8 DEF QueueCrash
<1> QED
  BY <1>1, <1>2, <1>3, <1>4, <1>5, <1>6, <1>7, <1>8 DEF QueueStep

LEMMA OutcomeStep ==
    ASSUME QueueTypeOK, ConnectionInv, DoneWhenHandled, NeverUnheard, QueueStep
    PROVE  DoneWhenHandled' /\ NeverUnheard'
<1> USE QueueAssumption DEF QueueTypeOK, DoneWhenHandled, NeverUnheard
<1>1. CASE UNCHANGED <<queue, completed, unheard>>
  BY <1>1
<1>2. CASE CloseConnection
  BY <1>2 DEF CloseConnection
<1>3. CASE \E m \in Messages : SendMessage(m)
  BY <1>3 DEF SendMessage
<1>4. ASSUME NEW m \in Messages, NEW c \in 1 .. MaxLives, Deliver(m, c)
      PROVE  DoneWhenHandled' /\ NeverUnheard'
  <2>1. Heard
    BY <1>4 DEF Deliver, ConnectionInv
  <2>2. CASE queue' = [queue EXCEPT ![m] = "running"] /\ UNCHANGED unheard
    BY <1>4, <2>2 DEF Deliver
  <2>3. CASE /\ listenersMap[TypeOf[m]] = None /\ unheard' = unheard \cup {m}
             /\ queue' = [queue EXCEPT ![m] = Failed(m)]
    <3>1. \A s \in Services : TypeOf[m] \notin Listens[s]
      BY <2>1, <2>3 DEF Heard
    <3> QED
      BY <1>4, <2>3, <3>1 DEF Deliver, Failed
  <2> QED
    BY <1>4, <2>2, <2>3 DEF Deliver
<1>5. ASSUME NEW m \in Messages, NEW c \in 1 .. MaxLives, Complete(m, c)
      PROVE  DoneWhenHandled' /\ NeverUnheard'
  BY <1>5 DEF Complete, Report
<1>6. ASSUME NEW m \in Messages, NEW c \in 1 .. MaxLives, Fail(m, c)
      PROVE  DoneWhenHandled' /\ NeverUnheard'
  <2>1. \E s \in UsesThis \cup Failing : TypeOf[m] \in Listens[s]
    BY <1>6 DEF Fail, ConnectionInv
  <2> QED
    BY <1>6, <2>1 DEF Fail, Report, Failed
<1>7. CASE QueueCrash
  BY <1>7 DEF QueueCrash
<1> QED
  BY <1>1, <1>2, <1>3, <1>4, <1>5, <1>6, <1>7
  DEF QueueStep, queueVars, OpenConnection, RegisterListeners

-----------------------------------------------------------------------------
(* The start.                                                              *)
LEMMA InitShape == Init => Shape
<1> SUFFICES ASSUME Init PROVE Shape
  OBVIOUS
<1>1. PICK setup \in Setups : /\ registry = setup.order /\ jobs = setup.jobs
                              /\ by = setup.by
  BY DEF Init
<1>2. Ordered(setup) /\ setup.jobs \subseteq ScheduledJobs
      /\ setup.by \in [Messages -> Senders]
  BY BackgroundAssumption
<1>3. registry \in Seq(Entries)
  BY <1>1, <1>2 DEF Ordered
<1>4. \A e \in Entries : Pos(e) \in DOMAIN registry /\ registry[Pos(e)] = e
  BY <1>1, <1>2 DEF Ordered, Pos, Position
<1>5. \A i \in DOMAIN registry : Pos(registry[i]) = i
  <2> TAKE i \in DOMAIN registry
  <2>1. registry[i] \in Entries
    BY <1>3
  <2>2. /\ Pos(registry[i]) \in DOMAIN registry
        /\ registry[Pos(registry[i])] = registry[i]
    BY <1>4, <2>1
  <2>3. \A k, l \in DOMAIN registry : registry[k] = registry[l] => k = l
    BY <1>1, <1>2 DEF Ordered
  <2> QED
    BY <2>2, <2>3
<1>6. Pos(Queue) < Pos(QueueModule)
  BY <1>1, <1>2 DEF Ordered, Pos
<1> QED
  BY <1>1, <1>2, <1>3, <1>4, <1>5, <1>6 DEF Shape

LEMMA InitInv == Init => IInv
<1> SUFFICES ASSUME Init PROVE IInv
  OBVIOUS
<1>1. Shape
  BY InitShape
<1>2. DOMAIN registry = 1 .. Len(registry) /\ 1 <= Pos(Queue)
      /\ 1 <= Pos(ScheduleModule)
  BY <1>1, ShapeFacts, EntriesDiffer
<1>3. QueueTypeOK
  BY DEF Init, QueueInit, QueueTypeOK, Places
<1>4. ScheduleTypeOK
  BY DEF Init, ScheduleInit, ScheduleTypeOK
<1>5. TypeOK
  BY <1>1, <1>3, <1>4, BackgroundAssumption DEF TypeOK, Init, Phases, Shape
<1>6. LoopInv
  BY DEF LoopInv, Init, Phases
<1>7. ConnectionInv
  BY QueueAssumption DEF ConnectionInv, Init, QueueInit, Ending
<1>8. JobsInv /\ PassedInv
  BY DEF JobsInv, PassedInv, Init, ScheduleInit, Ending
<1>9. DoneWhenHandled /\ NeverUnheard /\ JobsMeetServices
  BY DEF DoneWhenHandled, NeverUnheard, JobsMeetServices, Init, QueueInit
<1> QED
  BY <1>1, <1>5, <1>6, <1>7, <1>8, <1>9 DEF IInv

-----------------------------------------------------------------------------
(* What holds from the start of a life to the next.                        *)
LEMMA LoopHolds == IInv /\ [Next]_vars => LoopInv'
<1> SUFFICES ASSUME IInv, [Next]_vars PROVE LoopInv'
  OBVIOUS
<1> USE DEF LoopInv, Phases, application
<1>a. LoopInv /\ ConnectionInv /\ JobsInv /\ PassedInv /\ Shape
  BY DEF IInv
<1>b. /\ Len(registry) \in Nat /\ Len(registry) > 0
      /\ \A e \in Entries : Pos(e) \in 1 .. Len(registry)
  BY <1>a, ShapeFacts, EntriesDiffer
<1>1. CASE Start
  BY <1>1, <1>a, <1>b DEF Start, NewModule, queueVars
<1>2. CASE Close
  BY <1>2, <1>a, <1>b DEF Close, queueVars, scheduleVars
<1>3. CASE BootQueue
  BY <1>3, <1>a, <1>b
  DEF BootQueue, At, OpenConnection, GoOn, Reject, queueVars, scheduleVars
<1>4. CASE BootQueueModule
  BY <1>4, <1>a, <1>b
  DEF BootQueueModule, At, RegisterListeners, Attach, GoOn, scheduleVars
<1>5. CASE BootScheduleModule
  BY <1>5, <1>a, <1>b
  DEF BootScheduleModule, At, RegisterJobs, RegisterSomeJobs,
      GoOn, Reject, queueVars
<1>6. ASSUME NEW s \in Services, BootService(s)
      PROVE  LoopInv'
  BY <1>6, <1>a, <1>b DEF BootService, At, GoOn, Reject, queueVars, scheduleVars
<1>7. ASSUME NEW s \in Services, CloseService(s)
      PROVE  LoopInv'
  BY <1>7, <1>a, <1>b
  DEF CloseService, At, GoOn, Reject, queueVars, scheduleVars
<1>8. CASE CloseQueue
  BY <1>8, <1>a, <1>b
  DEF CloseQueue, At, CloseConnection, GoOn, Reject, queueVars, scheduleVars
<1>9. CASE CloseQueueModule
  BY <1>9, <1>a, <1>b DEF CloseQueueModule, At, GoOn, queueVars, scheduleVars
<1>10. CASE CloseScheduleModule
  BY <1>10, <1>a, <1>b DEF CloseScheduleModule, At, ClearJobs, GoOn, queueVars
<1>11. CASE Booted \/ Closed
  BY <1>11, <1>a, <1>b DEF Booted, Closed, queueVars, scheduleVars
<1>12. CASE Crash
  BY <1>12, <1>a, <1>b DEF Crash, QueueCrash, ScheduleCrash
<1>13. CASE Rest \/ UNCHANGED vars
  BY <1>13, <1>a, <1>b DEF Rest, vars, loop, queueVars, scheduleVars
<1>14. ASSUME NEW s \in Services, NEW m \in Messages, SendFromHook(s, m)
       PROVE  LoopInv'
  BY <1>14, <1>a, <1>b
  DEF SendFromHook, At, SendMessage, Reject, loop, scheduleVars
<1>15. ASSUME NEW j \in ScheduledJobs, Fire(j)
       PROVE  LoopInv'
  BY <1>15, <1>a, <1>b DEF Fire, Due, SendMessage, loop, queueVars
<1>16. ASSUME NEW m \in Messages, Request(m)
       PROVE  LoopInv'
  BY <1>16, <1>a, <1>b DEF Request, SendMessage, loop, scheduleVars
<1>17. ASSUME NEW m \in Messages, NEW c \in 1 .. MaxLives, Consume(m, c)
       PROVE  LoopInv'
  BY <1>17, <1>a, <1>b
  DEF Consume, Deliver, Complete, Fail, Report, loop, scheduleVars
<1> QED
  BY <1>1, <1>2, <1>3, <1>4, <1>5, <1>6, <1>7, <1>8, <1>9, <1>10,
     <1>11, <1>12, <1>13, <1>14, <1>15, <1>16, <1>17
  DEF Next, Hook

LEMMA ConnectionHolds == IInv /\ [Next]_vars => ConnectionInv'
<1> SUFFICES ASSUME IInv, [Next]_vars PROVE ConnectionInv'
  OBVIOUS
<1> USE DEF ConnectionInv, LoopInv, Heard, Ending, Phases, application
<1>a. LoopInv /\ ConnectionInv /\ JobsInv /\ PassedInv /\ Shape
  BY DEF IInv
<1>b. /\ Len(registry) \in Nat /\ Len(registry) > 0
      /\ \A e \in Entries : Pos(e) \in 1 .. Len(registry)
      /\ \A p, e : At(p, e) => at = Pos(e) /\ e \in Entries /\ phase = p
      /\ \A d, e \in Entries : Pos(d) = Pos(e) => d = e
      /\ Pos(Queue) < Pos(QueueModule)
      /\ \A m \in Messages : by[m] \in Senders
      /\ stopped \subseteq Entries
  BY <1>a, ShapeFacts, PlacesDiffer, EntriesDiffer DEF Shape, IInv, TypeOK
<1>c. registry' = registry /\ \A e : Pos(e)' = Pos(e)
  BY StepOfQueue DEF application, Pos
<1>1. CASE Start
  BY <1>1, <1>a, <1>b, <1>c, EntriesDiffer DEF Start, NewModule, queueVars
<1>2. CASE Close
  BY <1>2, <1>a, <1>b, <1>c, EntriesDiffer DEF Close, queueVars, scheduleVars
<1>3. CASE BootQueue
  BY <1>3, <1>a, <1>b, <1>c, EntriesDiffer
  DEF BootQueue, OpenConnection, GoOn, Reject, queueVars, scheduleVars
<1>4. CASE BootQueueModule
  <2>1. \A t \in Types : LastListener(registry, t) # None =>
            t \in Listens[LastListener(registry, t)]
    <3> TAKE t \in Types
    <3>1. CASE Listening(registry, t) = {}
      BY <1>a, <3>1 DEF LastListener
    <3>2. CASE Listening(registry, t) # {}
      BY <1>a, <3>2, LastIsListening DEF Shape
    <3> QED
      BY <3>1, <3>2
  <2>2. \A t \in Types, s \in Services : t \in Listens[s] =>
            LastListener(registry, t) # None
    <3> TAKE t \in Types, s \in Services
    <3> HAVE t \in Listens[s]
    <3>1. Pos(s) \in Listening(registry, t)
      BY <1>a, EntriesDiffer DEF Listening, Shape
    <3> QED
      BY <1>a, <3>1, LastIsListening, EntriesDiffer DEF Shape
  <2>3. listenersMap' = [t \in Types |-> LastListener(registry, t)]
    BY <1>4 DEF BootQueueModule, RegisterListeners
  <2>4. Heard' /\ \A t \in Types : listenersMap'[t] # None =>
                     t \in Listens[listenersMap'[t]]
    BY <2>1, <2>2, <2>3
  <2>5. /\ open' = open /\ kv' = kv /\ consumers' = consumers \cup {kv}
        /\ phase' = "booting" /\ phase = "booting" /\ at' = at + 1
        /\ at = Pos(QueueModule)
    BY <1>4, <1>b DEF BootQueueModule, RegisterListeners, Attach, GoOn
  <2>6. /\ open' \subseteq {kv'} /\ consumers' \subseteq open'
        /\ open' # {} /\ at' > Pos(Queue)
    BY <1>a, <1>b, <2>5, EntriesDiffer
  <2> QED
    BY <1>a, <1>b, <1>c, <2>4, <2>5, <2>6, EntriesDiffer
<1>5. CASE BootScheduleModule
  BY <1>5, <1>a, <1>b, <1>c, EntriesDiffer
  DEF BootScheduleModule, RegisterJobs, RegisterSomeJobs,
      GoOn, Reject, queueVars
<1>6. ASSUME NEW s \in Services, BootService(s)
      PROVE  ConnectionInv'
  BY <1>6, <1>a, <1>b, <1>c, EntriesDiffer
  DEF BootService, GoOn, Reject, queueVars, scheduleVars
<1>7. ASSUME NEW s \in Services, CloseService(s)
      PROVE  ConnectionInv'
  BY <1>7, <1>a, <1>b, <1>c, EntriesDiffer
  DEF CloseService, GoOn, Reject, queueVars, scheduleVars
<1>8. CASE CloseQueue
  BY <1>8, <1>a, <1>b, <1>c, EntriesDiffer
  DEF CloseQueue, CloseConnection, GoOn, Reject, queueVars, scheduleVars
<1>9. CASE CloseQueueModule
  BY <1>9, <1>a, <1>b, <1>c, EntriesDiffer
  DEF CloseQueueModule, GoOn, queueVars, scheduleVars
<1>10. CASE CloseScheduleModule
  BY <1>10, <1>a, <1>b, <1>c, EntriesDiffer
  DEF CloseScheduleModule, ClearJobs, GoOn, queueVars
<1>11. CASE Booted \/ Closed
  BY <1>11, <1>a, <1>b, <1>c, EntriesDiffer
  DEF Booted, Closed, queueVars, scheduleVars
<1>12. CASE Crash
  BY <1>12, <1>a, <1>b, <1>c, EntriesDiffer DEF Crash, QueueCrash, ScheduleCrash
<1>13. CASE Rest \/ UNCHANGED vars
  BY <1>13, <1>a, <1>b, <1>c, EntriesDiffer
  DEF Rest, vars, loop, queueVars, scheduleVars
<1>14. ASSUME NEW s \in Services, NEW m \in Messages, SendFromHook(s, m)
       PROVE  ConnectionInv'
  BY <1>14, <1>a, <1>b, <1>c, EntriesDiffer
  DEF SendFromHook, SendMessage, Reject, loop, scheduleVars
<1>15. ASSUME NEW j \in ScheduledJobs, Fire(j)
       PROVE  ConnectionInv'
  BY <1>15, <1>a, <1>b, <1>c, EntriesDiffer
  DEF Fire, Due, SendMessage, loop, queueVars
<1>16. ASSUME NEW m \in Messages, Request(m)
       PROVE  ConnectionInv'
  BY <1>16, <1>a, <1>b, <1>c, EntriesDiffer
  DEF Request, SendMessage, loop, scheduleVars
<1>17. ASSUME NEW m \in Messages, NEW c \in 1 .. MaxLives, Consume(m, c)
       PROVE  ConnectionInv'
  BY <1>17, <1>a, <1>b, <1>c, EntriesDiffer
  DEF Consume, Deliver, Complete, Fail, Report, loop, scheduleVars
<1> QED
  BY <1>1, <1>2, <1>3, <1>4, <1>5, <1>6, <1>7, <1>8, <1>9, <1>10,
     <1>11, <1>12, <1>13, <1>14, <1>15, <1>16, <1>17
  DEF Next, Hook

LEMMA JobsHold == IInv /\ [Next]_vars => JobsInv'
<1> SUFFICES ASSUME IInv, [Next]_vars PROVE JobsInv'
  OBVIOUS
<1> USE DEF JobsInv, LoopInv, Ending, Phases, Senders, application
<1>a. LoopInv /\ ConnectionInv /\ JobsInv /\ PassedInv /\ Shape
  BY DEF IInv
<1>b. /\ Len(registry) \in Nat /\ Len(registry) > 0
      /\ \A e \in Entries : Pos(e) \in 1 .. Len(registry)
      /\ \A p, e : At(p, e) => at = Pos(e) /\ e \in Entries /\ phase = p
      /\ \A d, e \in Entries : Pos(d) = Pos(e) => d = e
      /\ Pos(Queue) < Pos(QueueModule)
      /\ \A m \in Messages : by[m] \in Senders
      /\ stopped \subseteq Entries
  BY <1>a, ShapeFacts, PlacesDiffer, EntriesDiffer DEF Shape, IInv, TypeOK
<1>c. registry' = registry /\ \A e : Pos(e)' = Pos(e)
  BY StepOfQueue DEF application, Pos
<1>1. CASE Start
  BY <1>1, <1>a, <1>b, <1>c, EntriesDiffer DEF Start, NewModule, queueVars
<1>2. CASE Close
  BY <1>2, <1>a, <1>b, <1>c, EntriesDiffer DEF Close, queueVars, scheduleVars
<1>3. CASE BootQueue
  BY <1>3, <1>a, <1>b, <1>c, EntriesDiffer
  DEF BootQueue, OpenConnection, GoOn, Reject, queueVars, scheduleVars
<1>4. CASE BootQueueModule
  BY <1>4, <1>a, <1>b, <1>c, EntriesDiffer
  DEF BootQueueModule, RegisterListeners, Attach, GoOn, scheduleVars
<1>5. CASE BootScheduleModule
  BY <1>5, <1>a, <1>b, <1>c, EntriesDiffer
  DEF BootScheduleModule, RegisterJobs, RegisterSomeJobs,
      GoOn, Reject, queueVars
<1>6. ASSUME NEW s \in Services, BootService(s)
      PROVE  JobsInv'
  BY <1>6, <1>a, <1>b, <1>c, EntriesDiffer
  DEF BootService, GoOn, Reject, queueVars, scheduleVars
<1>7. ASSUME NEW s \in Services, CloseService(s)
      PROVE  JobsInv'
  BY <1>7, <1>a, <1>b, <1>c, EntriesDiffer
  DEF CloseService, GoOn, Reject, queueVars, scheduleVars
<1>8. CASE CloseQueue
  BY <1>8, <1>a, <1>b, <1>c, EntriesDiffer
  DEF CloseQueue, CloseConnection, GoOn, Reject, queueVars, scheduleVars
<1>9. CASE CloseQueueModule
  BY <1>9, <1>a, <1>b, <1>c, EntriesDiffer
  DEF CloseQueueModule, GoOn, queueVars, scheduleVars
<1>10. CASE CloseScheduleModule
  BY <1>10, <1>a, <1>b, <1>c, EntriesDiffer
  DEF CloseScheduleModule, ClearJobs, GoOn, queueVars
<1>11. CASE Booted \/ Closed
  BY <1>11, <1>a, <1>b, <1>c, EntriesDiffer
  DEF Booted, Closed, queueVars, scheduleVars
<1>12. CASE Crash
  BY <1>12, <1>a, <1>b, <1>c, EntriesDiffer DEF Crash, QueueCrash, ScheduleCrash
<1>13. CASE Rest \/ UNCHANGED vars
  BY <1>13, <1>a, <1>b, <1>c, EntriesDiffer
  DEF Rest, vars, loop, queueVars, scheduleVars
<1>14. ASSUME NEW s \in Services, NEW m \in Messages, SendFromHook(s, m)
       PROVE  JobsInv'
  BY <1>14, <1>a, <1>b, <1>c, EntriesDiffer
  DEF SendFromHook, SendMessage, Reject, loop, scheduleVars
<1>15. ASSUME NEW j \in ScheduledJobs, Fire(j)
       PROVE  JobsInv'
  BY <1>15, <1>a, <1>b, <1>c, EntriesDiffer
  DEF Fire, Due, SendMessage, loop, queueVars
<1>16. ASSUME NEW m \in Messages, Request(m)
       PROVE  JobsInv'
  BY <1>16, <1>a, <1>b, <1>c, EntriesDiffer
  DEF Request, SendMessage, loop, scheduleVars
<1>17. ASSUME NEW m \in Messages, NEW c \in 1 .. MaxLives, Consume(m, c)
       PROVE  JobsInv'
  BY <1>17, <1>a, <1>b, <1>c, EntriesDiffer
  DEF Consume, Deliver, Complete, Fail, Report, loop, scheduleVars
<1> QED
  BY <1>1, <1>2, <1>3, <1>4, <1>5, <1>6, <1>7, <1>8, <1>9, <1>10,
     <1>11, <1>12, <1>13, <1>14, <1>15, <1>16, <1>17
  DEF Next, Hook

LEMMA PassedHolds == IInv /\ [Next]_vars => PassedInv'
<1> SUFFICES ASSUME IInv, [Next]_vars PROVE PassedInv'
  OBVIOUS
<1> USE DEF PassedInv, JobsInv, LoopInv, Ending, Phases, application
<1>a. LoopInv /\ ConnectionInv /\ JobsInv /\ PassedInv /\ Shape
  BY DEF IInv
<1>b. /\ Len(registry) \in Nat /\ Len(registry) > 0
      /\ \A e \in Entries : Pos(e) \in 1 .. Len(registry)
      /\ \A p, e : At(p, e) => at = Pos(e) /\ e \in Entries /\ phase = p
      /\ \A d, e \in Entries : Pos(d) = Pos(e) => d = e
      /\ Pos(Queue) < Pos(QueueModule)
      /\ \A m \in Messages : by[m] \in Senders
      /\ stopped \subseteq Entries
  BY <1>a, ShapeFacts, PlacesDiffer, EntriesDiffer DEF Shape, IInv, TypeOK
<1>c. registry' = registry /\ \A e : Pos(e)' = Pos(e)
  BY StepOfQueue DEF application, Pos
<1>1. CASE Start
  BY <1>1, <1>a, <1>b, <1>c, EntriesDiffer DEF Start, NewModule, queueVars
<1>2. CASE Close
  BY <1>2, <1>a, <1>b, <1>c, EntriesDiffer DEF Close, queueVars, scheduleVars
<1>3. CASE BootQueue
  BY <1>3, <1>a, <1>b, <1>c, EntriesDiffer
  DEF BootQueue, OpenConnection, GoOn, Reject, queueVars, scheduleVars
<1>4. CASE BootQueueModule
  BY <1>4, <1>a, <1>b, <1>c, EntriesDiffer
  DEF BootQueueModule, RegisterListeners, Attach, GoOn, scheduleVars
<1>5. CASE BootScheduleModule
  BY <1>5, <1>a, <1>b, <1>c, EntriesDiffer
  DEF BootScheduleModule, RegisterJobs, RegisterSomeJobs,
      GoOn, Reject, queueVars
<1>6. ASSUME NEW s \in Services, BootService(s)
      PROVE  PassedInv'
  BY <1>6, <1>a, <1>b, <1>c, EntriesDiffer
  DEF BootService, GoOn, Reject, queueVars, scheduleVars
<1>7. ASSUME NEW s \in Services, CloseService(s)
      PROVE  PassedInv'
  BY <1>7, <1>a, <1>b, <1>c, EntriesDiffer
  DEF CloseService, GoOn, Reject, queueVars, scheduleVars
<1>8. CASE CloseQueue
  BY <1>8, <1>a, <1>b, <1>c, EntriesDiffer
  DEF CloseQueue, CloseConnection, GoOn, Reject, queueVars, scheduleVars
<1>9. CASE CloseQueueModule
  BY <1>9, <1>a, <1>b, <1>c, EntriesDiffer
  DEF CloseQueueModule, GoOn, queueVars, scheduleVars
<1>10. CASE CloseScheduleModule
  BY <1>10, <1>a, <1>b, <1>c, EntriesDiffer
  DEF CloseScheduleModule, ClearJobs, GoOn, queueVars
<1>11. CASE Booted \/ Closed
  BY <1>11, <1>a, <1>b, <1>c, EntriesDiffer
  DEF Booted, Closed, queueVars, scheduleVars
<1>12. CASE Crash
  BY <1>12, <1>a, <1>b, <1>c, EntriesDiffer DEF Crash, QueueCrash, ScheduleCrash
<1>13. CASE Rest \/ UNCHANGED vars
  BY <1>13, <1>a, <1>b, <1>c, EntriesDiffer
  DEF Rest, vars, loop, queueVars, scheduleVars
<1>14. ASSUME NEW s \in Services, NEW m \in Messages, SendFromHook(s, m)
       PROVE  PassedInv'
  BY <1>14, <1>a, <1>b, <1>c, EntriesDiffer
  DEF SendFromHook, SendMessage, Reject, loop, scheduleVars
<1>15. ASSUME NEW j \in ScheduledJobs, Fire(j)
       PROVE  PassedInv'
  BY <1>15, <1>a, <1>b, <1>c, EntriesDiffer
  DEF Fire, Due, SendMessage, loop, queueVars
<1>16. ASSUME NEW m \in Messages, Request(m)
       PROVE  PassedInv'
  BY <1>16, <1>a, <1>b, <1>c, EntriesDiffer
  DEF Request, SendMessage, loop, scheduleVars
<1>17. ASSUME NEW m \in Messages, NEW c \in 1 .. MaxLives, Consume(m, c)
       PROVE  PassedInv'
  BY <1>17, <1>a, <1>b, <1>c, EntriesDiffer
  DEF Consume, Deliver, Complete, Fail, Report, loop, scheduleVars
<1> QED
  BY <1>1, <1>2, <1>3, <1>4, <1>5, <1>6, <1>7, <1>8, <1>9, <1>10,
     <1>11, <1>12, <1>13, <1>14, <1>15, <1>16, <1>17
  DEF Next, Hook

(* The types of what the scheduler and the loop keep.                      *)
LoopTypes ==
    /\ live \subseteq jobs /\ held \subseteq jobs
    /\ life \in 0 .. MaxLives
    /\ up \subseteq Services /\ stopped \subseteq Services

LEMMA TypesOfLoop == IInv /\ [Next]_vars => LoopTypes'
<1> SUFFICES ASSUME IInv, [Next]_vars PROVE LoopTypes'
  OBVIOUS
<1> USE DEF LoopTypes, application
<1>a. LoopTypes /\ MaxLives \in Nat
  BY BackgroundAssumption DEF IInv, TypeOK, ScheduleTypeOK
<1>b. \A some \in SUBSET UNION {JobsOf(registry[i]) : i \in DOMAIN registry} :
        some \subseteq jobs
  BY DEF JobsOf
<1>c. /\ jobs' = jobs /\ Len(registry) \in Nat
      /\ DOMAIN registry = 1 .. Len(registry)
  BY StepOfQueue, ShapeFacts DEF IInv
<1>1. CASE Start
  BY <1>1, <1>a, <1>c DEF Start, NewModule, queueVars
<1>2. CASE Close
  BY <1>2, <1>a, <1>c DEF Close, queueVars, scheduleVars
<1>3. CASE BootQueue
  BY <1>3, <1>a, <1>c
  DEF BootQueue, OpenConnection, GoOn, Reject, queueVars, scheduleVars
<1>4. CASE BootQueueModule
  BY <1>4, <1>a, <1>c
  DEF BootQueueModule, RegisterListeners, Attach, GoOn, scheduleVars
<1>5. CASE BootScheduleModule
  <2>1. live' \subseteq jobs /\ held' \subseteq jobs
    <3>1. CASE RegisterJobs(registry)
      BY <1>a, <1>b, <3>1 DEF RegisterJobs
    <3>2. CASE RegisterSomeJobs(registry)
      <4>1. PICK n \in DOMAIN registry :
            \E some \in SUBSET JobsOf(registry[n]) :
              LET before == UNION {JobsOf(registry[i]) : i \in 1 .. n - 1}
              IN  /\ live' = live \cup before \cup some
                  /\ held' = held \cup before \cup some
        BY <3>2 DEF RegisterSomeJobs
      <4>2. PICK some \in SUBSET JobsOf(registry[n]) :
              LET before == UNION {JobsOf(registry[i]) : i \in 1 .. n - 1}
              IN  /\ live' = live \cup before \cup some
                  /\ held' = held \cup before \cup some
        BY <4>1
      <4>3. UNION {JobsOf(registry[i]) : i \in 1 .. n - 1} \subseteq jobs
            /\ some \subseteq jobs
        BY DEF JobsOf
      <4> QED
        BY <1>a, <4>2, <4>3
    <3> QED
      BY <1>5, <3>1, <3>2 DEF BootScheduleModule
  <2> QED
    BY <1>5, <1>a, <1>c, <2>1 DEF BootScheduleModule, GoOn, Reject
<1>6. ASSUME NEW s \in Services, BootService(s)
      PROVE  LoopTypes'
  BY <1>6, <1>a, <1>c DEF BootService, GoOn, Reject, queueVars, scheduleVars
<1>7. ASSUME NEW s \in Services, CloseService(s)
      PROVE  LoopTypes'
  BY <1>7, <1>a, <1>c DEF CloseService, GoOn, Reject, queueVars, scheduleVars
<1>8. CASE CloseQueue
  BY <1>8, <1>a, <1>c
  DEF CloseQueue, CloseConnection, GoOn, Reject, queueVars, scheduleVars
<1>9. CASE CloseQueueModule
  BY <1>9, <1>a, <1>c DEF CloseQueueModule, GoOn, queueVars, scheduleVars
<1>10. CASE CloseScheduleModule
  BY <1>10, <1>a, <1>c DEF CloseScheduleModule, ClearJobs, GoOn, queueVars
<1>11. CASE Booted \/ Closed
  BY <1>11, <1>a, <1>c DEF Booted, Closed, queueVars, scheduleVars
<1>12. CASE Crash
  BY <1>12, <1>a, <1>c DEF Crash, QueueCrash, ScheduleCrash
<1>13. CASE Rest \/ UNCHANGED vars
  BY <1>13, <1>a, <1>c DEF Rest, vars, loop, queueVars, scheduleVars
<1>14. ASSUME NEW s \in Services, NEW m \in Messages, SendFromHook(s, m)
       PROVE  LoopTypes'
  BY <1>14, <1>a, <1>c DEF SendFromHook, SendMessage, Reject, loop, scheduleVars
<1>15. ASSUME NEW j \in ScheduledJobs, Fire(j)
       PROVE  LoopTypes'
  BY <1>15, <1>a, <1>c DEF Fire, Due, SendMessage, loop, queueVars
<1>16. ASSUME NEW m \in Messages, Request(m)
       PROVE  LoopTypes'
  BY <1>16, <1>a, <1>c DEF Request, SendMessage, loop, scheduleVars
<1>17. ASSUME NEW m \in Messages, NEW c \in 1 .. MaxLives, Consume(m, c)
       PROVE  LoopTypes'
  BY <1>17, <1>a, <1>c
  DEF Consume, Deliver, Complete, Fail, Report, loop, scheduleVars
<1> QED
  BY <1>1, <1>2, <1>3, <1>4, <1>5, <1>6, <1>7, <1>8, <1>9, <1>10,
     <1>11, <1>12, <1>13, <1>14, <1>15, <1>16, <1>17
  DEF Next, Hook

LEMMA FiredHolds ==
    IInv /\ [Next]_vars =>
        JobsMeetServices' /\ fired' \subseteq ScheduledJobs \X BOOLEAN \X BOOLEAN
<1> SUFFICES ASSUME IInv, [Next]_vars
             PROVE  JobsMeetServices'
                    /\ fired' \subseteq ScheduledJobs \X BOOLEAN \X BOOLEAN
  OBVIOUS
<1> DEFINE Fair(f) ==
             LET early == Pos(f[1].service) < Pos(ScheduleModule)
             IN  (early => f[2]) /\ (~early => ~f[3])
<1>1. /\ fired \subseteq ScheduledJobs \X BOOLEAN \X BOOLEAN
      /\ \A f \in fired : Fair(f)
  BY DEF IInv, TypeOK, JobsMeetServices, Pos
<1>2. registry' = registry
  BY StepOfQueue DEF application
<1>3. CASE fired' = fired
  BY <1>1, <1>2, <1>3 DEF JobsMeetServices, Pos
<1>4. ASSUME NEW j \in ScheduledJobs, Fire(j)
      PROVE  /\ JobsMeetServices'
             /\ fired' \subseteq ScheduledJobs \X BOOLEAN \X BOOLEAN
  <2> DEFINE f == <<j, j.service \in up, j.service \in stopped>>
             s == j.service
  <2>1. live # {} /\ fired' = fired \cup {f} /\ s \in Services
    BY <1>4, BackgroundAssumption DEF Fire, Due
  <2>2. /\ Len(registry) \in Nat
        /\ \A e \in Entries : Pos(e) \in 1 .. Len(registry)
        /\ s \in Entries /\ ScheduleModule \in Entries
    BY <2>1, ShapeFacts, EntriesDiffer DEF IInv
  <2>3. Pos(s) < Pos(ScheduleModule) => s \in up
    BY <2>1 DEF IInv, PassedInv
  <2>4. s \in stopped => Pos(s) < Pos(ScheduleModule)
    BY <2>1, <2>2 DEF IInv, LoopInv, Phases, PassedInv, JobsInv, Ending
  <2> HIDE DEF s
  <2>5. f[1] = j /\ f[2] = (s \in up) /\ f[3] = (s \in stopped)
    BY DEF s
  <2>6. Fair(f)
    BY <2>3, <2>4, <2>5 DEF s
  <2>7. f \in ScheduledJobs \X BOOLEAN \X BOOLEAN
    <3>1. (j.service \in up) \in BOOLEAN /\ (j.service \in stopped) \in BOOLEAN
      OBVIOUS
    <3> QED
      BY <3>1
  <2> HIDE DEF f, Fair
  <2>8. \A g \in fired' : Fair(g)
    BY <1>1, <2>1, <2>6
  <2> QED
    BY <1>1, <1>2, <2>1, <2>7, <2>8 DEF JobsMeetServices, Fair, Pos
<1>5. fired' = fired \/ \E j \in ScheduledJobs : Fire(j)
  BY DEF Next, vars, Start, Close, Crash, Rest, SendFromHook, Request, Consume,
         Hook, BootQueue, BootQueueModule, BootScheduleModule, BootService,
         CloseQueue, CloseQueueModule, CloseScheduleModule, CloseService, Booted,
         Closed, GoOn, Reject
<1> QED
  BY <1>3, <1>4, <1>5

LEMMA StepHolds == IInv /\ [Next]_vars => IInv'
<1> SUFFICES ASSUME IInv, [Next]_vars PROVE IInv'
  OBVIOUS
<1>1. QueueStep /\ UNCHANGED <<application, jobs>>
  BY StepOfQueue
<1>2. LoopInv' /\ ConnectionInv' /\ JobsInv' /\ PassedInv'
  BY LoopHolds, ConnectionHolds, JobsHold, PassedHolds
<1>3. JobsMeetServices' /\ fired' \subseteq ScheduledJobs \X BOOLEAN \X BOOLEAN
  BY FiredHolds
<1>4. QueueTypeOK'
  BY <1>1, QueueTypes, BackgroundAssumption DEF IInv, TypeOK, LoopInv
<1>5. TypeOK'
  BY <1>1, <1>2, <1>3, <1>4, TypesOfLoop
  DEF IInv, TypeOK, ScheduleTypeOK, LoopInv, LoopTypes, application
<1>6. Shape'
  BY <1>1 DEF IInv, Shape, Pos, application
<1>7. DoneWhenHandled' /\ NeverUnheard'
  BY <1>1, OutcomeStep DEF IInv, TypeOK
<1> QED
  BY <1>2, <1>3, <1>5, <1>6, <1>7 DEF IInv

LEMMA Invariance == Spec => []IInv
BY InitInv, StepHolds, PTL DEF Spec

-----------------------------------------------------------------------------
(* A message is reported done only when its listener ended well, whatever  *)
(* the number of starts, connections and crashes (src/kv-queue/kv.ts:40).  *)
THEOREM DoneIsHandled == Spec => []DoneWhenHandled
<1>1. IInv => DoneWhenHandled
  BY DEF IInv
<1> QED
  BY <1>1, Invariance, PTL

(* No delivery precedes the registration of the listeners, in any order of *)
(* the registry that has the queue before its module (src/kv-queue/).      *)
THEOREM ListenersComeFirst == Spec => []NeverUnheard
<1>1. IInv => NeverUnheard
  BY DEF IInv
<1> QED
  BY <1>1, Invariance, PTL

(* Where the close hooks have run nothing is left of the queue and of the  *)
(* scheduler, even of a bootstrap that failed half-way                     *)
(* (src/kv-queue/kv.ts, src/schedule/module.ts).                           *)
THEOREM NothingIsLeft == Spec => []StoppedBehind
<1>1. IInv => StoppedBehind
  BY DEF IInv, StoppedBehind, ConnectionInv, JobsInv, Ending, Pos
<1> QED
  BY <1>1, Invariance, PTL

(* A job runs between the hooks of its service, as far as the order of the *)
(* registry allows (src/schedule/module.ts, src/hook/executor.ts).         *)
THEOREM JobsKeepTheOrder == Spec => []JobsMeetServices
<1>1. IInv => JobsMeetServices
  BY DEF IInv
<1> QED
  BY <1>1, Invariance, PTL

=============================================================================
