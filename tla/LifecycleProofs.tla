-------------------------- MODULE LifecycleProofs --------------------------
(***************************************************************************)
(* What an application promises about its end, for every number of         *)
(* applications, services and requests.  The inductive invariant says how  *)
(* far each loop over the injector has come in a registry that only grows, *)
(* and how init, close and the server of an application go together.       *)
(***************************************************************************)
EXTENDS Lifecycle, TLAPS

(* The first n entries of the registry.                                    *)
Seen(n) == {registry[i] : i \in 1 .. n}

(* A loop has called the hooks of exactly what it has passed.              *)
Reached(j) ==
    /\ job[j].phase \in {"idle", "registering"} => called[j] = {}
    /\ job[j].phase = "idle" => job[j].at = 1
    /\ job[j].phase = "hooking" =>
         /\ job[j].at <= Len(registry) + 1
         /\ called[j] = Global \cap Seen(job[j].at - 1)
    /\ job[j].phase = "waiting" =>
         /\ job[j].at <= Len(registry)
         /\ called[j] = Global \cap Seen(job[j].at)

(* What init has registered.                                               *)
Prepared(a) ==
    LET j == <<a, "init">> IN
    /\ job[j].phase = "registering" =>
         \A i \in DOMAIN Declares[a] : i < job[j].at => Declares[a][i] \in Registered
    /\ job[j].phase \notin {"idle", "registering"} => Declared(a) \subseteq Registered

(* The server and the calls of its application.                            *)
Ordered(a) ==
    LET phase == job[<<a, "close">>].phase IN
    /\ server[a] # "none" => job[<<a, "init">>].phase = "done"
    /\ phase # "registering"
    /\ phase = "shutdown" => server[a] \in {"none", "draining"}
    /\ phase = "done" => server[a] \in {"none", "down"}
    /\ phase \notin {"shutdown", "done"} => server[a] \in {"none", "open"}
    /\ server[a] \in {"draining", "down"} =>
         Declared(a) \cap Global \subseteq called[<<a, "close">>]

(* A request is in flight at a server that has not gone down.              *)
Accepted ==
    \A a \in Apps : InFlight(a) # {} => server[a] \in {"open", "draining"}

IInv ==
    /\ TypeOK
    /\ \A j \in Jobs : Reached(j)
    /\ \A a \in Apps : Prepared(a) /\ Ordered(a)
    /\ Accepted

(* The registry only grows: what it holds keeps its place.                 *)
Grows ==
    /\ registry' \in Seq(Services)
    /\ Len(registry) <= Len(registry')
    /\ \A i \in 1 .. Len(registry) : registry'[i] = registry[i]

(* Map.set adds a key at the end or leaves the Map as it is.               *)
LEMMA WithGrows ==
    ASSUME TypeOK, NEW s \in Services, registry' = With(s)
    PROVE  Grows /\ s \in Registered' /\ Registered \subseteq Registered'
<1>1. registry \in Seq(Services)
  BY DEF TypeOK
<1>2. CASE s \in Registered
  <2>1. registry' = registry
    BY <1>2 DEF With
  <2>. QED
    BY <1>1, <1>2, <2>1 DEF Grows, Registered
<1>3. CASE s \notin Registered
  <2>1. registry' = Append(registry, s)
    BY <1>3 DEF With
  <2>2. /\ registry' \in Seq(Services)
        /\ Len(registry') = Len(registry) + 1
        /\ registry'[Len(registry) + 1] = s
        /\ \A i \in 1 .. Len(registry) : registry'[i] = registry[i]
        /\ Len(registry) \in Nat
        /\ DOMAIN registry' = 1 .. Len(registry) + 1
        /\ DOMAIN registry = 1 .. Len(registry)
    BY <1>1, <2>1
  <2>. QED
    BY <2>2 DEF Grows, Registered
<1>. QED
  BY <1>2, <1>3

(* What a loop has reached is not disturbed by what is added.              *)
LEMMA ReachedKept ==
    ASSUME TypeOK, Grows, NEW j \in Jobs, Reached(j),
           job'[j] = job[j], called'[j] = called[j]
    PROVE  Reached(j)'
<1>1. /\ Len(registry) \in Nat /\ Len(registry') \in Nat
      /\ job[j].at \in Nat \ {0}
  BY DEF TypeOK, Grows
<1>2. \A n \in Nat : n <= Len(registry) =>
        {registry'[i] : i \in 1 .. n} = {registry[i] : i \in 1 .. n}
  BY <1>1 DEF Grows
<1>3. CASE job[j].phase = "hooking"
  <2>1. job[j].at - 1 \in Nat /\ job[j].at - 1 <= Len(registry)
    BY <1>1, <1>3 DEF Reached
  <2>2. {registry'[i] : i \in 1 .. (job[j].at - 1)}
          = {registry[i] : i \in 1 .. (job[j].at - 1)}
    BY <1>2, <2>1
  <2>3. called[j] = Global \cap {registry[i] : i \in 1 .. (job[j].at - 1)}
    BY <1>3 DEF Reached, Seen
  <2>4. called'[j] = Global \cap {registry'[i] : i \in 1 .. (job'[j].at - 1)}
    BY <2>2, <2>3
  <2>5. job'[j].at <= Len(registry') + 1
    BY <1>1, <1>3 DEF Reached, Grows
  <2>6. job'[j].phase = "hooking"
    BY <1>3
  <2>. QED
    BY <2>4, <2>5, <2>6 DEF Reached, Seen
<1>4. CASE job[j].phase = "waiting"
  <2>1. {registry'[i] : i \in 1 .. job[j].at} = {registry[i] : i \in 1 .. job[j].at}
    BY <1>1, <1>2, <1>4 DEF Reached
  <2>. QED
    BY <1>1, <1>4, <2>1 DEF Reached, Grows, Seen
<1>5. CASE job[j].phase \notin {"hooking", "waiting"}
  BY <1>5 DEF Reached
<1>. QED
  BY <1>3, <1>4, <1>5

(* The invariant holds of the initial state.                               *)
LEMMA InitInv == Init => IInv
<1>. SUFFICES ASSUME Init PROVE IInv
  OBVIOUS
<1>1. TypeOK
  BY DEF Init, TypeOK, Phases
<1>2. \A j \in Jobs : Reached(j)
  BY DEF Init, Reached
<1>3. \A a \in Apps : <<a, "init">> \in Jobs /\ <<a, "close">> \in Jobs
  BY DEF Jobs
<1>4. \A a \in Apps : Prepared(a) /\ Ordered(a)
  BY <1>3 DEF Init, Prepared, Ordered
<1>5. Accepted
  BY DEF Init, Accepted, InFlight
<1>. QED
  BY <1>1, <1>2, <1>4, <1>5 DEF IInv

(* No step breaks a type.                                                  *)
LEMMA TypeStep ==
    ASSUME TypeOK, [Next]_vars
    PROVE  TypeOK'
<1>1. \A a \in Apps : <<a, "init">> \in Jobs /\ <<a, "close">> \in Jobs
  BY DEF Jobs
<1>2. ASSUME NEW a \in Apps, Initialising(a)
      PROVE  TypeOK'
  <2>1. CASE CallInit(a)
    BY <1>1, <2>1 DEF CallInit, TypeOK, Phases
  <2>2. CASE Register(a)
    <3>0. Declares[a] \in Seq(Services)
      BY LifecycleAssumption
    <3>1. Declares[a][job[<<a, "init">>].at] \in Services
      <4>1. job[<<a, "init">>].at \in Nat \ {0}
        BY <1>1 DEF TypeOK
      <4>2. job[<<a, "init">>].at <= Len(Declares[a])
        BY <2>2 DEF Register
      <4>. QED
        BY <3>0, <4>1, <4>2
    <3>2. registry' \in Seq(Services)
      BY <2>2, <3>1, WithGrows DEF Register, Grows
    <3>3. job' \in [Jobs -> [phase : Phases, at : Nat \ {0}]]
      <4>1. PICK k \in Jobs : k = <<a, "init">>
        BY <1>1
      <4>2. job' = [job EXCEPT ![k].at = @ + 1]
        BY <2>2, <4>1 DEF Register
      <4>3. job \in [Jobs -> [phase : Phases, at : Nat \ {0}]]
        BY DEF TypeOK
      <4>4. job[k].at \in Nat \ {0} /\ job[k].at + 1 \in Nat \ {0}
        BY <4>3
      <4>. QED
        BY <4>2, <4>3, <4>4
    <3>. QED
      BY <2>2, <3>2, <3>3 DEF Register, TypeOK
  <2>3. CASE Bootstrapped(a)
    <3>1. [phase |-> "hooking", at |-> 1] \in [phase : Phases, at : Nat \ {0}]
      BY DEF Phases
    <3>. QED
      BY <1>1, <2>3, <3>1 DEF Bootstrapped, TypeOK
  <2>4. CASE Initialised(a)
    BY <1>1, <2>4 DEF Initialised, TypeOK, Phases
  <2>. QED
    BY <1>2, <2>1, <2>2, <2>3, <2>4 DEF Initialising
<1>3. ASSUME NEW j \in Jobs, Hooking(j)
      PROVE  TypeOK'
  <2>1. CASE PassOver(j)
    BY <2>1 DEF PassOver, TypeOK, Phases
  <2>2. CASE CallHook(j)
    BY <2>2 DEF CallHook, TypeOK, Phases
  <2>. QED
    BY <1>3, <2>1, <2>2 DEF Hooking
<1>4. ASSUME NEW j \in Jobs, Settling(j)
      PROVE  TypeOK'
  <2>1. CASE HookReturns(j)
    <3>1. [phase |-> "hooking", at |-> job[j].at + 1] \in [phase : Phases, at : Nat \ {0}]
      BY DEF TypeOK, Phases
    <3>. QED
      BY <2>1, <3>1 DEF HookReturns, TypeOK
  <2>2. CASE HookRejects(j)
    BY <2>2 DEF HookRejects, TypeOK, Phases
  <2>. QED
    BY <1>4, <2>1, <2>2 DEF Settling
<1>5. ASSUME NEW a \in Apps, Listen(a) \/ CallClose(a) \/ Closing(a)
      PROVE  TypeOK'
  <2>1. CASE Listen(a)
    BY <2>1 DEF Listen, TypeOK
  <2>2. CASE CallClose(a)
    BY <1>1, <2>2 DEF CallClose, TypeOK, Phases
  <2>3. CASE Shutdown(a)
    <3>1. job' \in [Jobs -> [phase : Phases, at : Nat \ {0}]]
      BY <1>1, <2>3 DEF Shutdown, TypeOK, Phases
    <3>2. server' \in [Apps -> {"none", "open", "draining", "down"}]
      BY <2>3 DEF Shutdown, TypeOK
    <3>. QED
      BY <2>3, <3>1, <3>2 DEF Shutdown, TypeOK
  <2>4. CASE Closed(a)
    <3>1. job' \in [Jobs -> [phase : Phases, at : Nat \ {0}]]
      BY <1>1, <2>4 DEF Closed, TypeOK, Phases
    <3>2. server' \in [Apps -> {"none", "open", "draining", "down"}]
      BY <2>4 DEF Closed, TypeOK
    <3>. QED
      BY <2>4, <3>1, <3>2 DEF Closed, TypeOK
  <2>. QED
    BY <1>5, <2>1, <2>2, <2>3, <2>4 DEF Closing
<1>6. ASSUME NEW r \in Requests, NEW a \in Apps, Arrive(r, a) \/ Serving(r, a)
      PROVE  TypeOK'
  <2>1. CASE Arrive(r, a)
    BY <2>1 DEF Arrive, TypeOK
  <2>2. CASE RegisterGuard(r, a)
    <3>1. registry' \in Seq(Services)
      BY <2>2, WithGrows, LifecycleAssumption DEF RegisterGuard, Grows
    <3>. QED
      BY <2>2, <3>1 DEF RegisterGuard, TypeOK
  <2>3. CASE Respond(r, a)
    BY <2>3 DEF Respond, TypeOK
  <2>. QED
    BY <1>6, <2>1, <2>2, <2>3 DEF Serving
<1>7. CASE Stopped \/ UNCHANGED vars
  BY <1>7 DEF Stopped, vars, TypeOK
<1>. QED
  BY <1>2, <1>3, <1>4, <1>5, <1>6, <1>7 DEF Next

(* Every step lets the registry grow or leaves it alone.                   *)
LEMMA Growth ==
    ASSUME TypeOK, [Next]_vars
    PROVE  Grows /\ Registered \subseteq Registered'
<1>1. CASE registry' = registry
  BY <1>1 DEF Grows, Registered, TypeOK
<1>2. ASSUME NEW a \in Apps, Register(a)
      PROVE  Grows /\ Registered \subseteq Registered'
  <2>1. Declares[a][job[<<a, "init">>].at] \in Services
    BY <1>2, LifecycleAssumption DEF Register, TypeOK, Jobs
  <2>. QED
    BY <1>2, <2>1, WithGrows DEF Register
<1>3. ASSUME NEW r \in Requests, NEW a \in Apps, RegisterGuard(r, a)
      PROVE  Grows /\ Registered \subseteq Registered'
  BY <1>3, WithGrows, LifecycleAssumption DEF RegisterGuard
<1>4. \/ registry' = registry
      \/ \E a \in Apps : Register(a)
      \/ \E r \in Requests, a \in Apps : RegisterGuard(r, a)
  BY DEF Next, Initialising, CallInit, Bootstrapped, Initialised, Listen,
         CallClose, Closing, Shutdown, Closed, Hooking, PassOver, CallHook,
         Settling, HookReturns, HookRejects, Arrive, Serving, Respond, Stopped,
         vars
<1>. QED
  BY <1>1, <1>2, <1>3, <1>4

(* A step that touches one job leaves what the others have reached.        *)
LEMMA OthersReached ==
    ASSUME TypeOK, Grows, \A j \in Jobs : Reached(j),
           NEW k \in Jobs,
           \A j \in Jobs \ {k} : job'[j] = job[j] /\ called'[j] = called[j],
           Reached(k)'
    PROVE  \A j \in Jobs : Reached(j)'
<1>. SUFFICES ASSUME NEW j \in Jobs, j # k
              PROVE  Reached(j)'
  OBVIOUS
<1>. QED
  BY ReachedKept

(* The three ways in which a job can have reached a place.                 *)
LEMMA HookingReached ==
    ASSUME NEW k \in Jobs, job'[k].phase = "hooking",
           job'[k].at <= Len(registry') + 1,
           called'[k] = Global \cap {registry'[n] : n \in 1 .. (job'[k].at - 1)}
    PROVE  Reached(k)'
BY DEF Reached, Seen

LEMMA WaitingReached ==
    ASSUME NEW k \in Jobs, job'[k].phase = "waiting",
           job'[k].at <= Len(registry'),
           called'[k] = Global \cap {registry'[n] : n \in 1 .. job'[k].at}
    PROVE  Reached(k)'
BY DEF Reached, Seen

LEMMA OverReached ==
    ASSUME NEW k \in Jobs, job'[k].phase \in {"registering", "shutdown", "done", "failed"},
           job'[k].phase = "registering" => called'[k] = {}
    PROVE  Reached(k)'
BY DEF Reached

LEMMA ReachedStep ==
    ASSUME TypeOK, \A j \in Jobs : Reached(j), [Next]_vars
    PROVE  \A j \in Jobs : Reached(j)'
<1>1. \A a \in Apps : <<a, "init">> \in Jobs /\ <<a, "close">> \in Jobs
  BY DEF Jobs
<1>2. Grows
  BY Growth
<1>3. ASSUME job' = job, called' = called
      PROVE  \A j \in Jobs : Reached(j)'
  BY <1>2, <1>3, ReachedKept
<1>4. ASSUME NEW a \in Apps, Initialising(a) \/ CallClose(a) \/ Closing(a)
      PROVE  \A j \in Jobs : Reached(j)'
  <2>. DEFINE i == <<a, "init">>
              c == <<a, "close">>
  <2>1. i \in Jobs /\ c \in Jobs
    BY <1>1
  <2>2. ASSUME NEW k \in Jobs, NEW ph \in {"registering", "done", "shutdown"},
               called' = called, job' = [job EXCEPT ![k].phase = ph],
               ph = "registering" => job[k].phase = "idle"
        PROVE  \A j \in Jobs : Reached(j)'
    <3>1. \A j \in Jobs \ {k} : job'[j] = job[j] /\ called'[j] = called[j]
      BY <2>2 DEF TypeOK
    <3>2. job'[k].phase = ph
      BY <2>2 DEF TypeOK
    <3>3. ph = "registering" => called[k] = {}
      BY <2>2 DEF Reached
    <3>4. Reached(k)'
      BY <2>2, <3>2, <3>3, OverReached
    <3>. QED
      BY <1>2, <3>1, <3>4, OthersReached
  <2>3. ASSUME NEW k \in Jobs, called' = called, job[k].phase \in {"idle", "registering"},
               job'[k] = [phase |-> "hooking", at |-> 1],
               \A j \in Jobs \ {k} : job'[j] = job[j]
        PROVE  \A j \in Jobs : Reached(j)'
    <3>1. Len(registry') \in Nat /\ 1 <= Len(registry') + 1
      BY <1>2 DEF Grows
    <3>2. 1 .. 1 - 1 = {}
      OBVIOUS
    <3>3. called'[k] = {}
      BY <2>3 DEF Reached
    <3>4. {registry'[n] : n \in 1 .. 1 - 1} = {}
      BY <3>2
    <3>5. Reached(k)'
      BY <2>3, <3>1, <3>3, <3>4 DEF Reached, Seen
    <3>. QED
      BY <1>2, <2>3, <3>5, OthersReached
  <2>4. CASE CallInit(a)
    BY <2>1, <2>2, <2>4 DEF CallInit
  <2>5. CASE Register(a)
    <3>1. \A j \in Jobs \ {i} : job'[j] = job[j] /\ called'[j] = called[j]
      BY <2>1, <2>5 DEF Register, TypeOK
    <3>2. job'[i].phase = "registering"
      BY <2>1, <2>5 DEF Register, TypeOK
    <3>3. called'[i] = {}
      BY <2>1, <2>5 DEF Register, Reached
    <3>4. Reached(i)'
      BY <2>1, <3>2, <3>3, OverReached
    <3>. QED
      BY <1>2, <2>1, <3>1, <3>4, OthersReached
  <2>6. CASE Bootstrapped(a)
    BY <2>1, <2>3, <2>6 DEF Bootstrapped, TypeOK
  <2>7. CASE Initialised(a)
    BY <2>1, <2>2, <2>7 DEF Initialised
  <2>8. CASE CallClose(a)
    <3>1. job[c].phase = "idle" /\ job[c].at = 1
      BY <2>1, <2>8 DEF CallClose, Reached
    <3>2. job'[c] = [job[c] EXCEPT !.phase = "hooking"]
      BY <2>1, <2>8 DEF CallClose, TypeOK
    <3>3. job'[c] = [phase |-> "hooking", at |-> 1]
      <4>1. job[c] \in [phase : Phases, at : Nat \ {0}]
        BY <2>1 DEF TypeOK
      <4>. QED
        BY <3>1, <3>2, <4>1
    <3>. QED
      BY <2>1, <2>3, <2>8, <3>1, <3>3 DEF CallClose, TypeOK
  <2>9. CASE Closing(a)
    BY <2>1, <2>2, <2>9 DEF Closing, Shutdown, Closed
  <2>. QED
    BY <1>4, <2>4, <2>5, <2>6, <2>7, <2>8, <2>9 DEF Initialising
<1>5. ASSUME NEW k \in Jobs, Hooking(k) \/ Settling(k)
      PROVE  \A j \in Jobs : Reached(j)'
  <2>1. \A j \in Jobs \ {k} : job'[j] = job[j] /\ called'[j] = called[j]
    BY <1>5 DEF Hooking, Settling, PassOver, CallHook, HookReturns, HookRejects,
                TypeOK
  <2>2. /\ registry' = registry
        /\ registry \in Seq(Services) /\ Len(registry) \in Nat
        /\ job[k].at \in Nat \ {0}
    BY <1>5 DEF Hooking, Settling, PassOver, CallHook, HookReturns, HookRejects,
                TypeOK
  <2>3. \A n \in Nat \ {0} : Seen(n) = Seen(n - 1) \cup {registry[n]}
    BY DEF Seen
  <2>4. Seen(job[k].at) = Seen(job[k].at - 1) \cup {registry[job[k].at]}
    BY <2>2, <2>3
  <2>. SUFFICES Reached(k)'
    BY <1>2, <2>1, OthersReached
  <2>5. CASE PassOver(k)
    <3>1. job'[k].phase = "hooking" /\ job'[k].at = job[k].at + 1
      BY <2>5 DEF PassOver, TypeOK
    <3>2. called'[k] = Global \cap Seen(job[k].at)
      BY <2>4, <2>5 DEF PassOver, Reached
    <3>3. job'[k].at - 1 = job[k].at
      BY <2>2, <3>1
    <3>4. called'[k] = Global \cap {registry'[n] : n \in 1 .. (job'[k].at - 1)}
      BY <2>2, <3>2, <3>3 DEF Seen
    <3>5. job'[k].at <= Len(registry') + 1
      BY <2>2, <2>5, <3>1 DEF PassOver
    <3>. QED
      BY <3>1, <3>4, <3>5, HookingReached
  <2>6. CASE CallHook(k)
    <3>1. job'[k].phase = "waiting" /\ job'[k].at = job[k].at
      BY <2>6 DEF CallHook, TypeOK
    <3>2. called'[k] = called[k] \cup {registry[job[k].at]}
      BY <2>6 DEF CallHook, TypeOK
    <3>3. called'[k] = Global \cap Seen(job[k].at)
      BY <2>4, <2>6, <3>2 DEF CallHook, Reached
    <3>4. called'[k] = Global \cap {registry'[n] : n \in 1 .. job'[k].at}
      BY <2>2, <3>1, <3>3 DEF Seen
    <3>5. job'[k].at <= Len(registry')
      BY <2>2, <2>6, <3>1 DEF CallHook
    <3>. QED
      BY <3>1, <3>4, <3>5, WaitingReached
  <2>7. CASE HookReturns(k)
    <3>1. job'[k].phase = "hooking" /\ job'[k].at = job[k].at + 1
      BY <2>7 DEF HookReturns, TypeOK
    <3>2. called'[k] = Global \cap Seen(job[k].at) /\ job[k].at <= Len(registry)
      BY <2>7 DEF HookReturns, Reached
    <3>3. job'[k].at - 1 = job[k].at
      BY <2>2, <3>1
    <3>4. called'[k] = Global \cap {registry'[n] : n \in 1 .. (job'[k].at - 1)}
      BY <2>2, <3>2, <3>3 DEF Seen
    <3>5. job'[k].at <= Len(registry') + 1
      BY <2>2, <3>1, <3>2
    <3>. QED
      BY <3>1, <3>4, <3>5, HookingReached
  <2>8. CASE HookRejects(k)
    <3>1. job'[k].phase = "failed"
      BY <2>8 DEF HookRejects, TypeOK
    <3>. QED
      BY <3>1, OverReached
  <2>. QED
    BY <1>5, <2>5, <2>6, <2>7, <2>8 DEF Hooking, Settling
<1>6. \/ job' = job /\ called' = called
      \/ \E a \in Apps : Initialising(a) \/ CallClose(a) \/ Closing(a)
      \/ \E j \in Jobs : Hooking(j) \/ Settling(j)
  BY DEF Next, Listen, Arrive, Serving, RegisterGuard, Respond, Stopped, vars
<1>. QED
  BY <1>3, <1>4, <1>5, <1>6

(* What a step of the executor touches.                                    *)
LEMMA HookStep ==
    ASSUME TypeOK, NEW k \in Jobs, Hooking(k) \/ Settling(k)
    PROVE  /\ server' = server
           /\ \A j \in Jobs \ {k} : job'[j] = job[j]
           /\ \A j \in Jobs : called[j] \subseteq called'[j]
           /\ job[k].phase \in {"hooking", "waiting"}
           /\ job'[k].phase \in {"hooking", "waiting", "failed"}
<1>1. CASE PassOver(k)
  BY <1>1 DEF PassOver, TypeOK
<1>2. CASE CallHook(k)
  BY <1>2 DEF CallHook, TypeOK
<1>3. CASE HookReturns(k)
  BY <1>3 DEF HookReturns, TypeOK
<1>4. CASE HookRejects(k)
  BY <1>4 DEF HookRejects, TypeOK
<1>. QED
  BY <1>1, <1>2, <1>3, <1>4 DEF Hooking, Settling

(* init registers what it is to register, and nothing is taken away.       *)
LEMMA PreparedStep ==
    ASSUME IInv, [Next]_vars, NEW a \in Apps
    PROVE  Prepared(a)'
<1>. DEFINE i == <<a, "init">>
<1>1. i \in Jobs /\ TypeOK /\ Prepared(a) /\ Reached(i)
  BY DEF Jobs, IInv
<1>2. Registered \subseteq Registered'
  BY <1>1, Growth
<1>3. CASE job'[i] = job[i]
  <2>1. \A n \in DOMAIN Declares[a] : Declares[a][n] \in Registered => Declares[a][n] \in Registered'
    BY <1>2
  <2>2. Declared(a) \subseteq Registered => Declared(a) \subseteq Registered'
    BY <1>2
  <2>. QED
    BY <1>1, <1>3, <2>1, <2>2 DEF Prepared
<1>4. CASE Register(a)
  <2>1. Declares[a] \in Seq(Services)
    BY LifecycleAssumption
  <2>2. job[i].at \in Nat \ {0}
    BY <1>1 DEF TypeOK
  <2>3. Declares[a][job[i].at] \in Services
    BY <1>4, <2>1, <2>2 DEF Register
  <2>4. Declares[a][job[i].at] \in Registered'
    BY <1>1, <1>4, <2>3, WithGrows DEF Register
  <2>5. job'[i].at = job[i].at + 1 /\ job'[i].phase = "registering" /\ job[i].phase = "registering"
    BY <1>1, <1>4 DEF Register, TypeOK
  <2>6. \A n \in DOMAIN Declares[a] : n < job[i].at => Declares[a][n] \in Registered'
    BY <1>1, <1>2, <2>5 DEF Prepared
  <2>7. \A n \in DOMAIN Declares[a] : n < job'[i].at => n < job[i].at \/ n = job[i].at
    BY <2>1, <2>2, <2>5
  <2>8. \A n \in DOMAIN Declares[a] : n < job'[i].at => Declares[a][n] \in Registered'
    BY <2>4, <2>6, <2>7
  <2>. QED
    BY <2>5, <2>8 DEF Prepared
<1>5. CASE CallInit(a)
  <2>1. job'[i].phase = "registering" /\ job'[i].at = job[i].at
    BY <1>1, <1>5 DEF CallInit, TypeOK
  <2>2. job[i].at = 1
    BY <1>1, <1>5 DEF CallInit, Reached
  <2>3. \A n \in DOMAIN Declares[a] : ~ (n < 1)
    BY LifecycleAssumption
  <2>. QED
    BY <2>1, <2>2, <2>3 DEF Prepared
<1>6. CASE Bootstrapped(a)
  <2>1. Declares[a] \in Seq(Services)
    BY LifecycleAssumption
  <2>2. job[i].at \in Nat \ {0}
    BY <1>1 DEF TypeOK
  <2>3. \A n \in DOMAIN Declares[a] : n < job[i].at
    BY <1>6, <2>1, <2>2 DEF Bootstrapped
  <2>4. Declared(a) \subseteq Registered
    BY <1>1, <1>6, <2>3 DEF Bootstrapped, Prepared, Declared
  <2>5. job'[i].phase = "hooking"
    BY <1>1, <1>6 DEF Bootstrapped, TypeOK
  <2>. QED
    BY <1>2, <2>4, <2>5 DEF Prepared
<1>7. CASE /\ job[i].phase \notin {"idle", "registering"}
           /\ job'[i].phase \notin {"idle", "registering"}
  <2>1. Declared(a) \subseteq Registered'
    BY <1>1, <1>2, <1>7 DEF Prepared
  <2>. QED
    BY <1>7, <2>1 DEF Prepared
<1>8. ASSUME NEW b \in Apps, Initialising(b)
      PROVE  Prepared(a)'
  <2>1. CASE b # a
    <3>1. <<b, "init">> # i
      BY <2>1
    <3>2. job'[i] = job[i]
      BY <1>1, <1>8, <3>1 DEF Initialising, CallInit, Register, Bootstrapped,
                              Initialised, TypeOK
    <3>. QED
      BY <1>3, <3>2
  <2>2. CASE b = a /\ Initialised(a)
    <3>1. job[i].phase = "hooking" /\ job'[i].phase = "done"
      BY <1>1, <2>2 DEF Initialised, TypeOK
    <3>. QED
      BY <1>7, <3>1
  <2>. QED
    BY <1>4, <1>5, <1>6, <1>8, <2>1, <2>2 DEF Initialising
<1>9. ASSUME NEW b \in Apps, CallClose(b) \/ Closing(b)
      PROVE  Prepared(a)'
  <2>1. <<b, "close">> # i
    OBVIOUS
  <2>2. job'[i] = job[i]
    BY <1>1, <1>9, <2>1 DEF CallClose, Closing, Shutdown, Closed, TypeOK
  <2>. QED
    BY <1>3, <2>2
<1>10. ASSUME NEW k \in Jobs, Hooking(k) \/ Settling(k)
       PROVE  Prepared(a)'
  <2>1. CASE k # i
    <3>1. job'[i] = job[i]
      BY <1>1, <1>10, <2>1, HookStep
    <3>. QED
      BY <1>3, <3>1
  <2>2. CASE k = i
    <3>1. /\ job[i].phase \in {"hooking", "waiting"}
          /\ job'[i].phase \in {"hooking", "waiting", "failed"}
      BY <1>1, <1>10, <2>2, HookStep
    <3>. QED
      BY <1>7, <3>1
  <2>. QED
    BY <2>1, <2>2
<1>11. \/ job' = job
       \/ \E b \in Apps : Initialising(b) \/ CallClose(b) \/ Closing(b)
       \/ \E k \in Jobs : Hooking(k) \/ Settling(k)
  BY DEF Next, Listen, Arrive, Serving, RegisterGuard, Respond, Stopped, vars
<1>. QED
  BY <1>3, <1>8, <1>9, <1>10, <1>11

(* The end of a server: only its own init, listen and close touch what     *)
(* Ordered says of it, and hooks only add to what has been called.         *)
LEMMA OrderedStep ==
    ASSUME IInv, [Next]_vars, NEW a \in Apps
    PROVE  Ordered(a)'
<1>. DEFINE i == <<a, "init">>
            c == <<a, "close">>
<1>1. i \in Jobs /\ c \in Jobs /\ i # c
  BY DEF Jobs
<1>2. TypeOK /\ Ordered(a) /\ Prepared(a) /\ Reached(c)
  BY <1>1 DEF IInv
<1>3. ASSUME job'[i].phase = job[i].phase \/ job'[i].phase = "done" \/ job[i].phase # "done",
             job'[c].phase = job[c].phase
                \/ /\ job[c].phase \in {"idle", "hooking", "waiting"}
                   /\ job'[c].phase \in {"hooking", "waiting", "failed"},
             server' = server, called[c] \subseteq called'[c]
      PROVE  Ordered(a)'
  <2>1. server'[a] # "none" => job'[i].phase = "done"
    BY <1>2, <1>3 DEF Ordered
  <2>2. /\ job'[c].phase # "registering"
        /\ job'[c].phase = "shutdown" => server'[a] \in {"none", "draining"}
        /\ job'[c].phase = "done" => server'[a] \in {"none", "down"}
        /\ job'[c].phase \notin {"shutdown", "done"} => server'[a] \in {"none", "open"}
    BY <1>2, <1>3 DEF Ordered
  <2>3. server'[a] \in {"draining", "down"} => Declared(a) \cap Global \subseteq called'[c]
    BY <1>2, <1>3 DEF Ordered
  <2>. QED
    BY <2>1, <2>2, <2>3 DEF Ordered
<1>4. ASSUME NEW b \in Apps, Initialising(b)
      PROVE  Ordered(a)'
  <2>1. job'[c] = job[c] /\ server' = server /\ called' = called
    BY <1>1, <1>2, <1>4 DEF Initialising, CallInit, Register, Bootstrapped,
                            Initialised, TypeOK
  <2>2. job[i].phase # "done" \/ job'[i].phase = job[i].phase
    BY <1>1, <1>2, <1>4 DEF Initialising, CallInit, Register, Bootstrapped,
                            Initialised, TypeOK
  <2>. QED
    BY <1>3, <2>1, <2>2
<1>5. ASSUME NEW k \in Jobs, Hooking(k) \/ Settling(k)
      PROVE  Ordered(a)'
  <2>1. server' = server /\ called[c] \subseteq called'[c]
    BY <1>1, <1>2, <1>5, HookStep
  <2>2. job'[c].phase = job[c].phase
          \/ /\ job[c].phase \in {"idle", "hooking", "waiting"}
             /\ job'[c].phase \in {"hooking", "waiting", "failed"}
    BY <1>1, <1>2, <1>5, HookStep
  <2>3. job[i].phase # "done" \/ job'[i].phase = job[i].phase
    BY <1>1, <1>2, <1>5, HookStep
  <2>. QED
    BY <1>3, <2>1, <2>2, <2>3
<1>6. ASSUME job'[i].phase = job[i].phase, job'[c].phase = job[c].phase,
             server'[a] = server[a], called'[c] = called[c]
      PROVE  Ordered(a)'
  BY <1>2, <1>6 DEF Ordered
<1>7. ASSUME NEW b \in Apps, Listen(b) \/ CallClose(b) \/ Closing(b), b # a
      PROVE  Ordered(a)'
  <2>1. <<b, "close">> # i /\ <<b, "close">> # c
    BY <1>7
  <2>2. /\ job'[i] = job[i] /\ job'[c] = job[c]
        /\ server'[a] = server[a] /\ called' = called
    BY <1>1, <1>2, <1>7, <2>1 DEF Listen, CallClose, Closing, Shutdown, Closed,
                                  TypeOK
  <2>. QED
    BY <1>6, <2>2
<1>8. CASE Listen(a)
  <2>1. /\ job' = job /\ called' = called /\ server'[a] = "open"
        /\ job[i].phase = "done" /\ job[c].phase = "idle"
    BY <1>2, <1>8 DEF Listen, TypeOK
  <2>. QED
    BY <2>1 DEF Ordered
<1>9. CASE CallClose(a)
  <2>1. /\ job'[i] = job[i] /\ job[c].phase = "idle" /\ job'[c].phase = "hooking"
        /\ server' = server /\ called' = called
    BY <1>1, <1>2, <1>9 DEF CallClose, TypeOK
  <2>. QED
    BY <1>3, <2>1
<1>10. CASE Shutdown(a)
  <2>1. /\ job'[i] = job[i] /\ job[c].phase = "hooking" /\ job'[c].phase = "shutdown"
        /\ called' = called /\ job[c].at > Len(registry)
    BY <1>1, <1>2, <1>10 DEF Shutdown, TypeOK
  <2>2. server'[a] = IF server[a] = "open" THEN "draining" ELSE server[a]
    BY <1>2, <1>10 DEF Shutdown, TypeOK
  <2>3. server[a] \in {"none", "open"}
    BY <1>2, <2>1 DEF Ordered
  <2>4. called[c] = Global \cap Registered
    <3>1. /\ Len(registry) \in Nat /\ job[c].at \in Nat
          /\ job[c].at <= Len(registry) + 1
      BY <1>1, <1>2, <2>1 DEF TypeOK, Reached
    <3>2. job[c].at - 1 = Len(registry)
      BY <2>1, <3>1
    <3>3. called[c] = Global \cap Seen(Len(registry))
      BY <1>2, <2>1, <3>2 DEF Reached
    <3>4. DOMAIN registry = 1 .. Len(registry)
      BY <1>2 DEF TypeOK
    <3>. QED
      BY <3>3, <3>4 DEF Seen, Registered
  <2>5. server[a] # "none" => Declared(a) \subseteq Registered
    BY <1>2 DEF Ordered, Prepared
  <2>6. server'[a] # "none" => job'[i].phase = "done" /\ Declared(a) \cap Global \subseteq called'[c]
    BY <1>2, <2>1, <2>2, <2>4, <2>5 DEF Ordered
  <2>7. server'[a] \in {"none", "draining"}
    BY <2>2, <2>3
  <2>. QED
    BY <2>1, <2>6, <2>7 DEF Ordered
<1>11. CASE Closed(a)
  <2>1. /\ job'[i] = job[i] /\ job[c].phase = "shutdown" /\ job'[c].phase = "done"
        /\ called' = called
    BY <1>1, <1>2, <1>11 DEF Closed, TypeOK
  <2>2. server'[a] = IF server[a] = "draining" THEN "down" ELSE server[a]
    BY <1>2, <1>11 DEF Closed, TypeOK
  <2>3. server[a] \in {"none", "draining"}
    BY <1>2, <2>1 DEF Ordered
  <2>. QED
    BY <1>2, <2>1, <2>2, <2>3 DEF Ordered
<1>12. \/ UNCHANGED <<job, server, called>>
       \/ \E b \in Apps : Initialising(b)
       \/ \E b \in Apps : Listen(b) \/ CallClose(b) \/ Closing(b)
       \/ \E k \in Jobs : Hooking(k) \/ Settling(k)
  <2>1. [Next]_vars
    BY DEF IInv
  <2>. QED
    BY <2>1 DEF Next, Arrive, Serving, RegisterGuard, Respond, Stopped, vars
<1>. QED
  BY <1>4, <1>5, <1>6, <1>7, <1>8, <1>9, <1>10, <1>11, <1>12 DEF Closing

(* Requests are only in flight at a server that is up or draining.         *)
LEMMA AcceptedStep ==
    ASSUME IInv, [Next]_vars
    PROVE  Accepted'
<1>. SUFFICES ASSUME NEW a \in Apps, InFlight(a)' # {}
              PROVE  server'[a] \in {"open", "draining"}
  BY DEF Accepted
<1>1. TypeOK /\ Accepted
  BY DEF IInv
<1>2. CASE server' = server /\ InFlight(a)' \subseteq InFlight(a)
  BY <1>1, <1>2 DEF Accepted
<1>3. ASSUME NEW b \in Apps, Listen(b) \/ Closing(b)
      PROVE  server'[a] \in {"open", "draining"}
  <2>1. InFlight(a)' = InFlight(a)
    BY <1>3 DEF Listen, Closing, Shutdown, Closed, InFlight
  <2>2. server[a] \in {"open", "draining"}
    BY <1>1, <2>1 DEF Accepted
  <2>3. CASE b # a
    BY <1>1, <1>3, <2>2, <2>3 DEF Listen, Closing, Shutdown, Closed, TypeOK
  <2>4. CASE b = a /\ (Listen(a) \/ Shutdown(a))
    BY <1>1, <2>2, <2>4 DEF Listen, Shutdown, TypeOK
  <2>5. CASE b = a /\ Closed(a)
    <3>1. server[a] # "draining"
      BY <2>1, <2>5 DEF Closed
    <3>. QED
      BY <1>1, <2>2, <2>5, <3>1 DEF Closed, TypeOK
  <2>. QED
    BY <1>3, <2>3, <2>4, <2>5 DEF Closing
<1>4. ASSUME NEW r \in Requests, NEW b \in Apps, Arrive(r, b)
      PROVE  server'[a] \in {"open", "draining"}
  <2>1. server' = server /\ server[b] = "open"
    BY <1>4 DEF Arrive
  <2>2. CASE b = a
    BY <2>1, <2>2
  <2>3. CASE b # a
    <3>1. request' = [request EXCEPT ![r] = <<"guarded", b>>]
      BY <1>4 DEF Arrive
    <3>2. InFlight(a)' \subseteq InFlight(a)
      BY <1>1, <2>3, <3>1 DEF InFlight, TypeOK
    <3>. QED
      BY <1>2, <2>1, <3>2
  <2>. QED
    BY <2>2, <2>3
<1>5. ASSUME NEW r \in Requests, NEW b \in Apps, Serving(r, b)
      PROVE  server'[a] \in {"open", "draining"}
  <2>1. server' = server
    BY <1>5 DEF Serving, RegisterGuard, Respond
  <2>2. CASE RegisterGuard(r, b)
    <3>1. /\ request' = [request EXCEPT ![r] = <<"served", b>>]
          /\ request[r] = <<"guarded", b>>
      BY <2>2 DEF RegisterGuard
    <3>2. InFlight(a)' \subseteq InFlight(a)
      BY <1>1, <3>1 DEF InFlight, TypeOK
    <3>. QED
      BY <1>2, <2>1, <3>2
  <2>3. CASE Respond(r, b)
    <3>1. request' = [request EXCEPT ![r] = <<"answered">>]
      BY <2>3 DEF Respond
    <3>2. InFlight(a)' \subseteq InFlight(a)
      BY <1>1, <3>1 DEF InFlight, TypeOK
    <3>. QED
      BY <1>2, <2>1, <3>2
  <2>. QED
    BY <1>5, <2>2, <2>3 DEF Serving
<1>6. \/ UNCHANGED <<server, request>>
      \/ \E b \in Apps : Listen(b) \/ Closing(b)
      \/ \E r \in Requests, b \in Apps : Arrive(r, b) \/ Serving(r, b)
  BY DEF Next, Initialising, CallInit, Register, Bootstrapped, Initialised,
         CallClose, Hooking, PassOver, CallHook, Settling, HookReturns,
         HookRejects, Stopped, vars
<1>7. CASE UNCHANGED <<server, request>>
  BY <1>2, <1>7 DEF InFlight
<1>. QED
  BY <1>3, <1>4, <1>5, <1>6, <1>7

-----------------------------------------------------------------------------
(* Every step keeps the invariant.                                         *)
LEMMA Inductive == IInv /\ [Next]_vars => IInv'
<1>. SUFFICES ASSUME IInv, [Next]_vars PROVE IInv'
  OBVIOUS
<1>1. TypeOK'
  BY TypeStep DEF IInv
<1>2. \A j \in Jobs : Reached(j)'
  BY ReachedStep DEF IInv
<1>3. \A a \in Apps : Prepared(a)' /\ Ordered(a)'
  BY PreparedStep, OrderedStep
<1>4. Accepted'
  BY AcceptedStep
<1>. QED
  BY <1>1, <1>2, <1>3, <1>4 DEF IInv

(* The invariant holds of every state.                                     *)
THEOREM Invariance == Spec => []IInv
BY InitInv, Inductive, PTL DEF Spec

(* For any number of applications that share the injector, and though      *)
(* hooks may reject: no server is shut down before every service that its  *)
(* application declares has been told to close by this very close.         *)
THEOREM ServicesStopFirst == Spec => []StoppedBeforeTheServer
<1>1. IInv => StoppedBeforeTheServer
  BY DEF IInv, Ordered, StoppedBeforeTheServer
<1>. QED
  BY <1>1, Invariance, PTL

(* When close resolves, the server of its application is down, if it had   *)
(* one, and none of its requests is in flight.                             *)
THEOREM CloseIsQuiet == Spec => []ClosedIsQuiet
<1>1. IInv => ClosedIsQuiet
  BY DEF IInv, Ordered, Accepted, ClosedIsQuiet
<1>. QED
  BY <1>1, Invariance, PTL

(* A loop over the hooks that is not rejected reaches everything that the  *)
(* injector holds when it ends, whoever has added it.                      *)
THEOREM HooksReachAll == Spec => RunsReachAll
<1>. DEFINE All == \A j \in Jobs :
                     /\ job[j].phase = "hooking"
                     /\ job'[j].phase \in {"shutdown", "done"}
                     => called[j] = Global \cap Registered
<1>1. ASSUME IInv, [Next]_vars, NEW j \in Jobs, job[j].phase = "hooking",
             job'[j].phase \in {"shutdown", "done"}
      PROVE  called[j] = Global \cap Registered
  <2>1. TypeOK /\ Reached(j)
    BY <1>1 DEF IInv
  <2>2. job[j].at > Len(registry)
    <3>1. ASSUME NEW k \in Jobs, Hooking(k) \/ Settling(k)
          PROVE  FALSE
      BY <1>1, <2>1, <3>1, HookStep
    <3>2. ASSUME NEW a \in Apps, CallInit(a) \/ Register(a) \/ Bootstrapped(a)
          PROVE  FALSE
      BY <1>1, <2>1, <3>2 DEF CallInit, Register, Bootstrapped, TypeOK, Jobs
    <3>3. ASSUME NEW a \in Apps, CallClose(a) \/ Closed(a)
          PROVE  FALSE
      BY <1>1, <2>1, <3>3 DEF CallClose, Closed, TypeOK, Jobs
    <3>4. ASSUME NEW a \in Apps, Initialised(a) \/ Shutdown(a)
          PROVE  job[j].at > Len(registry)
      BY <1>1, <2>1, <3>4 DEF Initialised, Shutdown, TypeOK, Jobs
    <3>5. job' # job
      BY <1>1
    <3>. QED
      BY <1>1, <3>1, <3>2, <3>3, <3>4, <3>5
         DEF Next, Initialising, Closing, Listen, Arrive, Serving,
             RegisterGuard, Respond, Stopped, vars
  <2>3. /\ Len(registry) \in Nat /\ job[j].at \in Nat
        /\ job[j].at <= Len(registry) + 1
    BY <1>1, <2>1 DEF TypeOK, Reached
  <2>4. job[j].at - 1 = Len(registry)
    BY <2>2, <2>3
  <2>5. called[j] = Global \cap Seen(Len(registry))
    BY <1>1, <2>1, <2>4 DEF Reached
  <2>6. DOMAIN registry = 1 .. Len(registry)
    BY <2>1 DEF TypeOK
  <2>. QED
    BY <2>5, <2>6 DEF Seen, Registered
<1>2. IInv /\ [Next]_vars => [All]_vars
  BY <1>1
<1>. QED
  BY <1>2, Invariance, PTL DEF Spec, RunsReachAll

=============================================================================
