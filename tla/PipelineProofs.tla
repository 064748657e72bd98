--------------------------- MODULE PipelineProofs ---------------------------
(***************************************************************************)
(* One request through any number of middlewares, guards and filters, and  *)
(* the stream it may end in: OncePerRequest, MethodIsGuarded,              *)
(* AnswerIsTheLast, FiltersInOrder and EventsInOrder.  The first three     *)
(* rest on one fact: `index' counts the positions that have been entered,  *)
(* and each of them was entered by the one before it.                      *)
(***************************************************************************)
EXTENDS ServerSentEvents, SequenceTheorems, TLAPS

(* The positions that have been entered: dispatch was called up to index.  *)
Entered(p) ==
    \/ p = First
    \/ p \in Middlewares /\ p <= index + 1
    \/ p = Route /\ index = setup.middlewares

Ended(p) == status[p] = "idle" \/ Settled(p)

(* A middleware that is not a singleton throws when it is entered.         *)
ChainInv ==
    /\ index \in -1 .. setup.middlewares
    /\ status[First] = "running" => index = -1
    /\ status[First] = "waiting" => index # -1
    /\ status[First] \notin {"idle", "threw"}
    /\ status[Route] \notin {"waiting", "threw"}
    /\ \A p \in Middlewares : status[p] # "handling"
    /\ \A p \in Positions : Entered(p) <=> status[p] # "idle"
    /\ \A p \in Positions : status[p] = "threw" => failure[p] \in Errors
    /\ \A p \in Middlewares \cap setup.scopedMiddlewares :
         Entered(p) => status[p] = "threw" /\ index < p
    /\ runs = [p \in Positions |->
                IF p # First /\ Entered(p) /\ p \notin setup.scopedMiddlewares
                THEN 1 ELSE 0]

(* The stages behind handleRoute: the guards' answers and the call.        *)
RouteInv ==
    /\ stage > 1 => status[Route] # "idle"
    /\ calls = IF stage > Call THEN 1 ELSE 0
    /\ \A g \in setup.guards : g < stage => g \in allowed

(* A position that has left its part of the request leaves nothing behind. *)
Left(p) == Settled(p) \/ (p = First /\ status[p] = "handling")
OrderInv ==
    ~ floated => \A p, q \in Positions : Left(p) /\ p < q => Ended(q)

AnswerInv ==
    /\ handling[First] # None => status[First] \in {"handling", "returned"}
    /\ ~ floated =>
         /\ handling[First] # None /\ status[First] = "returned" =>
              res.by = First /\ res.kind # "empty"
         /\ sent # None => status[First] = "returned" /\ sent = res
    /\ handling[First] = None /\ status[Route] = "returned" => res.by = Route
    /\ handling[First] = None /\ status[Route] # "returned" => res.kind = "empty"

HandlersInv == \A h \in Handlers : status[h] = "handling" => handling[h] # None

(* A stream begins when handleRoute has ended, with its listener attached. *)
StreamInv ==
    /\ dispatched \in Nat /\ before \in Nat /\ before <= dispatched
    /\ writing \in Seq(Nat) /\ written \in Seq(Nat)
    /\ stream # "none" => status[Route] = "returned"
    /\ stream = "none" => ~ listening /\ writing = <<>> /\ written = <<>>
    /\ stream = "open" => listening

RouteEnded == status[Route] = "returned"

PipelineInv ==
    /\ TypeOK /\ ChainInv /\ RouteInv /\ OrderInv /\ AnswerInv /\ HandlersInv
    /\ FiltersInOrder

-----------------------------------------------------------------------------
LEMMA Ranges ==
    ASSUME TypeOK
    PROVE  /\ MaxMiddlewares \in Nat /\ setup.middlewares \in Nat
           /\ setup.middlewares <= MaxMiddlewares
           /\ setup.guards \subseteq 1 .. 3
           /\ setup.filters \in Seq(Filter)
BY SetupsAssumption, ErrorsAssumption DEF TypeOK, Setup, Guards

(* dispatch: a position that may call next() enters the one that follows   *)
(* it, which nobody has entered before.                                    *)
LEMMA DispatchEnters ==
    ASSUME TypeOK, ChainInv, NEW p \in {First} \cup Middlewares,
           NEW caller, status[p] = "running", Fresh(p),
           Dispatch(p, caller), setup' = setup
    PROVE  LET c == Callee(p) IN
           /\ p = index + 1 /\ index' = p
           /\ p \in Positions /\ c \in Positions /\ p < c /\ c # First
           /\ c \in Middlewares => c = p + 1
           /\ c \notin Middlewares => c = Route /\ p = setup.middlewares
           /\ status[c] = "idle" /\ ~ Entered(c)
           /\ \A q \in Positions : Entered(q)' <=> (Entered(q) \/ q = c)
           /\ status' = [status EXCEPT ![p] = caller, ![c] =
                IF c \in setup.scopedMiddlewares THEN "threw" ELSE "running"]
           /\ failure' = IF c \in setup.scopedMiddlewares
                         THEN [failure EXCEPT ![c] = Internal] ELSE failure
           /\ runs' = IF c \in setup.scopedMiddlewares THEN runs
                      ELSE [runs EXCEPT ![c] = @ + 1]
<1> USE DEF First, Route, Positions, Middlewares
<1> DEFINE c == Callee(p)
<1>0. /\ MaxMiddlewares \in Nat /\ setup.middlewares \in Nat
      /\ setup.middlewares <= MaxMiddlewares
  BY Ranges
<1>1. p \in Positions /\ index \in -1 .. setup.middlewares
  BY <1>0 DEF ChainInv
<1>2. p = index + 1
  <2>1. CASE p = First
    BY <1>1, <2>1 DEF ChainInv
  <2>2. CASE p \in Middlewares
    <3>1. Entered(p)
      BY <1>1 DEF ChainInv
    <3> QED
      BY <1>0, <1>1, <2>2, <3>1 DEF Entered, Fresh
  <2> QED
    BY <2>1, <2>2
<1>3. /\ c \in Positions /\ p < c /\ c # First
      /\ c \in Middlewares => c = p + 1
      /\ c \notin Middlewares => c = Route /\ p = setup.middlewares
  BY <1>0, <1>1, <1>2 DEF Callee
<1>4. ~ Entered(c)
  BY <1>0, <1>1, <1>2, <1>3 DEF Entered
<1>5. status[c] = "idle"
  BY <1>3, <1>4 DEF ChainInv
<1>6. index' = p
  BY DEF Dispatch
<1>7. \A q \in Positions : Entered(q)' <=> (Entered(q) \/ q = c)
  BY <1>0, <1>1, <1>2, <1>3, <1>6 DEF Entered
<1>8. /\ status' = [status EXCEPT ![p] = caller, ![c] =
           IF c \in setup.scopedMiddlewares THEN "threw" ELSE "running"]
      /\ failure' = IF c \in setup.scopedMiddlewares
                    THEN [failure EXCEPT ![c] = Internal] ELSE failure
      /\ runs' = IF c \in setup.scopedMiddlewares THEN runs
                 ELSE [runs EXCEPT ![c] = @ + 1]
  <2>1. CASE c \in setup.scopedMiddlewares
    BY <2>1 DEF Dispatch
  <2>2. CASE c \notin setup.scopedMiddlewares
    BY <2>2 DEF Dispatch
  <2> QED
    BY <2>1, <2>2
<1> QED
  BY <1>1, <1>2, <1>3, <1>4, <1>5, <1>6, <1>7, <1>8

LEMMA DispatchHolds ==
    ASSUME TypeOK, ChainInv, NEW p \in {First} \cup Middlewares,
           NEW caller \in {"running", "waiting"}, status[p] = "running",
           Fresh(p), p = First => caller = "waiting",
           Dispatch(p, caller), setup' = setup
    PROVE  /\ ChainInv'
           /\ status' \in [Positions -> {"idle", "running", "waiting",
                                         "handling", "returned", "threw"}]
           /\ failure' \in [Positions -> Errors \cup {None}]
           /\ index' \in -1 .. MaxMiddlewares
<1> DEFINE c == Callee(p)
           scoped == c \in setup.scopedMiddlewares
<1>0. /\ MaxMiddlewares \in Nat /\ setup.middlewares \in Nat
      /\ setup.middlewares <= MaxMiddlewares
  BY Ranges
<1>1. /\ p = index + 1 /\ index' = p
      /\ p \in Positions /\ c \in Positions /\ p < c /\ c # First
      /\ c \in Middlewares => c = p + 1
      /\ c \notin Middlewares => c = Route /\ p = setup.middlewares
      /\ status[c] = "idle" /\ ~ Entered(c)
      /\ \A q \in Positions : Entered(q)' <=> (Entered(q) \/ q = c)
      /\ status' = [status EXCEPT ![p] = caller, ![c] =
           IF scoped THEN "threw" ELSE "running"]
      /\ failure' = IF scoped THEN [failure EXCEPT ![c] = Internal] ELSE failure
      /\ runs' = IF scoped THEN runs ELSE [runs EXCEPT ![c] = @ + 1]
  BY DispatchEnters
<1>2. /\ status'[p] = caller
      /\ status'[c] = IF scoped THEN "threw" ELSE "running"
      /\ \A q \in Positions : q # p /\ q # c => status'[q] = status[q]
      /\ status' \in [Positions -> {"idle", "running", "waiting",
                                    "handling", "returned", "threw"}]
  BY <1>1 DEF TypeOK
<1>3. /\ failure' \in [Positions -> Errors \cup {None}]
      /\ scoped => failure'[c] \in Errors
      /\ \A q \in Positions : q # c => failure'[q] = failure[q]
  BY <1>1 DEF TypeOK, Errors
<1>4. scoped => c \in Middlewares
  BY <1>0, SetupsAssumption, <1>1 DEF TypeOK, Setup, Route, Middlewares
<1> HIDE DEF c, scoped
<1>5. \A q \in Positions : Entered(q)' <=> status'[q] # "idle"
  <2>1. \A q \in Positions : Entered(q) <=> status[q] # "idle"
    BY DEF ChainInv
  <2> QED
    BY <1>1, <1>2, <2>1
<1>6. \A q \in Positions : status'[q] = "threw" => failure'[q] \in Errors
  <2>1. \A q \in Positions : status[q] = "threw" => failure[q] \in Errors
    BY DEF ChainInv
  <2> QED
    BY <1>1, <1>2, <1>3, <2>1
<1>7. ASSUME NEW q \in Middlewares \cap setup.scopedMiddlewares, Entered(q)'
      PROVE  status'[q] = "threw" /\ index' < q
  <2>1. q \in Positions /\ q # First
    BY <1>0 DEF Middlewares, Positions, First, Route
  <2>2. CASE q = c
    BY <1>1, <1>2, <2>2 DEF scoped
  <2>3. CASE q # c
    <3>1. Entered(q)
      BY <1>1, <1>7, <2>1, <2>3
    <3>2. status[q] = "threw" /\ index < q
      BY <3>1 DEF ChainInv
    <3>3. q # p
      BY <3>2
    <3> QED
      BY <1>0, <1>1, <1>2, <2>1, <2>3, <3>2, <3>3 DEF ChainInv, Middlewares
  <2> QED
    BY <2>2, <2>3
<1>8. ASSUME NEW q \in Positions
      PROVE  runs'[q] = IF q # First /\ Entered(q)' /\ q \notin setup.scopedMiddlewares
                        THEN 1 ELSE 0
  <2>1. /\ runs \in [Positions -> {0, 1}]
        /\ \A x \in Positions :
             runs[x] = IF x # First /\ Entered(x) /\ x \notin setup.scopedMiddlewares
                       THEN 1 ELSE 0
    BY DEF ChainInv
  <2>2. /\ scoped => runs' = runs
        /\ ~ scoped => /\ runs'[c] = runs[c] + 1
                       /\ \A x \in Positions \ {c} : runs'[x] = runs[x]
    BY <1>1, <2>1
  <2>3. CASE q = c
    <3>1. runs[q] = 0 /\ Entered(q)'
      BY <1>1, <2>1, <2>3
    <3> QED
      BY <1>1, <2>2, <2>3, <3>1 DEF scoped
  <2>4. CASE q # c
    <3>1. runs'[q] = runs[q] /\ (Entered(q)' <=> Entered(q))
      BY <1>1, <2>2, <2>4
    <3> QED
      BY <2>1, <3>1
  <2> QED
    BY <2>3, <2>4
<1>10. runs' = [q \in Positions |->
                 IF q # First /\ Entered(q)' /\ q \notin setup.scopedMiddlewares
                 THEN 1 ELSE 0]
  <2>1. runs' = [q \in Positions |-> runs'[q]]
    BY <1>1 DEF ChainInv
  <2> QED
    BY <1>8, <2>1
<1>9. /\ index' \in -1 .. setup.middlewares /\ index' # -1
      /\ status'[First] \notin {"idle", "threw", "running"}
      /\ status'[Route] \notin {"waiting", "threw"}
      /\ \A q \in Middlewares : status'[q] # "handling"
  BY <1>0, <1>1, <1>2, <1>4
  DEF ChainInv, Middlewares, Positions, First, Route
<1> QED
  BY <1>0, <1>2, <1>3, <1>5, <1>6, <1>7, <1>9, <1>10 DEF ChainInv, Middlewares

(* What handleError's steps change.                                        *)
LEMMA HandleGives ==
    ASSUME TypeOK, NEW h \in Handlers, NEW e \in Errors, Handle(h, e)
    PROVE  /\ status' \in [Positions -> {"idle", "running", "waiting",
                                         "handling", "returned", "threw"}]
           /\ status'[h] = "handling"
           /\ \A q \in Positions : q # h => status'[q] = status[q]
           /\ handling' \in [Handlers -> [error : Errors, at : Nat] \cup {None}]
           /\ handling'[h] # None
           /\ handling'[h].error = e /\ handling'[h].at = 1
           /\ \A k \in Handlers : k # h => handling'[k] = handling[k]
<1>1. h \in Positions
  BY Ranges DEF Handlers, Positions, First, Route
<1>2. [error |-> e, at |-> 1] \in [error : Errors, at : Nat]
  OBVIOUS
<1>3. [error |-> e, at |-> 1] # None
  BY <1>2, ErrorsAssumption
<1> QED
  BY <1>1, <1>2, <1>3 DEF Handle, TypeOK

LEMMA TryNextGives ==
    ASSUME TypeOK, NEW h \in Handlers, handling[h] # None, TryNext(h)
    PROVE  /\ handling[h] \in [error : Errors, at : Nat]
           /\ handling' \in [Handlers -> [error : Errors, at : Nat] \cup {None}]
           /\ handling'[h] # None
           /\ handling'[h].error = handling[h].error
           /\ handling'[h].at = handling[h].at + 1
           /\ \A k \in Handlers : k # h => handling'[k] = handling[k]
<1>1. handling[h] \in [error : Errors, at : Nat]
  BY DEF TypeOK
<1> DEFINE r == [handling[h] EXCEPT !.at = @ + 1]
<1>2. /\ r \in [error : Errors, at : Nat]
      /\ r.error = handling[h].error /\ r.at = handling[h].at + 1
  BY <1>1
<1>3. r # None
  BY <1>2, ErrorsAssumption
<1>4. handling' = [handling EXCEPT ![h] = r]
  BY DEF TryNext
<1> HIDE DEF r
<1> QED
  BY <1>1, <1>2, <1>3, <1>4 DEF TypeOK

LEMMA FinishGives ==
    ASSUME TypeOK, NEW h \in Handlers, NEW k \in Nat,
           NEW kind \in {"filter", "hono", "default"}, Finish(h, kind, k)
    PROVE  /\ status' \in [Positions -> {"idle", "running", "waiting",
                                         "handling", "returned", "threw"}]
           /\ status'[h] = "returned"
           /\ \A q \in Positions : q # h => status'[q] = status[q]
           /\ res' \in Response /\ res'.by = h /\ res'.kind # "empty"
<1>1. h \in Positions
  BY Ranges DEF Handlers, Positions, First, Route
<1> QED
  BY <1>1 DEF Finish, TypeOK, Response, Reply

(* The two handlers are different positions, and neither is a middleware.  *)
LEMMA HandlersApart ==
    ASSUME TypeOK
    PROVE  /\ Handlers \subseteq Positions /\ First # Route
           /\ First \notin Middlewares /\ Route \notin Middlewares
           /\ Middlewares \subseteq Positions
           /\ \A p \in Positions \ {Route} : p < Route
           /\ \A p \in Positions : 0 <= p /\ p \in Nat
BY Ranges DEF Handlers, Positions, First, Route, Middlewares

(* A position that is not idle stays in the chain whatever it does next,   *)
(* as long as dispatch is not called.                                      *)
LEMMA ChainKeeps ==
    ASSUME TypeOK, ChainInv, UNCHANGED <<setup, index, runs>>,
           NEW p \in Positions, status[p] \notin {"idle", "threw"},
           status'[p] # "idle",
           p = First => status'[p] \in {"handling", "returned"},
           p = Route => status'[p] \notin {"waiting", "threw"},
           p \in Middlewares => status'[p] # "handling",
           status'[p] = "threw" => failure'[p] \in Errors,
           \A q \in Positions : q # p => /\ status'[q] = status[q]
                                         /\ failure'[q] = failure[q]
    PROVE  ChainInv'
<1>1. First \in Positions /\ Route \in Positions /\ Middlewares \subseteq Positions
  BY HandlersApart DEF Handlers
<1>2. Middlewares' = Middlewares /\ \A q : Entered(q)' <=> Entered(q)
  BY DEF Middlewares, Entered
<1>3. \A q \in Positions : Entered(q)' <=> status'[q] # "idle"
  BY <1>2 DEF ChainInv
<1>4. \A q \in Positions : status'[q] = "threw" => failure'[q] \in Errors
  BY DEF ChainInv
<1>5. \A q \in Middlewares \cap setup.scopedMiddlewares :
         Entered(q)' => status'[q] = "threw" /\ index' < q
  BY <1>1, <1>2 DEF ChainInv
<1>6. /\ index' \in -1 .. setup'.middlewares
      /\ status'[First] = "running" => index' = -1
      /\ status'[First] = "waiting" => index' # -1
      /\ status'[First] \notin {"idle", "threw"}
      /\ status'[Route] \notin {"waiting", "threw"}
      /\ \A q \in Middlewares : status'[q] # "handling"
  BY <1>1 DEF ChainInv
<1>7. runs' = [q \in Positions |->
                IF q # First /\ Entered(q)' /\ q \notin setup'.scopedMiddlewares
                THEN 1 ELSE 0]
  BY <1>2 DEF ChainInv
<1> QED
  BY <1>2, <1>3, <1>4, <1>5, <1>6, <1>7 DEF ChainInv

LEMMA ChainSame ==
    ASSUME ChainInv, UNCHANGED <<setup, status, failure, index, runs>>
    PROVE  ChainInv'
<1>1. Middlewares' = Middlewares /\ \A q : Entered(q)' <=> Entered(q)
  BY DEF Middlewares, Entered
<1> QED
  BY <1>1 DEF ChainInv

LEMMA DispatchKeepsRoute ==
    ASSUME TypeOK, ChainInv, NEW p \in {First} \cup Middlewares,
           NEW caller \in {"running", "waiting"}, status[p] = "running",
           Fresh(p), Dispatch(p, caller), setup' = setup
    PROVE  status[Route] # "idle" => status'[Route] = status[Route]
<1> DEFINE c == Callee(p)
<1>1. /\ p \in Positions /\ c \in Positions /\ status[c] = "idle"
      /\ status' = [status EXCEPT ![p] = caller, ![c] =
           IF c \in setup.scopedMiddlewares THEN "threw" ELSE "running"]
  BY DispatchEnters
<1> HIDE DEF c
<1>2. p # Route
  BY HandlersApart
<1> QED
  BY <1>1, <1>2, HandlersApart DEF Handlers, TypeOK

LEMMA DispatchHandlesNone ==
    ASSUME TypeOK, ChainInv, HandlersInv, NEW p \in {First} \cup Middlewares,
           NEW caller \in {"running", "waiting"}, status[p] = "running",
           Fresh(p), Dispatch(p, caller), UNCHANGED <<setup, handling>>
    PROVE  HandlersInv'
<1> DEFINE c == Callee(p)
<1>1. /\ p \in Positions /\ c \in Positions
      /\ status' = [status EXCEPT ![p] = caller, ![c] =
           IF c \in setup.scopedMiddlewares THEN "threw" ELSE "running"]
  BY DispatchEnters
<1> HIDE DEF c
<1> QED
  BY <1>1, HandlersApart DEF Handlers, TypeOK, HandlersInv

(* A new error is at the first filter; a filter is passed when it does not *)
(* catch the error or when it declines.                                    *)
LEMMA HandleForgets ==
    ASSUME TypeOK, FiltersInOrder, NEW h \in Handlers, NEW e \in Errors,
           Handle(h, e), UNCHANGED <<setup, declined>>
    PROVE  FiltersInOrder'
<1>1. /\ handling'[h].at = 1
      /\ \A k \in Handlers : k # h => handling'[k] = handling[k]
  BY HandleGives
<1>2. \A k \in 1 .. Len(setup.filters) : ~ (k < 1)
  BY Ranges
<1> QED
  BY <1>1, <1>2 DEF FiltersInOrder

LEMMA TryNextPasses ==
    ASSUME TypeOK, FiltersInOrder, NEW h \in Handlers, handling[h] # None,
           TryNext(h), setup' = setup, declined \subseteq declined',
           \/ handling[h].error \notin setup.filters[handling[h].at].catches
           \/ <<h, handling[h].at>> \in declined'
    PROVE  FiltersInOrder'
<1>1. /\ handling[h].at \in Nat /\ handling'[h] # None
      /\ handling'[h].error = handling[h].error
      /\ handling'[h].at = handling[h].at + 1
      /\ \A k \in Handlers : k # h => handling'[k] = handling[k]
  BY TryNextGives
<1>2. SUFFICES ASSUME NEW g \in Handlers, handling'[g] # None,
                      NEW k \in 1 .. Len(setup.filters), k < handling'[g].at,
                      handling'[g].error \in setup.filters[k].catches
               PROVE  <<g, k>> \in declined'
  BY DEF FiltersInOrder
<1>3. CASE g # h
  BY <1>1, <1>2, <1>3 DEF FiltersInOrder
<1>4. CASE g = h
  <2>1. k < handling[h].at \/ k = handling[h].at
    BY <1>1, <1>2, <1>4, Ranges
  <2> QED
    BY <1>1, <1>2, <1>4, <2>1 DEF FiltersInOrder
<1> QED
  BY <1>3, <1>4

(* What follows a position that may leave has ended.                       *)
LEMMA NothingBehind ==
    ASSUME TypeOK, ChainInv, OrderInv, ~ floated,
           NEW p \in {First} \cup Middlewares, status[p] # "idle",
           Ended(Callee(p)), NEW q \in Positions, p < q
    PROVE  Ended(q)
<1> USE DEF First, Route, Positions, Middlewares
<1> DEFINE c == Callee(p)
<1>0. MaxMiddlewares \in Nat /\ setup.middlewares \in 0 .. MaxMiddlewares
  BY Ranges
<1>1. /\ p \in Positions /\ c \in Positions /\ p < c
      /\ c \in Middlewares => c = p + 1
      /\ c \notin Middlewares => c = Route /\ p = setup.middlewares
  BY <1>0 DEF Callee
<1>2. index \in -1 .. setup.middlewares
  BY <1>0 DEF ChainInv
<1>3. \A x \in Positions : ~ Entered(x) => Ended(x)
  BY DEF ChainInv, Ended
<1>4. CASE q < c
  <2>1. ~ Entered(q)
    BY <1>0, <1>1, <1>4 DEF Entered
  <2> QED
    BY <1>3, <2>1
<1>5. CASE q = c
  BY <1>5
<1>6. CASE c < q /\ status[c] = "idle"
  <2>1. c \in Middlewares /\ ~ Entered(c)
    BY <1>0, <1>1, <1>6 DEF ChainInv
  <2>2. index + 1 < c
    BY <1>0, <1>2, <2>1 DEF Entered
  <2>3. ~ Entered(q)
    BY <1>0, <1>2, <1>6, <2>1, <2>2 DEF Entered
  <2> QED
    BY <1>3, <2>3
<1>7. CASE c < q /\ Settled(c)
  BY <1>1, <1>7 DEF OrderInv, Left
<1> QED
  BY <1>0, <1>1, <1>4, <1>5, <1>6, <1>7 DEF Ended

LEMMA OrderKeeps ==
    ASSUME OrderInv, floated => floated',
           \A q \in Positions : Ended(q) => Ended(q)',
           NEW p \in Positions,
           \A q \in Positions : Left(q)' => Left(q) \/ q = p,
           ~ floated' => \A q \in Positions : p < q => Ended(q)'
    PROVE  OrderInv'
BY DEF OrderInv

(* Everything before a position that runs is still there.                  *)
LEMMA DispatchOrders ==
    ASSUME TypeOK, ChainInv, OrderInv, NEW p \in {First} \cup Middlewares,
           NEW caller \in {"running", "waiting"}, status[p] = "running",
           Fresh(p), Dispatch(p, caller), UNCHANGED <<setup, floated>>
    PROVE  OrderInv'
<1> DEFINE c == Callee(p)
<1>0. MaxMiddlewares \in Nat /\ setup.middlewares \in 0 .. MaxMiddlewares
  BY Ranges
<1>1. /\ p = index + 1 /\ p \in Positions /\ c \in Positions /\ p < c
      /\ c \in Middlewares => c = p + 1
      /\ c \notin Middlewares => c = Route /\ p = setup.middlewares
      /\ status[c] = "idle" /\ c # First
      /\ status' = [status EXCEPT ![p] = caller, ![c] =
           IF c \in setup.scopedMiddlewares THEN "threw" ELSE "running"]
  BY DispatchEnters
<1> HIDE DEF c
<1>2. /\ status'[p] = caller /\ status'[c] \in {"threw", "running"}
      /\ \A q \in Positions : q # p /\ q # c => status'[q] = status[q]
  BY <1>1 DEF TypeOK
<1>3. SUFFICES ASSUME ~ floated, NEW x \in Positions, NEW y \in Positions,
                      Left(x)', x < y
               PROVE  Ended(y)'
  BY DEF OrderInv
<1>4. x # p
  BY <1>2, <1>3, HandlersApart DEF Left, Settled, Handlers
<1>5. CASE x = c
  <2>1. ~ Entered(y)
    BY <1>0, <1>1, <1>3, <1>5 DEF Entered, First, Positions, Route, Middlewares
  <2>2. y # p /\ y # c
    BY <1>0, <1>1, <1>3, <1>5 DEF Positions, First, Route
  <2>3. status'[y] = "idle"
    BY <1>2, <2>1, <2>2 DEF ChainInv
  <2> QED
    BY <2>3 DEF Ended
<1>6. CASE x # c
  <2>1. Left(x) /\ Entered(x)
    BY <1>2, <1>3, <1>4, <1>6 DEF Left, Settled, ChainInv
  <2>2. CASE x < p
    <3>1. Ended(p)
      BY <1>1, <2>1, <2>2, <1>3 DEF OrderInv
    <3> QED
      BY <3>1 DEF Ended, Settled
  <2>3. CASE p < x
    BY <1>0, <1>1, <1>3, <1>6, <2>1, <2>3
    DEF Entered, First, Positions, Route, Middlewares
  <2> QED
    BY <1>0, <1>1, <1>4, <2>2, <2>3 DEF Positions, First, Route
<1> QED
  BY <1>5, <1>6

LEMMA OrderSame ==
    ASSUME OrderInv, UNCHANGED <<status, floated>>
    PROVE  OrderInv'
BY DEF OrderInv, Left, Ended, Settled

LEMMA FirstLeaves ==
    ASSUME TypeOK, ChainInv, OrderInv, UNCHANGED floated,
           status[First] # "idle", Ended(Callee(First)),
           status'[First] \in {"handling", "returned"},
           \A q \in Positions : q # First => status'[q] = status[q]
    PROVE  OrderInv'
<1>1. \A q \in Positions : First < q => q # First
  BY HandlersApart DEF First
<1>2. \A q \in Positions : q # First => /\ Ended(q)' <=> Ended(q)
                                        /\ Left(q)' <=> Left(q)
  BY DEF Ended, Settled, Left
<1>3. ASSUME ~ floated, NEW q \in Positions, First < q
      PROVE  Ended(q)'
  <2>1. Ended(q)
    BY <1>3, NothingBehind
  <2> QED
    BY <1>1, <1>2, <1>3, <2>1
<1>4. ASSUME ~ floated', NEW x \in Positions, NEW y \in Positions, Left(x)', x < y
      PROVE  Ended(y)'
  <2>1. First < y /\ y # First
    BY <1>4, HandlersApart DEF First
  <2> QED
    BY <1>3, <1>4, <2>1
<1> QED
  BY <1>4 DEF OrderInv

(* A handler that ends had nothing left to wait for.                       *)
LEMMA HandlerEnds ==
    ASSUME TypeOK, OrderInv, UNCHANGED floated, NEW h \in Handlers,
           h = First => status[h] = "handling",
           status'[h] = "returned",
           \A q \in Positions : q # h => status'[q] = status[q]
    PROVE  OrderInv'
<1>1. \A q \in Positions : Ended(q) => Ended(q)'
  BY DEF Ended, Settled
<1>2. \A q \in Positions : Left(q)' => Left(q) \/ q = Route
  BY DEF Left, Settled, Handlers
<1>3. \A q \in Positions : ~ (Route < q)
  BY Ranges DEF Positions, First, Route
<1>4. Route \in Positions
  BY HandlersApart DEF Handlers
<1> QED
  BY <1>1, <1>2, <1>3, <1>4, OrderKeeps

(* As long as handleRoute runs the first handler waits for it, unless a    *)
(* middleware has left it behind.                                          *)
LEMMA RouteIsAwaited ==
    ASSUME TypeOK, OrderInv, ~ floated, status[Route] \in {"running", "handling"}
    PROVE  status[First] \notin {"handling", "returned"}
<1>1. First \in Positions /\ Route \in Positions /\ First < Route
  BY Ranges DEF First, Route, Positions
<1>2. ~ Ended(Route)
  BY DEF Ended, Settled
<1> QED
  BY <1>1, <1>2 DEF OrderInv, Left, Settled

LEMMA DispatchAnswersNot ==
    ASSUME TypeOK, ChainInv, AnswerInv, NEW p \in {First} \cup Middlewares,
           NEW caller \in {"running", "waiting"}, status[p] = "running",
           Fresh(p), Dispatch(p, caller),
           UNCHANGED <<setup, handling, res, sent, floated>>
    PROVE  AnswerInv'
<1> DEFINE c == Callee(p)
<1>1. /\ p \in Positions /\ c \in Positions /\ c # First /\ status[c] = "idle"
      /\ status' = [status EXCEPT ![p] = caller, ![c] =
           IF c \in setup.scopedMiddlewares THEN "threw" ELSE "running"]
  BY DispatchEnters
<1> HIDE DEF c
<1>2. /\ status'[First] = status[First] \/ (p = First /\ status'[First] = caller)
      /\ status'[Route] = status[Route]
           \/ (status[Route] = "idle" /\ status'[Route] \in {"threw", "running"})
  BY <1>1, HandlersApart DEF Handlers, TypeOK
<1> QED
  BY <1>2 DEF AnswerInv

LEMMA FinishAnswers ==
    ASSUME TypeOK, HandlersInv, OrderInv, AnswerInv, NEW h \in Handlers,
           NEW k \in Nat, NEW kind \in {"filter", "hono", "default"},
           status[h] = "handling", Finish(h, kind, k),
           UNCHANGED <<handling, sent, floated>>
    PROVE  AnswerInv'
<1>1. /\ status'[h] = "returned" /\ res'.by = h /\ res'.kind # "empty"
      /\ \A q \in Positions : q # h => status'[q] = status[q]
      /\ First \in Positions /\ Route \in Positions /\ First # Route
  BY FinishGives, HandlersApart DEF Handlers
<1>2. CASE h = First
  BY <1>1, <1>2 DEF AnswerInv, HandlersInv
<1>3. CASE h = Route
  BY <1>1, <1>3, RouteIsAwaited DEF AnswerInv
<1> QED
  BY <1>2, <1>3 DEF Handlers

(* One step of the proof per action, for each part of the invariant.       *)
LEMMA TypeHolds ==
    ASSUME TypeOK, HandlersInv, ChainInv, [Next]_vars
    PROVE  TypeOK'
<1>0. MaxMiddlewares \in Nat /\ setup.middlewares \in Nat
  BY Ranges
<1>1. CASE Register
  <2>1. CASE Dispatch(First, "waiting") /\ UNCHANGED handling
    <3>1. Fresh(First) /\ setup' = setup
      BY <1>1 DEF Register, Fresh, First, ChainInv
    <3> QED
      BY <1>1, <2>1, <3>1, DispatchHolds DEF Register, TypeOK
  <2>2. CASE Handle(First, Internal) /\ UNCHANGED <<failure, index, runs>>
    BY <1>1, <2>2, HandleGives DEF Register, Handlers, Errors, TypeOK
  <2> QED
    BY <1>1, <2>1, <2>2 DEF Register
<1>2. CASE FirstDone
  <2>1. CASE status[Callee(First)] = "threw"
    <3>1. failure[Callee(First)] \in Errors
      BY <1>0, <2>1 DEF ChainInv, Callee, First, Positions, Route
    <3> QED
      BY <1>2, <2>1, <3>1, HandleGives DEF FirstDone, history, Handlers, TypeOK
  <2>2. CASE status[Callee(First)] # "threw"
    BY <1>2, <2>2 DEF FirstDone, history, TypeOK
  <2> QED
    BY <2>1, <2>2
<1>3. CASE Deliver
  BY <1>3 DEF Deliver, history, TypeOK
<1>4. ASSUME NEW p \in 1 .. MaxMiddlewares, CallNext(p)
      PROVE  TypeOK'
  BY <1>4, DispatchHolds, HandlersApart DEF CallNext, TypeOK
<1>5. ASSUME NEW p \in 1 .. MaxMiddlewares, AwaitNext(p)
      PROVE  TypeOK'
  BY <1>5 DEF AwaitNext, history, TypeOK
<1>6. ASSUME NEW p \in 1 .. MaxMiddlewares, Resume(p)
      PROVE  TypeOK'
  BY <1>6 DEF Resume, history, TypeOK
<1>7. ASSUME NEW p \in 1 .. MaxMiddlewares, Settle(p)
      PROVE  TypeOK'
  BY <1>7 DEF Settle, Fail, Errors, TypeOK
<1>8. ASSUME NEW g \in Guards, NoGuard(g)
      PROVE  TypeOK'
  BY <1>8
  DEF NoGuard, Routing, Guards, Stages, Params, Instance, Call, Send, history,
      TypeOK
<1>9. ASSUME NEW g \in Guards, Allow(g)
      PROVE  TypeOK'
  BY <1>9
  DEF Allow, Routing, Guards, Stages, Params, Instance, Call, Send, history,
      TypeOK
<1>10. ASSUME NEW g \in Guards, Refuse(g)
       PROVE  TypeOK'
  BY <1>10, HandleGives DEF Refuse, Handlers, Errors, history, TypeOK
<1>11. CASE Resolve
  BY <1>11
  DEF Resolve, Routing, Guards, Stages, Params, Instance, Call, Send, history,
      TypeOK
<1>12. CASE GetInstance
  BY <1>12
  DEF GetInstance, Routing, Guards, Stages, Params, Instance, Call, Send,
      history, TypeOK
<1>13. CASE CallMethod
  BY <1>13
  DEF CallMethod, Routing, Guards, Stages, Params, Instance, Call, Send,
      history, TypeOK
<1>14. CASE SendResponse
  BY <1>14 DEF SendResponse, Reply, Response, Handlers, history, TypeOK
<1>15. CASE RouteThrows
  BY <1>15, HandleGives DEF RouteThrows, Handlers, Errors, history, TypeOK
<1>16. ASSUME NEW h \in Handlers, Skip(h)
       PROVE  TypeOK'
  BY <1>16, TryNextGives DEF Skip, MoreFilters, HandlersInv, history, TypeOK
<1>17. ASSUME NEW h \in Handlers, TakePromise(h)
       PROVE  TypeOK'
  <2>1. handling[h].at \in Nat
    BY <1>17 DEF TakePromise, MoreFilters, HandlersInv, TypeOK
  <2> QED
    BY <1>17, <2>1, FinishGives DEF TakePromise, history, TypeOK
<1>18. ASSUME NEW h \in Handlers, Ask(h)
       PROVE  TypeOK'
  <2>1. handling[h].at \in Nat
    BY <1>18 DEF Ask, MoreFilters, HandlersInv, TypeOK
  <2>2. /\ asked' \cup declined' \subseteq Handlers \X Nat
        /\ UNCHANGED <<setup, failure, index, stage, sent, cached, allowed>>
    BY <1>18, <2>1 DEF Ask, TypeOK
  <2>3. CASE /\ \E kind \in {"filter", "hono"} : Finish(h, kind, handling[h].at)
             /\ UNCHANGED <<handling, declined>>
    BY <2>1, <2>2, <2>3, FinishGives DEF TypeOK
  <2>4. CASE TryNext(h) /\ UNCHANGED <<status, res>>
    BY <1>18, <2>2, <2>4, TryNextGives DEF Ask, MoreFilters, HandlersInv, TypeOK
  <2> QED
    BY <1>18, <2>3, <2>4 DEF Ask
<1>19. ASSUME NEW h \in Handlers, AnswerDefault(h)
       PROVE  TypeOK'
  <2>1. /\ \E kind \in {"hono", "default"} : Finish(h, kind, 0)
        /\ cached' \in BOOLEAN
        /\ UNCHANGED <<setup, failure, index, stage, handling, sent, allowed,
                       asked, declined>>
    BY <1>19 DEF AnswerDefault, history, TypeOK
  <2> QED
    BY <2>1, FinishGives DEF TypeOK
<1>20. CASE Over \/ UNCHANGED vars
  BY <1>20 DEF Over, vars, history, TypeOK
<1> QED
  BY <1>1, <1>2, <1>3, <1>4, <1>5, <1>6, <1>7, <1>8, <1>9, <1>10, <1>11,
     <1>12, <1>13, <1>14, <1>15, <1>16, <1>17, <1>18, <1>19, <1>20
  DEF Next, Middleware, HandleRoute, HandleError

(* index tells which positions were entered: only dispatch enters one, and *)
(* a position that was entered never becomes idle again.                   *)
LEMMA ChainHolds ==
    ASSUME TypeOK, HandlersInv, ChainInv, [Next]_vars
    PROVE  ChainInv'
<1>0. MaxMiddlewares \in Nat /\ setup.middlewares \in Nat
  BY Ranges
<1>1. CASE Register
  <2>1. CASE Dispatch(First, "waiting") /\ UNCHANGED handling
    <3>1. Fresh(First) /\ setup' = setup
      BY <1>1 DEF Register, Fresh, First, ChainInv
    <3> QED
      BY <1>1, <2>1, <3>1, DispatchHolds DEF Register, TypeOK
  <2>2. CASE Handle(First, Internal) /\ UNCHANGED <<failure, index, runs>>
    BY <1>1, <2>2, HandleGives, HandlersApart, ChainKeeps
    DEF Register, Handlers, Errors
  <2> QED
    BY <1>1, <2>1, <2>2 DEF Register
<1>2. CASE FirstDone
  <2>1. CASE status[Callee(First)] = "threw"
    <3>1. failure[Callee(First)] \in Errors
      BY <1>0, <2>1 DEF ChainInv, Callee, First, Positions, Route
    <3> QED
      BY <1>2, <2>1, <3>1, HandleGives, HandlersApart, ChainKeeps
      DEF FirstDone, history, Handlers
  <2>2. CASE status[Callee(First)] # "threw"
    <3>1. /\ status'[First] = "returned"
          /\ \A q \in Positions : q # First => status'[q] = status[q]
      BY <1>2, <2>2, HandlersApart DEF FirstDone, Handlers, TypeOK
    <3> QED
      BY <1>2, <2>2, <3>1, HandlersApart, ChainKeeps
      DEF FirstDone, history, Handlers
  <2> QED
    BY <2>1, <2>2
<1>3. CASE Deliver
  BY <1>3, ChainSame DEF Deliver, history
<1>4. ASSUME NEW p \in 1 .. MaxMiddlewares, CallNext(p)
      PROVE  ChainInv'
  BY <1>4, DispatchHolds, HandlersApart DEF CallNext
<1>5. ASSUME NEW p \in 1 .. MaxMiddlewares, AwaitNext(p)
      PROVE  ChainInv'
  <2>1. /\ status'[p] = "waiting"
        /\ \A q \in Positions : q # p => status'[q] = status[q]
    BY <1>5, HandlersApart DEF AwaitNext, TypeOK
  <2> QED
    BY <1>5, <2>1, HandlersApart, ChainKeeps DEF AwaitNext, history
<1>6. ASSUME NEW p \in 1 .. MaxMiddlewares, Resume(p)
      PROVE  ChainInv'
  <2>1. /\ status'[p] = "running"
        /\ \A q \in Positions : q # p => status'[q] = status[q]
    BY <1>6, HandlersApart DEF Resume, TypeOK
  <2> QED
    BY <1>6, <2>1, HandlersApart, ChainKeeps DEF Resume, history
<1>7. ASSUME NEW p \in 1 .. MaxMiddlewares, Settle(p)
      PROVE  ChainInv'
  <2>1. /\ status'[p] \in {"returned", "threw"}
        /\ status'[p] = "threw" => failure'[p] \in Errors
        /\ \A q \in Positions : q # p => /\ status'[q] = status[q]
                                      /\ failure'[q] = failure[q]
    BY <1>7, HandlersApart DEF Settle, Fail, Errors, TypeOK
  <2> QED
    BY <1>7, <2>1, HandlersApart, ChainKeeps DEF Settle
<1>8. ASSUME NEW g \in Guards, NoGuard(g)
      PROVE  ChainInv'
  BY <1>8, ChainSame DEF NoGuard, history
<1>9. ASSUME NEW g \in Guards, Allow(g)
      PROVE  ChainInv'
  BY <1>9, ChainSame DEF Allow, history
<1>10. ASSUME NEW g \in Guards, Refuse(g)
       PROVE  ChainInv'
  BY <1>10, HandleGives, HandlersApart, ChainKeeps
  DEF Refuse, Routing, Handlers, Errors, history
<1>11. CASE Resolve
  BY <1>11, ChainSame DEF Resolve, history
<1>12. CASE GetInstance
  BY <1>12, ChainSame DEF GetInstance, history
<1>13. CASE CallMethod
  BY <1>13, ChainSame DEF CallMethod, history
<1>14. CASE SendResponse
  <2>1. /\ status'[Route] = "returned"
        /\ \A q \in Positions : q # Route => status'[q] = status[q]
    BY <1>14, HandlersApart DEF SendResponse, Handlers, TypeOK
  <2> QED
    BY <1>14, <2>1, HandlersApart, ChainKeeps
    DEF SendResponse, Routing, Handlers, history
<1>15. CASE RouteThrows
  BY <1>15, HandleGives, HandlersApart, ChainKeeps
  DEF RouteThrows, Handlers, Errors, history
<1>16. ASSUME NEW h \in Handlers, Skip(h)
       PROVE  ChainInv'
  BY <1>16, ChainSame DEF Skip, history
<1>17. ASSUME NEW h \in Handlers, TakePromise(h)
       PROVE  ChainInv'
  <2>1. handling[h].at \in Nat
    BY <1>17 DEF TakePromise, MoreFilters, HandlersInv, TypeOK
  <2> QED
    BY <1>17, <2>1, FinishGives, HandlersApart, ChainKeeps
    DEF TakePromise, MoreFilters, Handlers, history
<1>18. ASSUME NEW h \in Handlers, Ask(h)
       PROVE  ChainInv'
  <2>1. handling[h].at \in Nat
    BY <1>18 DEF Ask, MoreFilters, HandlersInv, TypeOK
  <2>2. UNCHANGED <<setup, failure, index, runs>>
    BY <1>18 DEF Ask
  <2>3. CASE \E kind \in {"filter", "hono"} : Finish(h, kind, handling[h].at)
    BY <1>18, <2>1, <2>2, <2>3, FinishGives, HandlersApart, ChainKeeps
    DEF Ask, MoreFilters, Handlers
  <2>4. CASE UNCHANGED <<status, res>>
    BY <2>2, <2>4, ChainSame
  <2> QED
    BY <1>18, <2>3, <2>4 DEF Ask
<1>19. ASSUME NEW h \in Handlers, AnswerDefault(h)
       PROVE  ChainInv'
  <2>1. \E kind \in {"hono", "default"} : Finish(h, kind, 0)
    BY <1>19 DEF AnswerDefault
  <2> QED
    BY <1>19, <2>1, FinishGives, HandlersApart, ChainKeeps
    DEF AnswerDefault, Handlers, history
<1>20. CASE Over \/ UNCHANGED vars
  BY <1>20, ChainSame DEF Over, vars, history
<1> QED
  BY <1>1, <1>2, <1>3, <1>4, <1>5, <1>6, <1>7, <1>8, <1>9, <1>10, <1>11,
     <1>12, <1>13, <1>14, <1>15, <1>16, <1>17, <1>18, <1>19, <1>20
  DEF Next, Middleware, HandleRoute, HandleError

(* stage tells which guards have said yes and whether the method was called. *)
LEMMA RouteHolds ==
    ASSUME TypeOK, HandlersInv, ChainInv, RouteInv, [Next]_vars
    PROVE  RouteInv'
<1>0. stage \in 1 .. 7 /\ setup.guards \subseteq 1 .. 3
  BY Ranges DEF TypeOK, Stages, Send
<1>1. CASE Register
  <2>1. CASE Dispatch(First, "waiting") /\ UNCHANGED handling
    <3>1. Fresh(First) /\ setup' = setup
      BY <1>1 DEF Register, Fresh, First, ChainInv
    <3> QED
      BY <1>0, <1>1, <2>1, <3>1, DispatchKeepsRoute DEF Register, RouteInv
  <2>2. CASE Handle(First, Internal)
    BY <1>0, <1>1, <2>2, HandleGives, HandlersApart
    DEF Register, Handlers, Errors, RouteInv
  <2> QED
    BY <1>1, <2>1, <2>2 DEF Register
<1>2. CASE FirstDone
  <2>1. status'[Route] = status[Route]
    BY <1>0, <1>2, HandlersApart DEF FirstDone, Handle, Handlers, TypeOK
  <2> QED
    BY <1>2, <2>1 DEF FirstDone, history, RouteInv
<1>3. CASE Deliver
  BY <1>3 DEF Deliver, history, RouteInv
<1>4. ASSUME NEW p \in 1 .. MaxMiddlewares, CallNext(p)
      PROVE  RouteInv'
  BY <1>0, <1>4, DispatchKeepsRoute DEF CallNext, RouteInv
<1>5. ASSUME NEW p \in 1 .. MaxMiddlewares, AwaitNext(p)
      PROVE  RouteInv'
  <2>1. status'[Route] = status[Route]
    BY <1>0, <1>5, HandlersApart DEF AwaitNext, Handlers, TypeOK
  <2> QED
    BY <1>5, <2>1 DEF AwaitNext, history, RouteInv
<1>6. ASSUME NEW p \in 1 .. MaxMiddlewares, Resume(p)
      PROVE  RouteInv'
  <2>1. status'[Route] = status[Route]
    BY <1>0, <1>6, HandlersApart DEF Resume, Handlers, TypeOK
  <2> QED
    BY <1>6, <2>1 DEF Resume, history, RouteInv
<1>7. ASSUME NEW p \in 1 .. MaxMiddlewares, Settle(p)
      PROVE  RouteInv'
  <2>1. status'[Route] = status[Route]
    BY <1>0, <1>7, HandlersApart DEF Settle, Fail, Handlers, TypeOK
  <2> QED
    BY <1>7, <2>1 DEF Settle, history, RouteInv
<1>8. ASSUME NEW g \in Guards, NoGuard(g)
      PROVE  RouteInv'
  BY <1>0, <1>8 DEF NoGuard, Routing, Guards, Call, history, RouteInv
<1>9. ASSUME NEW g \in Guards, Allow(g)
      PROVE  RouteInv'
  BY <1>0, <1>9 DEF Allow, Routing, Guards, Call, history, RouteInv
<1>10. ASSUME NEW g \in Guards, Refuse(g)
       PROVE  RouteInv'
  <2>1. status'[Route] = "handling"
    BY <1>10, HandleGives DEF Refuse, Handlers, Errors
  <2> QED
    BY <1>10, <2>1 DEF Refuse, history, RouteInv
<1>11. CASE Resolve
  BY <1>0, <1>11 DEF Resolve, Routing, Params, Call, history, RouteInv
<1>12. CASE GetInstance
  BY <1>0, <1>12 DEF GetInstance, Routing, Instance, Call, history, RouteInv
<1>13. CASE CallMethod
  BY <1>0, <1>13 DEF CallMethod, Routing, Call, history, RouteInv
<1>14. CASE SendResponse
  <2>1. status'[Route] = "returned"
    BY <1>14, HandlersApart DEF SendResponse, Handlers, TypeOK
  <2> QED
    BY <1>14, <2>1 DEF SendResponse, history, RouteInv
<1>15. CASE RouteThrows
  <2>1. status'[Route] = "handling"
    BY <1>15, HandleGives DEF RouteThrows, Handlers, Errors
  <2> QED
    BY <1>15, <2>1 DEF RouteThrows, history, RouteInv
<1>16. ASSUME NEW h \in Handlers, Skip(h)
       PROVE  RouteInv'
  BY <1>16 DEF Skip, history, RouteInv
<1>17. ASSUME NEW h \in Handlers, TakePromise(h)
       PROVE  RouteInv'
  <2>1. handling[h].at \in Nat
    BY <1>17 DEF TakePromise, MoreFilters, HandlersInv, TypeOK
  <2>2. status'[Route] # "idle" \/ status'[Route] = status[Route]
    BY <1>17, <2>1, FinishGives, HandlersApart DEF TakePromise, Handlers
  <2> QED
    BY <1>17, <2>2 DEF TakePromise, history, RouteInv
<1>18. ASSUME NEW h \in Handlers, Ask(h)
       PROVE  RouteInv'
  <2>1. handling[h].at \in Nat
    BY <1>18 DEF Ask, MoreFilters, HandlersInv, TypeOK
  <2>2. status'[Route] # "idle" \/ status'[Route] = status[Route]
    BY <1>18, <2>1, FinishGives, HandlersApart DEF Ask, Handlers
  <2> QED
    BY <1>18, <2>2 DEF Ask, RouteInv
<1>19. ASSUME NEW h \in Handlers, AnswerDefault(h)
       PROVE  RouteInv'
  <2>1. status'[Route] # "idle" \/ status'[Route] = status[Route]
    BY <1>19, FinishGives, HandlersApart DEF AnswerDefault, Handlers
  <2> QED
    BY <1>19, <2>1 DEF AnswerDefault, history, RouteInv
<1>20. CASE Over \/ UNCHANGED vars
  BY <1>20 DEF Over, vars, history, RouteInv
<1> QED
  BY <1>1, <1>2, <1>3, <1>4, <1>5, <1>6, <1>7, <1>8, <1>9, <1>10, <1>11,
     <1>12, <1>13, <1>14, <1>15, <1>16, <1>17, <1>18, <1>19, <1>20
  DEF Next, Middleware, HandleRoute, HandleError

(* A filter is passed by Skip, when it does not catch the error, and by Ask, *)
(* when it declines.                                                       *)
LEMMA FiltersHold ==
    ASSUME TypeOK, HandlersInv, ChainInv, FiltersInOrder, [Next]_vars
    PROVE  FiltersInOrder'
<1>0. MaxMiddlewares \in Nat /\ setup.middlewares \in Nat
  BY Ranges
<1>1. CASE Register
  <2>1. CASE UNCHANGED handling
    BY <1>1, <2>1 DEF Register, FiltersInOrder
  <2>2. CASE Handle(First, Internal)
    BY <1>1, <2>2, HandleForgets DEF Register, Handlers, Errors
  <2> QED
    BY <1>1, <2>1, <2>2 DEF Register
<1>2. CASE FirstDone
  <2>1. CASE status[Callee(First)] = "threw"
    <3>1. failure[Callee(First)] \in Errors
      BY <1>0, <2>1 DEF ChainInv, Callee, First, Positions, Route
    <3> QED
      BY <1>2, <2>1, <3>1, HandleForgets DEF FirstDone, history, Handlers
  <2>2. CASE status[Callee(First)] # "threw"
    BY <1>2, <2>2 DEF FirstDone, history, FiltersInOrder
  <2> QED
    BY <2>1, <2>2
<1>3. CASE Deliver
  BY <1>3 DEF Deliver, history, FiltersInOrder
<1>4. ASSUME NEW p \in 1 .. MaxMiddlewares, CallNext(p)
      PROVE  FiltersInOrder'
  BY <1>4 DEF CallNext, history, FiltersInOrder
<1>5. ASSUME NEW p \in 1 .. MaxMiddlewares, AwaitNext(p)
      PROVE  FiltersInOrder'
  BY <1>5 DEF AwaitNext, history, FiltersInOrder
<1>6. ASSUME NEW p \in 1 .. MaxMiddlewares, Resume(p)
      PROVE  FiltersInOrder'
  BY <1>6 DEF Resume, history, FiltersInOrder
<1>7. ASSUME NEW p \in 1 .. MaxMiddlewares, Settle(p)
      PROVE  FiltersInOrder'
  BY <1>7 DEF Settle, history, FiltersInOrder
<1>8. ASSUME NEW g \in Guards, NoGuard(g)
      PROVE  FiltersInOrder'
  BY <1>8 DEF NoGuard, history, FiltersInOrder
<1>9. ASSUME NEW g \in Guards, Allow(g)
      PROVE  FiltersInOrder'
  BY <1>9 DEF Allow, history, FiltersInOrder
<1>10. ASSUME NEW g \in Guards, Refuse(g)
       PROVE  FiltersInOrder'
  BY <1>10, HandleForgets DEF Refuse, Handlers, Errors, history
<1>11. CASE Resolve
  BY <1>11 DEF Resolve, history, FiltersInOrder
<1>12. CASE GetInstance
  BY <1>12 DEF GetInstance, history, FiltersInOrder
<1>13. CASE CallMethod
  BY <1>13 DEF CallMethod, history, FiltersInOrder
<1>14. CASE SendResponse
  BY <1>14 DEF SendResponse, history, FiltersInOrder
<1>15. CASE RouteThrows
  BY <1>15, HandleForgets DEF RouteThrows, Handlers, Errors, history
<1>16. ASSUME NEW h \in Handlers, Skip(h)
       PROVE  FiltersInOrder'
  <2>1. handling[h] # None /\ TryNext(h) /\ UNCHANGED <<setup, declined>>
    BY <1>16 DEF Skip, MoreFilters, HandlersInv, history
  <2>2. handling[h].error \notin setup.filters[handling[h].at].catches
    BY <1>16 DEF Skip, Tried
  <2> QED
    BY <2>1, <2>2, TryNextPasses
<1>17. ASSUME NEW h \in Handlers, TakePromise(h)
       PROVE  FiltersInOrder'
  BY <1>17 DEF TakePromise, history, FiltersInOrder
<1>18. ASSUME NEW h \in Handlers, Ask(h)
       PROVE  FiltersInOrder'
  <2>1. CASE UNCHANGED <<handling, declined>>
    BY <1>18, <2>1 DEF Ask, FiltersInOrder
  <2>2. CASE TryNext(h) /\ declined' = declined \cup {<<h, handling[h].at>>}
    BY <1>18, <2>2, TryNextPasses DEF Ask, MoreFilters, HandlersInv
  <2> QED
    BY <1>18, <2>1, <2>2 DEF Ask
<1>19. ASSUME NEW h \in Handlers, AnswerDefault(h)
       PROVE  FiltersInOrder'
  BY <1>19 DEF AnswerDefault, history, FiltersInOrder
<1>20. CASE Over \/ UNCHANGED vars
  BY <1>20 DEF Over, vars, history, FiltersInOrder
<1> QED
  BY <1>1, <1>2, <1>3, <1>4, <1>5, <1>6, <1>7, <1>8, <1>9, <1>10, <1>11,
     <1>12, <1>13, <1>14, <1>15, <1>16, <1>17, <1>18, <1>19, <1>20
  DEF Next, Middleware, HandleRoute, HandleError

(* A handler that handles knows what it handles.                           *)
LEMMA HandlersHold ==
    ASSUME TypeOK, HandlersInv, ChainInv, [Next]_vars
    PROVE  HandlersInv'
<1>0. MaxMiddlewares \in Nat /\ setup.middlewares \in Nat
  BY Ranges
<1>1. CASE Register
  <2>1. CASE Dispatch(First, "waiting") /\ UNCHANGED handling
    <3>1. Fresh(First) /\ setup' = setup
      BY <1>1 DEF Register, Fresh, First, ChainInv
    <3> QED
      BY <1>1, <2>1, <3>1, DispatchHandlesNone DEF Register
  <2>2. CASE Handle(First, Internal)
    BY <1>1, <2>2, HandleGives, HandlersApart DEF Handlers, Errors, HandlersInv
  <2> QED
    BY <1>1, <2>1, <2>2 DEF Register
<1>2. CASE FirstDone
  <2>1. CASE status[Callee(First)] = "threw"
    <3>1. failure[Callee(First)] \in Errors
      BY <1>0, <2>1 DEF ChainInv, Callee, First, Positions, Route
    <3> QED
      BY <1>2, <2>1, <3>1, HandleGives, HandlersApart
      DEF FirstDone, Handlers, HandlersInv
  <2>2. CASE status[Callee(First)] # "threw"
    BY <1>2, <2>2, HandlersApart DEF FirstDone, Handlers, HandlersInv, TypeOK
  <2> QED
    BY <2>1, <2>2
<1>3. CASE Deliver
  BY <1>3 DEF Deliver, history, HandlersInv
<1>4. ASSUME NEW p \in 1 .. MaxMiddlewares, CallNext(p)
      PROVE  HandlersInv'
  BY <1>4, DispatchHandlesNone DEF CallNext
<1>5. ASSUME NEW p \in 1 .. MaxMiddlewares, AwaitNext(p)
      PROVE  HandlersInv'
  BY <1>5, HandlersApart DEF AwaitNext, Handlers, HandlersInv, TypeOK
<1>6. ASSUME NEW p \in 1 .. MaxMiddlewares, Resume(p)
      PROVE  HandlersInv'
  BY <1>6, HandlersApart DEF Resume, Handlers, HandlersInv, TypeOK
<1>7. ASSUME NEW p \in 1 .. MaxMiddlewares, Settle(p)
      PROVE  HandlersInv'
  BY <1>7, HandlersApart DEF Settle, Fail, Handlers, HandlersInv, TypeOK
<1>8. ASSUME NEW g \in Guards, NoGuard(g)
      PROVE  HandlersInv'
  BY <1>8 DEF NoGuard, history, HandlersInv
<1>9. ASSUME NEW g \in Guards, Allow(g)
      PROVE  HandlersInv'
  BY <1>9 DEF Allow, history, HandlersInv
<1>10. ASSUME NEW g \in Guards, Refuse(g)
       PROVE  HandlersInv'
  BY <1>10, HandleGives, HandlersApart DEF Refuse, Handlers, Errors, HandlersInv
<1>11. CASE Resolve
  BY <1>11 DEF Resolve, history, HandlersInv
<1>12. CASE GetInstance
  BY <1>12 DEF GetInstance, history, HandlersInv
<1>13. CASE CallMethod
  BY <1>13 DEF CallMethod, history, HandlersInv
<1>14. CASE SendResponse
  BY <1>14, HandlersApart DEF SendResponse, Handlers, HandlersInv, TypeOK
<1>15. CASE RouteThrows
  BY <1>15, HandleGives, HandlersApart
  DEF RouteThrows, Handlers, Errors, HandlersInv
<1>16. ASSUME NEW h \in Handlers, Skip(h)
       PROVE  HandlersInv'
  BY <1>16, TryNextGives DEF Skip, MoreFilters, HandlersInv, history
<1>17. ASSUME NEW h \in Handlers, TakePromise(h)
       PROVE  HandlersInv'
  <2>1. handling[h].at \in Nat
    BY <1>17 DEF TakePromise, MoreFilters, HandlersInv, TypeOK
  <2>2. \A k \in Handlers : status'[k] = "handling" => status[k] = "handling"
    BY <1>17, <2>1, FinishGives, HandlersApart DEF TakePromise, Handlers
  <2> QED
    BY <1>17, <2>2 DEF TakePromise, history, HandlersInv
<1>18. ASSUME NEW h \in Handlers, Ask(h)
       PROVE  HandlersInv'
  <2>1. handling[h].at \in Nat
    BY <1>18 DEF Ask, MoreFilters, HandlersInv, TypeOK
  <2>2. CASE /\ \E kind \in {"filter", "hono"} : Finish(h, kind, handling[h].at)
             /\ UNCHANGED <<handling, declined>>
    BY <1>18, <2>1, <2>2, FinishGives, HandlersApart
    DEF Ask, Handlers, HandlersInv
  <2>3. CASE TryNext(h) /\ UNCHANGED <<status, res>>
    BY <1>18, <2>3, TryNextGives DEF Ask, MoreFilters, HandlersInv
  <2> QED
    BY <1>18, <2>2, <2>3 DEF Ask
<1>19. ASSUME NEW h \in Handlers, AnswerDefault(h)
       PROVE  HandlersInv'
  <2>1. \E kind \in {"hono", "default"} : Finish(h, kind, 0)
    BY <1>19 DEF AnswerDefault
  <2> QED
    BY <1>19, <2>1, FinishGives, HandlersApart
    DEF AnswerDefault, Handlers, history, HandlersInv
<1>20. CASE Over \/ UNCHANGED vars
  BY <1>20 DEF Over, vars, history, HandlersInv
<1> QED
  BY <1>1, <1>2, <1>3, <1>4, <1>5, <1>6, <1>7, <1>8, <1>9, <1>10, <1>11,
     <1>12, <1>13, <1>14, <1>15, <1>16, <1>17, <1>18, <1>19, <1>20
  DEF Next, Middleware, HandleRoute, HandleError

(* What has left the request has left nothing behind it: who throws early  *)
(* is reached only after those it called have settled.                     *)
LEMMA OrderHolds ==
    ASSUME TypeOK, HandlersInv, ChainInv, OrderInv, [Next]_vars
    PROVE  OrderInv'
<1>0. MaxMiddlewares \in Nat /\ setup.middlewares \in Nat
  BY Ranges
<1>1. CASE Register
  <2>1. CASE Dispatch(First, "waiting") /\ UNCHANGED handling
    <3>1. Fresh(First) /\ setup' = setup
      BY <1>1 DEF Register, Fresh, First, ChainInv
    <3> QED
      BY <1>1, <2>1, <3>1, DispatchOrders DEF Register
  <2>2. CASE Handle(First, Internal)
    <3>1. /\ status'[First] = "handling"
          /\ \A q \in Positions : q # First => status'[q] = status[q]
      BY <2>2, HandleGives DEF Handlers, Errors
    <3>2. status[Callee(First)] = "idle"
      BY <1>0, <1>1
      DEF Register, ChainInv, Callee, Entered, First, Positions, Route, Middlewares
    <3> QED
      BY <1>1, <3>1, <3>2, FirstLeaves DEF Register, Ended
  <2> QED
    BY <1>1, <2>1, <2>2 DEF Register
<1>2. CASE FirstDone
  <2>1. /\ status'[First] \in {"handling", "returned"}
        /\ \A q \in Positions : q # First => status'[q] = status[q]
    BY <1>2, HandlersApart DEF FirstDone, Handle, Handlers, TypeOK
  <2> QED
    BY <1>2, <2>1, FirstLeaves DEF FirstDone, history, Ended
<1>3. CASE Deliver
  BY <1>3, OrderSame DEF Deliver, history
<1>4. ASSUME NEW p \in 1 .. MaxMiddlewares, CallNext(p)
      PROVE  OrderInv'
  BY <1>4, DispatchOrders DEF CallNext
<1>5. ASSUME NEW p \in 1 .. MaxMiddlewares, AwaitNext(p)
      PROVE  OrderInv'
  <2>1. \A q \in Positions : (Left(q)' <=> Left(q)) /\ (Ended(q)' <=> Ended(q))
    BY <1>5, HandlersApart DEF AwaitNext, TypeOK, Left, Ended, Settled, Handlers
  <2> QED
    BY <1>5, <2>1 DEF AwaitNext, history, OrderInv
<1>6. ASSUME NEW p \in 1 .. MaxMiddlewares, Resume(p)
      PROVE  OrderInv'
  <2>1. \A q \in Positions : (Left(q)' <=> Left(q)) /\ (Ended(q)' <=> Ended(q))
    BY <1>6, HandlersApart DEF Resume, TypeOK, Left, Ended, Settled, Handlers
  <2> QED
    BY <1>6, <2>1 DEF Resume, history, OrderInv
<1>7. ASSUME NEW p \in 1 .. MaxMiddlewares, Settle(p)
      PROVE  OrderInv'
  <2>1. /\ p \in Positions /\ p # First
        /\ status'[p] \in {"returned", "threw"}
        /\ \A q \in Positions : q # p => status'[q] = status[q]
    BY <1>7, HandlersApart DEF Settle, Fail, TypeOK
  <2>2. \A q \in Positions : /\ Ended(q) => Ended(q)'
                             /\ Left(q)' => Left(q) \/ q = p
    BY <2>1 DEF Ended, Settled, Left
  <2>3. ASSUME ~ floated', NEW q \in Positions, p < q
        PROVE  Ended(q)'
    <3>1. ~ floated /\ Ended(Callee(p))
      BY <1>7, <2>3 DEF Settle, LeavesBehind, Ended
    <3>2. Ended(q)
      BY <1>7, <2>3, <3>1, NothingBehind DEF Settle
    <3> QED
      BY <2>2, <3>2
  <2>4. floated => floated'
    BY <1>7 DEF Settle
  <2> QED
    BY <2>1, <2>2, <2>3, <2>4, OrderKeeps
<1>8. ASSUME NEW g \in Guards, NoGuard(g)
      PROVE  OrderInv'
  BY <1>8, OrderSame DEF NoGuard, history
<1>9. ASSUME NEW g \in Guards, Allow(g)
      PROVE  OrderInv'
  BY <1>9, OrderSame DEF Allow, history
<1>10. ASSUME NEW g \in Guards, Refuse(g)
       PROVE  OrderInv'
  <2>1. /\ status[Route] = "running" /\ status'[Route] = "handling"
        /\ \A q \in Positions : q # Route => status'[q] = status[q]
    BY <1>10, HandleGives DEF Refuse, Routing, Handlers, Errors
  <2>2. \A q \in Positions : (Left(q)' <=> Left(q)) /\ (Ended(q)' <=> Ended(q))
    BY <2>1, HandlersApart DEF Left, Ended, Settled
  <2> QED
    BY <1>10, <2>2 DEF Refuse, history, OrderInv
<1>11. CASE Resolve
  BY <1>11, OrderSame DEF Resolve, history
<1>12. CASE GetInstance
  BY <1>12, OrderSame DEF GetInstance, history
<1>13. CASE CallMethod
  BY <1>13, OrderSame DEF CallMethod, history
<1>14. CASE SendResponse
  <2>1. /\ status'[Route] = "returned"
        /\ \A q \in Positions : q # Route => status'[q] = status[q]
    BY <1>14, HandlersApart DEF SendResponse, Handlers, TypeOK
  <2> QED
    BY <1>14, <2>1, HandlersApart, HandlerEnds
    DEF SendResponse, history, Handlers
<1>15. CASE RouteThrows
  <2>1. /\ status[Route] = "running" /\ status'[Route] = "handling"
        /\ \A q \in Positions : q # Route => status'[q] = status[q]
    BY <1>15, HandleGives DEF RouteThrows, Routing, Handlers, Errors
  <2>2. \A q \in Positions : (Left(q)' <=> Left(q)) /\ (Ended(q)' <=> Ended(q))
    BY <2>1, HandlersApart DEF Left, Ended, Settled
  <2> QED
    BY <1>15, <2>2 DEF RouteThrows, history, OrderInv
<1>16. ASSUME NEW h \in Handlers, Skip(h)
       PROVE  OrderInv'
  BY <1>16, OrderSame DEF Skip, history
<1>17. ASSUME NEW h \in Handlers, TakePromise(h)
       PROVE  OrderInv'
  <2>1. handling[h].at \in Nat
    BY <1>17 DEF TakePromise, MoreFilters, HandlersInv, TypeOK
  <2> QED
    BY <1>17, <2>1, FinishGives, HandlerEnds
    DEF TakePromise, MoreFilters, history
<1>18. ASSUME NEW h \in Handlers, Ask(h)
       PROVE  OrderInv'
  <2>1. handling[h].at \in Nat
    BY <1>18 DEF Ask, MoreFilters, HandlersInv, TypeOK
  <2>2. CASE \E kind \in {"filter", "hono"} : Finish(h, kind, handling[h].at)
    BY <1>18, <2>1, <2>2, FinishGives, HandlerEnds DEF Ask, MoreFilters
  <2>3. CASE UNCHANGED <<status, res>>
    BY <1>18, <2>3, OrderSame DEF Ask
  <2> QED
    BY <1>18, <2>2, <2>3 DEF Ask
<1>19. ASSUME NEW h \in Handlers, AnswerDefault(h)
       PROVE  OrderInv'
  <2>1. \E kind \in {"hono", "default"} : Finish(h, kind, 0)
    BY <1>19 DEF AnswerDefault
  <2> QED
    BY <1>19, <2>1, FinishGives, HandlerEnds DEF AnswerDefault, history
<1>20. CASE Over \/ UNCHANGED vars
  BY <1>20, OrderSame DEF Over, vars, history
<1> QED
  BY <1>1, <1>2, <1>3, <1>4, <1>5, <1>6, <1>7, <1>8, <1>9, <1>10, <1>11,
     <1>12, <1>13, <1>14, <1>15, <1>16, <1>17, <1>18, <1>19, <1>20
  DEF Next, Middleware, HandleRoute, HandleError

(* context.res is handleRoute's when it has ended, until the first handler *)
(* answers an error of its own.                                            *)
LEMMA AnswerHolds ==
    ASSUME TypeOK, HandlersInv, ChainInv, OrderInv, AnswerInv, [Next]_vars
    PROVE  AnswerInv'
<1>0. MaxMiddlewares \in Nat /\ setup.middlewares \in Nat
  BY Ranges
<1>1. CASE Register
  <2>1. CASE Dispatch(First, "waiting") /\ UNCHANGED handling
    <3>1. Fresh(First) /\ setup' = setup
      BY <1>1 DEF Register, Fresh, First, ChainInv
    <3> QED
      BY <1>1, <2>1, <3>1, DispatchAnswersNot DEF Register
  <2>2. CASE Handle(First, Internal)
    BY <1>1, <2>2, HandleGives, HandlersApart
    DEF Register, Handlers, Errors, AnswerInv
  <2> QED
    BY <1>1, <2>1, <2>2 DEF Register
<1>2. CASE FirstDone
  <2>1. CASE status[Callee(First)] = "threw"
    <3>1. failure[Callee(First)] \in Errors
      BY <1>0, <2>1 DEF ChainInv, Callee, First, Positions, Route
    <3> QED
      BY <1>2, <2>1, <3>1, HandleGives, HandlersApart
      DEF FirstDone, Handlers, history, AnswerInv
  <2>2. CASE status[Callee(First)] # "threw"
    BY <1>2, <2>2, HandlersApart
    DEF FirstDone, Handlers, history, AnswerInv, TypeOK
  <2> QED
    BY <2>1, <2>2
<1>3. CASE Deliver
  BY <1>3 DEF Deliver, history, AnswerInv
<1>4. ASSUME NEW p \in 1 .. MaxMiddlewares, CallNext(p)
      PROVE  AnswerInv'
  BY <1>4, DispatchAnswersNot DEF CallNext
<1>5. ASSUME NEW p \in 1 .. MaxMiddlewares, AwaitNext(p)
      PROVE  AnswerInv'
  <2>1. status'[First] = status[First] /\ status'[Route] = status[Route]
    BY <1>0, <1>5, HandlersApart DEF AwaitNext, Handlers, TypeOK
  <2> QED
    BY <1>5, <2>1 DEF AwaitNext, history, AnswerInv
<1>6. ASSUME NEW p \in 1 .. MaxMiddlewares, Resume(p)
      PROVE  AnswerInv'
  <2>1. status'[First] = status[First] /\ status'[Route] = status[Route]
    BY <1>0, <1>6, HandlersApart DEF Resume, Handlers, TypeOK
  <2> QED
    BY <1>6, <2>1 DEF Resume, history, AnswerInv
<1>7. ASSUME NEW p \in 1 .. MaxMiddlewares, Settle(p)
      PROVE  AnswerInv'
  <2>1. status'[First] = status[First] /\ status'[Route] = status[Route]
    BY <1>0, <1>7, HandlersApart DEF Settle, Fail, Handlers, TypeOK
  <2> QED
    BY <1>7, <2>1 DEF Settle, history, AnswerInv
<1>8. ASSUME NEW g \in Guards, NoGuard(g)
      PROVE  AnswerInv'
  BY <1>8 DEF NoGuard, history, AnswerInv
<1>9. ASSUME NEW g \in Guards, Allow(g)
      PROVE  AnswerInv'
  BY <1>9 DEF Allow, history, AnswerInv
<1>10. ASSUME NEW g \in Guards, Refuse(g)
       PROVE  AnswerInv'
  <2>1. /\ status[Route] = "running" /\ status'[Route] = "handling"
        /\ status'[First] = status[First] /\ handling'[First] = handling[First]
    BY <1>10, HandleGives, HandlersApart DEF Refuse, Routing, Handlers, Errors
  <2> QED
    BY <1>10, <2>1 DEF Refuse, history, AnswerInv
<1>11. CASE Resolve
  BY <1>11 DEF Resolve, history, AnswerInv
<1>12. CASE GetInstance
  BY <1>12 DEF GetInstance, history, AnswerInv
<1>13. CASE CallMethod
  BY <1>13 DEF CallMethod, history, AnswerInv
<1>14. CASE SendResponse
  <2>1. /\ status[Route] = "running" /\ status'[Route] = "returned"
        /\ status'[First] = status[First] /\ res'.by = Route
    BY <1>14, HandlersApart DEF SendResponse, Routing, Reply, Handlers, TypeOK
  <2> QED
    BY <1>14, <2>1, RouteIsAwaited DEF SendResponse, history, AnswerInv
<1>15. CASE RouteThrows
  <2>1. /\ status[Route] = "running" /\ status'[Route] = "handling"
        /\ status'[First] = status[First] /\ handling'[First] = handling[First]
    BY <1>15, HandleGives, HandlersApart
    DEF RouteThrows, Routing, Handlers, Errors
  <2> QED
    BY <1>15, <2>1 DEF RouteThrows, history, AnswerInv
<1>16. ASSUME NEW h \in Handlers, Skip(h)
       PROVE  AnswerInv'
  <2>1. handling'[First] = None <=> handling[First] = None
    BY <1>16, TryNextGives DEF Skip, MoreFilters, HandlersInv, Handlers
  <2> QED
    BY <1>16, <2>1 DEF Skip, history, AnswerInv
<1>17. ASSUME NEW h \in Handlers, TakePromise(h)
       PROVE  AnswerInv'
  <2>1. handling[h].at \in Nat
    BY <1>17 DEF TakePromise, MoreFilters, HandlersInv, TypeOK
  <2> QED
    BY <1>17, <2>1, FinishAnswers DEF TakePromise, MoreFilters, history
<1>18. ASSUME NEW h \in Handlers, Ask(h)
       PROVE  AnswerInv'
  <2>1. handling[h].at \in Nat
    BY <1>18 DEF Ask, MoreFilters, HandlersInv, TypeOK
  <2>2. CASE /\ \E kind \in {"filter", "hono"} : Finish(h, kind, handling[h].at)
             /\ UNCHANGED <<handling, declined>>
    BY <1>18, <2>1, <2>2, FinishAnswers DEF Ask, MoreFilters
  <2>3. CASE TryNext(h) /\ UNCHANGED <<status, res>>
    <3>1. handling'[First] = None <=> handling[First] = None
      BY <1>18, <2>3, TryNextGives DEF Ask, MoreFilters, HandlersInv, Handlers
    <3> QED
      BY <1>18, <2>3, <3>1 DEF Ask, AnswerInv
  <2> QED
    BY <1>18, <2>2, <2>3 DEF Ask
<1>19. ASSUME NEW h \in Handlers, AnswerDefault(h)
       PROVE  AnswerInv'
  <2>1. \E kind \in {"hono", "default"} : Finish(h, kind, 0)
    BY <1>19 DEF AnswerDefault
  <2> QED
    BY <1>19, <2>1, FinishAnswers DEF AnswerDefault, history
<1>20. CASE Over \/ UNCHANGED vars
  BY <1>20 DEF Over, vars, history, AnswerInv
<1> QED
  BY <1>1, <1>2, <1>3, <1>4, <1>5, <1>6, <1>7, <1>8, <1>9, <1>10, <1>11,
     <1>12, <1>13, <1>14, <1>15, <1>16, <1>17, <1>18, <1>19, <1>20
  DEF Next, Middleware, HandleRoute, HandleError

(* handleRoute does not begin again.                                       *)
LEMMA RouteStaysEnded ==
    ASSUME TypeOK, HandlersInv, ChainInv, RouteEnded, [Next]_vars
    PROVE  RouteEnded'
<1>1. CASE Register
  <2>1. CASE Dispatch(First, "waiting") /\ UNCHANGED handling
    <3>1. Fresh(First) /\ setup' = setup
      BY <1>1 DEF Register, Fresh, First, ChainInv
    <3> QED
      BY <1>1, <2>1, <3>1, DispatchKeepsRoute DEF Register, RouteEnded
  <2>2. CASE Handle(First, Internal)
    BY <1>1, <2>2, HandlersApart DEF Handle, Handlers, RouteEnded, TypeOK
  <2> QED
    BY <1>1, <2>1, <2>2 DEF Register
<1>2. CASE FirstDone
  BY <1>2, HandlersApart DEF FirstDone, Handle, Handlers, RouteEnded, TypeOK
<1>3. CASE Deliver
  BY <1>3 DEF Deliver, history, RouteEnded
<1>4. ASSUME NEW p \in 1 .. MaxMiddlewares, CallNext(p)
      PROVE  RouteEnded'
  BY <1>4, DispatchKeepsRoute DEF CallNext, RouteEnded
<1>5. ASSUME NEW p \in 1 .. MaxMiddlewares, AwaitNext(p)
      PROVE  RouteEnded'
  BY <1>5, HandlersApart DEF AwaitNext, Handlers, RouteEnded, TypeOK
<1>6. ASSUME NEW p \in 1 .. MaxMiddlewares, Resume(p)
      PROVE  RouteEnded'
  BY <1>6, HandlersApart DEF Resume, Handlers, RouteEnded, TypeOK
<1>7. ASSUME NEW p \in 1 .. MaxMiddlewares, Settle(p)
      PROVE  RouteEnded'
  BY <1>7, HandlersApart DEF Settle, Fail, Handlers, RouteEnded, TypeOK
<1>8. ASSUME NEW g \in Guards, NoGuard(g)
      PROVE  RouteEnded'
  BY <1>8 DEF NoGuard, history, RouteEnded
<1>9. ASSUME NEW g \in Guards, Allow(g)
      PROVE  RouteEnded'
  BY <1>9 DEF Allow, history, RouteEnded
<1>10. ASSUME NEW g \in Guards, Refuse(g)
       PROVE  RouteEnded'
  BY <1>10 DEF Refuse, Routing, RouteEnded
<1>11. CASE Resolve
  BY <1>11 DEF Resolve, history, RouteEnded
<1>12. CASE GetInstance
  BY <1>12 DEF GetInstance, history, RouteEnded
<1>13. CASE CallMethod
  BY <1>13 DEF CallMethod, history, RouteEnded
<1>14. CASE SendResponse
  BY <1>14, HandlersApart DEF SendResponse, Handlers, RouteEnded, TypeOK
<1>15. CASE RouteThrows
  BY <1>15 DEF RouteThrows, Routing, RouteEnded
<1>16. ASSUME NEW h \in Handlers, Skip(h)
       PROVE  RouteEnded'
  BY <1>16 DEF Skip, history, RouteEnded
<1>17. ASSUME NEW h \in Handlers, TakePromise(h)
       PROVE  RouteEnded'
  BY <1>17, HandlersApart DEF TakePromise, Finish, Handlers, RouteEnded, TypeOK
<1>18. ASSUME NEW h \in Handlers, Ask(h)
       PROVE  RouteEnded'
  BY <1>18, HandlersApart DEF Ask, Finish, Handlers, RouteEnded, TypeOK
<1>19. ASSUME NEW h \in Handlers, AnswerDefault(h)
       PROVE  RouteEnded'
  BY <1>19, HandlersApart
  DEF AnswerDefault, Finish, Handlers, RouteEnded, TypeOK
<1>20. CASE Over \/ UNCHANGED vars
  BY <1>20 DEF Over, vars, history, RouteEnded
<1> QED
  BY <1>1, <1>2, <1>3, <1>4, <1>5, <1>6, <1>7, <1>8, <1>9, <1>10, <1>11,
     <1>12, <1>13, <1>14, <1>15, <1>16, <1>17, <1>18, <1>19, <1>20
  DEF Next, Middleware, HandleRoute, HandleError

-----------------------------------------------------------------------------
LEMMA InitHolds == Init => PipelineInv
<1> SUFFICES ASSUME Init PROVE PipelineInv
  OBVIOUS
<1> USE DEF Init
<1>0. /\ MaxMiddlewares \in Nat /\ setup.middlewares \in 0 .. MaxMiddlewares
      /\ setup.guards \subseteq 1 .. 3
  BY SetupsAssumption, ErrorsAssumption DEF Setup, Guards
<1>1. TypeOK
  <2>1. res \in Response
    BY DEF Reply, Response, Handlers
  <2>2. index \in -1 .. MaxMiddlewares /\ stage \in Stages
    BY <1>0 DEF Stages, Send
  <2> QED
    BY <2>1, <2>2 DEF TypeOK
<1>2. First \in Positions /\ Route \in Positions /\ First # Route
  BY <1>1, HandlersApart DEF Handlers
<1>3. \A p \in Positions : Entered(p) <=> p = First
  BY <1>0 DEF Entered, Middlewares, First, Route, Positions
<1>4. First \notin Middlewares /\ Middlewares \subseteq Positions
  BY <1>1, HandlersApart
<1>5. ChainInv
  <2>1. runs = [p \in Positions |->
                IF p # First /\ Entered(p) /\ p \notin setup.scopedMiddlewares
                THEN 1 ELSE 0]
    BY <1>3
  <2>2. \A p \in Middlewares \cap setup.scopedMiddlewares : ~ Entered(p)
    BY <1>3, <1>4
  <2> QED
    BY <1>0, <1>2, <1>3, <1>4, <2>1, <2>2 DEF ChainInv
<1>6. RouteInv
  BY <1>0 DEF RouteInv, Call
<1>7. OrderInv
  BY <1>2 DEF OrderInv, Left, Settled
<1>8. AnswerInv /\ HandlersInv /\ FiltersInOrder
  BY <1>2 DEF AnswerInv, HandlersInv, FiltersInOrder, Reply, Handlers
<1> QED
  BY <1>1, <1>5, <1>6, <1>7, <1>8 DEF PipelineInv

LEMMA NextHolds == PipelineInv /\ [Next]_vars => PipelineInv'
BY TypeHolds, ChainHolds, RouteHolds, OrderHolds, AnswerHolds, HandlersHold,
   FiltersHold DEF PipelineInv

LEMMA PipelineIsSafe == Spec => []PipelineInv
BY InitHolds, NextHolds, PTL DEF Spec

-----------------------------------------------------------------------------
(* What the invariant says.                                                *)

LEMMA OnceFromInv == PipelineInv => OncePerRequest
BY DEF PipelineInv, ChainInv, RouteInv, OncePerRequest

LEMMA GuardedFromInv == PipelineInv => MethodIsGuarded
<1> SUFFICES ASSUME PipelineInv, calls > 0 PROVE
      /\ \A p \in Middlewares : runs[p] = 1
      /\ setup.guards \subseteq allowed
  BY DEF MethodIsGuarded
<1>0. /\ MaxMiddlewares \in Nat /\ setup.middlewares \in 0 .. MaxMiddlewares
      /\ setup.guards \subseteq 1 .. 3 /\ stage \in 1 .. 7
  BY Ranges DEF PipelineInv, TypeOK, Stages, Send
<1>1. stage > Call /\ status[Route] # "idle"
  BY <1>0 DEF PipelineInv, RouteInv, Call
<1>2. setup.guards \subseteq allowed
  BY <1>0, <1>1 DEF PipelineInv, RouteInv, Call
<1>3. Entered(Route)
  BY <1>1, HandlersApart DEF PipelineInv, ChainInv, Handlers
<1>4. index = setup.middlewares
  BY <1>0, <1>3 DEF Entered, First, Route, Middlewares
<1>5. ASSUME NEW p \in Middlewares PROVE runs[p] = 1
  <2>1. p \in Positions /\ p # First /\ Entered(p) /\ ~ (index < p)
    BY <1>0, <1>4 DEF Entered, First, Route, Middlewares, Positions
  <2>2. p \notin setup.scopedMiddlewares
    BY <2>1 DEF PipelineInv, ChainInv
  <2> QED
    BY <2>1, <2>2 DEF PipelineInv, ChainInv
<1> QED
  BY <1>2, <1>5

LEMMA LastFromInv == PipelineInv => AnswerIsTheLast
<1> SUFFICES ASSUME PipelineInv, sent # None, ~ floated PROVE
      /\ \A p \in Positions : status[p] = "idle" \/ Settled(p)
      /\ CASE handling[First] # None ->
                  sent.by = First /\ sent.kind # "empty"
             [] handling[First] = None /\ runs[Route] > 0 ->
                  sent.by = Route
             [] OTHER -> sent.kind = "empty"
  BY DEF AnswerIsTheLast
<1>1. status[First] = "returned" /\ sent = res
  BY DEF PipelineInv, AnswerInv
<1>2. /\ First \in Positions /\ Route \in Positions /\ First # Route
      /\ \A q \in Positions : q # First => First < q
      /\ Route \notin setup.scopedMiddlewares
  BY Ranges, SetupsAssumption
  DEF PipelineInv, TypeOK, Setup, Positions, First, Route
<1>3. \A p \in Positions : status[p] = "idle" \/ Settled(p)
  BY <1>1, <1>2 DEF PipelineInv, OrderInv, Left, Ended, Settled
<1>4. status[Route] \in {"idle", "returned"}
  BY <1>2, <1>3 DEF Settled, PipelineInv, ChainInv
<1>5. runs[Route] > 0 <=> status[Route] # "idle"
  BY <1>2 DEF PipelineInv, ChainInv
<1>6. CASE handling[First] # None
  <2>1. sent.by = First /\ sent.kind # "empty"
    BY <1>1, <1>6 DEF PipelineInv, AnswerInv
  <2> QED
    BY <1>3, <1>6, <2>1
<1>7. CASE handling[First] = None /\ runs[Route] > 0
  <2>1. sent.by = Route
    BY <1>1, <1>4, <1>5, <1>7 DEF PipelineInv, AnswerInv
  <2> QED
    BY <1>3, <1>7, <2>1
<1>8. CASE handling[First] = None /\ ~ (runs[Route] > 0)
  <2>1. sent.kind = "empty"
    BY <1>1, <1>4, <1>5, <1>8 DEF PipelineInv, AnswerInv
  <2> QED
    BY <1>3, <1>8, <2>1
<1> QED
  BY <1>6, <1>7, <1>8

-----------------------------------------------------------------------------
(* The stream at the end of a request.                                     *)

LEMMA Appended ==
    ASSUME NEW b \in Nat, NEW d \in Nat, b <= d,
           NEW s \in Seq(Nat), NEW w \in Seq(Nat),
           s \o w = [i \in 1 .. d - b |-> b + i]
    PROVE  s \o Append(w, d + 1) = [i \in 1 .. d + 1 - b |-> b + i]
<1> DEFINE t == Append(w, d + 1)
           sw == s \o w
           u == Append(sw, d + 1)
           st == s \o t
<1>1. st = u
  <2>1. /\ t \in Seq(Nat) /\ Len(t) = Len(w) + 1
        /\ \A i \in 1 .. Len(w) : t[i] = w[i]
        /\ t[Len(w) + 1] = d + 1
        /\ Len(s) \in Nat /\ Len(w) \in Nat
    OBVIOUS
  <2> HIDE DEF t
  <2>2. /\ sw \in Seq(Nat) /\ Len(sw) = Len(s) + Len(w)
        /\ \A i \in 1 .. Len(s) + Len(w) :
             sw[i] = IF i <= Len(s) THEN s[i] ELSE w[i - Len(s)]
    BY ConcatProperties
  <2> HIDE DEF sw
  <2>3. /\ u \in Seq(Nat) /\ Len(u) = Len(sw) + 1
        /\ \A i \in 1 .. Len(sw) : u[i] = sw[i]
        /\ u[Len(sw) + 1] = d + 1
    BY <2>2
  <2> HIDE DEF u
  <2>4. /\ st \in Seq(Nat) /\ Len(st) = Len(s) + Len(t)
        /\ \A i \in 1 .. Len(s) + Len(t) :
             st[i] = IF i <= Len(s) THEN s[i] ELSE t[i - Len(s)]
    BY <2>1, ConcatProperties
  <2> HIDE DEF st
  <2>5. ASSUME NEW i \in 1 .. Len(st)
        PROVE  st[i] = u[i]
    <3>1. i \in 1 .. Len(s) + Len(w) + 1
      BY <2>1, <2>4
    <3>2. CASE i = Len(s) + Len(w) + 1
      BY <2>1, <2>2, <2>3, <2>4, <3>2
    <3>3. CASE i \in 1 .. Len(s) + Len(w)
      <4>1. u[i] = IF i <= Len(s) THEN s[i] ELSE w[i - Len(s)]
        BY <2>2, <2>3, <3>3
      <4>2. st[i] = IF i <= Len(s) THEN s[i] ELSE t[i - Len(s)]
        BY <2>1, <2>4, <3>3
      <4>3. ~ (i <= Len(s)) => i - Len(s) \in 1 .. Len(w)
        BY <2>1, <3>3
      <4> QED
        BY <2>1, <4>1, <4>2, <4>3
    <3> QED
      BY <2>1, <3>1, <3>2, <3>3
  <2>6. Len(st) = Len(u)
    BY <2>1, <2>2, <2>3, <2>4
  <2> QED
    BY <2>3, <2>4, <2>5, <2>6, SeqEqual
<1> HIDE DEF st
<1> DEFINE f == [i \in 1 .. d - b |-> b + i]
<1>2. f \in Seq(Nat) /\ Len(f) = d - b
  OBVIOUS
<1>3. Append(f, d + 1) = [i \in 1 .. d + 1 - b |-> b + i]
  BY <1>2
<1> QED
  BY <1>1, <1>3 DEF st

LEMMA Moved ==
    ASSUME NEW s \in Seq(Nat), NEW w \in Seq(Nat), w # <<>>
    PROVE  /\ Append(s, Head(w)) \o Tail(w) = s \o w
           /\ Append(s, Head(w)) \in Seq(Nat) /\ Tail(w) \in Seq(Nat)
<1> DEFINE h == Head(w)
           t == Tail(w)
           a == Append(s, h)
           l == a \o t
           r == s \o w
<1>1. /\ h \in Nat /\ t \in Seq(Nat) /\ Len(t) = Len(w) - 1 /\ h = w[1]
      /\ \A i \in 1 .. Len(t) : t[i] = w[i + 1]
      /\ Len(w) \in Nat \ {0} /\ Len(s) \in Nat
  OBVIOUS
<1> HIDE DEF h, t
<1>2. /\ a \in Seq(Nat) /\ Len(a) = Len(s) + 1
      /\ \A i \in 1 .. Len(s) : a[i] = s[i]
      /\ a[Len(s) + 1] = h
  BY <1>1, AppendProperties
<1> HIDE DEF a
<1>3. /\ l \in Seq(Nat) /\ Len(l) = Len(a) + Len(t)
      /\ \A i \in 1 .. Len(a) + Len(t) :
           l[i] = IF i <= Len(a) THEN a[i] ELSE t[i - Len(a)]
  BY <1>1, <1>2, ConcatProperties
<1>4. /\ r \in Seq(Nat) /\ Len(r) = Len(s) + Len(w)
      /\ \A i \in 1 .. Len(s) + Len(w) :
           r[i] = IF i <= Len(s) THEN s[i] ELSE w[i - Len(s)]
  BY ConcatProperties
<1> HIDE DEF l, r
<1>5. Len(l) = Len(r) /\ Len(l) = Len(s) + Len(w)
  BY <1>1, <1>2, <1>3, <1>4
<1>6. ASSUME NEW i \in 1 .. Len(l)
      PROVE  l[i] = r[i]
  <2>1. i \in 1 .. Len(s) + Len(w) /\ i \in 1 .. Len(a) + Len(t)
    BY <1>3, <1>5
  <2>2. CASE i <= Len(s)
    <3>1. i \in 1 .. Len(s) /\ i <= Len(a)
      BY <1>1, <1>2, <2>1, <2>2
    <3>2. r[i] = s[i]
      BY <1>4, <2>1, <2>2
    <3>3. l[i] = a[i]
      BY <1>3, <2>1, <3>1
    <3> QED
      BY <1>2, <3>1, <3>2, <3>3
  <2>3. CASE i = Len(s) + 1
    <3>1. l[i] = h
      BY <1>1, <1>2, <1>3, <2>1, <2>3
    <3>2. ~ (i <= Len(s)) /\ i - Len(s) = 1
      BY <1>1, <2>3
    <3>3. r[i] = w[1]
      BY <1>4, <2>1, <3>2
    <3> QED
      BY <1>1, <3>1, <3>3
  <2>4. CASE i > Len(s) + 1
    <3>1. l[i] = t[i - (Len(s) + 1)] /\ i - (Len(s) + 1) \in 1 .. Len(t)
      BY <1>1, <1>2, <1>3, <2>1, <2>4
    <3>2. t[i - (Len(s) + 1)] = w[(i - (Len(s) + 1)) + 1]
      BY <1>1, <3>1
    <3>3. (i - (Len(s) + 1)) + 1 = i - Len(s)
      BY <1>1, <2>1
    <3>4. r[i] = w[i - Len(s)]
      BY <1>1, <1>4, <2>1, <2>4
    <3> QED
      BY <3>1, <3>2, <3>3, <3>4
  <2> QED
    BY <1>1, <2>1, <2>2, <2>3, <2>4
<1>7. l = r
  BY <1>3, <1>4, <1>5, <1>6, SeqEqual
<1> QED
  BY <1>1, <1>2, <1>7 DEF l, r, a, h, t

LEMMA StreamInit == SSEInit => StreamInv /\ EventsInOrder
BY DEF SSEInit, StreamInv, EventsInOrder

(* The step that begins a stream finds none: handleRoute ends only once.   *)
LEMMA StreamHolds ==
    ASSUME PipelineInv, StreamInv, EventsInOrder, [SSENext]_allVars
    PROVE  StreamInv' /\ EventsInOrder'
<1> USE DEF StreamInv, EventsInOrder
<1>1. CASE Pipeline
  <2>1. RouteEnded => RouteEnded'
    BY <1>1, RouteStaysEnded DEF Pipeline, PipelineInv
  <2>2. CASE UNCHANGED streamVars
    BY <2>1, <2>2 DEF streamVars, RouteEnded
  <2>3. CASE Responds /\ HandleSSE
    <3>1. /\ stream = "none" /\ writing = <<>> /\ written = <<>>
          /\ status'[Route] = "returned"
      BY <2>3 DEF Responds
    <3>2. /\ stream' = "open" /\ listening' /\ before' = dispatched
          /\ UNCHANGED <<dispatched, writing, written>>
      BY <2>3 DEF HandleSSE
    <3>3. StreamInv'
      BY <3>1, <3>2
    <3>4. written' \o writing' = <<>>
      BY <3>1, <3>2
    <3>5. 1 .. dispatched' - before' = {}
      BY <3>2
    <3>6. [i \in 1 .. dispatched' - before' |-> before' + i] = <<>>
      BY <3>5
    <3> QED
      BY <3>3, <3>4, <3>6
  <2> QED
    BY <1>1, <2>2, <2>3 DEF Pipeline
<1>2. CASE DispatchEvent
  <2>1. /\ dispatched' = dispatched + 1
        /\ UNCHANGED <<status, listening, stream, written, client, before>>
    BY <1>2 DEF DispatchEvent, vars
  <2>2. CASE stream = "open"
    <3>1. writing' = Append(writing, dispatched + 1)
      BY <1>2, <2>1, <2>2 DEF DispatchEvent
    <3>2. writing' \in Seq(Nat)
      BY <3>1
    <3>3. ASSUME client = "there"
          PROVE  written' \o writing' =
                   [i \in 1 .. dispatched' - before' |-> before' + i]
      <4>1. written \o writing = [i \in 1 .. dispatched - before |-> before + i]
        BY <2>2, <3>3
      <4>2. /\ before' = before /\ dispatched' = dispatched + 1
            /\ dispatched' \in Nat /\ before' \in Nat
        BY <2>1
      <4>3. written \o Append(writing, dispatched + 1) =
              [i \in 1 .. dispatched + 1 - before |-> before + i]
        BY <4>1, Appended
      <4>4. [i \in 1 .. dispatched + 1 - before |-> before + i] =
              [i \in 1 .. dispatched' - before' |-> before' + i]
        BY <4>2
      <4>5. written' \o writing' = written \o Append(writing, dispatched + 1)
        BY <2>1, <3>1
      <4> QED
        BY <4>3, <4>4, <4>5, Zenon
    <3> QED
      BY <2>1, <2>2, <3>2, <3>3
  <2>3. CASE stream # "open"
    BY <1>2, <2>1, <2>3 DEF DispatchEvent
  <2> QED
    BY <2>2, <2>3
<1>3. CASE Written
  <2>1. /\ writing # <<>> /\ writing' = Tail(writing)
        /\ written' = IF client = "there" THEN Append(written, Head(writing))
                      ELSE written
        /\ UNCHANGED <<status, dispatched, listening, stream, client, before>>
    BY <1>3 DEF Written, vars
  <2> QED
    BY <2>1, Moved
<1>4. CASE EndLoop
  BY <1>4 DEF EndLoop, vars
<1>5. CASE CloseStream
  BY <1>5 DEF CloseStream, vars
<1>6. CASE Leave
  BY <1>6 DEF Leave, vars
<1>7. CASE UNCHANGED allVars
  BY <1>7 DEF allVars, vars, streamVars
<1> QED
  BY <1>1, <1>2, <1>3, <1>4, <1>5, <1>6, <1>7 DEF SSENext

-----------------------------------------------------------------------------
(* Whatever streams do, each step of a request with a stream is a step of  *)
(* the pipeline or leaves it alone: handleSSE adds to handleRoute and      *)
(* takes nothing from it.                                                  *)
THEOREM StreamsKeepThePipeline == SSESpec => Spec
<1>1. [SSENext]_allVars => [Next]_vars
  BY DEF SSENext, Pipeline, DispatchEvent, Written, EndLoop, CloseStream,
         Leave, allVars
<1>2. SSEInit => Init
  BY DEF SSEInit
<1> QED
  BY <1>1, <1>2, PTL DEF SSESpec, Spec

(* MiddlewareExecutor and handleRoute: however often and whenever the      *)
(* middlewares of a route, any number of them, call next(), each of them   *)
(* runs at most once, and so do handleRoute and the controller's method.   *)
THEOREM OnlyOnce == SSESpec => []OncePerRequest
BY StreamsKeepThePipeline, PipelineIsSafe, OnceFromInv, PTL

(* GuardExecutor and handleRoute: the method runs only after every         *)
(* middleware of the route and every guard's yes.                          *)
THEOREM Guarded == SSESpec => []MethodIsGuarded
BY StreamsKeepThePipeline, PipelineIsSafe, GuardedFromInv, PTL

(* DanetHTTPRouter's two handlers: unless a middleware did not wait for    *)
(* next(), the client gets the answer that was decided last, when all code *)
(* of the request has ended.                                               *)
THEOREM LastAnswer == SSESpec => []AnswerIsTheLast
BY StreamsKeepThePipeline, PipelineIsSafe, LastFromInv, PTL

(* FilterExecutor: an error passes a filter only if the filter does not    *)
(* catch it or has declined, for any list of filters.                      *)
THEOREM FilterOrder == SSESpec => []FiltersInOrder
<1>1. PipelineInv => FiltersInOrder
  BY DEF PipelineInv
<1> QED
  BY <1>1, StreamsKeepThePipeline, PipelineIsSafe, PTL

(* handleSSE: what a client that stays has got and will get is what was    *)
(* dispatched since the method's promise settled, in its order and once,   *)
(* for any number of events and whatever the middlewares do meanwhile.     *)
THEOREM EventOrder == SSESpec => []EventsInOrder
<1>1. SSESpec => []PipelineInv
  BY StreamsKeepThePipeline, PipelineIsSafe, PTL
<1>2. PipelineInv /\ StreamInv /\ EventsInOrder /\ [SSENext]_allVars
        => StreamInv' /\ EventsInOrder'
  BY StreamHolds
<1> QED
  BY <1>1, <1>2, StreamInit, PTL DEF SSESpec

=============================================================================
