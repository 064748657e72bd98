--------------------------- MODULE InjectorProofs ---------------------------
(* The injector for every application, every set of requests and every     *)
(* stack limit, in four parts, each with its inductive invariant:          *)
(*  - types;                                                               *)
(*  - registration: the bootstrap leaves no provider of a published module *)
(*    out, for every application that lists no class under two keys;       *)
(*  - sharing: an injectable is built once, as long as requests do not     *)
(*    register providers of their own side by side;                        *)
(*  - isolation: an object built for one request never reaches an object   *)
(*    built for another, and within a request a cached key has one object; *)
(*    and purity: under the hypotheses of sharing a singleton injectable   *)
(*    holds nothing that a factory made.                                   *)
EXTENDS Injector, TLAPS

(* What a frame may stand for at each of its labels.                       *)
FrameOK(f) ==
    /\ f.at \in {"imports", "controllers"} => f.who \in Modules
    /\ f.at = "list" => \/ f.who \in Modules
                        \/ f.who \in Requests /\ f.key \in Controllers
    /\ f.at = "get" => f.key \in Controllers
    /\ f.at \in {"enter", "deps", "scope"} =>
         f.who \in Services /\ f.key \in Keys
    /\ f.at = "control" => f.who \in Controllers /\ f.key = f.who
    /\ f.at \in {"args", "make", "hook"} =>
         f.who \in Classes /\ f.key \in AllKeys
    /\ f.cached => f.ctx \in Requests

GoodFrame == {f \in Frame : FrameOK(f)}
GoodEntry == {e \in Entry : e.kind = "factory" => e.class \in Classes}

StoreOK ==
    /\ app \in App
    /\ available \in [Keys -> Services \cup {Value, None}]
    /\ resolved \in [AllKeys -> GoodEntry \cup {None}]
    /\ scope \in [Services -> Scopes]
    /\ made \in Seq(Instance)
    /\ ctxCache \in [Requests -> [AllKeys -> Nat]]

ControlOK ==
    /\ stack \in [Tasks -> Seq(GoodFrame)]
    /\ outcome \in [Tasks -> {"idle", "busy", "done", "failed", "answered"}]
    /\ running \in Tasks \cup {None}

TypeInv == StoreOK /\ ControlOK

-----------------------------------------------------------------------------
(* Sequences used as stacks.                                               *)

LEMMA StackTop ==
    ASSUME NEW S, NEW s \in Seq(S), s # <<>>
    PROVE  /\ Len(s) \in Nat \ {0}
           /\ s[Len(s)] \in S
           /\ SubSeq(s, 1, Len(s) - 1) \in Seq(S)
           /\ Len(SubSeq(s, 1, Len(s) - 1)) = Len(s) - 1
           /\ \A j \in 1 .. Len(s) - 1 : SubSeq(s, 1, Len(s) - 1)[j] = s[j]
<1>1. Len(s) \in Nat /\ s \in [1 .. Len(s) -> S]
  OBVIOUS
<1>2. Len(s) # 0
  OBVIOUS
<1> QED
  BY <1>1, <1>2

LEMMA StackPush ==
    ASSUME NEW S, NEW s \in Seq(S), NEW f \in S
    PROVE  /\ Append(s, f) \in Seq(S)
           /\ Len(Append(s, f)) = Len(s) + 1
           /\ Append(s, f)[Len(s) + 1] = f
           /\ \A j \in 1 .. Len(s) : Append(s, f)[j] = s[j]
OBVIOUS

-----------------------------------------------------------------------------
(* The control operators keep the stacks well formed.                      *)

LEMMA ContinueOK ==
    ASSUME ControlOK, NEW t \in Tasks, stack[t] # <<>>, NEW f \in GoodFrame,
           Continue(t, f) \/ Await(t, f)
    PROVE  ControlOK'
<1>1. Append(Below(t), f) \in Seq(GoodFrame)
  BY StackTop, StackPush DEF ControlOK, Below, Depth
<1> QED
  BY <1>1 DEF ControlOK, Continue, Await

LEMMA ThrowOK ==
    ASSUME ControlOK, NEW t \in Tasks, Throw(t)
    PROVE  ControlOK'
BY DEF ControlOK, Throw

LEMMA PushOK ==
    ASSUME ControlOK, NEW t \in Tasks, stack[t] # <<>>, NEW f \in GoodFrame,
           NEW g \in GoodFrame, Push(t, f, g)
    PROVE  ControlOK'
<1>1. Append(Append(Below(t), f), g) \in Seq(GoodFrame)
  BY StackTop, StackPush DEF ControlOK, Below, Depth
<1> QED
  BY <1>1, ThrowOK DEF ControlOK, Push

LEMMA ReturnOK ==
    ASSUME ControlOK, NEW t \in Tasks, stack[t] # <<>>, Return(t)
    PROVE  ControlOK'
<1>1. Below(t) \in Seq(GoodFrame)
  BY StackTop DEF ControlOK, Below, Depth
<1> QED
  BY <1>1 DEF ControlOK, Return

LEMMA AnswerOK ==
    ASSUME ControlOK, NEW t \in Tasks, stack[t] # <<>>, NEW ref \in Nat,
           Answer(t, ref)
    PROVE  ControlOK'
<1> DEFINE b == Below(t)
           c == [b EXCEPT ![Depth(t) - 1].args = Append(@, ref)]
<1>1. b \in Seq(GoodFrame) /\ Len(b) = Depth(t) - 1 /\ Depth(t) \in Nat
  BY StackTop DEF ControlOK, Below, Depth
<1>2. c \in Seq(GoodFrame)
  <2>1. CASE Depth(t) = 1
    <3>1. b = <<>>
      BY <1>1, <2>1
    <3>2. c = b
      BY <3>1, <2>1, <1>1
    <3> QED
      BY <3>2, <1>1
  <2>2. CASE Depth(t) # 1
    <3>1. Depth(t) - 1 \in 1 .. Len(b)
      BY <1>1, <2>2, StackTop DEF ControlOK, Depth
    <3>2. b[Depth(t) - 1] \in GoodFrame
      BY <3>1, <1>1
    <3>3. Append(b[Depth(t) - 1].args, ref) \in Seq(Nat)
      BY <3>2 DEF GoodFrame, Frame
    <3>4. [b[Depth(t) - 1] EXCEPT !.args = Append(@, ref)] \in GoodFrame
      BY <3>2, <3>3 DEF GoodFrame, Frame, FrameOK
    <3> QED
      BY <3>1, <3>4, <1>1
  <2> QED
    BY <2>1, <2>2
<1> QED
  BY <1>2 DEF ControlOK, Answer

-----------------------------------------------------------------------------
(* Type correctness, one step per action.                                  *)

LEMMA TypeInvTypeOK == TypeInv => TypeOK
<1> SUFFICES ASSUME TypeInv PROVE TypeOK
  OBVIOUS
<1>1. GoodFrame \subseteq Frame /\ GoodEntry \subseteq Entry
  BY DEF GoodFrame, GoodEntry
<1>2. stack \in [Tasks -> Seq(Frame)]
  BY <1>1 DEF TypeInv, ControlOK
<1>3. resolved \in [AllKeys -> Entry \cup {None}]
  BY <1>1 DEF TypeInv, StoreOK
<1> QED
  BY <1>2, <1>3 DEF TypeInv, TypeOK, StoreOK, ControlOK

(* The actions that only move frames.                                      *)
LEMMA StoreKept ==
    ASSUME TypeInv, UNCHANGED store
    PROVE  StoreOK'
BY DEF TypeInv, StoreOK, store

LEMMA AtFacts ==
    ASSUME TypeInv, NEW t \in Tasks, NEW label, At(t, label)
    PROVE  /\ stack[t] # <<>>
           /\ Top(t) \in GoodFrame
           /\ Top(t).at = label
BY StackTop DEF TypeInv, ControlOK, At, Top, Depth

(* A frame that only changes its label or its counter.                     *)
LEMMA GotoOK ==
    ASSUME NEW f \in GoodFrame, NEW label \in Labels,
           FrameOK([f EXCEPT !.at = label])
    PROVE  Goto(f, label) \in GoodFrame
<1> DEFINE g == Goto(f, label)
           h == [f EXCEPT !.at = label]
<1>1. f \in Frame
  BY DEF GoodFrame
<1>2. g \in Frame
  <2>1. 1 \in Nat \ {0}
    OBVIOUS
  <2> QED
    BY <1>1, <2>1, Zenon DEF Frame, Goto
<1>3. /\ g.at = h.at /\ g.who = h.who /\ g.key = h.key
      /\ g.cached = h.cached /\ g.ctx = h.ctx
  BY <1>1 DEF Frame, Goto
<1>4. FrameOK(g)
  <2> HIDE DEF g, h
  <2>1. FrameOK(h)
    BY DEF h
  <2> QED
    BY <1>3, <2>1 DEF FrameOK
<1> QED
  BY <1>2, <1>4 DEF GoodFrame

LEMMA AdvanceOK ==
    ASSUME NEW f \in GoodFrame
    PROVE  Advance(f) \in GoodFrame
<1> DEFINE g == Advance(f)
<1>1. f \in Frame /\ FrameOK(f)
  BY DEF GoodFrame
<1>2. g \in Frame
  BY <1>1 DEF Frame, Advance
<1>3. /\ g.at = f.at /\ g.who = f.who /\ g.key = f.key
      /\ g.cached = f.cached /\ g.ctx = f.ctx
  BY <1>1 DEF Frame, Advance
<1>4. FrameOK(g)
  <2> HIDE DEF g
  <2> QED
    BY <1>1, <1>3 DEF FrameOK
<1> QED
  BY <1>2, <1>4 DEF GoodFrame

LEMMA CallOK ==
    ASSUME NEW label \in Labels, NEW who \in Classes \cup Modules \cup Requests,
           NEW key \in AllKeys \cup {None}, NEW parent \in Services \cup {None},
           FrameOK(Call(label, who, key, parent))
    PROVE  Call(label, who, key, parent) \in GoodFrame
BY DEF GoodFrame, Frame, Call

LEMMA AppFacts ==
    ASSUME TypeInv
    PROVE  /\ app.imports \in [Modules -> Seq(Modules)]
           /\ app.injectables \in [Modules -> Seq(Provider)]
           /\ app.controllers \in [Modules -> Seq(Controllers)]
           /\ app.params \in [Classes -> Seq(Keys)]
           /\ app.lazy \in [Requests -> Seq(Provider)]
           /\ app.route \in [Requests -> Controllers]
BY DEF TypeInv, StoreOK, App

LEMMA ProvidersOK ==
    ASSUME TypeInv, NEW f \in GoodFrame, f.who \in Modules \cup Requests
    PROVE  Providers(f) \in Seq(Provider)
BY AppFacts DEF Providers

LEMMA ImportType ==
    ASSUME TypeInv, NEW t \in Tasks, Import(t)
    PROVE  TypeInv'
<1> DEFINE f == Top(t)
           m == app.imports[f.who][f.i]
<1>1. stack[t] # <<>> /\ f \in GoodFrame /\ f.at = "imports"
  BY AtFacts DEF Import
<1>2. f.who \in Modules /\ f.i \in Nat \ {0}
  BY <1>1 DEF GoodFrame, FrameOK, Frame
<1>3. m \in Modules
  BY <1>2, AppFacts DEF Import
<1>4. Call("imports", m, None, None) \in GoodFrame
  BY <1>3, CallOK DEF FrameOK, Call, Labels
<1>5. ControlOK'
  BY <1>1, <1>4, AdvanceOK, PushOK DEF Import, TypeInv
<1> QED
  BY <1>5, StoreKept DEF Import, TypeInv

LEMMA OfferType ==
    ASSUME TypeInv, NEW t \in Tasks, Offer(t)
    PROVE  TypeInv'
<1> DEFINE f == Top(t)
           list == Providers(f)
           Last(k) == {n \in DOMAIN list :
                         /\ list[n].key = k
                         /\ \A m \in DOMAIN list : list[m].key = k => m <= n}
<1>1. stack[t] # <<>> /\ f \in GoodFrame /\ f.at = "imports"
  BY AtFacts DEF Offer
<1>2. f.who \in Modules
  BY <1>1 DEF GoodFrame, FrameOK
<1>3. list \in Seq(Provider)
  BY <1>1, <1>2, ProvidersOK
<1>4. ASSUME NEW k, Last(k) # {}
      PROVE  list[CHOOSE n \in Last(k) : TRUE].class \in Services \cup {Value}
  <2>1. (CHOOSE n \in Last(k) : TRUE) \in DOMAIN list
    BY <1>4
  <2>2. \A n \in DOMAIN list : list[n] \in Provider
    BY <1>3
  <2> QED
    BY <2>1, <2>2 DEF Provider
<1>5. available' \in [Keys -> Services \cup {Value, None}]
  BY <1>4 DEF Offer, TypeInv, StoreOK
<1>6. Goto(f, "list") \in GoodFrame
  BY <1>1, <1>2, GotoOK DEF FrameOK, Labels, GoodFrame, Frame
<1>7. ControlOK'
  BY <1>1, <1>6, ContinueOK DEF Offer, TypeInv
<1>8. StoreOK'
  BY <1>5 DEF Offer, TypeInv, StoreOK
<1> QED
  BY <1>7, <1>8 DEF TypeInv

(* What the store is given.                                                *)
LEMMA EntriesOK ==
    ASSUME TypeInv, NEW c \in Classes, NEW b \in BOOLEAN
    PROVE  /\ ValueEntry \in GoodEntry
           /\ SingleEntry(c) \in GoodEntry
           /\ FactoryEntry(c, b) \in GoodEntry
<1>1. Len(made) + 1 \in Nat
  BY DEF TypeInv, StoreOK
<1> QED
  BY <1>1 DEF ValueEntry, SingleEntry, FactoryEntry, GoodEntry, Entry

LEMMA ResolveOK ==
    ASSUME TypeInv, NEW k \in AllKeys, NEW e \in GoodEntry, Resolve(k, e)
    PROVE  resolved' \in [AllKeys -> GoodEntry \cup {None}]
BY DEF TypeInv, StoreOK, Resolve

LEMMA ProvideValueType ==
    ASSUME TypeInv, NEW t \in Tasks, ProvideValue(t)
    PROVE  TypeInv'
<1> DEFINE f == Top(t)
           list == Providers(f)
<1>1. stack[t] # <<>> /\ f \in GoodFrame /\ f.at = "list"
  BY AtFacts DEF ProvideValue
<1>2. list \in Seq(Provider)
  BY <1>1, ProvidersOK DEF GoodFrame, FrameOK
<1>3. list[f.i] \in Provider
  BY <1>1, <1>2 DEF ProvideValue, GoodFrame, Frame
<1>4. list[f.i].key \in AllKeys
  BY <1>3 DEF Provider, AllKeys
<1>5. ValueEntry \in GoodEntry
  BY DEF ValueEntry, GoodEntry, Entry
<1>6. resolved' \in [AllKeys -> GoodEntry \cup {None}]
  BY <1>4, <1>5, ResolveOK DEF ProvideValue
<1>7. ControlOK'
  BY <1>1, AdvanceOK, ContinueOK DEF ProvideValue, TypeInv
<1> QED
  BY <1>6, <1>7 DEF ProvideValue, TypeInv, StoreOK

LEMMA ProvideClassType ==
    ASSUME TypeInv, NEW t \in Tasks, ProvideClass(t)
    PROVE  TypeInv'
<1> DEFINE f == Top(t)
           p == Providers(f)[f.i]
<1>1. stack[t] # <<>> /\ f \in GoodFrame /\ f.at = "list"
  BY AtFacts DEF ProvideClass
<1>2. Providers(f) \in Seq(Provider)
  BY <1>1, ProvidersOK DEF GoodFrame, FrameOK
<1>3. p \in Provider
  BY <1>1, <1>2 DEF ProvideClass, GoodFrame, Frame
<1>4. p.key \in Keys /\ p.class \in Services
  BY <1>3 DEF Provider, ProvideClass
<1>5. Call("enter", p.class, p.key, None) \in GoodFrame
  <2>1. FrameOK(Call("enter", p.class, p.key, None))
    BY <1>4 DEF FrameOK, Call
  <2> QED
    BY <1>4, <2>1, CallOK DEF Labels, AllKeys, Classes
<1>6. ControlOK'
  BY <1>1, <1>5, AdvanceOK, PushOK DEF ProvideClass, TypeInv
<1> QED
  BY <1>6, StoreKept DEF ProvideClass, TypeInv

LEMMA ListedType ==
    ASSUME TypeInv, NEW t \in Tasks, Listed(t)
    PROVE  TypeInv'
<1> DEFINE f == Top(t)
           label == IF f.who \in Modules THEN "controllers" ELSE "get"
<1>1. stack[t] # <<>> /\ f \in GoodFrame /\ f.at = "list"
  BY AtFacts DEF Listed
<1>2. Goto(f, label) \in GoodFrame
  <2>1. f \in Frame /\ FrameOK(f)
    BY <1>1 DEF GoodFrame
  <2>2. FrameOK([f EXCEPT !.at = label])
    BY <1>1, <2>1 DEF FrameOK, Frame
  <2> QED
    BY <1>1, <2>2, GotoOK DEF Labels
<1>3. ControlOK'
  BY <1>1, <1>2, ContinueOK DEF Listed, TypeInv
<1> QED
  BY <1>3, StoreKept DEF Listed, TypeInv

LEMMA NextControllerType ==
    ASSUME TypeInv, NEW t \in Tasks, NextController(t)
    PROVE  TypeInv'
<1> DEFINE f == Top(t)
           c == app.controllers[f.who][f.i]
<1>1. stack[t] # <<>> /\ f \in GoodFrame /\ f.at = "controllers"
  BY AtFacts DEF NextController
<1>2. f.who \in Modules /\ f.i \in Nat \ {0}
  BY <1>1 DEF GoodFrame, FrameOK, Frame
<1>3. c \in Controllers
  BY <1>2, AppFacts DEF NextController
<1>4. Call("control", c, c, None) \in GoodFrame
  <2>1. FrameOK(Call("control", c, c, None))
    BY <1>3 DEF FrameOK, Call
  <2> QED
    BY <1>3, <2>1, CallOK DEF Labels, AllKeys, Classes
<1>5. ControlOK'
  BY <1>1, <1>4, AdvanceOK, PushOK DEF NextController, TypeInv
<1> QED
  BY <1>5, StoreKept DEF NextController, TypeInv

LEMMA PublishType ==
    ASSUME TypeInv, NEW t \in Tasks, Publish(t)
    PROVE  TypeInv'
<1> DEFINE f == Top(t)
<1>1. stack[t] # <<>> /\ f \in GoodFrame /\ f.at = "controllers"
  BY AtFacts DEF Publish
<1>2. f.who \in AllKeys
  BY <1>1 DEF GoodFrame, FrameOK, AllKeys
<1>3. ValueEntry \in GoodEntry
  BY DEF ValueEntry, GoodEntry, Entry
<1>4. resolved' \in [AllKeys -> GoodEntry \cup {None}]
  BY <1>2, <1>3, ResolveOK DEF Publish
<1>5. ControlOK'
  BY <1>1, ReturnOK DEF Publish, TypeInv
<1> QED
  BY <1>4, <1>5 DEF Publish, TypeInv, StoreOK

LEMMA EnterType ==
    ASSUME TypeInv, NEW t \in Tasks, Enter(t)
    PROVE  TypeInv'
<1> DEFINE f == Top(t)
           label == IF app.params[f.who] = <<>> THEN "scope" ELSE "deps"
<1>1. stack[t] # <<>> /\ f \in GoodFrame /\ f.at = "enter"
  BY AtFacts DEF Enter
<1>2. Goto(f, label) \in GoodFrame
  <2>1. f \in Frame /\ FrameOK(f)
    BY <1>1 DEF GoodFrame
  <2>2. FrameOK([f EXCEPT !.at = label])
    BY <1>1, <2>1 DEF FrameOK, Frame
  <2> QED
    BY <1>1, <2>2, GotoOK DEF Labels
<1>3. ControlOK'
  BY <1>1, <1>2, ContinueOK, ReturnOK DEF Enter, TypeInv
<1> QED
  BY <1>3, StoreKept DEF Enter, TypeInv

LEMMA ResolveDependencyType ==
    ASSUME TypeInv, NEW t \in Tasks, ResolveDependency(t)
    PROVE  TypeInv'
<1> DEFINE f == Top(t)
           k == app.params[f.who][f.i]
<1>1. stack[t] # <<>> /\ f \in GoodFrame /\ f.at = "deps"
  BY AtFacts DEF ResolveDependency
<1>2. f.who \in Services /\ f.i \in Nat \ {0}
  BY <1>1 DEF GoodFrame, FrameOK, Frame
<1>3. k \in Keys
  <2>1. app.params[f.who] \in Seq(Keys)
    BY <1>2, AppFacts DEF Classes
  <2> QED
    BY <1>2, <2>1 DEF ResolveDependency
<1>4. CASE available[k] \in Services
  <2>1. FrameOK(Call("enter", available[k], k, f.who))
    BY <1>3, <1>4 DEF FrameOK, Call
  <2>2. Call("enter", available[k], k, f.who) \in GoodFrame
    BY <1>2, <1>3, <1>4, <2>1, CallOK DEF Labels, AllKeys, Classes
  <2> QED
    BY <1>1, <2>2, AdvanceOK, PushOK, ThrowOK, ContinueOK, StoreKept
       DEF ResolveDependency, TypeInv
<1>5. CASE available[k] \notin Services
  BY <1>1, <1>5, AdvanceOK, ThrowOK, ContinueOK, StoreKept
     DEF ResolveDependency, TypeInv
<1> QED
  BY <1>4, <1>5

LEMMA DependenciesResolvedType ==
    ASSUME TypeInv, NEW t \in Tasks, DependenciesResolved(t)
    PROVE  TypeInv'
<1> DEFINE f == Top(t)
<1>1. stack[t] # <<>> /\ f \in GoodFrame /\ f.at = "deps"
  BY AtFacts DEF DependenciesResolved
<1>2. Goto(f, "scope") \in GoodFrame
  <2>1. f \in Frame /\ FrameOK(f)
    BY <1>1 DEF GoodFrame
  <2>2. FrameOK([f EXCEPT !.at = "scope"])
    BY <1>1, <2>1 DEF FrameOK, Frame
  <2> QED
    BY <1>1, <2>2, GotoOK DEF Labels
<1>3. ControlOK'
  BY <1>1, <1>2, ContinueOK DEF DependenciesResolved, TypeInv
<1> QED
  BY <1>3, StoreKept DEF DependenciesResolved, TypeInv

(* A class whose arguments are read may be an injectable or a controller.  *)
LEMMA GotoArgs ==
    ASSUME NEW f \in GoodFrame, f.at \in {"scope", "control"}
    PROVE  Goto(f, "args") \in GoodFrame
<1>1. f \in Frame /\ FrameOK(f)
  BY DEF GoodFrame
<1>2. FrameOK([f EXCEPT !.at = "args"])
  BY <1>1 DEF FrameOK, Frame, Classes, AllKeys
<1> QED
  BY <1>2, GotoOK DEF Labels

LEMMA DecideSingleType ==
    ASSUME TypeInv, NEW t \in Tasks, DecideSingle(t)
    PROVE  TypeInv'
<1>1. stack[t] # <<>> /\ Top(t) \in GoodFrame /\ Top(t).at = "scope"
  BY AtFacts DEF DecideSingle
<1>2. ControlOK'
  BY <1>1, GotoArgs, ContinueOK DEF DecideSingle, TypeInv
<1> QED
  BY <1>2, StoreKept DEF DecideSingle, TypeInv

LEMMA DecideScopedType ==
    ASSUME TypeInv, NEW t \in Tasks, DecideScoped(t)
    PROVE  TypeInv'
<1> DEFINE f == Top(t)
           e == FactoryEntry(f.who, scope[f.who] = "TRANSIENT")
<1>1. stack[t] # <<>> /\ f \in GoodFrame /\ f.at = "scope"
  BY AtFacts DEF DecideScoped
<1>2. f.who \in Services /\ f.key \in Keys
  BY <1>1 DEF GoodFrame, FrameOK
<1>3. e \in GoodEntry
  BY <1>2, EntriesOK DEF Classes
<1>4. resolved' \in [AllKeys -> GoodEntry \cup {None}]
  <2>1. Resolve(f.key, e)
    BY DEF DecideScoped
  <2> QED
    BY <1>2, <1>3, <2>1, ResolveOK DEF AllKeys
<1>5. scope' \in [Services -> Scopes]
  BY DEF DecideScoped, TypeInv, StoreOK, Scopes
<1>6. ControlOK'
  BY <1>1, ReturnOK DEF DecideScoped, TypeInv
<1> QED
  BY <1>4, <1>5, <1>6 DEF DecideScoped, TypeInv, StoreOK

LEMMA ControlType ==
    ASSUME TypeInv, NEW t \in Tasks, Control(t)
    PROVE  TypeInv'
<1>1. stack[t] # <<>> /\ Top(t) \in GoodFrame /\ Top(t).at = "control"
  BY AtFacts DEF Control
<1>2. ControlOK'
  BY <1>1, GotoArgs, ContinueOK, ThrowOK DEF Control, TypeInv
<1> QED
  BY <1>2, StoreKept DEF Control, TypeInv

LEMMA ControlScopedType ==
    ASSUME TypeInv, NEW t \in Tasks, ControlScoped(t)
    PROVE  TypeInv'
<1> DEFINE c == Top(t).who
<1>1. stack[t] # <<>> /\ Top(t) \in GoodFrame /\ Top(t).at = "control"
  BY AtFacts DEF ControlScoped
<1>2. c \in Controllers
  BY <1>1 DEF GoodFrame, FrameOK
<1>3. FactoryEntry(c, FALSE) \in GoodEntry
  BY <1>2, EntriesOK DEF Classes
<1>4. resolved' \in [AllKeys -> GoodEntry \cup {None}]
  <2>1. Resolve(c, FactoryEntry(c, FALSE))
    BY DEF ControlScoped
  <2> QED
    BY <1>2, <1>3, <2>1, ResolveOK DEF AllKeys
<1>5. ControlOK'
  BY <1>1, ReturnOK DEF ControlScoped, TypeInv
<1> QED
  BY <1>4, <1>5 DEF ControlScoped, TypeInv, StoreOK

(* Reading one argument.                                                   *)
LEMMA FactoryOK ==
    ASSUME TypeInv, NEW k \in AllKeys, NEW ctx \in Requests \cup {None},
           resolved[k] # None, resolved[k].kind = "factory"
    PROVE  Factory(k, ctx) \in GoodFrame
<1> DEFINE g == Call("make", resolved[k].class, k, None)
           b == ctx # None /\ ~ resolved[k].transient
<1>1. resolved[k] \in GoodEntry
  BY DEF TypeInv, StoreOK
<1>2. resolved[k].class \in Classes /\ b \in BOOLEAN
  BY <1>1 DEF GoodEntry, Entry
<1>3. g \in GoodFrame
  <2>1. FrameOK(g)
    BY <1>2 DEF FrameOK, Call
  <2> QED
    BY <1>2, <2>1, CallOK DEF Labels, Classes
<1>4. [g EXCEPT !.ctx = ctx, !.cached = b] \in Frame
  BY <1>2, <1>3 DEF GoodFrame, Frame
<1>5. FrameOK([g EXCEPT !.ctx = ctx, !.cached = b])
  BY <1>2, <1>3 DEF GoodFrame, FrameOK, Frame, Call
<1> QED
  BY <1>4, <1>5 DEF GoodFrame, Factory

LEMMA ArgsOK ==
    ASSUME NEW f \in GoodFrame, NEW ref \in Nat
    PROVE  [f EXCEPT !.args = Append(@, ref)] \in GoodFrame
<1> DEFINE g == [f EXCEPT !.args = Append(@, ref)]
<1>1. f \in Frame /\ FrameOK(f)
  BY DEF GoodFrame
<1>2. Append(f.args, ref) \in Seq(Nat)
  BY <1>1 DEF Frame
<1>3. g \in Frame
  BY <1>1, <1>2 DEF Frame
<1>4. /\ g.at = f.at /\ g.who = f.who /\ g.key = f.key
      /\ g.cached = f.cached /\ g.ctx = f.ctx
  BY <1>1 DEF Frame
<1>5. FrameOK(g)
  <2> HIDE DEF g
  <2> QED
    BY <1>1, <1>4 DEF FrameOK
<1> QED
  BY <1>3, <1>5 DEF GoodFrame

LEMMA ReadOK ==
    ASSUME TypeInv, NEW t \in Tasks, stack[t] # <<>>, Top(t) \in GoodFrame,
           NEW k \in AllKeys, NEW ctx \in Requests \cup {None}, Read(t, k, ctx)
    PROVE  ControlOK'
<1>1. CASE resolved[k] = None
  BY <1>1, ThrowOK DEF Read, TypeInv
<1>2. CASE resolved[k] # None /\ resolved[k].kind # "factory"
  <2>1. resolved[k].ref \in Nat
    BY <1>2 DEF TypeInv, StoreOK, GoodEntry, Entry
  <2>2. [Top(t) EXCEPT !.args = Append(@, resolved[k].ref)] \in GoodFrame
    BY <2>1, ArgsOK
  <2>3. Await(t, [Top(t) EXCEPT !.args = Append(@, resolved[k].ref)])
    BY <1>2 DEF Read
  <2> QED
    BY <2>2, <2>3, ContinueOK DEF TypeInv
<1>3. CASE resolved[k] # None /\ resolved[k].kind = "factory"
  <2>1. Factory(k, ctx) \in GoodFrame
    BY <1>3, FactoryOK
  <2>2. Push(t, Top(t), Factory(k, ctx))
    BY <1>3 DEF Read
  <2> QED
    BY <2>1, <2>2, PushOK DEF TypeInv
<1> QED
  BY <1>1, <1>2, <1>3

LEMMA ReadArgumentType ==
    ASSUME TypeInv, NEW t \in Tasks, ReadArgument(t)
    PROVE  TypeInv'
<1> DEFINE f == Top(t)
           k == app.params[f.who][Len(f.args) + 1]
<1>1. stack[t] # <<>> /\ f \in GoodFrame /\ f.at \in {"args", "make"}
  BY AtFacts DEF ReadArgument
<1>2. f.who \in Classes /\ f.args \in Seq(Nat) /\ f.ctx \in Requests \cup {None}
  BY <1>1 DEF GoodFrame, FrameOK, Frame
<1>3. k \in Keys
  <2>1. app.params[f.who] \in Seq(Keys)
    BY <1>2, AppFacts
  <2>2. Len(f.args) + 1 \in 1 .. Len(app.params[f.who])
    BY <1>2, <2>1 DEF ReadArgument, Complete
  <2> QED
    BY <2>1, <2>2
<1>4. ControlOK'
  BY <1>1, <1>2, <1>3, ReadOK DEF ReadArgument, AllKeys
<1> QED
  BY <1>4, StoreKept DEF ReadArgument, TypeInv

(* Building an instance.                                                   *)
LEMMA BuiltOK ==
    ASSUME NEW f \in GoodFrame, f.who \in Classes, f.key \in AllKeys,
           NEW b \in BOOLEAN
    PROVE  Built(f, b) \in Instance
BY DEF GoodFrame, Frame, Built, Instance

LEMMA MadeOK ==
    ASSUME TypeInv, NEW x \in Instance, made' = Append(made, x)
    PROVE  made' \in Seq(Instance)
<1>1. made \in Seq(Instance)
  BY DEF TypeInv, StoreOK
<1> QED
  BY <1>1, StackPush

LEMMA ConstructType ==
    ASSUME TypeInv, NEW t \in Tasks, Construct(t)
    PROVE  TypeInv'
<1> DEFINE f == Top(t)
<1>1. stack[t] # <<>> /\ f \in GoodFrame /\ f.at = "args"
  BY AtFacts DEF Construct
<1>2. f.who \in Classes /\ f.key \in AllKeys
  BY <1>1 DEF GoodFrame, FrameOK
<1>3. made' \in Seq(Instance)
  <2>1. Built(f, TRUE) \in Instance
    BY <1>1, <1>2, BuiltOK
  <2>2. made' = Append(made, Built(f, TRUE))
    BY DEF Construct
  <2> QED
    BY <2>1, <2>2, MadeOK
<1>4. resolved' \in [AllKeys -> GoodEntry \cup {None}]
  <2>1. SingleEntry(f.who) \in GoodEntry
    BY <1>2, EntriesOK
  <2> QED
    BY <1>2, <2>1, ResolveOK DEF Construct
<1>5. ControlOK'
  BY <1>1, ReturnOK DEF Construct, TypeInv
<1> QED
  BY <1>3, <1>4, <1>5 DEF Construct, TypeInv, StoreOK

LEMMA RememberOK ==
    ASSUME TypeInv, NEW f \in GoodFrame, f.key \in AllKeys, NEW ref \in Nat,
           Remember(f, ref)
    PROVE  ctxCache' \in [Requests -> [AllKeys -> Nat]]
<1>1. f.cached => f.ctx \in Requests
  BY DEF GoodFrame, FrameOK
<1> QED
  BY <1>1 DEF Remember, TypeInv, StoreOK

LEMMA CacheHitType ==
    ASSUME TypeInv, NEW t \in Tasks, CacheHit(t)
    PROVE  TypeInv'
<1> DEFINE f == Top(t)
<1>1. stack[t] # <<>> /\ f \in GoodFrame /\ f.at = "make"
  BY AtFacts DEF CacheHit
<1>2. f.key \in AllKeys /\ f.ctx \in Requests
  BY <1>1 DEF GoodFrame, FrameOK, CacheHit, Hit
<1>3. ctxCache[f.ctx][f.key] \in Nat
  BY <1>2 DEF TypeInv, StoreOK
<1>4. ControlOK'
  BY <1>1, <1>3, AnswerOK DEF CacheHit, TypeInv
<1> QED
  BY <1>4, StoreKept DEF CacheHit, TypeInv

LEMMA MakeType ==
    ASSUME TypeInv, NEW t \in Tasks, Make(t)
    PROVE  TypeInv'
<1> DEFINE f == Top(t)
<1>1. stack[t] # <<>> /\ f \in GoodFrame /\ f.at = "make"
  BY AtFacts DEF Make
<1>2. f.who \in Classes /\ f.key \in AllKeys
  BY <1>1 DEF GoodFrame, FrameOK
<1>3. Len(made) + 1 \in Nat
  BY DEF TypeInv, StoreOK
<1>4. made' \in Seq(Instance)
  <2>1. Built(f, FALSE) \in Instance
    BY <1>1, <1>2, BuiltOK
  <2>2. made' = Append(made, Built(f, FALSE))
    BY DEF Make
  <2> QED
    BY <2>1, <2>2, MadeOK
<1>5. ctxCache' \in [Requests -> [AllKeys -> Nat]]
  BY <1>1, <1>2, <1>3, RememberOK DEF Make
<1>6. ControlOK'
  BY <1>1, <1>3, AnswerOK DEF Make, TypeInv
<1> QED
  BY <1>4, <1>5, <1>6 DEF Make, TypeInv, StoreOK

LEMMA MakeHookedType ==
    ASSUME TypeInv, NEW t \in Tasks, MakeHooked(t)
    PROVE  TypeInv'
<1> DEFINE f == Top(t)
           g == [f EXCEPT !.at = "hook", !.i = Len(made) + 1]
<1>1. stack[t] # <<>> /\ f \in GoodFrame /\ f.at = "make"
  BY AtFacts DEF MakeHooked
<1>2. f.who \in Classes /\ f.key \in AllKeys
  BY <1>1 DEF GoodFrame, FrameOK
<1>3. Len(made) + 1 \in Nat \ {0}
  BY DEF TypeInv, StoreOK
<1>4. made' \in Seq(Instance)
  <2>1. Built(f, FALSE) \in Instance
    BY <1>1, <1>2, BuiltOK
  <2>2. made' = Append(made, Built(f, FALSE))
    BY DEF MakeHooked
  <2> QED
    BY <2>1, <2>2, MadeOK
<1>5. g \in GoodFrame
  <2>1. f \in Frame /\ FrameOK(f) /\ "hook" \in Labels
    BY <1>1 DEF GoodFrame, Labels
  <2>2. g \in Frame
    BY <1>3, <2>1, Zenon DEF Frame
  <2>3. /\ g.at = "hook" /\ g.who = f.who /\ g.key = f.key
        /\ g.cached = f.cached /\ g.ctx = f.ctx
    BY <2>1 DEF Frame
  <2>4. FrameOK(g)
    <3> HIDE DEF g
    <3> QED
      BY <1>2, <2>1, <2>3 DEF FrameOK
  <2> QED
    BY <2>2, <2>4 DEF GoodFrame
<1>6. ControlOK'
  BY <1>1, <1>5, ContinueOK DEF MakeHooked, TypeInv
<1> QED
  BY <1>4, <1>6 DEF MakeHooked, TypeInv, StoreOK

LEMMA HookDoneType ==
    ASSUME TypeInv, NEW t \in Tasks, HookDone(t)
    PROVE  TypeInv'
<1> DEFINE f == Top(t)
<1>1. stack[t] # <<>> /\ f \in GoodFrame /\ f.at = "hook"
  BY AtFacts DEF HookDone
<1>2. f.key \in AllKeys /\ f.i \in Nat
  BY <1>1 DEF GoodFrame, FrameOK, Frame
<1>3. ctxCache' \in [Requests -> [AllKeys -> Nat]]
  BY <1>1, <1>2, RememberOK DEF HookDone
<1>4. ControlOK'
  BY <1>1, <1>2, AnswerOK DEF HookDone, TypeInv
<1> QED
  BY <1>3, <1>4 DEF HookDone, TypeInv, StoreOK

LEMMA HookThrowsType ==
    ASSUME TypeInv, NEW t \in Tasks, HookThrows(t)
    PROVE  TypeInv'
BY ThrowOK, StoreKept DEF HookThrows, TypeInv

-----------------------------------------------------------------------------
(* The requests.                                                           *)

LEMMA ArriveType ==
    ASSUME TypeInv, NEW r \in Requests, Arrive(r)
    PROVE  TypeInv'
<1> DEFINE f == Call("list", r, app.route[r], None)
           g == [f EXCEPT !.ctx = r]
<1>1. app.route[r] \in Controllers
  BY AppFacts
<1>2. f \in GoodFrame
  <2>1. FrameOK(f)
    BY <1>1 DEF FrameOK, Call
  <2> QED
    BY <1>1, <2>1, CallOK DEF Labels, AllKeys
<1>3. g \in GoodFrame
  <2>1. f \in Frame
    BY <1>2 DEF GoodFrame
  <2>2. g \in Frame
    BY <2>1 DEF Frame
  <2>3. g.at = "list" /\ g.who = r /\ g.key = app.route[r] /\ g.cached = FALSE
    BY DEF Call
  <2>4. FrameOK(g)
    <3> HIDE DEF g
    <3> QED
      BY <1>1, <2>3 DEF FrameOK
  <2> QED
    BY <2>2, <2>4 DEF GoodFrame
<1>4. <<g>> \in Seq(GoodFrame)
  BY <1>3
<1>5. ControlOK'
  BY <1>4 DEF Arrive, TypeInv, ControlOK, Tasks
<1> QED
  BY <1>5, StoreKept DEF Arrive, TypeInv

LEMMA GetControllerType ==
    ASSUME TypeInv, NEW r \in Requests, GetController(r)
    PROVE  TypeInv'
<1> DEFINE f == Top(r)
<1>1. stack[r] # <<>> /\ f \in GoodFrame /\ f.at = "get"
  BY AtFacts DEF GetController, Tasks
<1>2. f.key \in AllKeys /\ f.ctx \in Requests \cup {None}
  BY <1>1 DEF GoodFrame, FrameOK, Frame, AllKeys
<1>3. ControlOK'
  BY <1>1, <1>2, ReadOK DEF GetController, Tasks
<1> QED
  BY <1>3, StoreKept DEF GetController, TypeInv

LEMMA ServeType ==
    ASSUME TypeInv, NEW r \in Requests, Serve(r)
    PROVE  TypeInv'
<1>1. r \in Tasks /\ stack[r] # <<>>
  BY AtFacts DEF Serve, Tasks
<1>2. ControlOK'
  BY <1>1, ReturnOK, ThrowOK DEF Serve, TypeInv
<1> QED
  BY <1>2, StoreKept DEF Serve, TypeInv

LEMMA HandleErrorType ==
    ASSUME TypeInv, NEW r \in Requests, HandleError(r)
    PROVE  TypeInv'
<1>1. ctxCache' \in [Requests -> [AllKeys -> Nat]]
  BY DEF HandleError, TypeInv, StoreOK
<1>2. ControlOK'
  BY DEF HandleError, TypeInv, ControlOK
<1> QED
  BY <1>1, <1>2 DEF HandleError, TypeInv, StoreOK

-----------------------------------------------------------------------------
LEMMA InitType == Init => TypeInv
<1> SUFFICES ASSUME Init PROVE TypeInv
  OBVIOUS
<1>1. app \in App
  BY AppsAssumption DEF Init
<1>2. StoreOK
  <2>1. app.scope \in [Services -> Scopes]
    BY <1>1 DEF App
  <2> QED
    BY <1>1, <2>1 DEF Init, StoreOK
<1>3. Call("imports", app.entry, None, None) \in GoodFrame
  <2>1. app.entry \in Modules
    BY <1>1 DEF App
  <2>2. FrameOK(Call("imports", app.entry, None, None))
    BY <2>1 DEF FrameOK, Call
  <2> QED
    BY <2>1, <2>2, CallOK DEF Labels
<1>4. ControlOK
  BY <1>3 DEF Init, ControlOK
<1> QED
  BY <1>2, <1>4 DEF TypeInv

LEMMA StepType ==
    ASSUME TypeInv, NEW t \in Tasks, Step(t)
    PROVE  TypeInv'
BY ImportType, OfferType, ProvideValueType, ProvideClassType, ListedType,
   NextControllerType, PublishType, EnterType, ResolveDependencyType,
   DependenciesResolvedType, DecideSingleType, DecideScopedType, ControlType,
   ControlScopedType, ReadArgumentType, ConstructType, CacheHitType, MakeType,
   MakeHookedType, HookDoneType, HookThrowsType
   DEF Step

LEMMA NextType == TypeInv /\ [Next]_vars => TypeInv'
<1> SUFFICES ASSUME TypeInv, [Next]_vars PROVE TypeInv'
  OBVIOUS
<1>1. CASE UNCHANGED vars
  BY <1>1 DEF vars, store, TypeInv, StoreOK, ControlOK
<1>2. CASE \E t \in Tasks : Step(t)
  BY <1>2, StepType
<1>3. CASE \E r \in Requests : Arrive(r) \/ RequestStep(r)
  BY <1>3, ArriveType, GetControllerType, ServeType, HandleErrorType
     DEF RequestStep
<1>4. CASE Quiet
  BY <1>1, <1>4 DEF Quiet
<1> QED
  BY <1>1, <1>2, <1>3, <1>4 DEF Next

(* Whatever the application, every map of the injector and every frame of  *)
(* every task keeps its type: a factory is only registered for a class, a  *)
(* frame that fills a context's cache has a request as its context.        *)
THEOREM TypeCorrect == Spec => []TypeOK
<1>1. Spec => []TypeInv
  BY InitType, NextType, PTL DEF Spec
<1> QED
  BY <1>1, TypeInvTypeOK, PTL

-----------------------------------------------------------------------------
(* Registration.  Every key that a frame is done with is registered, or    *)
(* the frame directly above is at work on it: a list of providers is done  *)
(* with those before its index, a class with the dependencies before its   *)
(* index.  a is the application, reg the registry, K the keys that a frame *)
(* above the stack would be at work on.                                    *)

Resolving == {"enter", "deps", "scope", "args"}
Awaits(f, k) == f.at \in Resolving /\ f.key = k

Provided(a, f) ==
    IF f.who \in Modules THEN a.injectables[f.who] ELSE a.lazy[f.who]

Due(a, f, k) ==
    \/ \E n \in DOMAIN Provided(a, f) :
         /\ k = Provided(a, f)[n].key
         /\ f.at = "controllers" \/ (f.at = "list" /\ n < f.i)
    \/ \E n \in DOMAIN a.params[f.who] :
         /\ k = a.params[f.who][n]
         /\ f.at \in {"scope", "args"} \/ (f.at = "deps" /\ n < f.i)

OfferedAs(a, k, c) == \E p \in Offered(a) : p.key = k /\ p.class = c

FrameReg(a, f) ==
    /\ f.at \in {"enter", "deps", "scope"} \/ (f.at = "args" /\ f.key \in Keys)
         => OfferedAs(a, f.key, f.who)
    /\ f.at = "args" => f.key \notin Modules

StackReg(a, reg, s, K) ==
    \A j \in 1 .. Len(s) :
        /\ FrameReg(a, s[j])
        /\ \A k \in Keys : Due(a, s[j], k) =>
             \/ reg[k] # None
             \/ j < Len(s) /\ Awaits(s[j + 1], k)
             \/ j = Len(s) /\ k \in K

Keeps(reg, new) == \A k \in AllKeys : reg[k] # None => new[k] # None

AvailableReg(a, av) ==
    \A k \in Keys : av[k] \in Services => OfferedAs(a, k, av[k])
KeysReg(a, reg) ==
    \A k \in Keys : reg[k] # None => \E p \in Offered(a) : p.key = k
ModulesReg(a, reg) ==
    \A m \in Modules : reg[m] # None =>
        \A n \in DOMAIN a.injectables[m] : reg[a.injectables[m][n].key] # None

Registered ==
    /\ app \in Apps
    /\ AvailableReg(app, available)
    /\ KeysReg(app, resolved)
    /\ ModulesReg(app, resolved)
    /\ \A t \in Tasks : StackReg(app, resolved, stack[t], {})

RegInv == TypeInv /\ Registered

LEMMA RegTop ==
    ASSUME NEW a, NEW reg, NEW K, NEW S, NEW s \in Seq(S), s # <<>>,
           StackReg(a, reg, s, K), NEW f, f = s[Len(s)]
    PROVE  /\ FrameReg(a, f)
           /\ \A k \in Keys : Due(a, f, k) => reg[k] # None \/ k \in K
<1>1. Len(s) \in 1 .. Len(s) /\ ~ (Len(s) < Len(s))
  BY StackTop
<1> QED
  BY <1>1 DEF StackReg

LEMMA RegBelow ==
    ASSUME NEW a, NEW reg, NEW K, NEW S, NEW s \in Seq(S), s # <<>>,
           StackReg(a, reg, s, K), NEW b, b = SubSeq(s, 1, Len(s) - 1),
           NEW J, \A k \in Keys : Awaits(s[Len(s)], k) => k \in J
    PROVE  StackReg(a, reg, b, J)
<1>1. /\ Len(s) \in Nat \ {0} /\ Len(b) = Len(s) - 1
      /\ \A j \in 1 .. Len(s) - 1 : b[j] = s[j]
  BY StackTop
<1>2. ASSUME NEW j \in 1 .. Len(b)
      PROVE  /\ FrameReg(a, b[j])
             /\ \A k \in Keys : Due(a, b[j], k) =>
                  \/ reg[k] # None
                  \/ j < Len(b) /\ Awaits(b[j + 1], k)
                  \/ j = Len(b) /\ k \in J
  <2>1. j \in 1 .. Len(s) /\ b[j] = s[j] /\ j # Len(s)
    BY <1>1
  <2>2. /\ FrameReg(a, s[j])
        /\ \A k \in Keys : Due(a, s[j], k) =>
             reg[k] # None \/ Awaits(s[j + 1], k)
    BY <2>1 DEF StackReg
  <2>3. CASE j = Len(b)
    <3>1. j + 1 = Len(s)
      BY <1>1, <2>3
    <3> QED
      BY <2>1, <2>2, <2>3, <3>1
  <2>4. CASE j # Len(b)
    <3>1. j < Len(b) /\ b[j + 1] = s[j + 1]
      BY <1>1, <2>4
    <3> QED
      BY <2>1, <2>2, <3>1
  <2> QED
    BY <2>3, <2>4
<1> QED
  BY <1>2 DEF StackReg

LEMMA RegAdd ==
    ASSUME NEW a, NEW reg, NEW J, NEW K, NEW S, NEW s \in Seq(S), NEW f \in S,
           StackReg(a, reg, s, J), FrameReg(a, f),
           \A k \in Keys : Due(a, f, k) => reg[k] # None \/ k \in K,
           \A k \in Keys : k \in J => reg[k] # None \/ Awaits(f, k)
    PROVE  StackReg(a, reg, Append(s, f), K)
<1> DEFINE p == Append(s, f)
<1>1. /\ Len(s) \in Nat /\ Len(p) = Len(s) + 1 /\ p[Len(s) + 1] = f
      /\ \A j \in 1 .. Len(s) : p[j] = s[j]
  BY StackPush
<1> HIDE DEF p
<1>2. ASSUME NEW j \in 1 .. Len(p)
      PROVE  /\ FrameReg(a, p[j])
             /\ \A k \in Keys : Due(a, p[j], k) =>
                  \/ reg[k] # None
                  \/ j < Len(p) /\ Awaits(p[j + 1], k)
                  \/ j = Len(p) /\ k \in K
  <2>1. CASE j = Len(s) + 1
    BY <1>1, <2>1
  <2>2. CASE j = Len(s) /\ j # 0
    <3>1. j \in 1 .. Len(s) /\ p[j] = s[j] /\ j < Len(p) /\ p[j + 1] = f
      BY <1>1, <2>2
    <3>2. /\ FrameReg(a, s[j])
          /\ \A k \in Keys : Due(a, s[j], k) => reg[k] # None \/ k \in J
      BY <2>2, <3>1 DEF StackReg
    <3> QED
      BY <3>1, <3>2
  <2>3. CASE j < Len(s)
    <3>1. /\ j \in 1 .. Len(s) /\ j < Len(p) /\ j # Len(s)
          /\ p[j] = s[j] /\ p[j + 1] = s[j + 1]
      BY <1>1, <2>3
    <3>2. /\ FrameReg(a, s[j])
          /\ \A k \in Keys : Due(a, s[j], k) =>
               reg[k] # None \/ Awaits(s[j + 1], k)
      BY <3>1 DEF StackReg
    <3> QED
      BY <3>1, <3>2
  <2> QED
    BY <1>1, <2>1, <2>2, <2>3
<1>3. StackReg(a, reg, p, K)
  BY <1>2 DEF StackReg
<1> QED
  BY <1>3 DEF p

LEMMA RegMore ==
    ASSUME NEW a, NEW reg, NEW new, Keeps(reg, new), NEW J, NEW K, NEW s,
           StackReg(a, reg, s, J),
           \A k \in Keys : k \in J => new[k] # None \/ k \in K
    PROVE  StackReg(a, new, s, K)
<1>1. \A k \in Keys : reg[k] # None => new[k] # None
  BY DEF Keeps, AllKeys
<1> QED
  BY <1>1 DEF StackReg

(* Only label, class, key and index of a frame count.                      *)
Like(f, g) == f.at = g.at /\ f.who = g.who /\ f.key = g.key /\ f.i = g.i

LEMMA LikeReg ==
    ASSUME NEW a, NEW f, NEW g, Like(f, g)
    PROVE  /\ FrameReg(a, g) => FrameReg(a, f)
           /\ \A k : Due(a, f, k) => Due(a, g, k)
           /\ \A k : Awaits(g, k) => Awaits(f, k)
<1>1. FrameReg(a, g) => FrameReg(a, f)
  BY DEF Like, FrameReg
<1>2. Provided(a, f) = Provided(a, g)
  BY DEF Like, Provided
<1>3. ASSUME NEW k, Due(a, f, k) PROVE Due(a, g, k)
  BY <1>2, <1>3 DEF Like, Due
<1> QED
  BY <1>1, <1>3 DEF Like, Awaits

-----------------------------------------------------------------------------
(* What a step of a task leaves of the stacks, when the registry is new.   *)

TurnReg(new, t) ==
    /\ \A u \in Tasks : u # t => stack'[u] = stack[u]
    /\ StackReg(app, new, stack'[t], {})

LEMMA RegFacts ==
    ASSUME RegInv, NEW t \in Tasks, NEW label, At(t, label),
           NEW new, Keeps(resolved, new)
    PROVE  /\ stack[t] # <<>> /\ Top(t) \in GoodFrame /\ Top(t).at = label
           /\ Top(t) \in Frame
           /\ Below(t) \in Seq(GoodFrame) /\ stack \in [Tasks -> Seq(GoodFrame)]
           /\ FrameReg(app, Top(t))
           /\ \A k \in Keys : Due(app, Top(t), k) => resolved[k] # None
           /\ StackReg(app, new, Below(t), {k \in Keys : Awaits(Top(t), k)})
<1>1. stack[t] # <<>> /\ Top(t) \in GoodFrame /\ Top(t).at = label
  BY AtFacts DEF RegInv
<1>2. stack[t] \in Seq(GoodFrame) /\ stack \in [Tasks -> Seq(GoodFrame)]
  BY DEF RegInv, TypeInv, ControlOK
<1>3. StackReg(app, resolved, stack[t], {})
  BY DEF RegInv, Registered
<1>4. /\ StackReg(app, resolved, Below(t), {k \in Keys : Awaits(Top(t), k)})
      /\ FrameReg(app, Top(t))
      /\ \A k \in Keys : Due(app, Top(t), k) => resolved[k] # None
  <2>1. /\ Top(t) = stack[t][Len(stack[t])]
        /\ Below(t) = SubSeq(stack[t], 1, Len(stack[t]) - 1)
    BY DEF Top, Below, Depth
  <2>2. /\ FrameReg(app, Top(t))
        /\ \A k \in Keys : Due(app, Top(t), k) => resolved[k] # None \/ k \in {}
    BY <1>1, <1>2, <1>3, <2>1, RegTop
  <2> DEFINE J == {k \in Keys : Awaits(Top(t), k)}
  <2>3. \A k \in Keys : Awaits(stack[t][Len(stack[t])], k) => k \in J
    BY <2>1
  <2> HIDE DEF J
  <2>4. StackReg(app, resolved, Below(t), J)
    BY <1>1, <1>2, <1>3, <2>1, <2>3, RegBelow
  <2> QED
    BY <2>2, <2>4 DEF J
<1>5. Below(t) \in Seq(GoodFrame)
  BY <1>1, <1>2, StackTop DEF Below, Depth
<1>6. StackReg(app, new, Below(t), {k \in Keys : Awaits(Top(t), k)})
  BY <1>4, RegMore
<1> QED
  BY <1>1, <1>2, <1>4, <1>5, <1>6 DEF GoodFrame

LEMMA ContinueReg ==
    ASSUME RegInv, NEW t \in Tasks, NEW label, At(t, label),
           NEW new, Keeps(resolved, new), NEW f, FrameReg(app, f),
           \A k \in Keys : Due(app, f, k) => new[k] # None,
           \A k \in Keys : Awaits(Top(t), k) => new[k] # None \/ Awaits(f, k),
           Continue(t, f) \/ Await(t, f)
    PROVE  TurnReg(new, t)
<1> DEFINE b == Below(t)
           J == {k \in Keys : Awaits(Top(t), k)}
<1>1. /\ b \in Seq(GoodFrame) /\ stack \in [Tasks -> Seq(GoodFrame)]
      /\ StackReg(app, new, b, J)
  BY RegFacts
<1>2. stack' = [stack EXCEPT ![t] = Append(b, f)]
  BY DEF Continue, Await
<1>3. \A k \in Keys : k \in J => new[k] # None \/ Awaits(f, k)
  OBVIOUS
<1> HIDE DEF b, J
<1>4. b \in Seq(GoodFrame \cup {f})
  BY <1>1
<1>5. StackReg(app, new, Append(b, f), {})
  BY <1>1, <1>3, <1>4, RegAdd
<1> QED
  BY <1>1, <1>2, <1>5 DEF TurnReg

LEMMA ThrowReg ==
    ASSUME RegInv, NEW t \in Tasks, NEW new, Throw(t)
    PROVE  TurnReg(new, t)
<1>1. stack \in [Tasks -> Seq(GoodFrame)] /\ stack' = [stack EXCEPT ![t] = <<>>]
  BY DEF RegInv, TypeInv, ControlOK, Throw
<1>2. StackReg(app, new, <<>>, {})
  BY DEF StackReg
<1> QED
  BY <1>1, <1>2 DEF TurnReg

LEMMA PushReg ==
    ASSUME RegInv, NEW t \in Tasks, NEW label, At(t, label),
           NEW f, FrameReg(app, f), NEW g, FrameReg(app, g),
           \A k \in Keys : Due(app, f, k) => resolved[k] # None \/ Awaits(g, k),
           \A k \in Keys : ~ Due(app, g, k),
           \A k \in Keys : Awaits(Top(t), k) => Awaits(f, k),
           Push(t, f, g)
    PROVE  TurnReg(resolved, t)
<1>1. CASE ~ (Depth(t) < StackLimit)
  BY <1>1, ThrowReg DEF Push
<1>2. CASE Depth(t) < StackLimit
  <2> DEFINE b == Below(t)
             J == {k \in Keys : Awaits(Top(t), k)}
             K == {k \in Keys : Awaits(g, k)}
  <2>1. Keeps(resolved, resolved)
    BY DEF Keeps
  <2>2. /\ b \in Seq(GoodFrame) /\ stack \in [Tasks -> Seq(GoodFrame)]
        /\ StackReg(app, resolved, b, J)
    BY <2>1, RegFacts
  <2>3. stack' = [stack EXCEPT ![t] = Append(Append(b, f), g)]
    BY <1>2 DEF Push
  <2>4. /\ \A k \in Keys : k \in J => resolved[k] # None \/ Awaits(f, k)
        /\ \A k \in Keys : Due(app, f, k) => resolved[k] # None \/ k \in K
        /\ \A k \in Keys : k \in K => resolved[k] # None \/ Awaits(g, k)
        /\ \A k \in Keys : Due(app, g, k) => resolved[k] # None \/ k \in {}
    OBVIOUS
  <2> HIDE DEF b, J, K
  <2>5. b \in Seq(GoodFrame \cup {f, g})
    BY <2>2
  <2>6. StackReg(app, resolved, Append(b, f), K)
    BY <2>2, <2>4, <2>5, RegAdd
  <2>7. Append(b, f) \in Seq(GoodFrame \cup {f, g})
    BY <2>5
  <2>8. StackReg(app, resolved, Append(Append(b, f), g), {})
    BY <2>4, <2>6, <2>7, RegAdd
  <2> QED
    BY <2>2, <2>3, <2>8 DEF TurnReg
<1> QED
  BY <1>1, <1>2

LEMMA ReturnReg ==
    ASSUME RegInv, NEW t \in Tasks, NEW label, At(t, label),
           NEW new, Keeps(resolved, new),
           \A k \in Keys : Awaits(Top(t), k) => new[k] # None,
           Return(t)
    PROVE  TurnReg(new, t)
<1> DEFINE J == {k \in Keys : Awaits(Top(t), k)}
<1>1. StackReg(app, new, Below(t), J) /\ stack \in [Tasks -> Seq(GoodFrame)]
  BY RegFacts
<1>2. \A k \in Keys : k \in J => new[k] # None \/ k \in {}
  OBVIOUS
<1> HIDE DEF J
<1>3. Keeps(new, new)
  BY DEF Keeps
<1>4. StackReg(app, new, Below(t), {})
  BY <1>1, <1>2, <1>3, RegMore
<1>5. stack' = [stack EXCEPT ![t] = Below(t)]
  BY DEF Return
<1> QED
  BY <1>1, <1>4, <1>5 DEF TurnReg

LEMMA LastLikeReg ==
    ASSUME NEW a, NEW reg, NEW K, NEW b, NEW c, Len(b) \in Nat,
           Len(c) = Len(b), \A j \in 1 .. Len(b) : Like(c[j], b[j]),
           StackReg(a, reg, b, K)
    PROVE  StackReg(a, reg, c, K)
<1>1. ASSUME NEW j \in 1 .. Len(c)
      PROVE  /\ FrameReg(a, c[j])
             /\ \A k \in Keys : Due(a, c[j], k) =>
                  \/ reg[k] # None
                  \/ j < Len(c) /\ Awaits(c[j + 1], k)
                  \/ j = Len(c) /\ k \in K
  <2>1. j \in 1 .. Len(b) /\ Like(c[j], b[j])
    OBVIOUS
  <2>2. ASSUME j < Len(c)
        PROVE  \A k : Awaits(b[j + 1], k) => Awaits(c[j + 1], k)
    <3>1. j + 1 \in 1 .. Len(b) /\ Like(c[j + 1], b[j + 1])
      BY <2>2
    <3> QED
      BY <3>1, LikeReg
  <2>3. /\ FrameReg(a, b[j])
        /\ \A k \in Keys : Due(a, b[j], k) =>
             \/ reg[k] # None
             \/ j < Len(b) /\ Awaits(b[j + 1], k)
             \/ j = Len(b) /\ k \in K
    BY <2>1 DEF StackReg
  <2>4. /\ FrameReg(a, b[j]) => FrameReg(a, c[j])
        /\ \A k : Due(a, c[j], k) => Due(a, b[j], k)
    BY <2>1, LikeReg
  <2> QED
    BY <2>2, <2>3, <2>4
<1> QED
  BY <1>1 DEF StackReg

LEMMA AnswerLike ==
    ASSUME TypeInv, NEW t \in Tasks, stack[t] # <<>>, NEW ref \in Nat,
           Answer(t, ref)
    PROVE  /\ Len(Below(t)) \in Nat /\ Len(stack'[t]) = Len(Below(t))
           /\ \A j \in 1 .. Len(Below(t)) : Like(stack'[t][j], Below(t)[j])
           /\ \A u \in Tasks : u # t => stack'[u] = stack[u]
<1> DEFINE b == Below(t)
           d == Depth(t) - 1
           c == [b EXCEPT ![d].args = Append(@, ref)]
<1>1. b \in Seq(GoodFrame) /\ Len(b) = d /\ d \in Nat
  BY StackTop DEF TypeInv, ControlOK, Below, Depth
<1>2. /\ stack'[t] = c
      /\ \A u \in Tasks : u # t => stack'[u] = stack[u]
  BY DEF Answer, TypeInv, ControlOK
<1>3. Len(c) = Len(b) /\ \A j \in 1 .. Len(b) : Like(c[j], b[j])
  <2>1. CASE d = 0
    <3> HIDE DEF b, d
    <3>1. b = <<>> /\ Len(b) = 0
      BY <1>1, <2>1
    <3>2. c = b
      BY <2>1, <3>1
    <3> QED
      BY <3>1, <3>2 DEF c
  <2>2. CASE d # 0
    <3> DEFINE f == [b[d] EXCEPT !.args = Append(@, ref)]
    <3>1. d \in 1 .. Len(b) /\ b[d] \in GoodFrame
      <4> HIDE DEF b, d
      <4> QED
        BY <1>1, <2>2
    <3>2. /\ f.at = b[d].at /\ f.who = b[d].who /\ f.key = b[d].key
          /\ f.i = b[d].i
      BY <3>1 DEF GoodFrame, Frame
    <3>3. f \in GoodFrame
      BY <3>1, ArgsOK
    <3>4. c = [b EXCEPT ![d] = f]
      OBVIOUS
    <3>5. /\ Len(c) = Len(b) /\ c[d] = f
          /\ \A j \in 1 .. Len(b) : j # d => c[j] = b[j]
      <4> HIDE DEF b, c, d, f
      <4> QED
        BY <1>1, <3>1, <3>3, <3>4
    <3> HIDE DEF b, c, d, f
    <3> QED
      BY <3>2, <3>5 DEF Like
  <2> QED
    BY <2>1, <2>2
<1> QED
  BY <1>1, <1>2, <1>3

LEMMA AnswerReg ==
    ASSUME RegInv, NEW t \in Tasks, NEW label \in {"make", "hook"}, At(t, label),
           NEW ref \in Nat, Answer(t, ref)
    PROVE  TurnReg(resolved, t)
<1> DEFINE J == {k \in Keys : Awaits(Top(t), k)}
<1>1. Keeps(resolved, resolved)
  BY DEF Keeps
<1>2. /\ StackReg(app, resolved, Below(t), J) /\ stack[t] # <<>>
      /\ Top(t).at = label
  BY <1>1, RegFacts
<1>3. \A k \in Keys : k \in J => resolved[k] # None \/ k \in {}
  BY <1>2 DEF Awaits, Resolving
<1> HIDE DEF J
<1>4. StackReg(app, resolved, Below(t), {})
  BY <1>1, <1>2, <1>3, RegMore
<1>5. /\ Len(Below(t)) \in Nat /\ Len(stack'[t]) = Len(Below(t))
      /\ \A j \in 1 .. Len(Below(t)) : Like(stack'[t][j], Below(t)[j])
      /\ \A u \in Tasks : u # t => stack'[u] = stack[u]
  BY <1>2, AnswerLike DEF RegInv
<1>6. StackReg(app, resolved, stack'[t], {})
  BY <1>4, <1>5, LastLikeReg
<1> QED
  BY <1>5, <1>6 DEF TurnReg

-----------------------------------------------------------------------------
(* Registration, one step per action.                                      *)

LEMMA RegStep ==
    ASSUME RegInv, NEW t \in Tasks, app' = app, Keeps(resolved, resolved'),
           TurnReg(resolved', t), AvailableReg(app, available'),
           KeysReg(app, resolved'), ModulesReg(app, resolved')
    PROVE  Registered'
<1>1. \A u \in Tasks : StackReg(app, resolved, stack[u], {})
  BY DEF RegInv, Registered
<1>2. ASSUME NEW u \in Tasks PROVE StackReg(app, resolved', stack'[u], {})
  <2>1. CASE u = t
    BY <2>1 DEF TurnReg
  <2>2. CASE u # t
    <3>1. stack'[u] = stack[u] /\ StackReg(app, resolved, stack[u], {})
      BY <1>1, <2>2 DEF TurnReg
    <3>2. \A k \in Keys : k \in {} => resolved'[k] # None \/ k \in {}
      OBVIOUS
    <3>3. StackReg(app, resolved', stack[u], {})
      BY <3>1, <3>2, RegMore
    <3> QED
      BY <3>1, <3>3
  <2> QED
    BY <2>1, <2>2
<1> QED
  BY <1>2 DEF RegInv, Registered

LEMMA RegSame ==
    ASSUME RegInv, NEW t \in Tasks, TurnReg(resolved, t),
           UNCHANGED <<app, available, resolved>>
    PROVE  Registered'
<1>1. Keeps(resolved, resolved')
  BY DEF Keeps
<1>2. /\ AvailableReg(app, available) /\ KeysReg(app, resolved)
      /\ ModulesReg(app, resolved)
  BY DEF RegInv, Registered
<1> QED
  BY <1>1, <1>2, RegStep

LEMMA RegisteredKey ==
    ASSUME RegInv, NEW k \in AllKeys, NEW e \in GoodEntry, Resolve(k, e)
    PROVE  /\ Keeps(resolved, resolved') /\ resolved'[k] # None
           /\ \A x \in AllKeys : x # k => resolved'[x] = resolved[x]
<1>1. resolved \in [AllKeys -> GoodEntry \cup {None}]
  BY DEF RegInv, TypeInv, StoreOK
<1>2. e # None
  BY NoneAssumption DEF GoodEntry
<1> QED
  BY <1>1, <1>2 DEF Resolve, Keeps

(* A step that registers k, which is no module.                            *)
LEMMA RegResolve ==
    ASSUME RegInv, NEW t \in Tasks, UNCHANGED <<app, available>>,
           NEW k \in AllKeys, k \notin Modules, NEW e \in GoodEntry,
           Resolve(k, e), k \in Keys => \E p \in Offered(app) : p.key = k,
           TurnReg(resolved', t)
    PROVE  Registered'
<1>1. /\ Keeps(resolved, resolved') /\ resolved'[k] # None
      /\ \A x \in AllKeys : x # k => resolved'[x] = resolved[x]
  BY RegisteredKey
<1>2. /\ AvailableReg(app, available) /\ KeysReg(app, resolved)
      /\ ModulesReg(app, resolved)
  BY DEF RegInv, Registered
<1>3. KeysReg(app, resolved')
  <2> SUFFICES ASSUME NEW x \in Keys, resolved'[x] # None
               PROVE  \E p \in Offered(app) : p.key = x
    BY DEF KeysReg
  <2>1. x \in AllKeys
    BY DEF AllKeys
  <2>2. CASE x = k
    BY <2>2
  <2>3. CASE x # k
    BY <1>1, <1>2, <2>1, <2>3 DEF KeysReg
  <2> QED
    BY <2>2, <2>3
<1>4. ModulesReg(app, resolved')
  <2> SUFFICES ASSUME NEW m \in Modules, resolved'[m] # None,
                      NEW n \in DOMAIN app.injectables[m]
               PROVE  resolved'[app.injectables[m][n].key] # None
    BY DEF ModulesReg
  <2>1. m \in AllKeys /\ m # k
    BY DEF AllKeys
  <2>2. resolved[app.injectables[m][n].key] # None
    BY <1>1, <1>2, <2>1 DEF ModulesReg
  <2>3. app.injectables[m][n].key \in AllKeys
    <3>1. app.injectables[m] \in Seq(Provider)
      BY AppFacts DEF RegInv
    <3>2. app.injectables[m][n] \in Provider
      BY <3>1
    <3> QED
      BY <3>2 DEF Provider, AllKeys
  <2> QED
    BY <1>1, <2>2, <2>3 DEF Keeps
<1> QED
  BY <1>1, <1>2, <1>3, <1>4, RegStep

LEMMA OfferedBy ==
    ASSUME NEW a
    PROVE  /\ \A m \in Modules : \A n \in DOMAIN a.injectables[m] :
                a.injectables[m][n] \in Offered(a)
           /\ \A r \in Requests : \A n \in DOMAIN a.lazy[r] :
                a.lazy[r][n] \in Offered(a)
<1>1. ASSUME NEW m \in Modules, NEW n \in DOMAIN a.injectables[m]
      PROVE  a.injectables[m][n] \in Offered(a)
  <2>1. a.injectables[m][n] \in
          {a.injectables[m][i] : i \in DOMAIN a.injectables[m]}
    OBVIOUS
  <2> QED
    BY <2>1, Zenon DEF Offered
<1>2. ASSUME NEW r \in Requests, NEW n \in DOMAIN a.lazy[r]
      PROVE  a.lazy[r][n] \in Offered(a)
  <2>1. a.lazy[r][n] \in {a.lazy[r][i] : i \in DOMAIN a.lazy[r]}
    OBVIOUS
  <2> QED
    BY <2>1, Zenon DEF Offered
<1> QED
  BY <1>1, <1>2

(* Every provider in a list that a frame goes through is offered.          *)
LEMMA ListOffered ==
    ASSUME RegInv, NEW f \in GoodFrame, f.who \in Modules \cup Requests
    PROVE  /\ Providers(f) = Provided(app, f) /\ Providers(f) \in Seq(Provider)
           /\ \A n \in DOMAIN Providers(f) :
                 /\ OfferedAs(app, Providers(f)[n].key, Providers(f)[n].class)
                 /\ Providers(f)[n].key \in Keys
<1>1. Providers(f) \in Seq(Provider)
  BY ProvidersOK DEF RegInv
<1>2. ASSUME NEW n \in DOMAIN Providers(f)
      PROVE  /\ OfferedAs(app, Providers(f)[n].key, Providers(f)[n].class)
             /\ Providers(f)[n].key \in Keys
  <2>1. Providers(f)[n] \in Offered(app)
    <3>1. CASE f.who \in Modules
      <4>1. Providers(f)[n] = app.injectables[f.who][n]
        BY <3>1 DEF Providers
      <4>2. n \in DOMAIN app.injectables[f.who]
        BY <3>1 DEF Providers
      <4> QED
        BY <3>1, <4>1, <4>2, OfferedBy
    <3>2. CASE f.who \notin Modules
      <4>1. Providers(f)[n] = app.lazy[f.who][n]
        BY <3>2 DEF Providers
      <4>2. n \in DOMAIN app.lazy[f.who]
        BY <3>2 DEF Providers
      <4> QED
        BY <3>2, <4>1, <4>2, OfferedBy
    <3> QED
      BY <3>1, <3>2
  <2>2. Providers(f)[n] \in Provider
    BY <1>1
  <2> QED
    BY <2>1, <2>2 DEF OfferedAs, Provider
<1>3. Providers(f) = Provided(app, f)
  BY DEF Providers, Provided
<1> QED
  BY <1>1, <1>2, <1>3

(* The frames of calls, and of what just began, owe nothing.               *)
LEMMA NoneDue ==
    ASSUME NEW f, f.at \notin {"list", "controllers", "deps", "scope", "args"}
    PROVE  \A k : ~ Due(app, f, k)
BY DEF Due

LEMMA NothingDue ==
    ASSUME RegInv, NEW f, f.i = 1, f.at \in {"list", "deps"},
           f.at = "list" => f.who \in Modules \cup Requests,
           f.at = "deps" => f.who \in Classes
    PROVE  \A k : ~ Due(app, f, k)
<1>1. CASE f.at = "list"
  <2>1. Provided(app, f) \in Seq(Provider)
    BY <1>1, AppFacts DEF Provided, RegInv
  <2>2. \A n \in DOMAIN Provided(app, f) : ~ (n < f.i)
    BY <2>1
  <2> QED
    BY <1>1, <2>2 DEF Due
<1>2. CASE f.at = "deps"
  <2>1. app.params[f.who] \in Seq(Keys)
    BY <1>2, AppFacts DEF RegInv
  <2>2. \A n \in DOMAIN app.params[f.who] : ~ (n < f.i)
    BY <2>1
  <2> QED
    BY <1>2, <2>2 DEF Due
<1> QED
  BY <1>1, <1>2

LEMMA CallFields ==
    ASSUME NEW label, NEW who, NEW key, NEW parent
    PROVE  LET f == Call(label, who, key, parent) IN
             f.at = label /\ f.who = who /\ f.key = key /\ f.i = 1
BY DEF Call

LEMMA GotoFields ==
    ASSUME NEW f \in Frame, NEW label
    PROVE  LET g == Goto(f, label) h == Advance(f) IN
             /\ g.at = label /\ g.who = f.who /\ g.key = f.key /\ g.i = 1
             /\ h.at = f.at /\ h.who = f.who /\ h.key = f.key /\ h.i = f.i + 1
             /\ f.i \in Nat \ {0}
<1>1. Goto(f, label).at = label /\ Goto(f, label).who = f.who
  BY DEF Goto, Frame
<1>2. Goto(f, label).key = f.key /\ Goto(f, label).i = 1
  BY DEF Goto, Frame
<1>3. Advance(f).at = f.at /\ Advance(f).who = f.who
  BY DEF Advance, Frame
<1>4. Advance(f).key = f.key /\ Advance(f).i = f.i + 1
  BY DEF Advance, Frame
<1>5. f.i \in Nat \ {0}
  BY DEF Frame
<1> QED
  BY <1>1, <1>2, <1>3, <1>4, <1>5

LEMMA ImportReg ==
    ASSUME RegInv, NEW t \in Tasks, Import(t)
    PROVE  Registered'
<1> DEFINE f == Top(t)
           m == app.imports[f.who][f.i]
           g == Call("imports", m, None, None)
<1>1. /\ At(t, "imports") /\ Push(t, Advance(f), g)
      /\ UNCHANGED <<app, available, resolved>>
  BY DEF Import, store
<1>2. f.at = "imports" /\ f \in Frame
  BY <1>1, RegFacts DEF Keeps
<1>3. Advance(f).at = "imports" /\ g.at = "imports"
  BY <1>2, GotoFields, CallFields
<1> DEFINE h == Advance(f)
<1> HIDE DEF f, g, h
<1>4. FrameReg(app, h) /\ FrameReg(app, g)
  BY <1>3 DEF FrameReg, h
<1>5. (\A k : ~ Due(app, h, k)) /\ (\A k : ~ Due(app, g, k))
  BY <1>3, NoneDue DEF h
<1>6. \A k \in Keys : ~ Awaits(Top(t), k)
  BY <1>2 DEF Awaits, Resolving, f
<1>7. TurnReg(resolved, t)
  BY <1>1, <1>4, <1>5, <1>6, PushReg DEF h
<1> QED
  BY <1>1, <1>7, RegSame

LEMMA OfferReg ==
    ASSUME RegInv, NEW t \in Tasks, Offer(t)
    PROVE  Registered'
<1> DEFINE f == Top(t)
           g == Goto(f, "list")
           list == Providers(f)
           Last(k) == {n \in DOMAIN list :
                         /\ list[n].key = k
                         /\ \A m \in DOMAIN list : list[m].key = k => m <= n}
<1>1. /\ At(t, "imports") /\ Continue(t, g)
      /\ UNCHANGED <<app, resolved>>
  BY DEF Offer
<1>2. f.at = "imports" /\ f \in Frame /\ f \in GoodFrame
  BY <1>1, RegFacts DEF Keeps
<1>3. f.who \in Modules
  BY <1>2 DEF GoodFrame, FrameOK
<1>4. g.at = "list" /\ g.who = f.who /\ g.i = 1
  BY <1>2, GotoFields
<1>5. TurnReg(resolved, t)
  <2> HIDE DEF g, f
  <2>1. FrameReg(app, g)
    BY <1>4 DEF FrameReg
  <2>2. \A k : ~ Due(app, g, k)
    BY <1>3, <1>4, NothingDue
  <2>3. \A k \in Keys : ~ Awaits(Top(t), k)
    BY <1>2 DEF Awaits, Resolving, f
  <2>4. Keeps(resolved, resolved)
    BY DEF Keeps
  <2> QED
    BY <1>1, <2>1, <2>2, <2>3, <2>4, ContinueReg
<1>6. AvailableReg(app, available')
  <2> SUFFICES ASSUME NEW k \in Keys, available'[k] \in Services
               PROVE  OfferedAs(app, k, available'[k])
    BY DEF AvailableReg
  <2>1. available'[k] = IF Last(k) = {} THEN available[k]
                        ELSE list[CHOOSE n \in Last(k) : TRUE].class
    BY DEF Offer
  <2>2. CASE Last(k) = {}
    BY <2>1, <2>2 DEF RegInv, Registered, AvailableReg
  <2>3. CASE Last(k) # {}
    <3>1. PICK n \in Last(k) : n = (CHOOSE x \in Last(k) : TRUE)
      BY <2>3
    <3>2. n \in DOMAIN list /\ list[n].key = k /\ available'[k] = list[n].class
      BY <2>1, <2>3, <3>1
    <3>3. OfferedAs(app, list[n].key, list[n].class)
      BY <1>2, <1>3, <3>2, ListOffered
    <3> QED
      BY <3>2, <3>3
  <2> QED
    BY <2>2, <2>3
<1>7. Keeps(resolved, resolved')
  BY <1>1 DEF Keeps
<1>8. KeysReg(app, resolved) /\ ModulesReg(app, resolved)
  BY DEF RegInv, Registered
<1> QED
  BY <1>1, <1>5, <1>6, <1>7, <1>8, RegStep

(* What a frame in a list is done with, when it moves on.                  *)
LEMMA ListDue ==
    ASSUME RegInv, NEW t \in Tasks, At(t, "list")
    PROVE  /\ Top(t) \in GoodFrame /\ Top(t) \in Frame
           /\ Advance(Top(t)).at = "list"
           /\ Top(t).who \in Modules \cup Requests
           /\ Top(t).i \in Nat \ {0}
           /\ \A n \in DOMAIN Providers(Top(t)) : n < Top(t).i =>
                resolved[Providers(Top(t))[n].key] # None
           /\ \A k \in Keys : ~ Awaits(Top(t), k)
           /\ \A k : Due(app, Advance(Top(t)), k) =>
                \E n \in DOMAIN Providers(Top(t)) :
                  n < Top(t).i + 1 /\ k = Providers(Top(t))[n].key
<1> DEFINE f == Top(t)
<1>1. /\ f \in GoodFrame /\ f \in Frame /\ f.at = "list"
      /\ \A k \in Keys : Due(app, f, k) => resolved[k] # None
  BY RegFacts DEF Keeps
<1>2. f.who \in Modules \cup Requests
  BY <1>1 DEF GoodFrame, FrameOK
<1>3. /\ Providers(f) = Provided(app, f)
      /\ \A n \in DOMAIN Providers(f) : Providers(f)[n].key \in Keys
  BY <1>1, <1>2, ListOffered
<1>4. ASSUME NEW n \in DOMAIN Providers(f), n < f.i
      PROVE  resolved[Providers(f)[n].key] # None
  <2>1. Due(app, f, Providers(f)[n].key)
    BY <1>1, <1>3, <1>4 DEF Due
  <2> QED
    BY <1>1, <1>3, <2>1
<1>5. \A k \in Keys : ~ Awaits(f, k)
  BY <1>1 DEF Awaits, Resolving
<1>6. /\ Advance(f).at = "list" /\ Advance(f).who = f.who
      /\ Advance(f).i = f.i + 1 /\ f.i \in Nat \ {0}
  BY <1>1, GotoFields
<1>7. Provided(app, Advance(f)) = Providers(f)
  BY <1>3, <1>6 DEF Provided
<1>8. ASSUME NEW k, Due(app, Advance(f), k)
      PROVE  \E n \in DOMAIN Providers(f) :
                n < f.i + 1 /\ k = Providers(f)[n].key
  BY <1>6, <1>7, <1>8 DEF Due
<1> QED
  BY <1>1, <1>2, <1>4, <1>5, <1>6, <1>8

LEMMA ProvideValueReg ==
    ASSUME RegInv, NEW t \in Tasks, ProvideValue(t)
    PROVE  Registered'
<1> DEFINE f == Top(t)
           p == Providers(f)[f.i]
           g == Advance(f)
<1>1. /\ At(t, "list") /\ f.i <= Len(Providers(f)) /\ Await(t, g)
      /\ Resolve(p.key, ValueEntry) /\ UNCHANGED <<app, available>>
  BY DEF ProvideValue
<1>2. /\ f \in GoodFrame /\ f \in Frame /\ f.who \in Modules \cup Requests
      /\ f.i \in Nat \ {0}
      /\ \A n \in DOMAIN Providers(f) : n < f.i =>
           resolved[Providers(f)[n].key] # None
      /\ \A k \in Keys : ~ Awaits(f, k)
      /\ \A k : Due(app, g, k) => \E n \in DOMAIN Providers(f) :
           n < f.i + 1 /\ k = Providers(f)[n].key
  BY <1>1, ListDue
<1>3. /\ Providers(f) \in Seq(Provider) /\ f.i \in DOMAIN Providers(f)
      /\ \A n \in DOMAIN Providers(f) : Providers(f)[n].key \in Keys
      /\ OfferedAs(app, p.key, p.class)
  <2>1. Providers(f) \in Seq(Provider)
    BY <1>2, ListOffered
  <2>2. f.i \in DOMAIN Providers(f)
    BY <1>1, <1>2, <2>1
  <2> QED
    BY <1>2, <2>1, <2>2, ListOffered
<1>4. /\ p.key \in AllKeys /\ p.key \in Keys /\ p.key \notin Modules
      /\ ValueEntry \in GoodEntry
  BY <1>3, NamesAssumption DEF AllKeys, ValueEntry, GoodEntry, Entry
<1>5. Keeps(resolved, resolved') /\ resolved'[p.key] # None
  BY <1>1, <1>4, RegisteredKey
<1>6. \A k \in Keys : Due(app, g, k) => resolved'[k] # None
  <2> SUFFICES ASSUME NEW n \in DOMAIN Providers(f), n < f.i + 1
               PROVE  resolved'[Providers(f)[n].key] # None
    BY <1>2
  <2>1. CASE n = f.i
    BY <1>5, <2>1
  <2>2. CASE n # f.i
    <3>1. n \in Nat
      BY <1>3
    <3>2. n < f.i
      BY <1>2, <2>2, <3>1
    <3>3. Providers(f)[n].key \in AllKeys
      BY <1>3 DEF AllKeys
    <3> QED
      BY <1>2, <1>5, <3>2, <3>3 DEF Keeps
  <2> QED
    BY <2>1, <2>2
<1>7. g.at = "list"
  BY <1>1, ListDue
<1> HIDE DEF g, p
<1>8. TurnReg(resolved', t)
  <2>1. FrameReg(app, g)
    BY <1>7 DEF FrameReg
  <2> QED
    BY <1>1, <1>2, <1>5, <1>6, <2>1, ContinueReg
<1>9. \E q \in Offered(app) : q.key = p.key
  BY <1>3 DEF OfferedAs
<1> QED
  BY <1>1, <1>4, <1>8, <1>9, RegResolve

LEMMA ProvideClassReg ==
    ASSUME RegInv, NEW t \in Tasks, ProvideClass(t)
    PROVE  Registered'
<1> DEFINE f == Top(t)
           p == Providers(f)[f.i]
           g == Advance(f)
           h == Call("enter", p.class, p.key, None)
<1>1. /\ At(t, "list") /\ f.i <= Len(Providers(f)) /\ Push(t, g, h)
      /\ UNCHANGED <<app, available, resolved>>
  BY DEF ProvideClass, store
<1>2. /\ f \in GoodFrame /\ f \in Frame /\ f.who \in Modules \cup Requests
      /\ f.i \in Nat \ {0}
      /\ \A n \in DOMAIN Providers(f) : n < f.i =>
           resolved[Providers(f)[n].key] # None
      /\ \A k \in Keys : ~ Awaits(f, k)
      /\ \A k : Due(app, g, k) => \E n \in DOMAIN Providers(f) :
           n < f.i + 1 /\ k = Providers(f)[n].key
  BY <1>1, ListDue
<1>3. /\ Providers(f) \in Seq(Provider) /\ OfferedAs(app, p.key, p.class)
  <2>1. Providers(f) \in Seq(Provider)
    BY <1>2, ListOffered
  <2>2. f.i \in DOMAIN Providers(f)
    BY <1>1, <1>2, <2>1
  <2> QED
    BY <1>2, <2>1, <2>2, ListOffered
<1>4. h.at = "enter" /\ h.who = p.class /\ h.key = p.key
  BY CallFields
<1>5. g.at = "list"
  BY <1>1, ListDue
<1>6. \A k \in Keys : Due(app, g, k) => resolved[k] # None \/ Awaits(h, k)
  <2> SUFFICES ASSUME NEW n \in DOMAIN Providers(f), n < f.i + 1
               PROVE  \/ resolved[Providers(f)[n].key] # None
                      \/ Awaits(h, Providers(f)[n].key)
    BY <1>2
  <2>1. CASE n = f.i
    BY <1>4, <2>1 DEF Awaits, Resolving
  <2>2. CASE n # f.i
    <3>1. n \in Nat
      BY <1>3
    <3>2. n < f.i
      BY <1>2, <2>2, <3>1
    <3> QED
      BY <1>2, <3>2
  <2> QED
    BY <2>1, <2>2
<1> HIDE DEF g, h, p
<1>7. FrameReg(app, g) /\ FrameReg(app, h)
  BY <1>3, <1>4, <1>5 DEF FrameReg
<1>8. \A k : ~ Due(app, h, k)
  BY <1>4, NoneDue
<1>9. TurnReg(resolved, t)
  BY <1>1, <1>2, <1>6, <1>7, <1>8, PushReg
<1> QED
  BY <1>1, <1>9, RegSame

LEMMA ListedReg ==
    ASSUME RegInv, NEW t \in Tasks, Listed(t)
    PROVE  Registered'
<1> DEFINE f == Top(t)
           next == IF f.who \in Modules THEN "controllers" ELSE "get"
           g == Goto(f, next)
<1>1. /\ At(t, "list") /\ f.i > Len(Providers(f)) /\ Await(t, g)
      /\ UNCHANGED <<app, available, resolved>>
  BY DEF Listed, store
<1>2. /\ f \in GoodFrame /\ f \in Frame /\ f.who \in Modules \cup Requests
      /\ f.i \in Nat \ {0}
      /\ \A n \in DOMAIN Providers(f) : n < f.i =>
           resolved[Providers(f)[n].key] # None
      /\ \A k \in Keys : ~ Awaits(f, k)
  BY <1>1, ListDue
<1>3. g.at = next /\ g.who = f.who
  BY <1>2, GotoFields
<1>4. Providers(f) = Provided(app, f) /\ Providers(f) \in Seq(Provider)
  BY <1>2, ListOffered
<1> HIDE DEF g
<1>5. ASSUME NEW k, Due(app, g, k)
      PROVE  resolved[k] # None
  <2>1. Provided(app, g) = Providers(f)
    BY <1>3, <1>4 DEF Provided
  <2>2. PICK n \in DOMAIN Providers(f) : k = Providers(f)[n].key
    BY <1>3, <1>5, <2>1 DEF Due
  <2>3. n < f.i
    BY <1>1, <1>2, <1>4
  <2> QED
    BY <1>2, <2>2, <2>3
<1>6. FrameReg(app, g)
  BY <1>3 DEF FrameReg
<1>7. Keeps(resolved, resolved)
  BY DEF Keeps
<1>8. TurnReg(resolved, t)
  BY <1>1, <1>2, <1>5, <1>6, <1>7, ContinueReg
<1> QED
  BY <1>1, <1>8, RegSame

LEMMA NextControllerReg ==
    ASSUME RegInv, NEW t \in Tasks, NextController(t)
    PROVE  Registered'
<1> DEFINE f == Top(t)
           c == app.controllers[f.who][f.i]
           g == Advance(f)
           h == Call("control", c, c, None)
<1>1. /\ At(t, "controllers") /\ Push(t, g, h)
      /\ UNCHANGED <<app, available, resolved>>
  BY DEF NextController, store
<1>2. /\ f \in Frame /\ f.at = "controllers"
      /\ \A k \in Keys : Due(app, f, k) => resolved[k] # None
  BY <1>1, RegFacts DEF Keeps
<1>3. g.at = "controllers" /\ g.who = f.who /\ h.at = "control"
  BY <1>2, GotoFields, CallFields
<1> HIDE DEF g, h
<1>4. \A k \in Keys : Due(app, g, k) => resolved[k] # None
  <2>1. Provided(app, g) = Provided(app, f)
    BY <1>3 DEF Provided
  <2> QED
    BY <1>2, <1>3, <2>1 DEF Due
<1>5. FrameReg(app, g) /\ FrameReg(app, h)
  BY <1>3 DEF FrameReg
<1>6. \A k : ~ Due(app, h, k)
  BY <1>3, NoneDue
<1>7. \A k \in Keys : ~ Awaits(f, k)
  BY <1>2 DEF Awaits, Resolving
<1>8. TurnReg(resolved, t)
  BY <1>1, <1>4, <1>5, <1>6, <1>7, PushReg
<1> QED
  BY <1>1, <1>8, RegSame

(* A module is published when all it lists is registered.                  *)
LEMMA PublishReg ==
    ASSUME RegInv, NEW t \in Tasks, Publish(t)
    PROVE  Registered'
<1> DEFINE f == Top(t)
<1>1. /\ At(t, "controllers") /\ Resolve(f.who, ValueEntry) /\ Return(t)
      /\ UNCHANGED <<app, available>>
  BY DEF Publish
<1>2. /\ f \in GoodFrame /\ f.at = "controllers"
      /\ \A k \in Keys : Due(app, f, k) => resolved[k] # None
  BY <1>1, RegFacts DEF Keeps
<1>3. f.who \in Modules
  BY <1>2 DEF GoodFrame, FrameOK
<1>4. f.who \in AllKeys /\ f.who \notin Keys /\ ValueEntry \in GoodEntry
  BY <1>3, NamesAssumption DEF AllKeys, ValueEntry, GoodEntry, Entry
<1>5. /\ Keeps(resolved, resolved')
      /\ \A x \in AllKeys : x # f.who => resolved'[x] = resolved[x]
  BY <1>1, <1>4, RegisteredKey
<1>6. TurnReg(resolved', t)
  <2>1. \A k \in Keys : ~ Awaits(f, k)
    BY <1>2 DEF Awaits, Resolving
  <2> QED
    BY <1>1, <1>5, <2>1, ReturnReg
<1>7. /\ AvailableReg(app, available) /\ KeysReg(app, resolved)
      /\ ModulesReg(app, resolved)
  BY DEF RegInv, Registered
<1>8. KeysReg(app, resolved')
  BY <1>4, <1>5, <1>7 DEF KeysReg, AllKeys
<1>9. ModulesReg(app, resolved')
  <2> SUFFICES ASSUME NEW m \in Modules, resolved'[m] # None,
                      NEW n \in DOMAIN app.injectables[m]
               PROVE  resolved'[app.injectables[m][n].key] # None
    BY DEF ModulesReg
  <2>1. app.injectables[m][n].key \in Keys
    <3>1. app.injectables[m] \in Seq(Provider)
      BY AppFacts DEF RegInv
    <3>2. app.injectables[m][n] \in Provider
      BY <3>1
    <3> QED
      BY <3>2 DEF Provider
  <2>2. CASE m = f.who
    <3>1. Due(app, f, app.injectables[m][n].key)
      BY <1>2, <2>2 DEF Due, Provided
    <3> QED
      BY <1>2, <1>5, <2>1, <3>1 DEF Keeps, AllKeys
  <2>3. CASE m # f.who
    <3>1. resolved[m] # None
      BY <1>5, <2>3 DEF AllKeys
    <3> QED
      BY <1>5, <1>7, <2>1, <3>1 DEF ModulesReg, Keeps, AllKeys
  <2> QED
    BY <2>2, <2>3
<1> QED
  BY <1>1, <1>5, <1>6, <1>7, <1>8, <1>9, RegStep

(* A class that is registered is offered under its own key, and under the  *)
(* assumption it is offered under no other.                                *)
LEMMA EnterReg ==
    ASSUME RegInv, OneKeyPerClass(Apps), NEW t \in Tasks, Enter(t)
    PROVE  Registered'
<1> DEFINE f == Top(t)
<1>1. At(t, "enter") /\ UNCHANGED <<app, available, resolved>>
  BY DEF Enter, store
<1>2. /\ f \in GoodFrame /\ f \in Frame /\ f.at = "enter"
      /\ FrameReg(app, f)
  BY <1>1, RegFacts DEF Keeps
<1>3. f.who \in Services /\ f.who \in Keys /\ f.who \in Classes /\ f.key \in Keys
  BY <1>2 DEF GoodFrame, FrameOK, Keys, Classes
<1>4. OfferedAs(app, f.key, f.who)
  BY <1>2 DEF FrameReg
<1>5. Keeps(resolved, resolved)
  BY DEF Keeps
<1>6. CASE resolved[f.who] # None /\ Return(t)
  <2>1. \E p \in Offered(app) : p.key = f.who
    BY <1>3, <1>6 DEF RegInv, Registered, KeysReg
  <2>2. f.key = f.who
    BY <1>4, <2>1 DEF OfferedAs, OneKeyPerClass, RegInv, Registered
  <2>3. \A k \in Keys : Awaits(f, k) => resolved[k] # None
    BY <1>6, <2>2 DEF Awaits
  <2>4. TurnReg(resolved, t)
    BY <1>1, <1>5, <1>6, <2>3, ReturnReg
  <2> QED
    BY <1>1, <2>4, RegSame
<1>7. ASSUME NEW next \in {"scope", "deps"}, Continue(t, Goto(f, next)),
             next = "scope" => app.params[f.who] = <<>>
      PROVE  Registered'
  <2> DEFINE g == Goto(f, next)
  <2>1. g.at = next /\ g.who = f.who /\ g.key = f.key /\ g.i = 1
    BY <1>2, GotoFields
  <2> HIDE DEF g
  <2>2. FrameReg(app, g)
    BY <1>4, <2>1 DEF FrameReg
  <2>3. \A k : ~ Due(app, g, k)
    <3>1. CASE next = "scope"
      BY <1>7, <2>1, <3>1 DEF Due
    <3>2. CASE next = "deps"
      BY <1>3, <2>1, <3>2, NothingDue
    <3> QED
      BY <3>1, <3>2
  <2>4. \A k \in Keys : Awaits(f, k) => Awaits(g, k)
    BY <2>1 DEF Awaits, Resolving
  <2>5. Continue(t, g)
    BY <1>7 DEF g
  <2>6. TurnReg(resolved, t)
    BY <1>1, <1>5, <2>2, <2>3, <2>4, <2>5, ContinueReg
  <2> QED
    BY <1>1, <2>6, RegSame
<1>8. CASE ~ (resolved[f.who] # None /\ Return(t))
  <2>1. Continue(t, Goto(f, IF app.params[f.who] = <<>> THEN "scope"
                            ELSE "deps"))
    BY <1>8 DEF Enter
  <2>2. CASE app.params[f.who] = <<>>
    BY <1>7, <2>1, <2>2
  <2>3. CASE app.params[f.who] # <<>>
    BY <1>7, <2>1, <2>3
  <2> QED
    BY <2>2, <2>3
<1> QED
  BY <1>6, <1>8

(* What a frame among its dependencies is done with, when it moves on.     *)
LEMMA DepsDue ==
    ASSUME RegInv, NEW t \in Tasks, At(t, "deps")
    PROVE  LET f == Top(t) g == Advance(f) IN
           /\ f \in GoodFrame /\ f \in Frame /\ f.who \in Classes
           /\ f.at = "deps" /\ g.at = "deps" /\ f.i \in Nat \ {0}
           /\ app.params[f.who] \in Seq(Keys)
           /\ FrameReg(app, f) /\ FrameReg(app, g)
           /\ \A n \in DOMAIN app.params[f.who] : n < f.i =>
                resolved[app.params[f.who][n]] # None
           /\ \A k \in Keys : Awaits(f, k) => Awaits(g, k)
           /\ \A k : Due(app, g, k) =>
                resolved[k] # None \/ k = app.params[f.who][f.i]
<1> DEFINE f == Top(t)
           g == Advance(f)
<1>1. /\ f \in GoodFrame /\ f \in Frame /\ f.at = "deps" /\ FrameReg(app, f)
      /\ \A k \in Keys : Due(app, f, k) => resolved[k] # None
  BY RegFacts DEF Keeps
<1>2. f.who \in Classes
  BY <1>1 DEF GoodFrame, FrameOK, Classes
<1>3. app.params[f.who] \in Seq(Keys)
  BY <1>2, AppFacts DEF RegInv
<1>4. /\ g.at = "deps" /\ g.who = f.who /\ g.key = f.key
      /\ g.i = f.i + 1 /\ f.i \in Nat \ {0}
  BY <1>1, GotoFields
<1>5. ASSUME NEW n \in DOMAIN app.params[f.who], n < f.i
      PROVE  resolved[app.params[f.who][n]] # None
  <2>1. Due(app, f, app.params[f.who][n])
    BY <1>1, <1>5 DEF Due
  <2>2. app.params[f.who][n] \in Keys
    BY <1>3
  <2> QED
    BY <1>1, <2>1, <2>2
<1>6. ASSUME NEW k, Due(app, g, k)
      PROVE  resolved[k] # None \/ k = app.params[f.who][f.i]
  <2>1. PICK n \in DOMAIN app.params[f.who] :
               k = app.params[f.who][n] /\ n < f.i + 1
    BY <1>4, <1>6 DEF Due
  <2>2. n \in Nat
    BY <1>3
  <2>3. n = f.i \/ n < f.i
    BY <1>4, <2>1, <2>2
  <2> QED
    BY <1>5, <2>1, <2>3
<1>7. \A k \in Keys : Awaits(f, k) => Awaits(g, k)
  BY <1>4 DEF Awaits, Resolving
<1>8. FrameReg(app, g)
  BY <1>1, <1>4 DEF FrameReg
<1> QED
  BY <1>1, <1>2, <1>3, <1>4, <1>5, <1>6, <1>7, <1>8

LEMMA ResolveDependencyReg ==
    ASSUME RegInv, NEW t \in Tasks, ResolveDependency(t)
    PROVE  Registered'
<1> DEFINE f == Top(t)
           g == Advance(f)
           k == app.params[f.who][f.i]
           h == Call("enter", available[k], k, f.who)
<1>1. /\ At(t, "deps") /\ f.i <= Len(app.params[f.who])
      /\ UNCHANGED <<app, available, resolved>>
  BY DEF ResolveDependency, store
<1>2. /\ f.i \in Nat \ {0} /\ app.params[f.who] \in Seq(Keys)
      /\ FrameReg(app, g) /\ g.at = "deps"
      /\ \A x \in Keys : Awaits(f, x) => Awaits(g, x)
      /\ \A x : Due(app, g, x) => resolved[x] # None \/ x = k
  BY <1>1, DepsDue
<1>3. k \in Keys
  BY <1>1, <1>2
<1>4. Keeps(resolved, resolved)
  BY DEF Keeps
<1>5. CASE resolved[k] # None /\ Continue(t, g)
  <2> HIDE DEF g, k
  <2>1. \A x \in Keys : Due(app, g, x) => resolved[x] # None
    BY <1>2, <1>5
  <2>2. TurnReg(resolved, t)
    BY <1>1, <1>2, <1>4, <1>5, <2>1, ContinueReg
  <2> QED
    BY <1>1, <2>2, RegSame
<1>6. CASE available[k] \in Services /\ Push(t, g, h)
  <2>1. h.at = "enter" /\ h.who = available[k] /\ h.key = k
    BY CallFields
  <2>2. OfferedAs(app, k, available[k])
    BY <1>3, <1>6 DEF RegInv, Registered, AvailableReg
  <2> HIDE DEF g, h, k
  <2>3. FrameReg(app, h)
    BY <2>1, <2>2 DEF FrameReg
  <2>4. \A x : ~ Due(app, h, x)
    BY <2>1, NoneDue
  <2>5. \A x \in Keys : Due(app, g, x) => resolved[x] # None \/ Awaits(h, x)
    BY <1>2, <2>1 DEF Awaits, Resolving
  <2>6. TurnReg(resolved, t)
    BY <1>1, <1>2, <1>6, <2>3, <2>4, <2>5, PushReg
  <2> QED
    BY <1>1, <2>6, RegSame
<1>7. CASE Throw(t)
  BY <1>1, <1>7, ThrowReg, RegSame
<1>8. \/ resolved[k] # None /\ Continue(t, g)
      \/ available[k] \in Services /\ Push(t, g, h)
      \/ Throw(t)
  BY DEF ResolveDependency
<1> QED
  BY <1>5, <1>6, <1>7, <1>8

LEMMA DependenciesResolvedReg ==
    ASSUME RegInv, NEW t \in Tasks, DependenciesResolved(t)
    PROVE  Registered'
<1> DEFINE f == Top(t)
           g == Goto(f, "scope")
<1>1. /\ At(t, "deps") /\ f.i > Len(app.params[f.who]) /\ Await(t, g)
      /\ UNCHANGED <<app, available, resolved>>
  BY DEF DependenciesResolved, store
<1>2. /\ f \in Frame /\ f.at = "deps" /\ f.i \in Nat \ {0}
      /\ app.params[f.who] \in Seq(Keys) /\ FrameReg(app, f)
      /\ \A n \in DOMAIN app.params[f.who] : n < f.i =>
           resolved[app.params[f.who][n]] # None
  BY <1>1, DepsDue
<1>3. g.at = "scope" /\ g.who = f.who /\ g.key = f.key
  BY <1>2, GotoFields
<1> HIDE DEF g
<1>4. FrameReg(app, g)
  BY <1>2, <1>3 DEF FrameReg
<1>5. ASSUME NEW k, Due(app, g, k) PROVE resolved[k] # None
  <2>1. PICK n \in DOMAIN app.params[f.who] : k = app.params[f.who][n]
    BY <1>3, <1>5 DEF Due
  <2>2. n < f.i
    BY <1>1, <1>2
  <2> QED
    BY <1>2, <2>1, <2>2
<1>6. \A k \in Keys : Awaits(f, k) => Awaits(g, k)
  BY <1>3 DEF Awaits, Resolving
<1>7. Keeps(resolved, resolved)
  BY DEF Keeps
<1>8. TurnReg(resolved, t)
  BY <1>1, <1>4, <1>5, <1>6, <1>7, ContinueReg
<1> QED
  BY <1>1, <1>8, RegSame

(* What a frame that has resolved its dependencies keeps, under either     *)
(* label.                                                                  *)
LEMMA DecideSingleReg ==
    ASSUME RegInv, NEW t \in Tasks, DecideSingle(t)
    PROVE  Registered'
<1> DEFINE f == Top(t)
           g == Goto(f, "args")
<1>1. /\ At(t, "scope") /\ Continue(t, g)
      /\ UNCHANGED <<app, available, resolved>>
  BY DEF DecideSingle, store
<1>2. /\ f \in GoodFrame /\ f \in Frame /\ f.at = "scope" /\ FrameReg(app, f)
      /\ \A k \in Keys : Due(app, f, k) => resolved[k] # None
  BY <1>1, RegFacts DEF Keeps
<1>3. g.at = "args" /\ g.who = f.who /\ g.key = f.key
  BY <1>2, GotoFields
<1>0. f.key \in Keys /\ f.key \notin Modules
  BY <1>2, NamesAssumption DEF GoodFrame, FrameOK
<1> HIDE DEF g
<1>4. FrameReg(app, g)
  BY <1>0, <1>2, <1>3 DEF FrameReg
<1>5. \A k : Due(app, g, k) => Due(app, f, k)
  BY <1>2, <1>3 DEF Due
<1>6. \A k \in Keys : Awaits(f, k) => Awaits(g, k)
  BY <1>3 DEF Awaits, Resolving
<1>7. Keeps(resolved, resolved)
  BY DEF Keeps
<1>8. \A k \in Keys : Due(app, g, k) => resolved[k] # None
  BY <1>2, <1>5
<1>9. TurnReg(resolved, t)
  BY <1>1, <1>4, <1>6, <1>7, <1>8, ContinueReg
<1> QED
  BY <1>1, <1>9, RegSame

(* A frame that registers its key and returns.                             *)
LEMMA FinishReg ==
    ASSUME RegInv, NEW t \in Tasks, NEW label, At(t, label),
           UNCHANGED <<app, available>>,
           NEW k \in AllKeys, k \notin Modules, NEW e \in GoodEntry,
           Resolve(k, e), k \in Keys => \E p \in Offered(app) : p.key = k,
           Return(t), label \in Resolving => Top(t).key = k
    PROVE  Registered'
<1>1. Keeps(resolved, resolved') /\ resolved'[k] # None
  BY RegisteredKey
<1>2. Top(t).at = label
  BY <1>1, RegFacts
<1>3. \A x \in Keys : Awaits(Top(t), x) => resolved'[x] # None
  BY <1>1, <1>2 DEF Awaits
<1>4. TurnReg(resolved', t)
  BY <1>1, <1>3, ReturnReg
<1> QED
  BY <1>4, RegResolve

LEMMA DecideScopedReg ==
    ASSUME RegInv, NEW t \in Tasks, DecideScoped(t)
    PROVE  Registered'
<1> DEFINE f == Top(t)
           e == FactoryEntry(f.who, scope[f.who] = "TRANSIENT")
<1>1. /\ At(t, "scope") /\ Resolve(f.key, e) /\ Return(t)
      /\ UNCHANGED <<app, available>>
  BY DEF DecideScoped
<1>2. f \in GoodFrame /\ f.at = "scope" /\ FrameReg(app, f)
  BY <1>1, RegFacts DEF Keeps
<1>3. f.who \in Services /\ f.who \in Classes /\ f.key \in Keys
  BY <1>2 DEF GoodFrame, FrameOK, Classes
<1>4. f.key \in AllKeys /\ f.key \notin Modules
  BY <1>3, NamesAssumption DEF AllKeys
<1>5. e \in GoodEntry
  BY <1>3, EntriesOK DEF RegInv
<1>6. \E p \in Offered(app) : p.key = f.key
  BY <1>2 DEF FrameReg, OfferedAs
<1> QED
  BY <1>1, <1>4, <1>5, <1>6, FinishReg

LEMMA ControlReg ==
    ASSUME RegInv, NEW t \in Tasks, Control(t)
    PROVE  Registered'
<1> DEFINE f == Top(t)
           g == Goto(f, "args")
<1>1. At(t, "control") /\ UNCHANGED <<app, available, resolved>>
  BY DEF Control, store
<1>2. f \in GoodFrame /\ f \in Frame /\ f.at = "control"
  BY <1>1, RegFacts DEF Keeps
<1>3. /\ f.who \in Controllers /\ f.key = f.who
      /\ f.key \notin Keys /\ f.key \notin Modules
  BY <1>2, NamesAssumption DEF GoodFrame, FrameOK
<1>4. g.at = "args" /\ g.who = f.who /\ g.key = f.key
  BY <1>2, GotoFields
<1>5. CASE Throw(t)
  BY <1>1, <1>5, ThrowReg, RegSame
<1>6. CASE /\ \A k \in Dependencies(f.who) : resolved[k] # None
           /\ Continue(t, g)
  <2>1. ASSUME NEW n \in DOMAIN app.params[f.who]
        PROVE  resolved[app.params[f.who][n]] # None
    BY <1>6 DEF Dependencies
  <2> HIDE DEF g
  <2>2. FrameReg(app, g)
    BY <1>3, <1>4 DEF FrameReg
  <2>3. \A k : Due(app, g, k) => resolved[k] # None
    BY <1>4, <2>1 DEF Due
  <2>4. \A k \in Keys : ~ Awaits(f, k)
    BY <1>2 DEF Awaits, Resolving
  <2>5. Keeps(resolved, resolved)
    BY DEF Keeps
  <2>6. TurnReg(resolved, t)
    BY <1>1, <1>6, <2>2, <2>3, <2>4, <2>5, ContinueReg
  <2> QED
    BY <1>1, <2>6, RegSame
<1> QED
  BY <1>5, <1>6 DEF Control

LEMMA ControlScopedReg ==
    ASSUME RegInv, NEW t \in Tasks, ControlScoped(t)
    PROVE  Registered'
<1> DEFINE f == Top(t)
           e == FactoryEntry(f.who, FALSE)
<1>1. /\ At(t, "control") /\ Resolve(f.who, e) /\ Return(t)
      /\ UNCHANGED <<app, available>>
  BY DEF ControlScoped
<1>2. f \in GoodFrame /\ f.at = "control"
  BY <1>1, RegFacts DEF Keeps
<1>3. f.who \in Controllers /\ f.who \in Classes
  BY <1>2 DEF GoodFrame, FrameOK, Classes
<1>4. f.who \in AllKeys /\ f.who \notin Modules /\ f.who \notin Keys
  BY <1>3, NamesAssumption DEF AllKeys
<1>5. e \in GoodEntry
  BY <1>3, EntriesOK DEF RegInv
<1>6. "control" \notin Resolving
  BY DEF Resolving
<1> QED
  BY <1>1, <1>4, <1>5, <1>6, FinishReg

(* A frame that reads an argument only gains it.                           *)
LEMMA ReadReg ==
    ASSUME RegInv, NEW t \in Tasks, NEW label \in {"args", "make", "get"},
           At(t, label), NEW k, NEW ctx, Read(t, k, ctx),
           UNCHANGED <<app, available, resolved>>
    PROVE  Registered'
<1> DEFINE f == Top(t)
           g == [f EXCEPT !.args = Append(@, resolved[k].ref)]
           h == Factory(k, ctx)
<1>1. /\ f \in Frame /\ FrameReg(app, f)
      /\ \A x \in Keys : Due(app, f, x) => resolved[x] # None
  BY RegFacts DEF Keeps
<1>2. Keeps(resolved, resolved)
  BY DEF Keeps
<1>3. CASE Throw(t)
  BY <1>3, ThrowReg, RegSame
<1>4. CASE Await(t, g)
  <2>1. /\ g.at = f.at /\ g.who = f.who /\ g.key = f.key
        /\ g.i = f.i
    BY <1>1 DEF Frame
  <2> HIDE DEF g
  <2>2. Like(g, f) /\ Like(f, g)
    BY <2>1 DEF Like
  <2>3. /\ FrameReg(app, g)
        /\ \A x \in Keys : Due(app, g, x) => resolved[x] # None
        /\ \A x \in Keys : Awaits(f, x) => Awaits(g, x)
    BY <1>1, <2>2, LikeReg
  <2>4. TurnReg(resolved, t)
    BY <1>2, <1>4, <2>3, ContinueReg
  <2> QED
    BY <2>4, RegSame
<1>5. CASE Push(t, f, h)
  <2>1. h.at = "make"
    BY DEF Factory, Call
  <2> HIDE DEF h
  <2>2. FrameReg(app, h)
    BY <2>1 DEF FrameReg
  <2>3. \A x : ~ Due(app, h, x)
    BY <2>1, NoneDue
  <2> HIDE DEF f
  <2>4. \A x \in Keys : Awaits(Top(t), x) => Awaits(f, x)
    BY DEF f
  <2>5. TurnReg(resolved, t)
    BY <1>1, <1>5, <2>2, <2>3, <2>4, PushReg
  <2> QED
    BY <2>5, RegSame
<1> QED
  BY <1>3, <1>4, <1>5 DEF Read

LEMMA ReadArgumentReg ==
    ASSUME RegInv, NEW t \in Tasks, ReadArgument(t)
    PROVE  Registered'
<1>1. /\ Read(t, app.params[Top(t).who][Len(Top(t).args) + 1], Top(t).ctx)
      /\ UNCHANGED <<app, available, resolved>>
  BY DEF ReadArgument, store
<1>2. CASE At(t, "args")
  BY <1>1, <1>2, ReadReg
<1>3. CASE At(t, "make")
  BY <1>1, <1>3, ReadReg
<1> QED
  BY <1>2, <1>3 DEF ReadArgument

LEMMA GetControllerReg ==
    ASSUME RegInv, NEW r \in Requests, GetController(r)
    PROVE  Registered'
<1>1. /\ At(r, "get") /\ Read(r, Top(r).key, Top(r).ctx) /\ r \in Tasks
      /\ UNCHANGED <<app, available, resolved>>
  BY DEF GetController, store, Tasks
<1> QED
  BY <1>1, ReadReg

LEMMA ConstructReg ==
    ASSUME RegInv, NEW t \in Tasks, Construct(t)
    PROVE  Registered'
<1> DEFINE f == Top(t)
           e == SingleEntry(f.who)
<1>1. /\ At(t, "args") /\ Resolve(f.key, e) /\ Return(t)
      /\ UNCHANGED <<app, available>>
  BY DEF Construct
<1>2. f \in GoodFrame /\ f.at = "args" /\ FrameReg(app, f)
  BY <1>1, RegFacts DEF Keeps
<1>3. f.who \in Classes /\ f.key \in AllKeys
  BY <1>2 DEF GoodFrame, FrameOK
<1>4. e \in GoodEntry
  BY <1>3, EntriesOK DEF RegInv
<1>5. /\ f.key \in Keys => \E p \in Offered(app) : p.key = f.key
      /\ f.key \notin Modules
  BY <1>2 DEF FrameReg, OfferedAs
<1> QED
  BY <1>1, <1>3, <1>4, <1>5, FinishReg

(* A factory answers, and registers nothing.                               *)
LEMMA AnsweredReg ==
    ASSUME RegInv, NEW t \in Tasks, NEW label \in {"make", "hook"},
           At(t, label), NEW ref \in Nat, Answer(t, ref),
           UNCHANGED <<app, available, resolved>>
    PROVE  Registered'
BY AnswerReg, RegSame

LEMMA CacheHitReg ==
    ASSUME RegInv, NEW t \in Tasks, CacheHit(t)
    PROVE  Registered'
<1> DEFINE f == Top(t)
<1>1. /\ At(t, "make") /\ Hit(f) /\ Answer(t, ctxCache[f.ctx][f.key])
      /\ UNCHANGED <<app, available, resolved>>
  BY DEF CacheHit, store
<1>2. f \in GoodFrame /\ f.at = "make"
  BY <1>1, RegFacts DEF Keeps
<1>3. f.key \in AllKeys /\ f.ctx \in Requests
  BY <1>1, <1>2 DEF GoodFrame, FrameOK, Hit
<1>4. ctxCache[f.ctx][f.key] \in Nat
  BY <1>3 DEF RegInv, TypeInv, StoreOK
<1> QED
  BY <1>1, <1>4, AnsweredReg

LEMMA MakeReg ==
    ASSUME RegInv, NEW t \in Tasks, Make(t)
    PROVE  Registered'
<1>1. /\ At(t, "make") /\ Answer(t, Len(made) + 1)
      /\ UNCHANGED <<app, available, resolved>>
  BY DEF Make
<1>2. Len(made) + 1 \in Nat
  BY DEF RegInv, TypeInv, StoreOK
<1> QED
  BY <1>1, <1>2, AnsweredReg

LEMMA MakeHookedReg ==
    ASSUME RegInv, NEW t \in Tasks, MakeHooked(t)
    PROVE  Registered'
<1> DEFINE f == Top(t)
           g == [f EXCEPT !.at = "hook", !.i = Len(made) + 1]
<1>1. /\ At(t, "make") /\ Await(t, g)
      /\ UNCHANGED <<app, available, resolved>>
  BY DEF MakeHooked
<1>2. f \in Frame /\ f.at = "make"
  BY <1>1, RegFacts DEF Keeps
<1>3. g.at = "hook"
  BY <1>2 DEF Frame
<1> HIDE DEF g
<1>4. FrameReg(app, g)
  BY <1>3 DEF FrameReg
<1>5. \A x : ~ Due(app, g, x)
  BY <1>3, NoneDue
<1>6. \A x \in Keys : ~ Awaits(f, x)
  BY <1>2 DEF Awaits, Resolving
<1>7. Keeps(resolved, resolved)
  BY DEF Keeps
<1>8. TurnReg(resolved, t)
  BY <1>1, <1>4, <1>5, <1>6, <1>7, ContinueReg
<1> QED
  BY <1>1, <1>8, RegSame

LEMMA HookDoneReg ==
    ASSUME RegInv, NEW t \in Tasks, HookDone(t)
    PROVE  Registered'
<1>1. /\ At(t, "hook") /\ Answer(t, Top(t).i)
      /\ UNCHANGED <<app, available, resolved>>
  BY DEF HookDone
<1>2. Top(t).i \in Nat
  BY <1>1, RegFacts DEF Keeps, Frame
<1> QED
  BY <1>1, <1>2, AnsweredReg

LEMMA ThrownReg ==
    ASSUME RegInv, NEW t \in Tasks, Throw(t),
           UNCHANGED <<app, available, resolved>>
    PROVE  Registered'
BY ThrowReg, RegSame

LEMMA ServeReg ==
    ASSUME RegInv, NEW r \in Requests, Serve(r)
    PROVE  Registered'
<1>1. /\ At(r, "get") /\ (Return(r) \/ Throw(r)) /\ r \in Tasks
      /\ UNCHANGED <<app, available, resolved>>
  BY DEF Serve, store, Tasks
<1>2. CASE Return(r)
  <2>1. Keeps(resolved, resolved)
    BY DEF Keeps
  <2>2. Top(r).at = "get"
    BY <1>1, <2>1, RegFacts
  <2>3. \A x \in Keys : ~ Awaits(Top(r), x)
    BY <2>2 DEF Awaits, Resolving
  <2>4. TurnReg(resolved, r)
    BY <1>1, <1>2, <2>1, <2>3, ReturnReg
  <2> QED
    BY <1>1, <2>4, RegSame
<1>3. CASE Throw(r)
  BY <1>1, <1>3, ThrownReg
<1> QED
  BY <1>1, <1>2, <1>3

LEMMA ArriveReg ==
    ASSUME RegInv, NEW r \in Requests, Arrive(r)
    PROVE  Registered'
<1> DEFINE f == [Call("list", r, app.route[r], None) EXCEPT !.ctx = r]
<1>1. /\ stack' = [stack EXCEPT ![r] = <<f>>] /\ r \in Tasks
      /\ UNCHANGED <<app, available, resolved>>
  BY DEF Arrive, store, Tasks
<1>2. f.at = "list" /\ f.who = r /\ f.i = 1
  BY DEF Call
<1> HIDE DEF f
<1>3. FrameReg(app, f)
  BY <1>2 DEF FrameReg
<1>4. \A k : ~ Due(app, f, k)
  BY <1>2, NothingDue
<1>5. StackReg(app, resolved, <<f>>, {})
  <2>1. Len(<<f>>) = 1 /\ <<f>>[1] = f
    OBVIOUS
  <2> QED
    BY <1>3, <1>4, <2>1 DEF StackReg
<1>6. stack \in [Tasks -> Seq(GoodFrame)]
  BY DEF RegInv, TypeInv, ControlOK
<1>7. TurnReg(resolved, r)
  BY <1>1, <1>5, <1>6 DEF TurnReg
<1> QED
  BY <1>1, <1>7, RegSame

LEMMA HandleErrorReg ==
    ASSUME RegInv, NEW r \in Requests, HandleError(r)
    PROVE  Registered'
BY DEF HandleError, RegInv, Registered

LEMMA InitReg ==
    ASSUME Init
    PROVE  Registered
<1> DEFINE f == Call("imports", app.entry, None, None)
<1>1. app \in Apps
  BY DEF Init
<1>2. ASSUME NEW k \in Keys, available[k] \in Services PROVE FALSE
  BY <1>2, NamesAssumption DEF Init
<1>3. \A k \in AllKeys : resolved[k] = None
  BY DEF Init
<1>4. KeysReg(app, resolved) /\ ModulesReg(app, resolved)
  BY <1>3 DEF KeysReg, ModulesReg, AllKeys
<1>5. ASSUME NEW t \in Tasks PROVE StackReg(app, resolved, stack[t], {})
  <2>1. CASE t # Boot
    <3>1. stack[t] = <<>>
      BY <2>1 DEF Init
    <3> QED
      BY <3>1 DEF StackReg
  <2>2. CASE t = Boot
    <3>1. stack[t] = <<f>>
      BY <2>2 DEF Init
    <3>2. f.at = "imports"
      BY CallFields
    <3> HIDE DEF f
    <3>3. FrameReg(app, f)
      BY <3>2 DEF FrameReg
    <3>4. \A k : ~ Due(app, f, k)
      BY <3>2, NoneDue
    <3>5. Len(<<f>>) = 1 /\ <<f>>[1] = f
      OBVIOUS
    <3> QED
      BY <3>1, <3>3, <3>4, <3>5 DEF StackReg
  <2> QED
    BY <2>1, <2>2
<1> QED
  BY <1>1, <1>2, <1>4, <1>5 DEF Registered, AvailableReg

LEMMA StepReg ==
    ASSUME RegInv, OneKeyPerClass(Apps), NEW t \in Tasks, Step(t)
    PROVE  Registered'
<1>1. CASE Import(t) \/ Offer(t) \/ ProvideValue(t) \/ ProvideClass(t)
  BY <1>1, ImportReg, OfferReg, ProvideValueReg, ProvideClassReg
<1>2. CASE Listed(t) \/ NextController(t) \/ Publish(t)
  BY <1>2, ListedReg, NextControllerReg, PublishReg
<1>3. CASE Enter(t) \/ ResolveDependency(t) \/ DependenciesResolved(t)
  BY <1>3, EnterReg, ResolveDependencyReg, DependenciesResolvedReg
<1>4. CASE \/ DecideSingle(t) \/ DecideScoped(t) \/ Control(t)
           \/ ControlScoped(t)
  BY <1>4, DecideSingleReg, DecideScopedReg, ControlReg, ControlScopedReg
<1>5. CASE ReadArgument(t) \/ Construct(t)
  BY <1>5, ReadArgumentReg, ConstructReg
<1>6. CASE CacheHit(t) \/ Make(t) \/ MakeHooked(t) \/ HookDone(t)
  BY <1>6, CacheHitReg, MakeReg, MakeHookedReg, HookDoneReg
<1>7. CASE HookThrows(t)
  BY <1>7, ThrownReg DEF HookThrows, store
<1> QED
  BY <1>1, <1>2, <1>3, <1>4, <1>5, <1>6, <1>7 DEF Step

LEMMA NextReg ==
    ASSUME RegInv, OneKeyPerClass(Apps), [Next]_vars
    PROVE  RegInv'
<1>1. TypeInv'
  BY NextType DEF RegInv
<1>2. Registered'
  <2>1. CASE UNCHANGED vars
    BY <2>1 DEF vars, store, RegInv, Registered
  <2>2. CASE \E t \in Tasks : Step(t)
    BY <2>2, StepReg
  <2>3. CASE \E r \in Requests : Arrive(r) \/ RequestStep(r)
    BY <2>3, ArriveReg, GetControllerReg, ServeReg, HandleErrorReg
       DEF RequestStep
  <2>4. CASE Quiet
    BY <2>1, <2>4 DEF Quiet
  <2> QED
    BY <2>1, <2>2, <2>3, <2>4 DEF Next
<1> QED
  BY <1>1, <1>2 DEF RegInv

(* A module is published, and the bootstrap is over, only when every       *)
(* provider the module lists is registered: registration follows the       *)
(* dependencies first and the list's order second, and no early return     *)
(* skips a key, as long as no class is listed under two keys.              *)
THEOREM ProvidersRegistered ==
    ASSUME OneKeyPerClass(Apps)
    PROVE  Spec => []EveryProviderRegistered
<1>1. Init => RegInv
  BY InitType, InitReg DEF RegInv
<1>2. RegInv /\ [Next]_vars => RegInv'
  BY NextReg
<1>3. RegInv => EveryProviderRegistered
  BY DEF RegInv, Registered, ModulesReg, EveryProviderRegistered
<1> QED
  BY <1>1, <1>2, <1>3, PTL DEF Spec

-----------------------------------------------------------------------------
(* Sharing.  While a class is being resolved it is not registered, so that *)
(* it is built once: what a stack waits for is unresolved, and whatever    *)
(* finishes has its dependencies resolved.                                 *)

Inner == {"make", "hook"}

(* A frame at low may be below one at high.                                *)
Above(low, high) ==
    /\ low.at \notin {"enter", "scope", "control", "hook"}
    /\ low.at = "deps" => high.at \in Resolving \cup Inner
    /\ low.at \in {"args", "make", "get"} => high.at \in Inner

(* high resolves a dependency of low.                                      *)
Needed(a, reg, av, low, high) ==
    /\ high.at \in Resolving
    /\ high.key \in Keys
    /\ reg[high.key] = None
    /\ high.who = av[high.key]
    /\ \E n \in DOMAIN a.params[low.who] : high.key = a.params[low.who][n]

Unbuilt(reg, f) ==
    f.at \in {"deps", "scope", "args"} /\ f.key \in Services =>
        reg[f.key] = None

(* f may be put on top of the stack s.                                     *)
MayCarry(a, reg, av, s, f) ==
    /\ Unbuilt(reg, f)
    /\ \A j \in 1 .. Len(s) : Above(s[j], f)
    /\ s # <<>> /\ s[Len(s)].at = "deps" => Needed(a, reg, av, s[Len(s)], f)

StackShare(a, reg, av, s) ==
    \A i \in 1 .. Len(s) :
        /\ Unbuilt(reg, s[i])
        /\ \A j \in 1 .. i - 1 : Above(s[j], s[i])
        /\ i > 1 /\ s[i - 1].at = "deps" =>
             Needed(a, reg, av, s[i - 1], s[i])

(* Only the bootstrap resolves modules and controllers, and only it and a  *)
(* request with providers of its own resolve those.                        *)
Registrar(t) == t = Boot \/ app.lazy[t] # <<>>
Belongs(t, f) ==
    /\ f.at \in {"imports", "controllers", "control"} => t = Boot
    /\ f.at = "list" => f.who = t \/ t = Boot
    /\ f.at \in Resolving => f.key \in Keys \/ t = Boot
    /\ f.at \in Resolving => Registrar(t)

(* Requests wait for the bootstrap.                                        *)
Phases ==
    /\ outcome[Boot] # "done" => \A r \in Requests : stack[r] = <<>>
    /\ outcome[Boot] = "done" => stack[Boot] = <<>>

BuiltOnce ==
    /\ \A i \in Instances : made[i].shared /\ made[i].key \in Services =>
         resolved[made[i].key] # None
    /\ \A i, j \in Instances :
         /\ made[i].shared /\ made[j].shared
         /\ made[i].key = made[j].key /\ made[i].key \in Services
         => i = j

Sharing ==
    /\ \A t \in Tasks : StackShare(app, resolved, available, stack[t])
    /\ \A t \in Tasks : \A j \in 1 .. Len(stack[t]) : Belongs(t, stack[t][j])
    /\ Phases
    /\ BuiltOnce

ShareInv == RegInv /\ Sharing

LEMMA ShareSplit ==
    ASSUME NEW a, NEW reg, NEW av, NEW S, NEW s \in Seq(S), s # <<>>,
           StackShare(a, reg, av, s), NEW b, b = SubSeq(s, 1, Len(s) - 1)
    PROVE  /\ StackShare(a, reg, av, b)
           /\ MayCarry(a, reg, av, b, s[Len(s)])
<1>1. /\ Len(s) \in Nat \ {0} /\ Len(b) = Len(s) - 1 /\ b \in Seq(S)
      /\ \A j \in 1 .. Len(s) - 1 : b[j] = s[j]
  BY StackTop
<1>2. ASSUME NEW i \in 1 .. Len(b)
      PROVE  /\ Unbuilt(reg, b[i])
             /\ \A j \in 1 .. i - 1 : Above(b[j], b[i])
             /\ i > 1 /\ b[i - 1].at = "deps" =>
                  Needed(a, reg, av, b[i - 1], b[i])
  <2>1. i \in 1 .. Len(s) /\ b[i] = s[i]
    BY <1>1
  <2>2. \A j \in 1 .. i - 1 : b[j] = s[j]
    BY <1>1
  <2>3. i > 1 => b[i - 1] = s[i - 1]
    BY <2>2
  <2>4. /\ Unbuilt(reg, s[i])
        /\ \A j \in 1 .. i - 1 : Above(s[j], s[i])
        /\ i > 1 /\ s[i - 1].at = "deps" =>
             Needed(a, reg, av, s[i - 1], s[i])
    BY <2>1 DEF StackShare
  <2> QED
    BY <2>1, <2>2, <2>3, <2>4
<1>3. MayCarry(a, reg, av, b, s[Len(s)])
  <2>1. Len(s) \in 1 .. Len(s)
    BY <1>1
  <2>2. /\ Unbuilt(reg, s[Len(s)])
        /\ \A j \in 1 .. Len(s) - 1 : Above(s[j], s[Len(s)])
        /\ Len(s) > 1 /\ s[Len(s) - 1].at = "deps" =>
             Needed(a, reg, av, s[Len(s) - 1], s[Len(s)])
    BY <2>1 DEF StackShare
  <2>3. b # <<>> => Len(s) > 1 /\ b[Len(b)] = s[Len(s) - 1]
    <3>1. b # <<>> => Len(b) # 0
      BY <1>1
    <3> QED
      BY <1>1, <3>1
  <2> QED
    BY <1>1, <2>2, <2>3 DEF MayCarry
<1> QED
  BY <1>2, <1>3 DEF StackShare

LEMMA ShareAdd ==
    ASSUME NEW a, NEW reg, NEW av, NEW S, NEW s \in Seq(S), NEW f \in S,
           StackShare(a, reg, av, s), MayCarry(a, reg, av, s, f)
    PROVE  StackShare(a, reg, av, Append(s, f))
<1> DEFINE p == Append(s, f)
<1>1. /\ Len(s) \in Nat /\ Len(p) = Len(s) + 1 /\ p[Len(s) + 1] = f
      /\ \A j \in 1 .. Len(s) : p[j] = s[j]
  BY StackPush
<1> HIDE DEF p
<1>2. ASSUME NEW i \in 1 .. Len(p)
      PROVE  /\ Unbuilt(reg, p[i])
             /\ \A j \in 1 .. i - 1 : Above(p[j], p[i])
             /\ i > 1 /\ p[i - 1].at = "deps" =>
                  Needed(a, reg, av, p[i - 1], p[i])
  <2>1. CASE i = Len(s) + 1
    <3>1. p[i] = f /\ i - 1 = Len(s)
      BY <1>1, <2>1
    <3>2. i > 1 => s # <<>> /\ p[i - 1] = s[Len(s)]
      BY <1>1, <3>1
    <3> QED
      BY <1>1, <3>1, <3>2 DEF MayCarry
  <2>2. CASE i # Len(s) + 1
    <3>1. i \in 1 .. Len(s) /\ p[i] = s[i]
      BY <1>1, <2>2
    <3>2. \A j \in 1 .. i - 1 : p[j] = s[j]
      BY <1>1, <3>1
    <3>3. i > 1 => p[i - 1] = s[i - 1]
      BY <3>2
    <3>4. /\ Unbuilt(reg, s[i])
          /\ \A j \in 1 .. i - 1 : Above(s[j], s[i])
          /\ i > 1 /\ s[i - 1].at = "deps" =>
               Needed(a, reg, av, s[i - 1], s[i])
      BY <3>1 DEF StackShare
    <3> QED
      BY <3>1, <3>2, <3>3, <3>4
  <2> QED
    BY <2>1, <2>2
<1>3. StackShare(a, reg, av, p)
  BY <1>2 DEF StackShare
<1> QED
  BY <1>3 DEF p

(* A frame that goes on takes the place of the one it was.                 *)
TurnsInto(g, f) ==
    /\ g.at \in Resolving <=> f.at \in Resolving
    /\ g.at \in Inner <=> f.at \in Inner
    /\ f.at \in Resolving => g.who = f.who /\ g.key = f.key

LEMMA ShareReplace ==
    ASSUME NEW a, NEW reg, NEW av, NEW s, NEW f, NEW g,
           MayCarry(a, reg, av, s, f), TurnsInto(g, f), Unbuilt(reg, g)
    PROVE  MayCarry(a, reg, av, s, g)
<1>1. \A low : Above(low, f) => Above(low, g)
  BY DEF Above, TurnsInto
<1>2. \A low : Needed(a, reg, av, low, f) => Needed(a, reg, av, low, g)
  BY DEF Needed, TurnsInto
<1> QED
  BY <1>1, <1>2 DEF MayCarry

(* A frame on which f fits may carry another one on f.                     *)
LEMMA ShareCall ==
    ASSUME NEW a, NEW reg, NEW av, NEW S, NEW s \in Seq(S), NEW g \in S, NEW h,
           MayCarry(a, reg, av, s, g), Unbuilt(reg, h), Above(g, h),
           \/ h.at \in Inner
           \/ h.at \in Resolving /\ g.at \in Resolving
           \/ g.at \notin Resolving \cup Inner,
           g.at = "deps" => Needed(a, reg, av, g, h)
    PROVE  MayCarry(a, reg, av, Append(s, g), h)
<1> DEFINE p == Append(s, g)
<1>1. /\ Len(s) \in Nat /\ Len(p) = Len(s) + 1 /\ p[Len(s) + 1] = g
      /\ \A j \in 1 .. Len(s) : p[j] = s[j]
  BY StackPush
<1>2. \A low : Above(low, g) => Above(low, h)
  BY DEF Above, Inner, Resolving
<1> HIDE DEF p
<1>3. ASSUME NEW j \in 1 .. Len(p) PROVE Above(p[j], h)
  <2>1. CASE j = Len(s) + 1
    BY <1>1, <2>1
  <2>2. CASE j # Len(s) + 1
    <3>1. j \in 1 .. Len(s) /\ p[j] = s[j]
      BY <1>1, <2>2
    <3> QED
      BY <1>2, <3>1 DEF MayCarry
  <2> QED
    BY <2>1, <2>2
<1>4. MayCarry(a, reg, av, p, h)
  BY <1>1, <1>3 DEF MayCarry
<1> QED
  BY <1>4 DEF p

LEMMA ShareLike ==
    ASSUME NEW a, NEW reg, NEW av, NEW b, NEW c, Len(b) \in Nat,
           Len(c) = Len(b), \A j \in 1 .. Len(b) : Like(c[j], b[j]),
           StackShare(a, reg, av, b)
    PROVE  StackShare(a, reg, av, c)
<1>1. ASSUME NEW f, NEW g, NEW x, NEW y, Like(f, g), Like(x, y)
      PROVE  /\ Unbuilt(reg, g) => Unbuilt(reg, f)
             /\ Above(g, y) => Above(f, x)
             /\ f.at = g.at
             /\ Needed(a, reg, av, g, y) => Needed(a, reg, av, f, x)
  BY <1>1 DEF Like, Unbuilt, Above, Needed
<1>2. ASSUME NEW i \in 1 .. Len(c)
      PROVE  /\ Unbuilt(reg, c[i])
             /\ \A j \in 1 .. i - 1 : Above(c[j], c[i])
             /\ i > 1 /\ c[i - 1].at = "deps" =>
                  Needed(a, reg, av, c[i - 1], c[i])
  <2>1. i \in 1 .. Len(b) /\ Like(c[i], b[i])
    OBVIOUS
  <2>2. \A j \in 1 .. i - 1 : Like(c[j], b[j])
    BY <2>1
  <2>3. i > 1 => Like(c[i - 1], b[i - 1])
    BY <2>2
  <2>4. /\ Unbuilt(reg, b[i])
        /\ \A j \in 1 .. i - 1 : Above(b[j], b[i])
        /\ i > 1 /\ b[i - 1].at = "deps" =>
             Needed(a, reg, av, b[i - 1], b[i])
    BY <2>1 DEF StackShare
  <2> QED
    BY <1>1, <2>1, <2>2, <2>3, <2>4
<1> QED
  BY <1>2 DEF StackShare

-----------------------------------------------------------------------------
(* What a step of a task leaves of the stacks, with a registry new and     *)
(* providers av.                                                           *)

TurnShare(new, av, t) ==
    /\ \A u \in Tasks : u # t => stack'[u] = stack[u] /\ outcome'[u] = outcome[u]
    /\ t = Boot /\ outcome'[Boot] = "done" => stack'[Boot] = <<>>
    /\ StackShare(app, new, av, stack'[t])
    /\ \A j \in 1 .. Len(stack'[t]) : Belongs(t, stack'[t][j])

LEMMA ShareFacts ==
    ASSUME ShareInv, NEW t \in Tasks, NEW label, At(t, label)
    PROVE  /\ stack[t] # <<>> /\ Top(t) \in GoodFrame /\ Top(t) \in Frame
           /\ Top(t).at = label
           /\ Below(t) \in Seq(GoodFrame) /\ Len(Below(t)) = Depth(t) - 1
           /\ Depth(t) \in Nat \ {0}
           /\ stack \in [Tasks -> Seq(GoodFrame)] /\ DOMAIN outcome = Tasks
           /\ StackShare(app, resolved, available, Below(t))
           /\ MayCarry(app, resolved, available, Below(t), Top(t))
           /\ Belongs(t, Top(t))
           /\ \A j \in 1 .. Len(Below(t)) :
                Below(t)[j] = stack[t][j] /\ Belongs(t, Below(t)[j])
           /\ t = Boot => outcome[Boot] # "done"
<1>1. stack[t] # <<>> /\ Top(t) \in GoodFrame /\ Top(t).at = label
  BY AtFacts DEF ShareInv, RegInv
<1>2. /\ stack[t] \in Seq(GoodFrame) /\ stack \in [Tasks -> Seq(GoodFrame)]
      /\ DOMAIN outcome = Tasks
  BY DEF ShareInv, RegInv, TypeInv, ControlOK
<1>3. /\ Below(t) \in Seq(GoodFrame) /\ Len(Below(t)) = Depth(t) - 1
      /\ Depth(t) \in Nat \ {0}
      /\ \A j \in 1 .. Len(Below(t)) : Below(t)[j] = stack[t][j]
  BY <1>1, <1>2, StackTop DEF Below, Depth
<1>4. StackShare(app, resolved, available, stack[t])
  BY DEF ShareInv, Sharing
<1>5. /\ StackShare(app, resolved, available, Below(t))
      /\ MayCarry(app, resolved, available, Below(t), Top(t))
  BY <1>1, <1>2, <1>4, ShareSplit DEF Below, Top, Depth
<1>6. \A j \in 1 .. Depth(t) : Belongs(t, stack[t][j])
  BY DEF ShareInv, Sharing, Depth
<1>7. Belongs(t, Top(t)) /\ \A j \in 1 .. Len(Below(t)) : Belongs(t, Below(t)[j])
  <2>1. Depth(t) \in 1 .. Depth(t) /\ Len(Below(t)) < Depth(t)
    BY <1>3
  <2> QED
    BY <1>3, <1>6, <2>1 DEF Top
<1>8. t = Boot => outcome[Boot] # "done"
  BY <1>1 DEF ShareInv, Sharing, Phases
<1> QED
  BY <1>1, <1>2, <1>3, <1>5, <1>7, <1>8 DEF GoodFrame

LEMMA ContinueShare ==
    ASSUME ShareInv, NEW t \in Tasks, NEW label, At(t, label),
           NEW new, NEW av, NEW g, StackShare(app, new, av, Below(t)),
           MayCarry(app, new, av, Below(t), g), Belongs(t, g),
           Continue(t, g) \/ Await(t, g)
    PROVE  TurnShare(new, av, t)
<1> DEFINE b == Below(t)
           p == Append(b, g)
<1>1. /\ b \in Seq(GoodFrame) /\ stack \in [Tasks -> Seq(GoodFrame)]
      /\ \A j \in 1 .. Len(b) : Belongs(t, b[j])
      /\ t = Boot => outcome[Boot] # "done"
  BY ShareFacts
<1>2. stack' = [stack EXCEPT ![t] = p] /\ outcome' = outcome
  BY DEF Continue, Await
<1> HIDE DEF b
<1>3. b \in Seq(GoodFrame \cup {g})
  BY <1>1
<1>4. StackShare(app, new, av, p)
  BY <1>3, ShareAdd DEF b
<1>5. /\ Len(b) \in Nat /\ Len(p) = Len(b) + 1 /\ p[Len(b) + 1] = g
      /\ \A j \in 1 .. Len(b) : p[j] = b[j]
  BY <1>3, StackPush
<1> HIDE DEF p
<1>6. \A j \in 1 .. Len(p) : Belongs(t, p[j])
  <2> SUFFICES ASSUME NEW j \in 1 .. Len(p) PROVE Belongs(t, p[j])
    OBVIOUS
  <2>1. j = Len(b) + 1 \/ j \in 1 .. Len(b)
    BY <1>5
  <2> QED
    BY <1>1, <1>5, <2>1
<1> QED
  BY <1>1, <1>2, <1>4, <1>6 DEF TurnShare

LEMMA ThrowShare ==
    ASSUME ShareInv, NEW t \in Tasks, NEW label, At(t, label),
           NEW new, NEW av, Throw(t)
    PROVE  TurnShare(new, av, t)
<1>1. /\ stack' = [stack EXCEPT ![t] = <<>>] /\ stack'[t] = <<>>
      /\ outcome' = [outcome EXCEPT ![t] = "failed"]
      /\ outcome \in [Tasks -> {"idle", "busy", "done", "failed", "answered"}]
      /\ stack \in [Tasks -> Seq(GoodFrame)]
  BY DEF ShareInv, RegInv, TypeInv, ControlOK, Throw
<1>2. StackShare(app, new, av, <<>>)
  BY DEF StackShare
<1> QED
  BY <1>1, <1>2 DEF TurnShare

LEMMA ReturnShare ==
    ASSUME ShareInv, NEW t \in Tasks, NEW label, At(t, label),
           NEW new, NEW av, StackShare(app, new, av, Below(t)), Return(t)
    PROVE  TurnShare(new, av, t)
<1>1. /\ stack' = [stack EXCEPT ![t] = Below(t)]
      /\ outcome' = [outcome EXCEPT ![t] = IF Depth(t) = 1 THEN "done" ELSE @]
      /\ outcome \in [Tasks -> {"idle", "busy", "done", "failed", "answered"}]
  BY DEF ShareInv, RegInv, TypeInv, ControlOK, Return
<1>2. /\ stack \in [Tasks -> Seq(GoodFrame)] /\ Below(t) \in Seq(GoodFrame)
      /\ Len(Below(t)) = Depth(t) - 1
      /\ \A j \in 1 .. Len(Below(t)) : Belongs(t, Below(t)[j])
      /\ t = Boot => outcome[Boot] # "done"
  BY ShareFacts
<1>3. Depth(t) = 1 => Below(t) = <<>>
  BY <1>2
<1>4. t = Boot /\ outcome'[Boot] = "done" => Depth(t) = 1
  BY <1>1, <1>2
<1>5. stack'[t] = Below(t)
  BY <1>1, <1>2
<1>6. \A u \in Tasks : u # t => stack'[u] = stack[u] /\ outcome'[u] = outcome[u]
  BY <1>1, <1>2
<1> QED
  BY <1>2, <1>3, <1>4, <1>5, <1>6 DEF TurnShare

LEMMA PushShare ==
    ASSUME ShareInv, NEW t \in Tasks, NEW label, At(t, label),
           NEW g, NEW h, TurnsInto(g, Top(t)), Unbuilt(resolved, g),
           Belongs(t, g), Unbuilt(resolved, h), Above(g, h), Belongs(t, h),
           \/ h.at \in Inner
           \/ h.at \in Resolving /\ g.at \in Resolving
           \/ g.at \notin Resolving \cup Inner,
           g.at = "deps" => Needed(app, resolved, available, g, h),
           Push(t, g, h)
    PROVE  TurnShare(resolved, available, t)
<1>1. CASE ~ (Depth(t) < StackLimit)
  BY <1>1, ThrowShare DEF Push
<1>2. CASE Depth(t) < StackLimit
  <2> DEFINE b == Below(t)
             p == Append(b, g)
             q == Append(p, h)
  <2>1. /\ b \in Seq(GoodFrame) /\ stack \in [Tasks -> Seq(GoodFrame)]
        /\ StackShare(app, resolved, available, b)
        /\ MayCarry(app, resolved, available, b, Top(t))
        /\ \A j \in 1 .. Len(b) : Belongs(t, b[j])
        /\ t = Boot => outcome[Boot] # "done"
    BY ShareFacts
  <2>2. stack' = [stack EXCEPT ![t] = q] /\ outcome' = outcome
    BY <1>2 DEF Push
  <2>3. MayCarry(app, resolved, available, b, g)
    BY <2>1, ShareReplace
  <2> HIDE DEF b
  <2>4. b \in Seq(GoodFrame \cup {g, h})
    BY <2>1
  <2>5. StackShare(app, resolved, available, p)
    BY <2>1, <2>3, <2>4, ShareAdd
  <2>6. MayCarry(app, resolved, available, p, h)
    BY <2>3, <2>4, ShareCall
  <2>7. /\ Len(b) \in Nat /\ p \in Seq(GoodFrame \cup {g, h})
        /\ Len(p) = Len(b) + 1 /\ p[Len(b) + 1] = g
        /\ \A j \in 1 .. Len(b) : p[j] = b[j]
    BY <2>4, StackPush
  <2> HIDE DEF p
  <2>8. StackShare(app, resolved, available, q)
    BY <2>5, <2>6, <2>7, ShareAdd
  <2>9. /\ Len(q) = Len(p) + 1 /\ q[Len(p) + 1] = h
        /\ \A j \in 1 .. Len(p) : q[j] = p[j]
    BY <2>7, StackPush
  <2> HIDE DEF q
  <2>10. \A j \in 1 .. Len(q) : Belongs(t, q[j])
    <3> SUFFICES ASSUME NEW j \in 1 .. Len(q) PROVE Belongs(t, q[j])
      OBVIOUS
    <3>1. CASE j = Len(p) + 1
      BY <2>9, <3>1
    <3>2. CASE j = Len(b) + 1
      <4>1. q[j] = g
        BY <2>7, <2>9, <3>2
      <4> QED
        BY <4>1
    <3>3. CASE j \in 1 .. Len(b)
      <4>1. q[j] = b[j]
        BY <2>7, <2>9, <3>3
      <4> QED
        BY <2>1, <3>3, <4>1
    <3> QED
      BY <2>7, <2>9, <3>1, <3>2, <3>3
  <2> QED
    BY <2>1, <2>2, <2>8, <2>10 DEF TurnShare
<1> QED
  BY <1>1, <1>2

LEMMA AnswerShare ==
    ASSUME ShareInv, NEW t \in Tasks, NEW label, At(t, label),
           NEW ref \in Nat, Answer(t, ref)
    PROVE  TurnShare(resolved, available, t)
<1>1. /\ stack[t] # <<>> /\ StackShare(app, resolved, available, Below(t))
      /\ \A j \in 1 .. Len(Below(t)) : Belongs(t, Below(t)[j])
      /\ t = Boot => outcome[Boot] # "done"
  BY ShareFacts
<1>2. /\ Len(Below(t)) \in Nat /\ Len(stack'[t]) = Len(Below(t))
      /\ \A j \in 1 .. Len(Below(t)) : Like(stack'[t][j], Below(t)[j])
      /\ \A u \in Tasks : u # t => stack'[u] = stack[u]
  BY <1>1, AnswerLike DEF ShareInv, RegInv
<1>3. StackShare(app, resolved, available, stack'[t])
  BY <1>1, <1>2, ShareLike
<1>4. \A j \in 1 .. Len(stack'[t]) : Belongs(t, stack'[t][j])
  BY <1>1, <1>2 DEF Like, Belongs
<1>5. outcome' = outcome
  BY DEF Answer
<1> QED
  BY <1>1, <1>2, <1>3, <1>4, <1>5 DEF TurnShare

LEMMA OfferedTyped ==
    ASSUME TypeInv
    PROVE  \A p \in Offered(app) : p \in Provider
<1> SUFFICES ASSUME NEW p \in Offered(app) PROVE p \in Provider
  OBVIOUS
<1>1. CASE \E m \in Modules : p \in {app.injectables[m][n] :
                                       n \in DOMAIN app.injectables[m]}
  <2>1. PICK m \in Modules : \E n \in DOMAIN app.injectables[m] :
          p = app.injectables[m][n]
    BY <1>1
  <2> QED
    BY <2>1, AppFacts
<1>2. CASE \E r \in Requests : p \in {app.lazy[r][n] :
                                        n \in DOMAIN app.lazy[r]}
  <2>1. PICK r \in Requests : \E n \in DOMAIN app.lazy[r] : p = app.lazy[r][n]
    BY <1>2
  <2> QED
    BY <2>1, AppFacts
<1> QED
  BY <1>1, <1>2, Zenon DEF Offered

-----------------------------------------------------------------------------
(* Who may change the registry, and what it leaves of the others.          *)

LEMMA ShareFree ==
    ASSUME NEW a, NEW reg, NEW av, NEW s, StackShare(a, reg, av, s),
           \A i \in 1 .. Len(s) : s[i].at \notin Resolving,
           NEW new, NEW nav, Len(s) \in Nat
    PROVE  StackShare(a, new, nav, s)
<1>1. ASSUME NEW i \in 1 .. Len(s)
      PROVE  /\ Unbuilt(new, s[i])
             /\ \A j \in 1 .. i - 1 : Above(s[j], s[i])
             /\ i > 1 /\ s[i - 1].at = "deps" =>
                  Needed(a, new, nav, s[i - 1], s[i])
  <2>1. Unbuilt(new, s[i])
    BY DEF Unbuilt, Resolving
  <2>2. \A j \in 1 .. i - 1 : Above(s[j], s[i])
    BY DEF StackShare
  <2>3. i > 1 => i - 1 \in 1 .. Len(s)
    OBVIOUS
  <2>4. i > 1 => s[i - 1].at # "deps"
    BY <2>3 DEF Resolving
  <2> QED
    BY <2>1, <2>2, <2>4
<1> QED
  BY <1>1 DEF StackShare

(* Below a frame that is neither resolving nor inside a factory nothing is *)
(* being resolved.                                                         *)
LEMMA OuterFree ==
    ASSUME NEW a, NEW reg, NEW av, NEW b, NEW f, MayCarry(a, reg, av, b, f),
           f.at \notin Resolving \cup Inner
    PROVE  \A i \in 1 .. Len(b) : b[i].at \notin Resolving
BY DEF MayCarry, Above, Resolving

(* Registration is never in progress in two tasks.                         *)
LEMMA Alone ==
    ASSUME ShareInv, SoleRegistrar(Apps), NEW t \in Tasks, stack[t] # <<>>,
           Registrar(t), NEW u \in Tasks, u # t
    PROVE  \A i \in 1 .. Len(stack[u]) : stack[u][i].at \notin Resolving
<1> SUFFICES ASSUME NEW i \in 1 .. Len(stack[u]),
                    stack[u][i].at \in Resolving
             PROVE  FALSE
  OBVIOUS
<1>1. Registrar(u)
  BY DEF ShareInv, Sharing, Belongs
<1>2. stack[u] # <<>>
  <2>1. stack[u] \in Seq(GoodFrame)
    BY DEF ShareInv, RegInv, TypeInv, ControlOK
  <2> QED
    BY <2>1
<1>3. t \in Requests \cup {Boot} /\ u \in Requests \cup {Boot}
  BY DEF Tasks
<1>4. t # Boot /\ u # Boot
  BY <1>2, <1>3 DEF ShareInv, Sharing, Phases
<1>5. app.lazy[t] # <<>> /\ app.lazy[u] # <<>>
  BY <1>1, <1>4 DEF Registrar
<1>6. app \in Apps
  BY DEF ShareInv, RegInv, Registered
<1> QED
  BY <1>3, <1>4, <1>5, <1>6 DEF SoleRegistrar

(* What is about to be registered is not among what the stack waits for: a *)
(* frame of the same class below waits for one of the dependencies, which  *)
(* are all registered.                                                     *)
LEMMA NoneBelow ==
    ASSUME ShareInv, NEW t \in Tasks, NEW label \in {"scope", "args"},
           At(t, label), NEW i \in 1 .. Len(Below(t)),
           Below(t)[i].at \in Resolving
    PROVE  /\ Below(t)[i].at = "deps" /\ Below(t)[i].who # Top(t).who
           /\ Below(t)[Len(Below(t))].at = "deps"
           /\ Needed(app, resolved, available,
                     Below(t)[Len(Below(t))], Top(t))
<1> DEFINE b == Below(t)
           f == Top(t)
           n == Len(b)
<1>1. /\ f.at = label /\ b \in Seq(GoodFrame) /\ n \in Nat
      /\ StackShare(app, resolved, available, b)
      /\ MayCarry(app, resolved, available, b, f)
  BY ShareFacts
<1>2. ASSUME NEW j \in 1 .. n
      PROVE  /\ b[j].at \notin {"enter", "scope", "args", "control", "hook",
                                "make", "get"}
             /\ b[j].at = "deps" /\ j < n => b[n].at = "deps"
  <2>1. ASSUME NEW x \in 1 .. n
        PROVE  b[x].at \notin {"enter", "scope", "args", "control", "hook",
                               "make", "get"}
    BY <1>1 DEF MayCarry, Above, Inner
  <2>2. ASSUME b[j].at = "deps", j < n PROVE b[n].at = "deps"
    <3>1. n \in 1 .. n /\ j \in 1 .. n - 1
      BY <1>1, <2>2
    <3>2. Above(b[j], b[n])
      BY <1>1, <3>1 DEF StackShare
    <3> QED
      BY <2>1, <2>2, <3>1, <3>2 DEF Above, Resolving, Inner
  <2> QED
    BY <2>1, <2>2
<1>3. b[i].at = "deps"
  BY <1>2 DEF Resolving
<1>4. b[n].at = "deps" /\ b # <<>>
  BY <1>1, <1>2, <1>3
<1>5. Needed(app, resolved, available, b[n], f)
  BY <1>1, <1>4 DEF MayCarry
<1>6. ASSUME b[i].who = f.who PROVE FALSE
  <2>1. PICK g : Needed(app, resolved, available, b[i], g)
    <3>1. CASE i = n
      BY <1>5, <3>1
    <3>2. CASE i # n
      <4>1. i + 1 \in 1 .. n /\ i + 1 > 1 /\ (i + 1) - 1 = i
        BY <1>1, <3>2
      <4>2. Needed(app, resolved, available, b[i], b[i + 1])
        BY <1>1, <1>3, <4>1 DEF StackShare
      <4> QED
        BY <4>2
    <3> QED
      BY <3>1, <3>2
  <2>2. g.key \in Keys /\ resolved[g.key] = None /\ Due(app, f, g.key)
    BY <1>1, <1>6, <2>1 DEF Needed, Due
  <2>3. \A k \in Keys : Due(app, f, k) => resolved[k] # None
    <3>1. Keeps(resolved, resolved)
      BY DEF Keeps
    <3> QED
      BY <3>1, RegFacts DEF ShareInv
  <2> QED
    BY <2>2, <2>3
<1> QED
  BY <1>3, <1>4, <1>5, <1>6

LEMMA FinishBelow ==
    ASSUME ShareInv, NEW t \in Tasks, NEW label \in {"scope", "args"},
           At(t, label), Top(t).key \in AllKeys, NEW e, Resolve(Top(t).key, e)
    PROVE  StackShare(app, resolved', available, Below(t))
<1> DEFINE b == Below(t)
           f == Top(t)
<1>1. /\ f.at = label /\ f \in GoodFrame /\ b \in Seq(GoodFrame)
      /\ Len(b) \in Nat /\ StackShare(app, resolved, available, b)
  BY ShareFacts
<1>2. \A x \in AllKeys : x # f.key => resolved'[x] = resolved[x]
  BY DEF Resolve, ShareInv, RegInv, TypeInv, StoreOK
<1>3. ASSUME NEW i \in 1 .. Len(b)
      PROVE  /\ Unbuilt(resolved', b[i])
             /\ \A j \in 1 .. i - 1 : Above(b[j], b[i])
             /\ i > 1 /\ b[i - 1].at = "deps" =>
                  Needed(app, resolved', available, b[i - 1], b[i])
  <2>1. /\ Unbuilt(resolved, b[i])
        /\ \A j \in 1 .. i - 1 : Above(b[j], b[i])
        /\ i > 1 /\ b[i - 1].at = "deps" =>
             Needed(app, resolved, available, b[i - 1], b[i])
    BY <1>1 DEF StackShare
  <2>2. b[i] \in GoodFrame
    BY <1>1
  <2>3. ASSUME b[i].at \in Resolving
        PROVE  /\ b[i].at = "deps" /\ b[i].who # f.who
               /\ f.who = available[f.key] /\ f.key \in Keys
    BY <2>3, NoneBelow DEF Needed
  <2>4. Unbuilt(resolved', b[i])
    <3> SUFFICES ASSUME b[i].at \in Resolving, b[i].key \in Services
                 PROVE  resolved'[b[i].key] = None
      BY DEF Unbuilt, Resolving
    <3>1. b[i].key # f.key
      <4> SUFFICES ASSUME b[i].key = f.key PROVE FALSE
        OBVIOUS
      <4>1. FrameReg(app, f) /\ FrameReg(app, b[i])
        <5>1. StackReg(app, resolved, stack[t], {})
          BY DEF ShareInv, RegInv, Registered
        <5>2. b[i] = stack[t][i] /\ i \in 1 .. Len(stack[t])
          BY ShareFacts DEF Depth
        <5>3. Keeps(resolved, resolved)
          BY DEF Keeps
        <5> QED
          BY <5>1, <5>2, <5>3, RegFacts DEF StackReg, ShareInv
      <4>2. f.key \in Keys /\ b[i].at = "deps" /\ f.at \in {"scope", "args"}
        BY <1>1, <2>3
      <4>3. OfferedAs(app, f.key, f.who) /\ OfferedAs(app, f.key, b[i].who)
        BY <4>1, <4>2 DEF FrameReg
      <4>4. \A p \in Offered(app) : p.key \in Services => p.class = p.key
        BY OfferedTyped DEF ShareInv, RegInv, Provider
      <4>5. f.who = f.key /\ b[i].who = f.key
        BY <4>3, <4>4 DEF OfferedAs
      <4> QED
        BY <2>3, <4>5
    <3>2. b[i].key \in AllKeys
      BY DEF AllKeys, Keys
    <3>3. resolved[b[i].key] = None
      BY <2>1, <2>3 DEF Unbuilt
    <3> QED
      BY <1>2, <3>1, <3>2, <3>3
  <2>5. ASSUME i > 1, b[i - 1].at = "deps"
        PROVE  Needed(app, resolved', available, b[i - 1], b[i])
    <3>1. Needed(app, resolved, available, b[i - 1], b[i])
      BY <2>1, <2>5
    <3>2. b[i].key # f.key
      BY <2>3, <3>1 DEF Needed
    <3>3. b[i].key \in AllKeys
      BY <3>1 DEF Needed, AllKeys
    <3> QED
      BY <1>2, <3>1, <3>2, <3>3 DEF Needed
  <2> QED
    BY <2>1, <2>4, <2>5
<1> QED
  BY <1>3 DEF StackShare

-----------------------------------------------------------------------------
(* Sharing, one step per action.                                           *)

LEMMA ShareStep ==
    ASSUME ShareInv, NEW t \in Tasks, stack[t] # <<>>, app' = app,
           TurnShare(resolved', available', t), BuiltOnce',
           \/ UNCHANGED <<resolved, available>>
           \/ \A u \in Tasks : u # t =>
                \A i \in 1 .. Len(stack[u]) : stack[u][i].at \notin Resolving
    PROVE  Sharing'
<1>1. \A u \in Tasks : StackShare(app, resolved, available, stack[u])
  BY DEF ShareInv, Sharing
<1>2. \A u \in Tasks : Len(stack[u]) \in Nat
  BY DEF ShareInv, RegInv, TypeInv, ControlOK
<1>3. ASSUME NEW u \in Tasks
      PROVE  /\ StackShare(app, resolved', available', stack'[u])
             /\ \A j \in 1 .. Len(stack'[u]) : Belongs(u, stack'[u][j])
  <2>1. CASE u = t
    BY <2>1 DEF TurnShare
  <2>2. CASE u # t
    <3>1. stack'[u] = stack[u]
      BY <2>2 DEF TurnShare
    <3>2. StackShare(app, resolved', available', stack[u])
      <4>1. CASE UNCHANGED <<resolved, available>>
        BY <1>1, <4>1
      <4>2. CASE \A i \in 1 .. Len(stack[u]) : stack[u][i].at \notin Resolving
        BY <1>1, <1>2, <4>2, ShareFree
      <4> QED
        BY <2>2, <4>1, <4>2
    <3>3. \A j \in 1 .. Len(stack[u]) : Belongs(u, stack[u][j])
      BY DEF ShareInv, Sharing
    <3> QED
      BY <3>1, <3>2, <3>3
  <2> QED
    BY <2>1, <2>2
<1>4. Phases'
  <2>0. /\ outcome[Boot] # "done" => \A r \in Requests : stack[r] = <<>>
        /\ outcome[Boot] = "done" => stack[Boot] = <<>>
    BY DEF ShareInv, Sharing, Phases
  <2>1. CASE t = Boot
    <3>1. \A r \in Requests : stack'[r] = stack[r]
      BY <2>1, NamesAssumption DEF TurnShare, Tasks
    <3>2. \A r \in Requests : stack[r] = <<>>
      BY <2>0, <2>1
    <3> QED
      BY <2>1, <3>1, <3>2 DEF TurnShare, Phases
  <2>2. CASE t # Boot
    <3>1. outcome[Boot] = "done" /\ stack[Boot] = <<>>
      BY <2>0, <2>2 DEF Tasks
    <3>2. outcome'[Boot] = outcome[Boot] /\ stack'[Boot] = stack[Boot]
      BY <2>2 DEF TurnShare, Tasks
    <3> QED
      BY <3>1, <3>2 DEF Phases
  <2> QED
    BY <2>1, <2>2
<1> QED
  BY <1>3, <1>4 DEF Sharing, Belongs, Registrar

LEMMA BuiltKept ==
    ASSUME ShareInv, Keeps(resolved, resolved'), UNCHANGED made
    PROVE  BuiltOnce'
<1>1. \A k \in Services : resolved[k] # None => resolved'[k] # None
  BY DEF Keeps, AllKeys, Keys
<1> QED
  BY <1>1 DEF ShareInv, Sharing, BuiltOnce, Instances

LEMMA BuiltOwn ==
    ASSUME ShareInv, UNCHANGED resolved, NEW x, ~ x.shared,
           made' = Append(made, x)
    PROVE  BuiltOnce'
<1>1. /\ Len(made) \in Nat /\ DOMAIN made = 1 .. Len(made)
      /\ Len(made') = Len(made) + 1 /\ made'[Len(made) + 1] = x
      /\ DOMAIN made' = 1 .. Len(made) + 1
      /\ \A i \in 1 .. Len(made) : made'[i] = made[i]
  <2>1. made \in Seq(Instance \cup {x})
    BY DEF ShareInv, RegInv, TypeInv, StoreOK
  <2> QED
    BY <2>1
<1>2. \A i \in DOMAIN made' : made'[i].shared =>
        i \in DOMAIN made /\ made'[i] = made[i]
  BY <1>1
<1> QED
  BY <1>2 DEF ShareInv, Sharing, BuiltOnce, Instances

LEMMA ShareSame ==
    ASSUME ShareInv, NEW t \in Tasks, stack[t] # <<>>,
           TurnShare(resolved, available, t),
           UNCHANGED <<app, available, resolved, made>>
    PROVE  Sharing'
<1>1. Keeps(resolved, resolved')
  BY DEF Keeps
<1> QED
  BY <1>1, BuiltKept, ShareStep

LEMMA ImportShare ==
    ASSUME ShareInv, NEW t \in Tasks, Import(t)
    PROVE  Sharing'
<1> DEFINE f == Top(t)
           m == app.imports[f.who][f.i]
           g == Advance(f)
           h == Call("imports", m, None, None)
<1>1. /\ At(t, "imports") /\ Push(t, g, h)
      /\ UNCHANGED <<app, available, resolved, made>>
  BY DEF Import, store
<1>2. /\ f.at = "imports" /\ f \in Frame /\ stack[t] # <<>> /\ Belongs(t, f)
  BY <1>1, ShareFacts
<1>3. g.at = "imports" /\ g.who = f.who /\ h.at = "imports"
  BY <1>2, GotoFields, CallFields
<1> HIDE DEF f, g, h
<1>4. t = Boot
  BY <1>2 DEF Belongs
<1>5. Belongs(t, g) /\ Belongs(t, h)
  BY <1>3, <1>4 DEF Belongs, Resolving
<1>6. TurnsInto(g, f) /\ Unbuilt(resolved, g) /\ Unbuilt(resolved, h)
  BY <1>2, <1>3 DEF TurnsInto, Unbuilt, Resolving, Inner
<1>7. Above(g, h) /\ g.at \notin Resolving \cup Inner /\ g.at # "deps"
  BY <1>3 DEF Above, Resolving, Inner
<1>8. TurnShare(resolved, available, t)
  BY <1>1, <1>5, <1>6, <1>7, PushShare DEF f
<1> QED
  BY <1>1, <1>2, <1>8, ShareSame

LEMMA OfferShare ==
    ASSUME ShareInv, SoleRegistrar(Apps), NEW t \in Tasks, Offer(t)
    PROVE  Sharing'
<1> DEFINE f == Top(t)
           g == Goto(f, "list")
<1>1. /\ At(t, "imports") /\ Continue(t, g) /\ UNCHANGED <<app, resolved, made>>
  BY DEF Offer
<1>2. /\ f.at = "imports" /\ f \in Frame /\ stack[t] # <<>> /\ Belongs(t, f)
      /\ StackShare(app, resolved, available, Below(t))
      /\ MayCarry(app, resolved, available, Below(t), f) /\ Len(Below(t)) \in Nat
  BY <1>1, ShareFacts
<1>3. g.at = "list"
  BY <1>2, GotoFields
<1> HIDE DEF f, g
<1>4. t = Boot /\ Registrar(t)
  BY <1>2 DEF Belongs, Registrar
<1>5. \A i \in 1 .. Len(Below(t)) : Below(t)[i].at \notin Resolving
  <2>1. f.at \notin Resolving \cup Inner
    BY <1>2 DEF Resolving, Inner
  <2> QED
    BY <1>2, <2>1, OuterFree
<1>6. StackShare(app, resolved, available', Below(t))
  BY <1>2, <1>5, ShareFree
<1>7. MayCarry(app, resolved, available', Below(t), g)
  <2>1. TurnsInto(g, f) /\ Unbuilt(resolved, g)
    BY <1>2, <1>3 DEF TurnsInto, Unbuilt, Resolving, Inner
  <2>2. MayCarry(app, resolved, available, Below(t), g)
    BY <1>2, <2>1, ShareReplace
  <2>3. ~ Needed(app, resolved, available, Below(t)[Len(Below(t))], g)
    BY <1>3 DEF Needed, Resolving
  <2> QED
    BY <2>2, <2>3 DEF MayCarry
<1>8. Belongs(t, g)
  BY <1>3, <1>4 DEF Belongs, Resolving
<1>9. TurnShare(resolved, available', t)
  BY <1>1, <1>6, <1>7, <1>8, ContinueShare
<1>10. \A u \in Tasks : u # t =>
         \A i \in 1 .. Len(stack[u]) : stack[u][i].at \notin Resolving
  BY <1>2, <1>4, Alone
<1>11. BuiltOnce'
  <2>1. Keeps(resolved, resolved')
    BY <1>1 DEF Keeps
  <2> QED
    BY <1>1, <2>1, BuiltKept
<1> QED
  BY <1>1, <1>2, <1>9, <1>10, <1>11, ShareStep

(* A step of a list or of a module that registers a key which no class in  *)
(* progress waits for.                                                     *)
LEMMA OuterStep ==
    ASSUME ShareInv, SoleRegistrar(Apps), NEW t \in Tasks, NEW label,
           At(t, label), label \notin Resolving \cup Inner, Registrar(t),
           UNCHANGED <<app, available, made>>,
           NEW k \in AllKeys, NEW e \in GoodEntry, Resolve(k, e),
           \/ Return(t)
           \/ \E g : Await(t, g) /\ g.at = label /\ Belongs(t, g)
    PROVE  Sharing'
<1> DEFINE f == Top(t)
           b == Below(t)
<1>1. /\ f.at = label /\ stack[t] # <<>> /\ Len(b) \in Nat
      /\ StackShare(app, resolved, available, b)
      /\ MayCarry(app, resolved, available, b, f)
  BY ShareFacts
<1> HIDE DEF f, b
<1>2. \A i \in 1 .. Len(b) : b[i].at \notin Resolving
  BY <1>1, OuterFree
<1>3. StackShare(app, resolved', available, b)
  BY <1>1, <1>2, ShareFree
<1>4. TurnShare(resolved', available, t)
  <2>1. CASE Return(t)
    BY <1>3, <2>1, ReturnShare DEF b
  <2>2. ASSUME NEW g, Await(t, g), g.at = label, Belongs(t, g)
        PROVE  TurnShare(resolved', available, t)
    <3>1. TurnsInto(g, f) /\ (\A reg : Unbuilt(reg, g))
      BY <1>1, <2>2 DEF TurnsInto, Unbuilt, Resolving, Inner
    <3>2. MayCarry(app, resolved, available, b, g)
      BY <1>1, <3>1, ShareReplace
    <3>3. ~ Needed(app, resolved, available, b[Len(b)], g)
      BY <2>2 DEF Needed
    <3>4. MayCarry(app, resolved', available, b, g)
      BY <3>1, <3>2, <3>3 DEF MayCarry
    <3> QED
      BY <1>3, <2>2, <3>4, ContinueShare DEF b
  <2> QED
    BY <2>1, <2>2
<1>5. \A u \in Tasks : u # t =>
        \A i \in 1 .. Len(stack[u]) : stack[u][i].at \notin Resolving
  BY <1>1, Alone
<1>6. BuiltOnce'
  BY RegisteredKey, BuiltKept DEF ShareInv
<1> QED
  BY <1>1, <1>4, <1>5, <1>6, ShareStep

(* Whose list it is, and what its provider is.                             *)
LEMMA ListFacts ==
    ASSUME ShareInv, NEW t \in Tasks, At(t, "list"),
           Top(t).i <= Len(Providers(Top(t)))
    PROVE  /\ Top(t) \in Frame /\ Top(t).at = "list" /\ stack[t] # <<>>
           /\ Registrar(t)
           /\ Advance(Top(t)).at = "list" /\ Belongs(t, Advance(Top(t)))
           /\ Providers(Top(t))[Top(t).i] \in Provider
<1> DEFINE f == Top(t)
<1>1. /\ f \in Frame /\ f \in GoodFrame /\ f.at = "list" /\ stack[t] # <<>>
      /\ Belongs(t, f)
  BY ShareFacts
<1>2. f.who = t \/ t = Boot
  BY <1>1 DEF Belongs
<1>3. f.who \in Modules \cup Requests /\ f.i \in Nat \ {0}
  BY <1>1 DEF GoodFrame, FrameOK, Frame
<1>4. Providers(f) \in Seq(Provider)
  BY <1>1, <1>3, ProvidersOK DEF ShareInv, RegInv
<1>5. Providers(f)[f.i] \in Provider /\ Providers(f) # <<>>
  BY <1>3, <1>4
<1>6. Registrar(t)
  <2>1. CASE t = Boot
    BY <2>1 DEF Registrar
  <2>2. CASE t # Boot
    <3>1. f.who = t /\ t \in Requests
      BY <1>2, <2>2 DEF Tasks
    <3>2. f.who \notin Modules
      BY <3>1, NamesAssumption
    <3>3. Providers(f) = app.lazy[t]
      BY <3>1, <3>2 DEF Providers
    <3> QED
      BY <1>5, <3>3 DEF Registrar
  <2> QED
    BY <2>1, <2>2
<1>7. Advance(f).at = "list" /\ Advance(f).who = f.who
  BY <1>1, GotoFields
<1>8. Belongs(t, Advance(f))
  BY <1>2, <1>7 DEF Belongs, Resolving
<1> QED
  BY <1>1, <1>5, <1>6, <1>7, <1>8

LEMMA ProvideValueShare ==
    ASSUME ShareInv, SoleRegistrar(Apps), NEW t \in Tasks, ProvideValue(t)
    PROVE  Sharing'
<1> DEFINE f == Top(t)
           p == Providers(f)[f.i]
           g == Advance(f)
<1>1. /\ At(t, "list") /\ f.i <= Len(Providers(f)) /\ Await(t, g)
      /\ Resolve(p.key, ValueEntry) /\ UNCHANGED <<app, available, made>>
  BY DEF ProvideValue
<1>2. Registrar(t) /\ g.at = "list" /\ Belongs(t, g) /\ p \in Provider
  BY <1>1, ListFacts
<1>3. p.key \in AllKeys /\ ValueEntry \in GoodEntry
  BY <1>2 DEF Provider, AllKeys, ValueEntry, GoodEntry, Entry
<1>4. "list" \notin Resolving \cup Inner
  BY DEF Resolving, Inner
<1> HIDE DEF f, g, p
<1> QED
  BY <1>1, <1>2, <1>3, <1>4, OuterStep

LEMMA ProvideClassShare ==
    ASSUME ShareInv, NEW t \in Tasks, ProvideClass(t)
    PROVE  Sharing'
<1> DEFINE f == Top(t)
           p == Providers(f)[f.i]
           g == Advance(f)
           h == Call("enter", p.class, p.key, None)
<1>1. /\ At(t, "list") /\ f.i <= Len(Providers(f)) /\ Push(t, g, h)
      /\ UNCHANGED <<app, available, resolved, made>>
  BY DEF ProvideClass, store
<1>2. /\ f.at = "list" /\ stack[t] # <<>> /\ Registrar(t) /\ g.at = "list"
      /\ Belongs(t, g) /\ p \in Provider
  BY <1>1, ListFacts
<1>3. h.at = "enter" /\ h.key = p.key
  BY CallFields
<1>4. h.key \in Keys
  BY <1>2, <1>3 DEF Provider
<1> HIDE DEF f, g, h
<1>5. Belongs(t, h)
  BY <1>2, <1>3, <1>4 DEF Belongs
<1>6. TurnsInto(g, f) /\ Unbuilt(resolved, g) /\ Unbuilt(resolved, h)
  BY <1>2, <1>3 DEF TurnsInto, Unbuilt, Resolving, Inner
<1>7. Above(g, h) /\ g.at \notin Resolving \cup Inner /\ g.at # "deps"
  BY <1>2, <1>3 DEF Above, Resolving, Inner
<1>8. TurnShare(resolved, available, t)
  BY <1>1, <1>2, <1>5, <1>6, <1>7, PushShare DEF f
<1> QED
  BY <1>1, <1>2, <1>8, ShareSame

(* A frame that moves on without touching the registry.                    *)
LEMMA MoveShare ==
    ASSUME ShareInv, NEW t \in Tasks, NEW label, At(t, label),
           NEW g, TurnsInto(g, Top(t)), Unbuilt(resolved, g), Belongs(t, g),
           Continue(t, g) \/ Await(t, g),
           UNCHANGED <<app, available, resolved, made>>
    PROVE  Sharing'
<1>1. /\ stack[t] # <<>> /\ StackShare(app, resolved, available, Below(t))
      /\ MayCarry(app, resolved, available, Below(t), Top(t))
  BY ShareFacts
<1>2. MayCarry(app, resolved, available, Below(t), g)
  BY <1>1, ShareReplace
<1>3. TurnShare(resolved, available, t)
  BY <1>1, <1>2, ContinueShare
<1> QED
  BY <1>1, <1>3, ShareSame

LEMMA ListedShare ==
    ASSUME ShareInv, NEW t \in Tasks, Listed(t)
    PROVE  Sharing'
<1> DEFINE f == Top(t)
           next == IF f.who \in Modules THEN "controllers" ELSE "get"
           g == Goto(f, next)
<1>1. /\ At(t, "list") /\ Await(t, g)
      /\ UNCHANGED <<app, available, resolved, made>>
  BY DEF Listed, store
<1>2. /\ f.at = "list" /\ f \in Frame /\ Belongs(t, f)
  BY <1>1, ShareFacts
<1>3. g.at = next
  BY <1>2, GotoFields
<1>4. Belongs(t, g)
  <2>1. CASE f.who \in Modules
    <3>1. t = Boot
      <4>1. t \in Requests => t \notin Modules
        BY NamesAssumption
      <4> QED
        BY <1>2, <2>1, <4>1 DEF Belongs, Tasks
    <3> QED
      BY <1>3, <2>1, <3>1 DEF Belongs, Resolving
  <2>2. CASE f.who \notin Modules
    BY <1>3, <2>2 DEF Belongs, Resolving
  <2> QED
    BY <2>1, <2>2
<1>5. g.at \in {"controllers", "get"}
  BY <1>3
<1> HIDE DEF f, g
<1>6. TurnsInto(g, f) /\ Unbuilt(resolved, g)
  BY <1>2, <1>5 DEF TurnsInto, Unbuilt, Resolving, Inner
<1> QED
  BY <1>1, <1>4, <1>6, MoveShare DEF f

LEMMA NextControllerShare ==
    ASSUME ShareInv, NEW t \in Tasks, NextController(t)
    PROVE  Sharing'
<1> DEFINE f == Top(t)
           c == app.controllers[f.who][f.i]
           g == Advance(f)
           h == Call("control", c, c, None)
<1>1. /\ At(t, "controllers") /\ Push(t, g, h)
      /\ UNCHANGED <<app, available, resolved, made>>
  BY DEF NextController, store
<1>2. /\ f.at = "controllers" /\ f \in Frame /\ stack[t] # <<>>
      /\ Belongs(t, f)
  BY <1>1, ShareFacts
<1>3. g.at = "controllers" /\ h.at = "control"
  BY <1>2, GotoFields, CallFields
<1> HIDE DEF f, g, h
<1>4. t = Boot
  BY <1>2 DEF Belongs
<1>5. Belongs(t, g) /\ Belongs(t, h)
  BY <1>3, <1>4 DEF Belongs, Resolving
<1>6. TurnsInto(g, f) /\ Unbuilt(resolved, g) /\ Unbuilt(resolved, h)
  BY <1>2, <1>3 DEF TurnsInto, Unbuilt, Resolving, Inner
<1>7. Above(g, h) /\ g.at \notin Resolving \cup Inner /\ g.at # "deps"
  BY <1>3 DEF Above, Resolving, Inner
<1>8. TurnShare(resolved, available, t)
  BY <1>1, <1>5, <1>6, <1>7, PushShare DEF f
<1> QED
  BY <1>1, <1>2, <1>8, ShareSame

LEMMA PublishShare ==
    ASSUME ShareInv, SoleRegistrar(Apps), NEW t \in Tasks, Publish(t)
    PROVE  Sharing'
<1> DEFINE f == Top(t)
<1>1. /\ At(t, "controllers") /\ Resolve(f.who, ValueEntry) /\ Return(t)
      /\ UNCHANGED <<app, available, made>>
  BY DEF Publish
<1>2. /\ f.at = "controllers" /\ f \in GoodFrame /\ Belongs(t, f)
  BY <1>1, ShareFacts
<1>3. f.who \in AllKeys /\ ValueEntry \in GoodEntry
  BY <1>2 DEF GoodFrame, FrameOK, AllKeys, ValueEntry, GoodEntry, Entry
<1>4. Registrar(t)
  BY <1>2 DEF Belongs, Registrar
<1>5. "controllers" \notin Resolving \cup Inner
  BY DEF Resolving, Inner
<1> QED
  BY <1>1, <1>3, <1>4, <1>5, OuterStep

LEMMA EnterShare ==
    ASSUME ShareInv, NEW t \in Tasks, Enter(t)
    PROVE  Sharing'
<1> DEFINE f == Top(t)
<1>1. At(t, "enter") /\ UNCHANGED <<app, available, resolved, made>>
  BY DEF Enter, store
<1>2. /\ f.at = "enter" /\ f \in Frame /\ f \in GoodFrame /\ stack[t] # <<>>
      /\ Belongs(t, f) /\ StackShare(app, resolved, available, Below(t))
  BY <1>1, ShareFacts
<1>3. CASE Return(t)
  <2>1. TurnShare(resolved, available, t)
    BY <1>1, <1>2, <1>3, ReturnShare
  <2> QED
    BY <1>1, <1>2, <2>1, ShareSame
<1>4. ASSUME resolved[f.who] = None, NEW next \in {"scope", "deps"},
             Continue(t, Goto(f, next))
      PROVE  Sharing'
  <2> DEFINE g == Goto(f, next)
  <2>1. g.at = next /\ g.who = f.who /\ g.key = f.key
    BY <1>2, GotoFields
  <2>2. Continue(t, g)
    BY <1>4
  <2> HIDE DEF g
  <2>3. Unbuilt(resolved, g)
    <3> SUFFICES ASSUME g.key \in Services PROVE resolved[g.key] = None
      BY DEF Unbuilt
    <3>1. FrameReg(app, f)
      <4>1. Keeps(resolved, resolved)
        BY DEF Keeps
      <4> QED
        BY <1>1, <4>1, RegFacts DEF ShareInv
    <3>2. OfferedAs(app, f.key, f.who)
      BY <1>2, <3>1 DEF FrameReg
    <3>3. f.key = f.who
      BY <2>1, <3>2, OfferedTyped
         DEF OfferedAs, Provider, ShareInv, RegInv
    <3> QED
      BY <1>4, <2>1, <3>3
  <2>4. Belongs(t, g)
    <3>1. f.at \in Resolving
      BY <1>2 DEF Resolving
    <3> QED
      BY <1>2, <2>1, <3>1 DEF Belongs
  <2> HIDE DEF f
  <2>5. TurnsInto(g, f)
    BY <1>2, <2>1 DEF TurnsInto, Resolving, Inner
  <2> QED
    BY <1>1, <2>2, <2>3, <2>4, <2>5, MoveShare DEF f
<1>5. CASE resolved[f.who] = None /\ ~ Return(t)
  <2>1. Continue(t, Goto(f, IF app.params[f.who] = <<>> THEN "scope"
                            ELSE "deps"))
    BY <1>5 DEF Enter
  <2>2. CASE app.params[f.who] = <<>>
    BY <1>4, <1>5, <2>1, <2>2
  <2>3. CASE app.params[f.who] # <<>>
    BY <1>4, <1>5, <2>1, <2>3
  <2> QED
    BY <2>2, <2>3
<1>6. Return(t) \/ resolved[f.who] = None
  BY DEF Enter
<1> QED
  BY <1>3, <1>5, <1>6

LEMMA ResolveDependencyShare ==
    ASSUME ShareInv, NEW t \in Tasks, ResolveDependency(t)
    PROVE  Sharing'
<1> DEFINE f == Top(t)
           g == Advance(f)
           k == app.params[f.who][f.i]
           h == Call("enter", available[k], k, f.who)
<1>1. /\ At(t, "deps") /\ f.i <= Len(app.params[f.who])
      /\ UNCHANGED <<app, available, resolved, made>>
  BY DEF ResolveDependency, store
<1>2. /\ f.at = "deps" /\ f \in Frame /\ stack[t] # <<>> /\ Belongs(t, f)
      /\ MayCarry(app, resolved, available, Below(t), f)
  BY <1>1, ShareFacts
<1>3. /\ f.i \in Nat \ {0} /\ app.params[f.who] \in Seq(Keys)
  BY <1>1, DepsDue DEF ShareInv
<1>4. f.i \in DOMAIN app.params[f.who] /\ k \in Keys
  BY <1>1, <1>3
<1>5. g.at = "deps" /\ g.who = f.who /\ g.key = f.key
  BY <1>2, GotoFields
<1>6. TurnsInto(g, f) /\ Unbuilt(resolved, g) /\ Belongs(t, g)
  <2> HIDE DEF f, g
  <2>1. Unbuilt(resolved, f)
    BY <1>2 DEF MayCarry
  <2> QED
    BY <1>2, <1>5, <2>1 DEF TurnsInto, Unbuilt, Belongs
<1>7. CASE Continue(t, g)
  <2> HIDE DEF g
  <2> QED
    BY <1>1, <1>6, <1>7, MoveShare
<1>8. CASE /\ resolved[k] = None /\ available[k] \in Services
           /\ Push(t, g, h)
  <2>1. h.at = "enter" /\ h.who = available[k] /\ h.key = k
    BY CallFields
  <2>2. \E n \in DOMAIN app.params[g.who] : k = app.params[g.who][n]
    BY <1>4, <1>5
  <2> HIDE DEF f, g, h, k
  <2>3. Needed(app, resolved, available, g, h)
    BY <1>4, <1>8, <2>1, <2>2 DEF Needed, Resolving
  <2>4. Unbuilt(resolved, h)
    BY <2>1 DEF Unbuilt
  <2>5. Registrar(t)
    BY <1>2 DEF Belongs, Resolving
  <2>6. Belongs(t, h)
    BY <1>4, <2>1, <2>5 DEF Belongs
  <2>7. Above(g, h) /\ h.at \in Resolving /\ g.at \in Resolving
    BY <1>5, <2>1 DEF Above, Resolving
  <2>8. TurnShare(resolved, available, t)
    BY <1>1, <1>6, <1>8, <2>3, <2>4, <2>6, <2>7, PushShare DEF f
  <2> QED
    BY <1>1, <1>2, <2>8, ShareSame
<1>9. CASE Throw(t)
  BY <1>1, <1>2, <1>9, ThrowShare, ShareSame
<1>10. \/ Continue(t, g)
       \/ resolved[k] = None /\ available[k] \in Services /\ Push(t, g, h)
       \/ Throw(t)
  BY DEF ResolveDependency
<1> QED
  BY <1>7, <1>8, <1>9, <1>10

(* A class that goes on from its dependencies to its scope or arguments.   *)
LEMMA OnwardShare ==
    ASSUME ShareInv, NEW t \in Tasks, NEW label \in {"deps", "scope"},
           At(t, label), NEW next \in {"scope", "args"},
           \/ Continue(t, Goto(Top(t), next))
           \/ Await(t, Goto(Top(t), next)),
           UNCHANGED <<app, available, resolved, made>>
    PROVE  Sharing'
<1> DEFINE f == Top(t)
           g == Goto(f, next)
<1>1. /\ f.at = label /\ f \in Frame /\ Belongs(t, f)
      /\ MayCarry(app, resolved, available, Below(t), f)
  BY ShareFacts
<1>2. g.at = next /\ g.who = f.who /\ g.key = f.key
  BY <1>1, GotoFields
<1>3. Unbuilt(resolved, f)
  BY <1>1 DEF MayCarry
<1>4. Continue(t, g) \/ Await(t, g)
  OBVIOUS
<1> HIDE DEF f, g
<1>5. TurnsInto(g, f) /\ Unbuilt(resolved, g) /\ Belongs(t, g)
  BY <1>1, <1>2, <1>3
     DEF TurnsInto, Unbuilt, Belongs, Resolving, Inner
<1> QED
  BY <1>4, <1>5, MoveShare DEF f

LEMMA DependenciesResolvedShare ==
    ASSUME ShareInv, NEW t \in Tasks, DependenciesResolved(t)
    PROVE  Sharing'
<1>1. /\ At(t, "deps") /\ Await(t, Goto(Top(t), "scope"))
      /\ UNCHANGED <<app, available, resolved, made>>
  BY DEF DependenciesResolved, store
<1> QED
  BY <1>1, OnwardShare

LEMMA DecideSingleShare ==
    ASSUME ShareInv, NEW t \in Tasks, DecideSingle(t)
    PROVE  Sharing'
<1>1. /\ At(t, "scope") /\ Continue(t, Goto(Top(t), "args"))
      /\ UNCHANGED <<app, available, resolved, made>>
  BY DEF DecideSingle, store
<1> QED
  BY <1>1, OnwardShare

(* A class that is registered and leaves.                                  *)
LEMMA FinishShare ==
    ASSUME ShareInv, SoleRegistrar(Apps), NEW t \in Tasks,
           NEW label \in {"scope", "args"}, At(t, label),
           UNCHANGED <<app, available>>, Top(t).key \in AllKeys,
           NEW e \in GoodEntry, Resolve(Top(t).key, e), Return(t), BuiltOnce'
    PROVE  Sharing'
<1>1. stack[t] # <<>> /\ Top(t).at = label /\ Belongs(t, Top(t))
  BY ShareFacts
<1>2. StackShare(app, resolved', available, Below(t))
  BY FinishBelow
<1>3. TurnShare(resolved', available, t)
  BY <1>2, ReturnShare
<1>4. Registrar(t)
  BY <1>1 DEF Belongs, Resolving
<1>5. \A u \in Tasks : u # t =>
        \A i \in 1 .. Len(stack[u]) : stack[u][i].at \notin Resolving
  BY <1>1, <1>4, Alone
<1> QED
  BY <1>1, <1>3, <1>5, ShareStep

LEMMA DecideScopedShare ==
    ASSUME ShareInv, SoleRegistrar(Apps), NEW t \in Tasks, DecideScoped(t)
    PROVE  Sharing'
<1> DEFINE f == Top(t)
           e == FactoryEntry(f.who, scope[f.who] = "TRANSIENT")
<1>1. /\ At(t, "scope") /\ Resolve(f.key, e) /\ Return(t)
      /\ UNCHANGED <<app, available, made>>
  BY DEF DecideScoped
<1>2. f.at = "scope" /\ f \in GoodFrame
  BY <1>1, ShareFacts
<1>3. f.who \in Classes /\ f.key \in AllKeys
  BY <1>2 DEF GoodFrame, FrameOK, Classes, AllKeys
<1>4. e \in GoodEntry
  BY <1>3, EntriesOK DEF ShareInv, RegInv
<1>5. BuiltOnce'
  BY <1>1, <1>3, <1>4, RegisteredKey, BuiltKept DEF ShareInv
<1> QED
  BY <1>1, <1>3, <1>4, <1>5, FinishShare

LEMMA ControlShare ==
    ASSUME ShareInv, NEW t \in Tasks, Control(t)
    PROVE  Sharing'
<1> DEFINE f == Top(t)
           g == Goto(f, "args")
           b == Below(t)
<1>1. At(t, "control") /\ UNCHANGED <<app, available, resolved, made>>
  BY DEF Control, store
<1>2. /\ f.at = "control" /\ f \in Frame /\ f \in GoodFrame /\ stack[t] # <<>>
      /\ Belongs(t, f) /\ StackShare(app, resolved, available, b)
      /\ MayCarry(app, resolved, available, b, f)
  BY <1>1, ShareFacts
<1>3. g.at = "args" /\ g.who = f.who /\ g.key = f.key
  BY <1>2, GotoFields
<1>4. f.key \notin Services
  BY <1>2, NamesAssumption DEF GoodFrame, FrameOK, Keys
<1> HIDE DEF f, b
<1>5. CASE Throw(t)
  BY <1>1, <1>2, <1>5, ThrowShare, ShareSame
<1>6. CASE Continue(t, g)
  <2> HIDE DEF g
  <2>1. Unbuilt(resolved, g)
    BY <1>3, <1>4 DEF Unbuilt
  <2>2. \A low : Above(low, f) => Above(low, g) /\ low.at # "deps"
    BY <1>2 DEF Above, Resolving, Inner
  <2>3. ~ Needed(app, resolved, available, b[Len(b)], f)
    BY <1>2 DEF Needed, Resolving
  <2>4. MayCarry(app, resolved, available, b, g)
    BY <1>2, <2>1, <2>2, <2>3 DEF MayCarry
  <2>5. t = Boot
    BY <1>2 DEF Belongs
  <2>6. Belongs(t, g)
    BY <1>3, <2>5 DEF Belongs, Registrar
  <2>7. TurnShare(resolved, available, t)
    BY <1>1, <1>2, <1>6, <2>4, <2>6, ContinueShare DEF b
  <2> QED
    BY <1>1, <1>2, <2>7, ShareSame
<1> QED
  BY <1>5, <1>6 DEF Control, f

LEMMA ControlScopedShare ==
    ASSUME ShareInv, SoleRegistrar(Apps), NEW t \in Tasks, ControlScoped(t)
    PROVE  Sharing'
<1> DEFINE f == Top(t)
           e == FactoryEntry(f.who, FALSE)
<1>1. /\ At(t, "control") /\ Resolve(f.who, e) /\ Return(t)
      /\ UNCHANGED <<app, available, made>>
  BY DEF ControlScoped
<1>2. f.at = "control" /\ f \in GoodFrame /\ Belongs(t, f)
  BY <1>1, ShareFacts
<1>3. f.who \in Classes /\ f.who \in AllKeys
  BY <1>2 DEF GoodFrame, FrameOK, Classes, AllKeys
<1>4. e \in GoodEntry
  BY <1>3, EntriesOK DEF ShareInv, RegInv
<1>5. Registrar(t)
  BY <1>2 DEF Belongs, Registrar
<1>6. "control" \notin Resolving \cup Inner
  BY DEF Resolving, Inner
<1> QED
  BY <1>1, <1>3, <1>4, <1>5, <1>6, OuterStep

LEMMA ReadShare ==
    ASSUME ShareInv, NEW t \in Tasks, NEW label \in {"args", "make", "get"},
           At(t, label), NEW k, NEW ctx, Read(t, k, ctx),
           UNCHANGED <<app, available, resolved, made>>
    PROVE  Sharing'
<1> DEFINE f == Top(t)
           g == [f EXCEPT !.args = Append(@, resolved[k].ref)]
           h == Factory(k, ctx)
<1>1. /\ f.at = label /\ f \in Frame /\ stack[t] # <<>> /\ Belongs(t, f)
      /\ MayCarry(app, resolved, available, Below(t), f)
  BY ShareFacts
<1>2. Unbuilt(resolved, f)
  BY <1>1 DEF MayCarry
<1>3. CASE Throw(t)
  BY <1>1, <1>3, ThrowShare, ShareSame
<1>4. CASE Await(t, g)
  <2>1. g.at = f.at /\ g.who = f.who /\ g.key = f.key
    BY <1>1 DEF Frame
  <2> HIDE DEF g, f
  <2>2. TurnsInto(g, f) /\ Unbuilt(resolved, g) /\ Belongs(t, g)
    BY <1>1, <1>2, <2>1 DEF TurnsInto, Unbuilt, Belongs
  <2> QED
    BY <1>4, <2>2, MoveShare DEF f
<1>5. CASE Push(t, f, h)
  <2>1. h.at = "make"
    BY DEF Factory, Call
  <2> HIDE DEF h, f
  <2>2. /\ Unbuilt(resolved, h) /\ Belongs(t, h) /\ Above(f, h)
        /\ h.at \in Inner /\ f.at # "deps"
    BY <1>1, <2>1 DEF Unbuilt, Belongs, Above, Resolving, Inner
  <2>3. TurnsInto(f, f)
    BY DEF TurnsInto
  <2>4. TurnShare(resolved, available, t)
    BY <1>1, <1>2, <1>5, <2>2, <2>3, PushShare DEF f
  <2> QED
    BY <1>1, <2>4, ShareSame
<1> QED
  BY <1>3, <1>4, <1>5 DEF Read

LEMMA ReadArgumentShare ==
    ASSUME ShareInv, NEW t \in Tasks, ReadArgument(t)
    PROVE  Sharing'
<1>1. /\ Read(t, app.params[Top(t).who][Len(Top(t).args) + 1], Top(t).ctx)
      /\ UNCHANGED <<app, available, resolved, made>>
  BY DEF ReadArgument, store
<1>2. CASE At(t, "args")
  BY <1>1, <1>2, ReadShare
<1>3. CASE At(t, "make")
  BY <1>1, <1>3, ReadShare
<1> QED
  BY <1>2, <1>3 DEF ReadArgument

LEMMA GetControllerShare ==
    ASSUME ShareInv, NEW r \in Requests, GetController(r)
    PROVE  Sharing'
<1>1. /\ At(r, "get") /\ Read(r, Top(r).key, Top(r).ctx) /\ r \in Tasks
      /\ UNCHANGED <<app, available, resolved, made>>
  BY DEF GetController, store, Tasks
<1> QED
  BY <1>1, ReadShare

(* The class was not registered when it is built, so that no instance of   *)
(* it is shared yet; now it is registered.                                 *)
LEMMA ConstructShare ==
    ASSUME ShareInv, SoleRegistrar(Apps), NEW t \in Tasks, Construct(t)
    PROVE  Sharing'
<1> DEFINE f == Top(t)
           x == Built(f, TRUE)
           e == SingleEntry(f.who)
<1>1. /\ At(t, "args") /\ Resolve(f.key, e) /\ Return(t)
      /\ UNCHANGED <<app, available>> /\ made' = Append(made, x)
  BY DEF Construct
<1>2. /\ f.at = "args" /\ f \in GoodFrame
      /\ MayCarry(app, resolved, available, Below(t), f)
  BY <1>1, ShareFacts
<1>3. f.who \in Classes /\ f.key \in AllKeys
  BY <1>2 DEF GoodFrame, FrameOK
<1>4. e \in GoodEntry
  BY <1>3, EntriesOK DEF ShareInv, RegInv
<1>5. f.key \in Services => resolved[f.key] = None
  BY <1>2 DEF MayCarry, Unbuilt
<1>6. x.key = f.key /\ x.shared
  BY DEF Built
<1>7. Keeps(resolved, resolved') /\ resolved'[f.key] # None
  BY <1>1, <1>3, <1>4, RegisteredKey DEF ShareInv
<1>8. /\ Len(made) \in Nat /\ DOMAIN made = 1 .. Len(made)
      /\ made'[Len(made) + 1] = x
      /\ DOMAIN made' = 1 .. Len(made) + 1
      /\ \A i \in 1 .. Len(made) : made'[i] = made[i]
  <2> HIDE DEF x
  <2>1. made \in Seq(Instance \cup {x})
    BY DEF ShareInv, RegInv, TypeInv, StoreOK
  <2> QED
    BY <1>1, <2>1
<1> HIDE DEF f, x, e
<1>9. BuiltOnce'
  <2> DEFINE n == Len(made) + 1
  <2>1. ASSUME NEW i \in DOMAIN made', i # n
        PROVE  i \in DOMAIN made /\ made'[i] = made[i]
    <3>1. i \in 1 .. Len(made) + 1
      BY <1>8
    <3>2. i \in 1 .. Len(made)
      BY <1>8, <2>1, <3>1
    <3> QED
      BY <1>8, <3>2
  <2>2. \A k \in Services : resolved[k] # None => resolved'[k] # None
    BY <1>7 DEF Keeps, AllKeys, Keys
  <2>3. /\ \A i \in DOMAIN made : made[i].shared /\ made[i].key \in Services =>
             resolved[made[i].key] # None
        /\ \A i, j \in DOMAIN made :
             /\ made[i].shared /\ made[j].shared
             /\ made[i].key = made[j].key /\ made[i].key \in Services
             => i = j
    BY DEF ShareInv, Sharing, BuiltOnce, Instances
  <2>4. made'[n].key = f.key
    BY <1>6, <1>8
  <2> HIDE DEF n
  <2>5. ASSUME NEW i \in DOMAIN made', made'[i].shared,
               made'[i].key \in Services
        PROVE  resolved'[made'[i].key] # None
    BY <1>7, <2>1, <2>2, <2>3, <2>4, <2>5
  <2>6. ASSUME NEW i \in DOMAIN made', NEW j \in DOMAIN made',
               made'[i].shared, made'[j].shared,
               made'[i].key = made'[j].key, made'[i].key \in Services
        PROVE  i = j
    <3>1. ASSUME NEW a \in DOMAIN made', a # n, made'[a].shared,
                 made'[a].key = f.key, f.key \in Services
          PROVE  FALSE
      BY <1>5, <2>1, <2>3, <3>1
    <3>2. CASE i # n /\ j # n
      BY <2>1, <2>3, <2>6, <3>2
    <3>3. CASE i = n /\ j # n
      BY <2>4, <2>6, <3>1, <3>3
    <3>4. CASE i # n /\ j = n
      BY <2>4, <2>6, <3>1, <3>4
    <3> QED
      BY <3>2, <3>3, <3>4
  <2> QED
    BY <2>5, <2>6 DEF BuiltOnce, Instances
<1> QED
  BY <1>1, <1>3, <1>4, <1>9, FinishShare DEF f

LEMMA AnsweredShare ==
    ASSUME ShareInv, NEW t \in Tasks, NEW label, At(t, label),
           NEW ref \in Nat, Answer(t, ref),
           UNCHANGED <<app, available, resolved>>, BuiltOnce'
    PROVE  Sharing'
<1>1. stack[t] # <<>>
  BY ShareFacts
<1>2. TurnShare(resolved, available, t)
  BY AnswerShare
<1> QED
  BY <1>1, <1>2, ShareStep

LEMMA CacheHitShare ==
    ASSUME ShareInv, NEW t \in Tasks, CacheHit(t)
    PROVE  Sharing'
<1> DEFINE f == Top(t)
<1>1. /\ At(t, "make") /\ Hit(f) /\ Answer(t, ctxCache[f.ctx][f.key])
      /\ UNCHANGED <<app, available, resolved, made>>
  BY DEF CacheHit, store
<1>2. f \in GoodFrame /\ f.at = "make"
  BY <1>1, ShareFacts
<1>3. f.key \in AllKeys /\ f.ctx \in Requests
  BY <1>1, <1>2 DEF GoodFrame, FrameOK, Hit
<1>4. ctxCache[f.ctx][f.key] \in Nat
  BY <1>3 DEF ShareInv, RegInv, TypeInv, StoreOK
<1>5. BuiltOnce'
  BY <1>1, BuiltKept DEF Keeps
<1> QED
  BY <1>1, <1>4, <1>5, AnsweredShare

LEMMA MakeShare ==
    ASSUME ShareInv, NEW t \in Tasks, Make(t)
    PROVE  Sharing'
<1>1. /\ At(t, "make") /\ Answer(t, Len(made) + 1)
      /\ UNCHANGED <<app, available, resolved>>
      /\ made' = Append(made, Built(Top(t), FALSE))
  BY DEF Make
<1>2. Len(made) + 1 \in Nat
  BY DEF ShareInv, RegInv, TypeInv, StoreOK
<1>3. ~ Built(Top(t), FALSE).shared
  BY DEF Built
<1>4. BuiltOnce'
  BY <1>1, <1>3, BuiltOwn
<1> QED
  BY <1>1, <1>2, <1>4, AnsweredShare

LEMMA MakeHookedShare ==
    ASSUME ShareInv, NEW t \in Tasks, MakeHooked(t)
    PROVE  Sharing'
<1> DEFINE f == Top(t)
           g == [f EXCEPT !.at = "hook", !.i = Len(made) + 1]
<1>1. /\ At(t, "make") /\ Await(t, g)
      /\ UNCHANGED <<app, available, resolved>>
      /\ made' = Append(made, Built(f, FALSE))
  BY DEF MakeHooked
<1>2. /\ f.at = "make" /\ f \in Frame /\ stack[t] # <<>>
      /\ StackShare(app, resolved, available, Below(t))
      /\ MayCarry(app, resolved, available, Below(t), f)
  BY <1>1, ShareFacts
<1>3. g.at = "hook"
  BY <1>2 DEF Frame
<1>4. ~ Built(f, FALSE).shared
  BY DEF Built
<1> HIDE DEF g
<1>5. BuiltOnce'
  BY <1>1, <1>4, BuiltOwn
<1> HIDE DEF f
<1>6. TurnsInto(g, f) /\ Unbuilt(resolved, g) /\ Belongs(t, g)
  BY <1>2, <1>3 DEF TurnsInto, Unbuilt, Belongs, Resolving, Inner
<1>7. MayCarry(app, resolved, available, Below(t), g)
  BY <1>2, <1>6, ShareReplace
<1>8. TurnShare(resolved, available, t)
  BY <1>1, <1>2, <1>6, <1>7, ContinueShare
<1> QED
  BY <1>1, <1>2, <1>5, <1>8, ShareStep

LEMMA HookDoneShare ==
    ASSUME ShareInv, NEW t \in Tasks, HookDone(t)
    PROVE  Sharing'
<1>1. /\ At(t, "hook") /\ Answer(t, Top(t).i)
      /\ UNCHANGED <<app, available, resolved, made>>
  BY DEF HookDone
<1>2. Top(t).i \in Nat
  BY <1>1, ShareFacts DEF Frame
<1>3. BuiltOnce'
  BY <1>1, BuiltKept DEF Keeps
<1> QED
  BY <1>1, <1>2, <1>3, AnsweredShare

LEMMA ThrownShare ==
    ASSUME ShareInv, NEW t \in Tasks, NEW label, At(t, label), Throw(t),
           UNCHANGED <<app, available, resolved, made>>
    PROVE  Sharing'
<1>1. stack[t] # <<>>
  BY ShareFacts
<1> QED
  BY <1>1, ThrowShare, ShareSame

LEMMA ServeShare ==
    ASSUME ShareInv, NEW r \in Requests, Serve(r)
    PROVE  Sharing'
<1>1. /\ At(r, "get") /\ (Return(r) \/ Throw(r)) /\ r \in Tasks
      /\ UNCHANGED <<app, available, resolved, made>>
  BY DEF Serve, store, Tasks
<1>2. /\ StackShare(app, resolved, available, Below(r)) /\ stack[r] # <<>>
  BY <1>1, ShareFacts
<1>3. CASE Return(r)
  <2>1. TurnShare(resolved, available, r)
    BY <1>1, <1>2, <1>3, ReturnShare
  <2> QED
    BY <1>1, <1>2, <2>1, ShareSame
<1>4. CASE Throw(r)
  BY <1>1, <1>4, ThrownShare
<1> QED
  BY <1>1, <1>3, <1>4

(* Requests arrive after the bootstrap.                                    *)
LEMMA ArriveShare ==
    ASSUME ShareInv, NEW r \in Requests, Arrive(r)
    PROVE  Sharing'
<1> DEFINE f == [Call("list", r, app.route[r], None) EXCEPT !.ctx = r]
<1>1. /\ stack' = [stack EXCEPT ![r] = <<f>>] /\ outcome[Boot] = "done"
      /\ outcome' = [outcome EXCEPT ![r] = "busy"] /\ r # Boot
      /\ UNCHANGED <<app, available, resolved, made>>
  BY NamesAssumption DEF Arrive, store
<1>2. f.at = "list" /\ f.who = r
  BY DEF Call
<1>3. /\ stack \in [Tasks -> Seq(GoodFrame)] /\ DOMAIN outcome = Tasks
  BY DEF ShareInv, RegInv, TypeInv, ControlOK
<1> HIDE DEF f
<1>4. Len(<<f>>) = 1 /\ <<f>>[1] = f
  OBVIOUS
<1>5. StackShare(app, resolved, available, <<f>>)
  BY <1>2, <1>4 DEF StackShare, Unbuilt
<1>6. Belongs(r, f)
  BY <1>2 DEF Belongs, Resolving
<1>7. ASSUME NEW u \in Tasks
      PROVE  /\ StackShare(app, resolved, available, stack'[u])
             /\ \A j \in 1 .. Len(stack'[u]) : Belongs(u, stack'[u][j])
  <2>1. CASE u = r
    <3>1. stack'[u] = <<f>>
      BY <1>1, <1>3, <2>1
    <3> QED
      BY <1>4, <1>5, <1>6, <2>1, <3>1
  <2>2. CASE u # r
    <3>1. stack'[u] = stack[u]
      BY <1>1, <1>3, <2>2
    <3> QED
      BY <3>1 DEF ShareInv, Sharing
  <2> QED
    BY <2>1, <2>2
<1>8. Phases'
  <2>1. outcome'[Boot] = "done" /\ stack'[Boot] = stack[Boot]
    BY <1>1, <1>3 DEF Tasks
  <2> QED
    BY <1>1, <2>1 DEF ShareInv, Sharing, Phases
<1>9. BuiltOnce'
  BY <1>1, BuiltKept DEF Keeps
<1> QED
  BY <1>1, <1>7, <1>8, <1>9 DEF Sharing, Belongs, Registrar

LEMMA HandleErrorShare ==
    ASSUME ShareInv, NEW r \in Requests, HandleError(r)
    PROVE  Sharing'
<1>1. /\ UNCHANGED <<app, available, resolved, made, stack>>
      /\ outcome' = [outcome EXCEPT ![r] = "answered"] /\ r # Boot
  BY NamesAssumption DEF HandleError
<1>2. outcome'[Boot] = outcome[Boot]
  BY <1>1
<1>3. Phases'
  BY <1>1, <1>2 DEF ShareInv, Sharing, Phases
<1>4. BuiltOnce'
  BY <1>1, BuiltKept DEF Keeps
<1> QED
  BY <1>1, <1>3, <1>4 DEF ShareInv, Sharing, Belongs, Registrar

LEMMA InitShare ==
    ASSUME Init
    PROVE  Sharing
<1> DEFINE f == Call("imports", app.entry, None, None)
<1>1. f.at = "imports"
  BY CallFields
<1>2. /\ stack[Boot] = <<f>> /\ outcome[Boot] = "busy"
      /\ \A r \in Requests : stack[r] = <<>>
  BY NamesAssumption DEF Init, Tasks
<1> HIDE DEF f
<1>3. Len(<<f>>) = 1 /\ <<f>>[1] = f
  OBVIOUS
<1>4. ASSUME NEW t \in Tasks
      PROVE  /\ StackShare(app, resolved, available, stack[t])
             /\ \A j \in 1 .. Len(stack[t]) : Belongs(t, stack[t][j])
  <2>1. CASE t = Boot
    <3>1. StackShare(app, resolved, available, <<f>>)
      BY <1>1, <1>3 DEF StackShare, Unbuilt
    <3>2. Belongs(t, f)
      BY <1>1, <2>1 DEF Belongs, Resolving
    <3> QED
      BY <1>2, <1>3, <2>1, <3>1, <3>2
  <2>2. CASE t # Boot
    <3>1. stack[t] = <<>>
      BY <1>2, <2>2 DEF Tasks
    <3> QED
      BY <3>1 DEF StackShare
  <2> QED
    BY <2>1, <2>2
<1>5. Phases
  BY <1>2 DEF Phases
<1>6. BuiltOnce
  <2>1. made = <<>>
    BY DEF Init
  <2> QED
    BY <2>1 DEF BuiltOnce, Instances
<1> QED
  BY <1>4, <1>5, <1>6 DEF Sharing

LEMMA StepShare ==
    ASSUME ShareInv, SoleRegistrar(Apps), NEW t \in Tasks, Step(t)
    PROVE  Sharing'
<1>1. CASE Import(t) \/ Offer(t) \/ ProvideValue(t) \/ ProvideClass(t)
  BY <1>1, ImportShare, OfferShare, ProvideValueShare, ProvideClassShare
<1>2. CASE Listed(t) \/ NextController(t) \/ Publish(t)
  BY <1>2, ListedShare, NextControllerShare, PublishShare
<1>3. CASE Enter(t) \/ ResolveDependency(t) \/ DependenciesResolved(t)
  BY <1>3, EnterShare, ResolveDependencyShare, DependenciesResolvedShare
<1>4. CASE DecideSingle(t) \/ DecideScoped(t)
  BY <1>4, DecideSingleShare, DecideScopedShare
<1>5. CASE Control(t) \/ ControlScoped(t)
  BY <1>5, ControlShare, ControlScopedShare
<1>6. CASE ReadArgument(t) \/ Construct(t)
  BY <1>6, ReadArgumentShare, ConstructShare
<1>7. CASE CacheHit(t) \/ Make(t) \/ MakeHooked(t) \/ HookDone(t)
  BY <1>7, CacheHitShare, MakeShare, MakeHookedShare, HookDoneShare
<1>8. CASE HookThrows(t)
  BY <1>8, ThrownShare DEF HookThrows, store
<1> QED
  BY <1>1, <1>2, <1>3, <1>4, <1>5, <1>6, <1>7, <1>8 DEF Step

LEMMA NextShare ==
    ASSUME ShareInv, OneKeyPerClass(Apps), SoleRegistrar(Apps), [Next]_vars
    PROVE  ShareInv'
<1>1. RegInv'
  BY NextReg DEF ShareInv
<1>2. Sharing'
  <2>1. CASE UNCHANGED vars
    <3>1. UNCHANGED <<app, available, resolved, made, stack, outcome>>
      BY <2>1 DEF vars, store
    <3> QED
      BY <3>1 DEF ShareInv, Sharing, Belongs, Registrar, Phases, BuiltOnce,
                  Instances
  <2>2. CASE \E t \in Tasks : Step(t)
    BY <2>2, StepShare
  <2>3. CASE \E r \in Requests : Arrive(r) \/ RequestStep(r)
    BY <2>3, ArriveShare, GetControllerShare, ServeShare, HandleErrorShare
       DEF RequestStep
  <2>4. CASE Quiet
    BY <2>1, <2>4 DEF Quiet
  <2> QED
    BY <2>1, <2>2, <2>3, <2>4 DEF Next
<1> QED
  BY <1>1, <1>2 DEF ShareInv

(* An injectable that is known by its own key is instantiated once as a    *)
(* singleton, in every dependency graph, cyclic ones included, and whoever *)
(* reaches it first, as long as no class has two keys and no two requests  *)
(* register providers of their own.                                        *)
THEOREM SingletonsShared ==
    ASSUME OneKeyPerClass(Apps), SoleRegistrar(Apps)
    PROVE  Spec => []ClassesAreShared
<1>1. Init => ShareInv
  BY InitType, InitReg, InitShare DEF ShareInv, RegInv
<1>2. ShareInv /\ [Next]_vars => ShareInv'
  BY NextShare
<1>3. ShareInv => ClassesAreShared
  BY DEF ShareInv, Sharing, BuiltOnce, ClassesAreShared
<1> QED
  BY <1>1, <1>2, <1>3, PTL DEF Spec

-----------------------------------------------------------------------------
(* The inductive invariant.  What must hold of a finished instance holds   *)
(* of the arguments that every factory in progress has read so far, which  *)
(* are handed over along the stack: a factory in progress has the context  *)
(* of the frame below it.  m is the sequence of instances.                 *)

Shared(m, a) == a \in DOMAIN m /\ m[a].shared
Fits(m, a, ctx) ==
    a # 0 => a \in DOMAIN m /\ (m[a].shared \/ m[a].ctx = ctx)
Owned(m, a, ctx, key) == a \in DOMAIN m /\ m[a].ctx = ctx /\ m[a].key = key

FrameIso(m, f) ==
    /\ \A n \in DOMAIN f.args : Fits(m, f.args[n], f.ctx)
    /\ f.at = "hook" => Owned(m, f.i, f.ctx, f.key)

StackIso(m, s) ==
    /\ \A j \in 1 .. Len(s) : FrameIso(m, s[j])
    /\ \A j \in 1 .. Len(s) - 1 :
         s[j + 1].at \in Inner => s[j].ctx = s[j + 1].ctx

MadeIso(m) ==
    \A i \in DOMAIN m : \A n \in DOMAIN m[i].args :
        Fits(m, m[i].args[n], m[i].ctx)

RegistryIso(m, registry) ==
    \A k \in AllKeys :
        registry[k] # None /\ registry[k].kind # "factory" =>
            registry[k].ref = 0 \/ Shared(m, registry[k].ref)

CacheIso(m, cache) ==
    \A r \in Requests : \A k \in AllKeys :
        cache[r][k] # 0 => Owned(m, cache[r][k], r, k)

StoreIso ==
    /\ MadeIso(made)
    /\ RegistryIso(made, resolved)
    /\ CacheIso(made, ctxCache)

Isolated == StoreIso /\ \A t \in Tasks : StackIso(made, stack[t])

IsoInv == TypeInv /\ Isolated

-----------------------------------------------------------------------------
(* Instances are only ever added.                                          *)

Grows(m, n) ==
    /\ DOMAIN m \subseteq DOMAIN n
    /\ \A i \in DOMAIN m : n[i] = m[i]

LEMMA GrowsFacts ==
    ASSUME NEW m, NEW n, Grows(m, n)
    PROVE  /\ \A a : Shared(m, a) => Shared(n, a)
           /\ \A a, c : Fits(m, a, c) => Fits(n, a, c)
           /\ \A a, c, k : Owned(m, a, c, k) => Owned(n, a, c, k)
           /\ \A f : FrameIso(m, f) => FrameIso(n, f)
<1>1. \A a : Shared(m, a) => Shared(n, a)
  BY DEF Grows, Shared
<1>2. \A a, c : Fits(m, a, c) => Fits(n, a, c)
  BY DEF Grows, Fits
<1>3. \A a, c, k : Owned(m, a, c, k) => Owned(n, a, c, k)
  BY DEF Grows, Owned
<1>4. \A f : FrameIso(m, f) => FrameIso(n, f)
  BY <1>2, <1>3 DEF FrameIso
<1> QED
  BY <1>1, <1>2, <1>3, <1>4

LEMMA GrowsStack ==
    ASSUME NEW m, NEW n, Grows(m, n), NEW s, StackIso(m, s)
    PROVE  StackIso(n, s)
BY GrowsFacts DEF StackIso

LEMMA GrowsRegistry ==
    ASSUME NEW m, NEW n, Grows(m, n), NEW registry, RegistryIso(m, registry)
    PROVE  RegistryIso(n, registry)
BY GrowsFacts DEF RegistryIso

LEMMA GrowsCache ==
    ASSUME NEW m, NEW n, Grows(m, n), NEW cache, CacheIso(m, cache)
    PROVE  CacheIso(n, cache)
BY GrowsFacts DEF CacheIso

LEMMA GrowsAppend ==
    ASSUME NEW m \in Seq(Instance), NEW x \in Instance
    PROVE  /\ Grows(m, Append(m, x))
           /\ Len(m) + 1 \in DOMAIN Append(m, x)
           /\ Append(m, x)[Len(m) + 1] = x
BY DEF Grows

(* A new instance whose arguments fit its context keeps MadeIso.           *)
LEMMA MadeIsoAppend ==
    ASSUME NEW m \in Seq(Instance), NEW x \in Instance, MadeIso(m),
           \A n \in DOMAIN x.args : Fits(m, x.args[n], x.ctx)
    PROVE  MadeIso(Append(m, x))
<1> DEFINE p == Append(m, x)
<1>1. Grows(m, p)
  BY GrowsAppend
<1>2. \A i \in DOMAIN p : i \in DOMAIN m \/ i = Len(m) + 1
  OBVIOUS
<1>3. \A i \in DOMAIN m : p[i] = m[i]
  BY <1>1 DEF Grows
<1>4. p[Len(m) + 1] = x
  BY GrowsAppend
<1>5. \A i \in DOMAIN m : \A n \in DOMAIN p[i].args :
         Fits(m, p[i].args[n], p[i].ctx)
  BY <1>3 DEF MadeIso
<1>6. \A i \in DOMAIN p : \A n \in DOMAIN p[i].args :
         Fits(m, p[i].args[n], p[i].ctx)
  <2> HIDE DEF p
  <2> QED
    BY <1>2, <1>4, <1>5
<1> HIDE DEF p
<1>7. MadeIso(p)
  BY <1>1, <1>6, GrowsFacts DEF MadeIso
<1> QED
  BY <1>7 DEF p

-----------------------------------------------------------------------------
(* The stack operations.                                                   *)

(* f may replace g on the stack.                                           *)
Replaces(f, g) == f.ctx = g.ctx /\ (f.at \in Inner => g.at \in Inner)

LEMMA PopIso ==
    ASSUME NEW m, NEW S, NEW s \in Seq(S), s # <<>>, StackIso(m, s)
    PROVE  StackIso(m, SubSeq(s, 1, Len(s) - 1))
<1> DEFINE b == SubSeq(s, 1, Len(s) - 1)
<1>1. Len(s) \in Nat \ {0} /\ Len(b) = Len(s) - 1
  BY StackTop
<1>2. \A j \in 1 .. Len(s) - 1 : b[j] = s[j]
  BY StackTop
<1> HIDE DEF b
<1>3. StackIso(m, b)
  BY <1>1, <1>2 DEF StackIso
<1> QED
  BY <1>3 DEF b

LEMMA TopIso ==
    ASSUME NEW m, NEW S, NEW s \in Seq(S), s # <<>>, StackIso(m, s)
    PROVE  FrameIso(m, s[Len(s)])
<1>1. Len(s) \in 1 .. Len(s)
  BY StackTop
<1> QED
  BY <1>1 DEF StackIso

LEMMA AddIso ==
    ASSUME NEW m, NEW S, NEW s \in Seq(S), StackIso(m, s),
           NEW f \in S, FrameIso(m, f),
           f.at \in Inner /\ s # <<>> => s[Len(s)].ctx = f.ctx
    PROVE  StackIso(m, Append(s, f))
<1> DEFINE p == Append(s, f)
<1>1. /\ Len(s) \in Nat /\ Len(p) = Len(s) + 1 /\ p[Len(s) + 1] = f
      /\ \A j \in 1 .. Len(s) : p[j] = s[j]
  BY StackPush
<1>2. Len(s) > 0 => s # <<>>
  OBVIOUS
<1> HIDE DEF p
<1>3. \A j \in 1 .. Len(p) : FrameIso(m, p[j])
  BY <1>1 DEF StackIso
<1>4. ASSUME NEW j \in 1 .. Len(p) - 1, p[j + 1].at \in Inner
      PROVE  p[j].ctx = p[j + 1].ctx
  <2>1. CASE j = Len(s)
    BY <1>1, <1>2, <1>4, <2>1
  <2>2. CASE j # Len(s)
    <3>1. j \in 1 .. Len(s) - 1 /\ j + 1 \in 1 .. Len(s)
      BY <1>1, <2>2
    <3> QED
      BY <1>1, <1>4, <3>1 DEF StackIso
  <2> QED
    BY <2>1, <2>2
<1>5. StackIso(m, p)
  BY <1>3, <1>4 DEF StackIso
<1> QED
  BY <1>5 DEF p

LEMMA ReplaceIso ==
    ASSUME NEW m, NEW S, NEW s \in Seq(S), s # <<>>, StackIso(m, s),
           NEW f \in S, FrameIso(m, f), Replaces(f, s[Len(s)])
    PROVE  StackIso(m, Append(SubSeq(s, 1, Len(s) - 1), f))
<1> DEFINE b == SubSeq(s, 1, Len(s) - 1)
<1>1. /\ Len(s) \in Nat \ {0} /\ Len(b) = Len(s) - 1 /\ b \in Seq(S)
      /\ \A j \in 1 .. Len(s) - 1 : b[j] = s[j]
  BY StackTop
<1>2. StackIso(m, b)
  BY PopIso
<1>3. ASSUME f.at \in Inner, b # <<>>
      PROVE  b[Len(b)].ctx = f.ctx
  <2>1. Len(s) - 1 \in 1 .. Len(s) - 1
    BY <1>1, <1>3
  <2>2. s[Len(s) - 1].ctx = s[(Len(s) - 1) + 1].ctx
    BY <1>1, <1>3, <2>1 DEF StackIso, Replaces
  <2> QED
    BY <1>1, <2>1, <2>2 DEF Replaces
<1> HIDE DEF b
<1>4. StackIso(m, Append(b, f))
  BY <1>1, <1>2, <1>3, AddIso
<1> QED
  BY <1>4 DEF b

LEMMA SeqExcept ==
    ASSUME NEW S, NEW q \in Seq(S), NEW d \in 1 .. Len(q), NEW x \in S
    PROVE  /\ Len([q EXCEPT ![d] = x]) = Len(q)
           /\ [q EXCEPT ![d] = x][d] = x
           /\ \A j \in 1 .. Len(q) : j # d => [q EXCEPT ![d] = x][j] = q[j]
OBVIOUS

(* The frame below a factory is given the instance.                        *)
LEMMA AnswerSeqIso ==
    ASSUME NEW m, NEW s \in Seq(GoodFrame), s # <<>>, StackIso(m, s),
           s[Len(s)].at \in Inner, NEW ref \in Nat,
           Fits(m, ref, s[Len(s)].ctx)
    PROVE  StackIso(m, [SubSeq(s, 1, Len(s) - 1) EXCEPT
                          ![Len(s) - 1].args = Append(@, ref)])
<1> DEFINE b == SubSeq(s, 1, Len(s) - 1)
           d == Len(s) - 1
           c == [b EXCEPT ![d].args = Append(@, ref)]
<1>1. /\ Len(s) \in Nat \ {0} /\ Len(b) = d /\ b \in Seq(GoodFrame)
      /\ \A j \in 1 .. d : b[j] = s[j]
  BY StackTop
<1>2. StackIso(m, b)
  BY PopIso
<1>3. CASE d = 0
  <2> HIDE DEF b, d
  <2>1. b = <<>>
    BY <1>1, <1>3
  <2>2. c = b
    BY <1>1, <1>3, <2>1
  <2> QED
    BY <1>2, <2>2 DEF b, d
<1>4. CASE d # 0
  <2>1. d \in 1 .. Len(b) /\ b[d] \in GoodFrame
    BY <1>1, <1>4
  <2>2. b[d].ctx = s[Len(s)].ctx
    <3>1. d \in 1 .. Len(s) - 1 /\ d + 1 = Len(s)
      BY <1>1, <1>4
    <3> QED
      BY <1>1, <3>1 DEF StackIso
  <2> DEFINE f == [b[d] EXCEPT !.args = Append(@, ref)]
  <2>3. /\ f.at = b[d].at /\ f.ctx = b[d].ctx /\ f.key = b[d].key
        /\ f.i = b[d].i /\ f.args = Append(b[d].args, ref)
    BY <2>1 DEF GoodFrame, Frame
  <2>4. FrameIso(m, b[d])
    BY <1>2, <2>1 DEF StackIso
  <2>5. FrameIso(m, f)
    <3>1. b[d].args \in Seq(Nat)
      BY <2>1 DEF GoodFrame, Frame
    <3>2. \A n \in DOMAIN f.args :
             \/ n \in DOMAIN b[d].args /\ f.args[n] = b[d].args[n]
             \/ f.args[n] = ref
      <4>1. \A q \in Seq(Nat) : \A n \in DOMAIN Append(q, ref) :
               \/ n \in DOMAIN q /\ Append(q, ref)[n] = q[n]
               \/ Append(q, ref)[n] = ref
        OBVIOUS
      <4> QED
        BY <2>3, <3>1, <4>1
    <3> HIDE DEF f, b, d
    <3>3. \A n \in DOMAIN f.args : Fits(m, f.args[n], f.ctx)
      BY <2>2, <2>3, <2>4, <3>2 DEF FrameIso
    <3> QED
      BY <2>3, <2>4, <3>3 DEF FrameIso
  <2>6. /\ Len(c) = Len(b) /\ c[d] = f
        /\ \A j \in 1 .. Len(b) : j # d => c[j] = b[j]
    <3>1. f \in GoodFrame
      BY <2>1, ArgsOK
    <3>2. c = [b EXCEPT ![d] = f]
      OBVIOUS
    <3> HIDE DEF b, c, d, f
    <3> QED
      BY <1>1, <2>1, <3>1, <3>2, SeqExcept
  <2> HIDE DEF b, c, f, d
  <2>7. \A j \in 1 .. Len(c) : FrameIso(m, c[j])
    BY <1>2, <2>5, <2>6 DEF StackIso
  <2>8. \A j \in 1 .. Len(b) : c[j].ctx = b[j].ctx /\ c[j].at = b[j].at
    BY <2>3, <2>6
  <2>9. \A j \in 1 .. Len(c) - 1 :
           c[j + 1].at \in Inner => c[j].ctx = c[j + 1].ctx
    <3>1. Len(b) \in Nat
      BY <1>1
    <3>2. \A j \in 1 .. Len(b) - 1 : j \in 1 .. Len(b) /\ j + 1 \in 1 .. Len(b)
      BY <3>1
    <3> QED
      BY <1>2, <2>6, <2>8, <3>2 DEF StackIso
  <2> QED
    BY <2>7, <2>9 DEF StackIso, c, b, d
<1> QED
  BY <1>3, <1>4

-----------------------------------------------------------------------------
(* The control operators, when the instances have grown to n.              *)

Stacks(m) == \A t \in Tasks : StackIso(m, stack[t])

LEMMA OneStack ==
    ASSUME NEW m, NEW n, Grows(m, n), Stacks(m), ControlOK,
           NEW t \in Tasks, NEW s, StackIso(n, s),
           stack' = [stack EXCEPT ![t] = s]
    PROVE  \A u \in Tasks : StackIso(n, stack'[u])
<1>1. \A u \in Tasks : u # t => stack'[u] = stack[u]
  BY DEF ControlOK
<1>2. stack'[t] = s
  BY DEF ControlOK
<1>3. \A u \in Tasks : StackIso(n, stack[u])
  BY GrowsStack DEF Stacks
<1> QED
  BY <1>1, <1>2, <1>3

LEMMA ContinueIso ==
    ASSUME NEW m, NEW n, Grows(m, n), Stacks(m), ControlOK,
           NEW t \in Tasks, stack[t] # <<>>, NEW f,
           Replaces(f, Top(t)), FrameIso(n, f), Continue(t, f) \/ Await(t, f)
    PROVE  \A u \in Tasks : StackIso(n, stack'[u])
<1>1. stack[t] \in Seq(GoodFrame \cup {f})
  <2>1. stack[t] \in Seq(GoodFrame)
    BY DEF ControlOK
  <2> QED
    BY <2>1
<1>2. StackIso(n, stack[t])
  BY GrowsStack DEF Stacks
<1>3. StackIso(n, Append(Below(t), f))
  BY <1>1, <1>2, ReplaceIso DEF Below, Top, Depth
<1>4. stack' = [stack EXCEPT ![t] = Append(Below(t), f)]
  BY DEF Continue, Await
<1> QED
  BY <1>3, <1>4, OneStack

LEMMA EmptyIso == \A m : StackIso(m, <<>>)
BY DEF StackIso

LEMMA FirstFrameIso ==
    ASSUME NEW m, NEW f, FrameIso(m, f)
    PROVE  StackIso(m, <<f>>)
BY DEF StackIso

LEMMA ThrowIso ==
    ASSUME NEW m, NEW n, Grows(m, n), Stacks(m), ControlOK,
           NEW t \in Tasks, Throw(t)
    PROVE  \A u \in Tasks : StackIso(n, stack'[u])
<1>1. stack' = [stack EXCEPT ![t] = <<>>]
  BY DEF Throw
<1> QED
  BY <1>1, EmptyIso, OneStack

LEMMA ReturnIso ==
    ASSUME NEW m, NEW n, Grows(m, n), Stacks(m), ControlOK,
           NEW t \in Tasks, stack[t] # <<>>, Return(t)
    PROVE  \A u \in Tasks : StackIso(n, stack'[u])
<1>1. stack[t] \in Seq(GoodFrame)
  BY DEF ControlOK
<1>2. StackIso(n, stack[t])
  BY GrowsStack DEF Stacks
<1>3. StackIso(n, Below(t))
  BY <1>1, <1>2, PopIso DEF Below, Depth
<1>4. stack' = [stack EXCEPT ![t] = Below(t)]
  BY DEF Return
<1> QED
  BY <1>3, <1>4, OneStack

LEMMA PushIso ==
    ASSUME NEW m, NEW n, Grows(m, n), Stacks(m), ControlOK,
           NEW t \in Tasks, stack[t] # <<>>, NEW f, NEW g, Replaces(f, Top(t)),
           FrameIso(n, f), FrameIso(n, g),
           g.at \in Inner => f.ctx = g.ctx, Push(t, f, g)
    PROVE  \A u \in Tasks : StackIso(n, stack'[u])
<1> DEFINE S == GoodFrame \cup {f, g}
<1>1. stack[t] \in Seq(S)
  <2>1. stack[t] \in Seq(GoodFrame)
    BY DEF ControlOK
  <2> QED
    BY <2>1
<1>2. f \in S /\ g \in S
  OBVIOUS
<1> HIDE DEF S
<1>3. StackIso(n, stack[t])
  BY GrowsStack DEF Stacks
<1>4. StackIso(n, Append(Below(t), f))
  BY <1>1, <1>2, <1>3, ReplaceIso DEF Below, Top, Depth
<1>5. Append(Below(t), f) \in Seq(S)
  BY <1>1, <1>2, StackTop, StackPush DEF Below, Depth
<1>6. LET p == Append(Below(t), f) IN p[Len(p)] = f
  BY <1>1, <1>2, StackTop, StackPush DEF Below, Depth
<1>7. StackIso(n, Append(Append(Below(t), f), g))
  BY <1>2, <1>4, <1>5, <1>6, AddIso
<1>8. CASE Depth(t) < StackLimit
  BY <1>7, <1>8, OneStack DEF Push
<1>9. CASE ~ (Depth(t) < StackLimit)
  BY <1>9, ThrowIso DEF Push
<1> QED
  BY <1>8, <1>9

LEMMA AnswerIso ==
    ASSUME NEW m, NEW n, Grows(m, n), Stacks(m), ControlOK,
           NEW t \in Tasks, stack[t] # <<>>, Top(t).at \in Inner,
           NEW ref \in Nat, Fits(n, ref, Top(t).ctx), Answer(t, ref)
    PROVE  \A u \in Tasks : StackIso(n, stack'[u])
<1>1. stack[t] \in Seq(GoodFrame)
  BY DEF ControlOK
<1>2. StackIso(n, stack[t])
  BY GrowsStack DEF Stacks
<1>3. StackIso(n, [Below(t) EXCEPT ![Depth(t) - 1].args = Append(@, ref)])
  BY <1>1, <1>2, AnswerSeqIso DEF Below, Top, Depth
<1>4. stack' = [stack EXCEPT ![t] =
                  [Below(t) EXCEPT ![Depth(t) - 1].args = Append(@, ref)]]
  BY DEF Answer
<1> QED
  BY <1>3, <1>4, OneStack

-----------------------------------------------------------------------------
(* The frame on top, and the moves that no argument is handed over by.     *)

LEMMA TopFacts ==
    ASSUME IsoInv, NEW t \in Tasks, NEW label, At(t, label)
    PROVE  /\ stack[t] # <<>> /\ Top(t) \in Frame /\ Top(t).at = label
           /\ FrameIso(made, Top(t))
           /\ Stacks(made) /\ ControlOK /\ Grows(made, made)
<1>1. stack[t] # <<>> /\ Top(t) \in GoodFrame /\ Top(t).at = label
  BY AtFacts DEF IsoInv
<1>2. stack[t] \in Seq(GoodFrame) /\ ControlOK
  BY DEF IsoInv, TypeInv, ControlOK
<1>3. StackIso(made, stack[t]) /\ Stacks(made)
  BY DEF IsoInv, Isolated, Stacks
<1>4. FrameIso(made, Top(t))
  BY <1>1, <1>2, <1>3, TopIso DEF Top, Depth
<1> QED
  BY <1>1, <1>2, <1>3, <1>4 DEF GoodFrame, Grows

LEMMA MovedFrame ==
    ASSUME NEW m, NEW f \in Frame, FrameIso(m, f), f.at \notin Inner,
           NEW label, label \notin Inner
    PROVE  /\ FrameIso(m, Goto(f, label)) /\ Replaces(Goto(f, label), f)
           /\ FrameIso(m, Advance(f)) /\ Replaces(Advance(f), f)
<1>1. /\ Goto(f, label).at = label /\ Goto(f, label).ctx = f.ctx
      /\ Goto(f, label).args = f.args
  BY DEF Goto, Frame
<1>2. /\ Advance(f).at = f.at /\ Advance(f).ctx = f.ctx
      /\ Advance(f).args = f.args
  BY DEF Advance, Frame
<1> QED
  BY <1>1, <1>2 DEF FrameIso, Replaces, Inner

LEMMA GotoIso ==
    ASSUME IsoInv, NEW t \in Tasks, NEW label, label \notin Inner, At(t, label),
           NEW next, next \notin Inner,
           Continue(t, Goto(Top(t), next)) \/ Await(t, Goto(Top(t), next))
    PROVE  \A u \in Tasks : StackIso(made, stack'[u])
BY TopFacts, MovedFrame, ContinueIso

LEMMA AdvanceIso ==
    ASSUME IsoInv, NEW t \in Tasks, NEW label, label \notin Inner, At(t, label),
           Continue(t, Advance(Top(t))) \/ Await(t, Advance(Top(t)))
    PROVE  \A u \in Tasks : StackIso(made, stack'[u])
BY TopFacts, MovedFrame, ContinueIso

LEMMA CallIso ==
    ASSUME IsoInv, NEW t \in Tasks, NEW label, label \notin Inner, At(t, label),
           NEW next, next \notin Inner, NEW who, NEW key, NEW parent,
           Push(t, Advance(Top(t)), Call(next, who, key, parent))
    PROVE  \A u \in Tasks : StackIso(made, stack'[u])
<1> DEFINE g == Call(next, who, key, parent)
<1>1. FrameIso(made, g) /\ g.at \notin Inner
  BY DEF Call, FrameIso, Inner
<1> HIDE DEF g
<1>2. Push(t, Advance(Top(t)), g)
  BY DEF g
<1> QED
  BY <1>1, <1>2, TopFacts, MovedFrame, PushIso

LEMMA EndIso ==
    ASSUME IsoInv, NEW t \in Tasks, NEW label, At(t, label),
           Return(t) \/ Throw(t)
    PROVE  \A u \in Tasks : StackIso(made, stack'[u])
BY TopFacts, ReturnIso, ThrowIso

(* A registered entry that is read without a factory is a shared instance. *)
LEMMA ResolvedIso ==
    ASSUME IsoInv, NEW k \in AllKeys, NEW e, Resolve(k, e),
           NEW n, Grows(made, n),
           e.kind # "factory" => e.ref = 0 \/ Shared(n, e.ref)
    PROVE  RegistryIso(n, resolved')
<1>1. \A j \in AllKeys : j # k => resolved'[j] = resolved[j]
  BY DEF Resolve, IsoInv, TypeInv, StoreOK
<1>2. resolved'[k] = e
  BY DEF Resolve, IsoInv, TypeInv, StoreOK
<1>3. RegistryIso(n, resolved)
  BY GrowsRegistry DEF IsoInv, Isolated, StoreIso
<1> QED
  BY <1>1, <1>2, <1>3 DEF RegistryIso

LEMMA SameStore ==
    ASSUME IsoInv, UNCHANGED <<made, resolved, ctxCache>>,
           \A u \in Tasks : StackIso(made, stack'[u])
    PROVE  Isolated'
BY DEF IsoInv, Isolated, StoreIso

LEMMA SameMade ==
    ASSUME IsoInv, UNCHANGED <<made, ctxCache>>,
           RegistryIso(made, resolved'),
           \A u \in Tasks : StackIso(made, stack'[u])
    PROVE  Isolated'
BY DEF IsoInv, Isolated, StoreIso

-----------------------------------------------------------------------------
(* One lemma per group of actions.                                         *)

LEMMA WalkIso ==
    ASSUME IsoInv, NEW t \in Tasks,
           \/ Import(t) \/ Offer(t) \/ ProvideClass(t) \/ Listed(t)
           \/ NextController(t) \/ Enter(t) \/ ResolveDependency(t)
           \/ DependenciesResolved(t) \/ DecideSingle(t) \/ Control(t)
    PROVE  Isolated'
<1>1. UNCHANGED <<made, resolved, ctxCache>>
  BY DEF store, Import, Offer, ProvideClass, Listed, NextController, Enter,
         ResolveDependency, DependenciesResolved, DecideSingle, Control
<1>2. CASE Import(t)
  BY <1>1, <1>2, CallIso, SameStore DEF Import, Inner
<1>3. CASE Offer(t)
  BY <1>1, <1>3, GotoIso, SameStore DEF Offer, Inner
<1>4. CASE ProvideClass(t)
  BY <1>1, <1>4, CallIso, SameStore DEF ProvideClass, Inner
<1>5. CASE Listed(t)
  <2>1. (IF Top(t).who \in Modules THEN "controllers" ELSE "get") \notin Inner
    BY DEF Inner
  <2>2. "list" \notin Inner
    BY DEF Inner
  <2> QED
    BY <1>1, <1>5, <2>1, <2>2, GotoIso, SameStore DEF Listed
<1>6. CASE NextController(t)
  BY <1>1, <1>6, CallIso, SameStore DEF NextController, Inner
<1>7. CASE Enter(t)
  <2>1. (IF app.params[Top(t).who] = <<>> THEN "scope" ELSE "deps") \notin Inner
    BY DEF Inner
  <2>2. "enter" \notin Inner
    BY DEF Inner
  <2> QED
    BY <1>1, <1>7, <2>1, <2>2, GotoIso, EndIso, SameStore DEF Enter
<1>8. CASE ResolveDependency(t)
  <2>1. "deps" \notin Inner /\ "enter" \notin Inner
    BY DEF Inner
  <2> QED
    BY <1>1, <1>8, <2>1, AdvanceIso, CallIso, EndIso, SameStore
       DEF ResolveDependency
<1>9. CASE DependenciesResolved(t)
  BY <1>1, <1>9, GotoIso, SameStore DEF DependenciesResolved, Inner
<1>10. CASE DecideSingle(t)
  BY <1>1, <1>10, GotoIso, SameStore DEF DecideSingle, Inner
<1>11. CASE Control(t)
  <2>1. "control" \notin Inner /\ "args" \notin Inner
    BY DEF Inner
  <2> QED
    BY <1>1, <1>11, <2>1, GotoIso, EndIso, SameStore DEF Control
<1> QED
  BY <1>2, <1>3, <1>4, <1>5, <1>6, <1>7, <1>8, <1>9, <1>10, <1>11

LEMMA RegisterIso ==
    ASSUME IsoInv, NEW t \in Tasks,
           ProvideValue(t) \/ Publish(t) \/ DecideScoped(t) \/ ControlScoped(t)
    PROVE  Isolated'
<1>1. UNCHANGED <<made, ctxCache>> /\ Grows(made, made)
  BY DEF ProvideValue, Publish, DecideScoped, ControlScoped, Grows
<1>2. CASE ProvideValue(t)
  <2>1. Top(t) \in GoodFrame /\ Top(t).at = "list"
    BY <1>2, AtFacts DEF ProvideValue, IsoInv
  <2>2. Providers(Top(t)) \in Seq(Provider)
    BY <2>1, ProvidersOK DEF GoodFrame, FrameOK, IsoInv
  <2>3. Providers(Top(t))[Top(t).i].key \in AllKeys
    <3>1. Providers(Top(t))[Top(t).i] \in Provider
      BY <1>2, <2>1, <2>2 DEF ProvideValue, GoodFrame, Frame
    <3> QED
      BY <3>1 DEF Provider, AllKeys
  <2>4. RegistryIso(made, resolved')
    BY <1>1, <1>2, <2>3, ResolvedIso DEF ProvideValue, ValueEntry
  <2>5. \A u \in Tasks : StackIso(made, stack'[u])
    BY <1>2, AdvanceIso DEF ProvideValue, Inner
  <2> QED
    BY <1>1, <2>4, <2>5, SameMade
<1>3. CASE Publish(t)
  <2>1. Top(t).who \in AllKeys
    <3>1. Top(t) \in GoodFrame /\ Top(t).at = "controllers"
      BY <1>3, AtFacts DEF Publish, IsoInv
    <3> QED
      BY <3>1 DEF GoodFrame, FrameOK, AllKeys
  <2>2. RegistryIso(made, resolved')
    BY <1>1, <1>3, <2>1, ResolvedIso DEF Publish, ValueEntry
  <2>3. \A u \in Tasks : StackIso(made, stack'[u])
    BY <1>3, EndIso DEF Publish
  <2> QED
    BY <1>1, <2>2, <2>3, SameMade
<1>4. CASE DecideScoped(t)
  <2>1. Top(t).key \in AllKeys
    <3>1. Top(t) \in GoodFrame /\ Top(t).at = "scope"
      BY <1>4, AtFacts DEF DecideScoped, IsoInv
    <3> QED
      BY <3>1 DEF GoodFrame, FrameOK, AllKeys
  <2>2. RegistryIso(made, resolved')
    BY <1>1, <1>4, <2>1, ResolvedIso DEF DecideScoped, FactoryEntry
  <2>3. \A u \in Tasks : StackIso(made, stack'[u])
    BY <1>4, EndIso DEF DecideScoped
  <2> QED
    BY <1>1, <2>2, <2>3, SameMade
<1>5. CASE ControlScoped(t)
  <2>1. Top(t).who \in AllKeys
    <3>1. Top(t) \in GoodFrame /\ Top(t).at = "control"
      BY <1>5, AtFacts DEF ControlScoped, IsoInv
    <3> QED
      BY <3>1 DEF GoodFrame, FrameOK, AllKeys
  <2>2. RegistryIso(made, resolved')
    BY <1>1, <1>5, <2>1, ResolvedIso DEF ControlScoped, FactoryEntry
  <2>3. \A u \in Tasks : StackIso(made, stack'[u])
    BY <1>5, EndIso DEF ControlScoped
  <2> QED
    BY <1>1, <2>2, <2>3, SameMade
<1> QED
  BY <1>2, <1>3, <1>4, <1>5

LEMMA ReadIso ==
    ASSUME IsoInv, NEW t \in Tasks, NEW label, At(t, label),
           NEW k \in AllKeys, Read(t, k, Top(t).ctx)
    PROVE  \A u \in Tasks : StackIso(made, stack'[u])
<1> DEFINE f == Top(t)
           ref == resolved[k].ref
           g == [f EXCEPT !.args = Append(@, ref)]
           h == Factory(k, f.ctx)
<1>1. /\ stack[t] # <<>> /\ f \in Frame /\ FrameIso(made, f)
      /\ Stacks(made) /\ ControlOK /\ Grows(made, made)
  BY TopFacts
<1>2. CASE resolved[k] = None
  BY <1>2, EndIso DEF Read
<1>3. CASE resolved[k] # None /\ resolved[k].kind # "factory"
  <2>1. ref \in Nat
    BY <1>3 DEF IsoInv, TypeInv, StoreOK, GoodEntry, Entry
  <2>2. Fits(made, ref, f.ctx)
    BY <1>3 DEF IsoInv, Isolated, StoreIso, RegistryIso, Shared, Fits
  <2>3. /\ g.at = f.at /\ g.ctx = f.ctx /\ g.key = f.key /\ g.i = f.i
        /\ g.args = Append(f.args, ref)
    BY <1>1 DEF Frame
  <2>4. f.args \in Seq(Nat)
    BY <1>1 DEF Frame
  <2>5. Await(t, g)
    BY <1>3 DEF Read
  <2> HIDE DEF f, g, ref
  <2>6. \A n \in DOMAIN g.args :
           \/ n \in DOMAIN f.args /\ g.args[n] = f.args[n]
           \/ g.args[n] = ref
    <3>1. \A q \in Seq(Nat) : \A n \in DOMAIN Append(q, ref) :
             \/ n \in DOMAIN q /\ Append(q, ref)[n] = q[n]
             \/ Append(q, ref)[n] = ref
      BY <2>1
    <3> QED
      BY <2>3, <2>4, <3>1
  <2>7. FrameIso(made, g)
    <3>1. \A n \in DOMAIN g.args : Fits(made, g.args[n], g.ctx)
      BY <1>1, <2>2, <2>3, <2>6 DEF FrameIso
    <3> QED
      BY <1>1, <2>3, <3>1 DEF FrameIso
  <2>8. Replaces(g, Top(t))
    BY <2>3 DEF Replaces, f
  <2> QED
    BY <1>1, <2>5, <2>7, <2>8, ContinueIso
<1>4. CASE resolved[k] # None /\ resolved[k].kind = "factory"
  <2>1. h.at = "make" /\ h.ctx = f.ctx /\ h.args = <<>>
    BY DEF Factory, Call
  <2>2. Push(t, f, h)
    BY <1>4 DEF Read
  <2> HIDE DEF h
  <2>3. FrameIso(made, h)
    BY <2>1 DEF FrameIso
  <2>4. Replaces(f, Top(t))
    BY DEF Replaces
  <2> QED
    BY <1>1, <2>1, <2>2, <2>3, <2>4, PushIso
<1> QED
  BY <1>2, <1>3, <1>4

LEMMA ReadArgumentIso ==
    ASSUME IsoInv, NEW t \in Tasks, ReadArgument(t)
    PROVE  Isolated'
<1> DEFINE f == Top(t)
           k == app.params[f.who][Len(f.args) + 1]
<1>1. f \in GoodFrame /\ f.at \in {"args", "make"}
  BY AtFacts DEF ReadArgument, IsoInv
<1>2. f.who \in Classes /\ f.args \in Seq(Nat)
  BY <1>1 DEF GoodFrame, FrameOK, Frame
<1>3. k \in AllKeys
  <2>1. app.params[f.who] \in Seq(Keys)
    BY <1>2, AppFacts DEF IsoInv
  <2>2. Len(f.args) + 1 \in 1 .. Len(app.params[f.who])
    BY <1>2, <2>1 DEF ReadArgument, Complete
  <2> QED
    BY <2>1, <2>2 DEF AllKeys
<1>4. \A u \in Tasks : StackIso(made, stack'[u])
  BY <1>3, ReadIso DEF ReadArgument
<1> QED
  BY <1>4, SameStore DEF ReadArgument, store

(* An instance is added: what it holds is what its frame has read.         *)
LEMMA BuiltIso ==
    ASSUME IsoInv, NEW f \in GoodFrame, f.who \in Classes, f.key \in AllKeys,
           FrameIso(made, f), NEW b \in BOOLEAN,
           made' = Append(made, Built(f, b))
    PROVE  /\ MadeIso(made') /\ Grows(made, made')
           /\ Len(made) + 1 \in DOMAIN made'
           /\ made'[Len(made) + 1] = Built(f, b)
<1>1. made \in Seq(Instance) /\ MadeIso(made)
  BY DEF IsoInv, TypeInv, StoreOK, Isolated, StoreIso
<1>2. Built(f, b) \in Instance
  BY BuiltOK
<1>3. \A n \in DOMAIN Built(f, b).args :
         Fits(made, Built(f, b).args[n], Built(f, b).ctx)
  BY DEF Built, FrameIso
<1> QED
  BY <1>1, <1>2, <1>3, GrowsAppend, MadeIsoAppend

LEMMA ConstructIso ==
    ASSUME IsoInv, NEW t \in Tasks, Construct(t)
    PROVE  Isolated'
<1> DEFINE f == Top(t)
           x == Built(f, TRUE)
<1>1. f \in GoodFrame /\ f.who \in Classes /\ f.key \in AllKeys
  <2>1. f \in GoodFrame /\ f.at = "args"
    BY AtFacts DEF Construct, IsoInv
  <2> QED
    BY <2>1 DEF GoodFrame, FrameOK
<1>2. FrameIso(made, f) /\ Stacks(made) /\ ControlOK /\ stack[t] # <<>>
  BY TopFacts DEF Construct
<1>3. /\ MadeIso(made') /\ Grows(made, made')
      /\ Len(made) + 1 \in DOMAIN made' /\ made'[Len(made) + 1] = x
  BY <1>1, <1>2, BuiltIso DEF Construct
<1>4. Shared(made', Len(made) + 1)
  BY <1>3 DEF Shared, Built
<1>5. RegistryIso(made', resolved')
  <2> DEFINE e == SingleEntry(f.who)
  <2>1. e.ref = Len(made) + 1
    BY DEF SingleEntry
  <2>2. Resolve(f.key, e)
    BY DEF Construct
  <2> HIDE DEF e
  <2>3. e.kind # "factory" => e.ref = 0 \/ Shared(made', e.ref)
    BY <1>4, <2>1
  <2> QED
    BY <1>1, <1>3, <2>2, <2>3, ResolvedIso
<1>6. CacheIso(made', ctxCache')
  BY <1>3, GrowsCache DEF Construct, IsoInv, Isolated, StoreIso
<1>7. \A u \in Tasks : StackIso(made', stack'[u])
  BY <1>2, <1>3, ReturnIso DEF Construct
<1> QED
  BY <1>3, <1>5, <1>6, <1>7 DEF Isolated, StoreIso

LEMMA RememberIso ==
    ASSUME IsoInv, NEW n, Grows(made, n), NEW f \in GoodFrame,
           f.key \in AllKeys, NEW ref, Owned(n, ref, f.ctx, f.key),
           Remember(f, ref)
    PROVE  CacheIso(n, ctxCache')
<1>1. CacheIso(n, ctxCache)
  BY GrowsCache DEF IsoInv, Isolated, StoreIso
<1>2. CASE ~ f.cached
  BY <1>1, <1>2 DEF Remember
<1>3. CASE f.cached
  <2>1. f.ctx \in Requests
    BY <1>3 DEF GoodFrame, FrameOK
  <2>2. ctxCache \in [Requests -> [AllKeys -> Nat]]
    BY DEF IsoInv, TypeInv, StoreOK
  <2>3. ASSUME NEW r \in Requests, NEW k \in AllKeys
        PROVE  ctxCache'[r][k] = IF r = f.ctx /\ k = f.key THEN ref
                                 ELSE ctxCache[r][k]
    BY <1>3, <2>1, <2>2, <2>3 DEF Remember
  <2> QED
    BY <1>1, <2>3 DEF CacheIso
<1> QED
  BY <1>2, <1>3

LEMMA CacheHitIso ==
    ASSUME IsoInv, NEW t \in Tasks, CacheHit(t)
    PROVE  Isolated'
<1> DEFINE f == Top(t)
           ref == ctxCache[f.ctx][f.key]
<1>1. f \in GoodFrame /\ f.at = "make"
  BY AtFacts DEF CacheHit, IsoInv
<1>2. f.key \in AllKeys /\ f.ctx \in Requests /\ ref # 0
  BY <1>1 DEF GoodFrame, FrameOK, CacheHit, Hit
<1>3. ref \in Nat
  BY <1>2 DEF IsoInv, TypeInv, StoreOK
<1>4. Fits(made, ref, f.ctx)
  BY <1>2 DEF IsoInv, Isolated, StoreIso, CacheIso, Owned, Fits
<1>5. /\ Stacks(made) /\ ControlOK /\ stack[t] # <<>> /\ f.at \in Inner
      /\ Grows(made, made)
  BY <1>1, TopFacts DEF CacheHit, Inner
<1>6. Answer(t, ref)
  BY DEF CacheHit
<1>7. \A u \in Tasks : StackIso(made, stack'[u])
  <2> HIDE DEF ref
  <2> QED
    BY <1>3, <1>4, <1>5, <1>6, AnswerIso
<1> QED
  BY <1>7, SameStore DEF CacheHit, store

LEMMA MakeIso ==
    ASSUME IsoInv, NEW t \in Tasks, Make(t)
    PROVE  Isolated'
<1> DEFINE f == Top(t)
           x == Built(f, FALSE)
           ref == Len(made) + 1
<1>1. f \in GoodFrame /\ f.at = "make" /\ f.who \in Classes /\ f.key \in AllKeys
  <2>1. f \in GoodFrame /\ f.at = "make"
    BY AtFacts DEF Make, IsoInv
  <2> QED
    BY <2>1 DEF GoodFrame, FrameOK
<1>2. /\ FrameIso(made, f) /\ Stacks(made) /\ ControlOK /\ stack[t] # <<>>
      /\ f.at \in Inner
  BY <1>1, TopFacts DEF Make, Inner
<1>3. /\ MadeIso(made') /\ Grows(made, made')
      /\ ref \in DOMAIN made' /\ made'[ref] = x
  <2>1. made' = Append(made, x)
    BY DEF Make
  <2> QED
    BY <1>1, <1>2, <2>1, BuiltIso
<1>4. ref \in Nat
  BY DEF IsoInv, TypeInv, StoreOK
<1>5. Owned(made', ref, f.ctx, f.key) /\ Fits(made', ref, f.ctx)
  BY <1>3 DEF Owned, Fits, Built
<1>6. Remember(f, ref) /\ Answer(t, ref) /\ resolved' = resolved
  BY DEF Make
<1> HIDE DEF ref, x
<1>7. RegistryIso(made', resolved')
  BY <1>3, <1>6, GrowsRegistry DEF IsoInv, Isolated, StoreIso
<1>8. CacheIso(made', ctxCache')
  BY <1>1, <1>3, <1>5, <1>6, RememberIso
<1>9. \A u \in Tasks : StackIso(made', stack'[u])
  BY <1>2, <1>3, <1>4, <1>5, <1>6, AnswerIso
<1> QED
  BY <1>3, <1>7, <1>8, <1>9 DEF Isolated, StoreIso

LEMMA MakeHookedIso ==
    ASSUME IsoInv, NEW t \in Tasks, MakeHooked(t)
    PROVE  Isolated'
<1> DEFINE f == Top(t)
           x == Built(f, FALSE)
           ref == Len(made) + 1
           g == [f EXCEPT !.at = "hook", !.i = ref]
<1>1. f \in GoodFrame /\ f.at = "make" /\ f.who \in Classes /\ f.key \in AllKeys
  <2>1. f \in GoodFrame /\ f.at = "make"
    BY AtFacts DEF MakeHooked, IsoInv
  <2> QED
    BY <2>1 DEF GoodFrame, FrameOK
<1>2. FrameIso(made, f) /\ Stacks(made) /\ ControlOK /\ stack[t] # <<>>
  BY TopFacts DEF MakeHooked
<1>3. /\ MadeIso(made') /\ Grows(made, made')
      /\ ref \in DOMAIN made' /\ made'[ref] = x
  <2>1. made' = Append(made, x)
    BY DEF MakeHooked
  <2> QED
    BY <1>1, <1>2, <2>1, BuiltIso
<1>4. Owned(made', ref, f.ctx, f.key)
  BY <1>3 DEF Owned, Built
<1>5. /\ g.at = "hook" /\ g.ctx = f.ctx /\ g.key = f.key /\ g.i = ref
      /\ g.args = f.args
  BY <1>1 DEF GoodFrame, Frame
<1>6. Await(t, g) /\ resolved' = resolved /\ ctxCache' = ctxCache
  BY DEF MakeHooked
<1>7. Replaces(g, f)
  <2> HIDE DEF g, ref
  <2> QED
    BY <1>1, <1>5 DEF Replaces, Inner
<1> HIDE DEF ref, x, g
<1>8. FrameIso(made', g)
  <2>1. FrameIso(made', f)
    BY <1>2, <1>3, GrowsFacts
  <2> QED
    BY <1>4, <1>5, <2>1 DEF FrameIso
<1>9. RegistryIso(made', resolved') /\ CacheIso(made', ctxCache')
  BY <1>3, <1>6, GrowsRegistry, GrowsCache DEF IsoInv, Isolated, StoreIso
<1>10. \A u \in Tasks : StackIso(made', stack'[u])
  BY <1>2, <1>3, <1>6, <1>7, <1>8, ContinueIso
<1> QED
  BY <1>3, <1>9, <1>10 DEF Isolated, StoreIso

LEMMA HookDoneIso ==
    ASSUME IsoInv, NEW t \in Tasks, HookDone(t)
    PROVE  Isolated'
<1> DEFINE f == Top(t)
<1>1. f \in GoodFrame /\ f.at = "hook" /\ f.key \in AllKeys /\ f.i \in Nat
  <2>1. f \in GoodFrame /\ f.at = "hook"
    BY AtFacts DEF HookDone, IsoInv
  <2> QED
    BY <2>1 DEF GoodFrame, FrameOK, Frame
<1>2. /\ FrameIso(made, f) /\ Stacks(made) /\ ControlOK /\ stack[t] # <<>>
      /\ f.at \in Inner /\ Grows(made, made)
  BY <1>1, TopFacts DEF HookDone, Inner
<1>3. Owned(made, f.i, f.ctx, f.key) /\ Fits(made, f.i, f.ctx)
  BY <1>1, <1>2 DEF FrameIso, Owned, Fits
<1>4. CacheIso(made, ctxCache')
  BY <1>1, <1>2, <1>3, RememberIso DEF HookDone
<1>5. \A u \in Tasks : StackIso(made, stack'[u])
  BY <1>1, <1>2, <1>3, AnswerIso DEF HookDone
<1> QED
  BY <1>4, <1>5 DEF HookDone, IsoInv, Isolated, StoreIso

LEMMA HookThrowsIso ==
    ASSUME IsoInv, NEW t \in Tasks, HookThrows(t)
    PROVE  Isolated'
BY EndIso, SameStore DEF HookThrows, store

-----------------------------------------------------------------------------
(* The requests.                                                           *)

LEMMA ArriveIso ==
    ASSUME IsoInv, NEW r \in Requests, Arrive(r)
    PROVE  Isolated'
<1> DEFINE f == [Call("list", r, app.route[r], None) EXCEPT !.ctx = r]
<1>1. f.at = "list" /\ f.args = <<>>
  BY DEF Call
<1> HIDE DEF f
<1>2. FrameIso(made, f)
  BY <1>1 DEF FrameIso
<1>3. StackIso(made, <<f>>)
  BY <1>2, FirstFrameIso
<1>4. stack' = [stack EXCEPT ![r] = <<f>>]
  BY DEF Arrive, f
<1>5. \A u \in Tasks : StackIso(made, stack'[u])
  BY <1>3, <1>4, OneStack
     DEF IsoInv, TypeInv, Isolated, Stacks, Grows, Tasks
<1> QED
  BY <1>5, SameStore DEF Arrive, store

LEMMA GetControllerIso ==
    ASSUME IsoInv, NEW r \in Requests, GetController(r)
    PROVE  Isolated'
<1>1. r \in Tasks
  BY DEF Tasks
<1>2. Top(r) \in GoodFrame /\ Top(r).at = "get"
  BY <1>1, AtFacts DEF GetController, IsoInv
<1>3. Top(r).key \in AllKeys
  BY <1>2 DEF GoodFrame, FrameOK, AllKeys
<1>4. \A u \in Tasks : StackIso(made, stack'[u])
  BY <1>1, <1>3, ReadIso DEF GetController
<1> QED
  BY <1>4, SameStore DEF GetController, store

LEMMA ServeIso ==
    ASSUME IsoInv, NEW r \in Requests, Serve(r)
    PROVE  Isolated'
BY EndIso, SameStore DEF Serve, store, Tasks

LEMMA HandleErrorIso ==
    ASSUME IsoInv, NEW r \in Requests, HandleError(r)
    PROVE  Isolated'
<1>1. UNCHANGED <<made, resolved, stack>>
  BY DEF HandleError
<1>2. CacheIso(made, ctxCache')
  <2>1. ctxCache \in [Requests -> [AllKeys -> Nat]] /\ CacheIso(made, ctxCache)
    BY DEF IsoInv, TypeInv, StoreOK, Isolated, StoreIso
  <2>2. ctxCache' = ctxCache
          \/ ctxCache' = [ctxCache EXCEPT ![r] = [k \in AllKeys |-> 0]]
    BY DEF HandleError
  <2> QED
    BY <2>1, <2>2 DEF CacheIso
<1> QED
  BY <1>1, <1>2 DEF IsoInv, Isolated, StoreIso

-----------------------------------------------------------------------------
LEMMA InitIso == Init => IsoInv
<1> SUFFICES ASSUME Init PROVE IsoInv
  OBVIOUS
<1>1. TypeInv
  BY InitType
<1>2. MadeIso(made) /\ RegistryIso(made, resolved)
  BY DEF Init, MadeIso, RegistryIso
<1>3. CacheIso(made, ctxCache)
  BY DEF Init, CacheIso
<1>4. ASSUME NEW t \in Tasks
      PROVE  StackIso(made, stack[t])
  <2> DEFINE f == Call("imports", app.entry, None, None)
  <2>1. FrameIso(made, f)
    BY DEF FrameIso, Call
  <2>2. StackIso(made, <<>>)
    BY EmptyIso
  <2>3. StackIso(made, <<f>>)
    BY <2>1, FirstFrameIso
  <2>4. stack[t] = <<f>> \/ stack[t] = <<>>
    BY DEF Init
  <2> QED
    BY <2>2, <2>3, <2>4
<1> QED
  BY <1>1, <1>2, <1>3, <1>4 DEF IsoInv, Isolated, StoreIso

LEMMA NextIso == IsoInv /\ [Next]_vars => IsoInv'
<1> SUFFICES ASSUME IsoInv, [Next]_vars PROVE IsoInv'
  OBVIOUS
<1>1. TypeInv'
  BY NextType DEF IsoInv
<1>2. CASE UNCHANGED vars
  <2>1. UNCHANGED <<made, resolved, ctxCache, stack>>
    BY <1>2 DEF vars, store
  <2>2. Isolated'
    BY <2>1 DEF IsoInv, Isolated, StoreIso
  <2> QED
    BY <1>1, <2>2 DEF IsoInv
<1>3. CASE \E t \in Tasks : Step(t)
  BY <1>1, <1>3, WalkIso, RegisterIso, ReadArgumentIso, ConstructIso,
     CacheHitIso, MakeIso, MakeHookedIso, HookDoneIso, HookThrowsIso
     DEF Step, IsoInv
<1>4. CASE \E r \in Requests : Arrive(r) \/ RequestStep(r)
  BY <1>1, <1>4, ArriveIso, GetControllerIso, ServeIso, HandleErrorIso
     DEF RequestStep, IsoInv
<1>5. CASE Quiet
  BY <1>2, <1>5 DEF Quiet
<1> QED
  BY <1>2, <1>3, <1>4, <1>5 DEF Next

LEMMA IsoInvImplies == IsoInv => RequestIsolation /\ CacheIsolation
<1>1. IsoInv => RequestIsolation
  BY DEF IsoInv, Isolated, StoreIso, MadeIso, Fits, RequestIsolation,
         Captured, Instances
<1>2. IsoInv => CacheIsolation
  BY DEF IsoInv, Isolated, StoreIso, CacheIso, Owned, CacheIsolation, Instances
<1> QED
  BY <1>1, <1>2

(* No instance that a factory built for one execution context is ever      *)
(* captured by an instance built for another, whatever the application,    *)
(* the number of requests and the way their factories interleave.          *)
THEOREM RequestsIsolated == Spec => []RequestIsolation
<1>1. Spec => []IsoInv
  BY InitIso, NextIso, PTL DEF Spec
<1> QED
  BY <1>1, IsoInvImplies, PTL

(* The cache that a context is served from only ever holds instances that  *)
(* were built for that context, under the key they are asked by.           *)
THEOREM CachesIsolated == Spec => []CacheIsolation
<1>1. Spec => []IsoInv
  BY InitIso, NextIso, PTL DEF Spec
<1> QED
  BY <1>1, IsoInvImplies, PTL

-----------------------------------------------------------------------------
(* One instance per execution context.  Only the task of a request works   *)
(* under its context, so between the question whether the cache has a key  *)
(* and the answer nobody else can build one for it; and until the instance *)
(* is in the cache its factory waits for a hook on top of the task's stack.*)

FrameMine(m, t, f) ==
    /\ f.ctx \in {None, t}
    /\ f.cached => f.at \in Inner
    /\ f.at = "hook" => f.i \in DOMAIN m /\ m[f.i].cached = f.cached
StackMine(m, t, s) == \A j \in 1 .. Len(s) : FrameMine(m, t, s[j])

TasksMine ==
    \A t \in Tasks :
        /\ StackMine(made, t, stack[t])
        /\ stack[t] # <<>> => outcome[t] = "busy"

(* A request that is over builds nothing any more: its cache may be gone.  *)
Over == {"done", "failed", "answered"}
InHook(t) == stack[t] # <<>> /\ Top(t).at = "hook"
Held(i, r, k) ==
    \/ ctxCache[r][k] = i
    \/ InHook(r) /\ Top(r).i = i
    \/ outcome[r] \in Over
CachedHeld ==
    \A i \in Instances : made[i].cached =>
        made[i].ctx \in Requests /\ Held(i, made[i].ctx, made[i].key)

Once == TasksMine /\ CachedHeld /\ OnePerContext
OnceInv == IsoInv /\ Once

LEMMA MinePop ==
    ASSUME NEW m, NEW t, NEW S, NEW s \in Seq(S), s # <<>>, StackMine(m, t, s)
    PROVE  /\ FrameMine(m, t, s[Len(s)])
           /\ StackMine(m, t, SubSeq(s, 1, Len(s) - 1))
<1> DEFINE b == SubSeq(s, 1, Len(s) - 1)
<1>1. /\ Len(s) \in Nat \ {0} /\ Len(b) = Len(s) - 1
      /\ \A j \in 1 .. Len(s) - 1 : b[j] = s[j]
  BY StackTop
<1> HIDE DEF b
<1>2. StackMine(m, t, b) /\ FrameMine(m, t, s[Len(s)])
  BY <1>1 DEF StackMine
<1> QED
  BY <1>2 DEF b

LEMMA MineAdd ==
    ASSUME NEW m, NEW t, NEW S, NEW s \in Seq(S), StackMine(m, t, s),
           NEW f \in S, FrameMine(m, t, f)
    PROVE  StackMine(m, t, Append(s, f))
<1> DEFINE p == Append(s, f)
<1>1. /\ Len(s) \in Nat /\ Len(p) = Len(s) + 1 /\ p[Len(s) + 1] = f
      /\ \A j \in 1 .. Len(s) : p[j] = s[j]
  BY StackPush
<1> HIDE DEF p
<1>2. \A j \in 1 .. Len(p) : j \in 1 .. Len(s) \/ j = Len(s) + 1
  BY <1>1
<1>3. StackMine(m, t, p)
  BY <1>1, <1>2 DEF StackMine
<1> QED
  BY <1>3 DEF p

(* Only context, label, index and flag of a frame count.                   *)
LEMMA MineSame ==
    ASSUME NEW m, NEW t, NEW f, NEW g, FrameMine(m, t, f), g.at = f.at,
           g.ctx = f.ctx, g.cached = f.cached, g.i = f.i
    PROVE  FrameMine(m, t, g)
BY DEF FrameMine

LEMMA MineAnswer ==
    ASSUME NEW m, NEW t, NEW s \in Seq(GoodFrame), s # <<>>, StackMine(m, t, s),
           NEW ref \in Nat
    PROVE  StackMine(m, t, [SubSeq(s, 1, Len(s) - 1) EXCEPT
                              ![Len(s) - 1].args = Append(@, ref)])
<1> DEFINE b == SubSeq(s, 1, Len(s) - 1)
           d == Len(s) - 1
           c == [b EXCEPT ![d].args = Append(@, ref)]
<1>1. Len(s) \in Nat \ {0} /\ Len(b) = d /\ b \in Seq(GoodFrame)
  BY StackTop
<1>2. StackMine(m, t, b)
  BY MinePop
<1>3. CASE d = 0
  <2> HIDE DEF b, d
  <2>1. b = <<>>
    BY <1>1, <1>3
  <2>2. c = b
    BY <1>1, <1>3, <2>1
  <2> QED
    BY <1>2, <2>2 DEF b, d
<1>4. CASE d # 0
  <2>1. d \in 1 .. Len(b) /\ b[d] \in GoodFrame
    BY <1>1, <1>4
  <2> DEFINE f == [b[d] EXCEPT !.args = Append(@, ref)]
  <2>2. /\ f.at = b[d].at /\ f.ctx = b[d].ctx /\ f.cached = b[d].cached
        /\ f.i = b[d].i
    BY <2>1 DEF GoodFrame, Frame
  <2>3. f \in GoodFrame
    BY <2>1, ArgsOK
  <2>4. c = [b EXCEPT ![d] = f]
    OBVIOUS
  <2>5. /\ Len(c) = Len(b) /\ c[d] = f
        /\ \A j \in 1 .. Len(b) : j # d => c[j] = b[j]
    <3> HIDE DEF b, c, d, f
    <3> QED
      BY <1>1, <2>1, <2>3, <2>4, SeqExcept
  <2> HIDE DEF b, c, f, d
  <2>6. FrameMine(m, t, b[d])
    BY <1>2, <2>1 DEF StackMine
  <2>7. FrameMine(m, t, f)
    BY <2>2, <2>6, MineSame
  <2>8. StackMine(m, t, c)
    BY <1>2, <2>5, <2>7 DEF StackMine
  <2> QED
    BY <2>8 DEF b, c, d
<1> QED
  BY <1>3, <1>4

LEMMA MineGrows ==
    ASSUME NEW m, NEW n, Grows(m, n), NEW t
    PROVE  /\ \A f : FrameMine(m, t, f) => FrameMine(n, t, f)
           /\ \A s : StackMine(m, t, s) => StackMine(n, t, s)
<1>1. \A f : FrameMine(m, t, f) => FrameMine(n, t, f)
  BY DEF Grows, FrameMine
<1> QED
  BY <1>1 DEF StackMine

-----------------------------------------------------------------------------
(* What a step of a task leaves of the stacks, when the instances are n.   *)

Turn(n, t) ==
    /\ \A u \in Tasks : u # t => stack'[u] = stack[u] /\ outcome'[u] = outcome[u]
    /\ StackMine(n, t, stack'[t])
    /\ stack'[t] # <<>> => outcome'[t] = "busy"

LEMMA ContinueTurn ==
    ASSUME ControlOK, NEW t \in Tasks, stack[t] # <<>>, outcome[t] = "busy",
           NEW n, StackMine(n, t, stack[t]), NEW f, FrameMine(n, t, f),
           Continue(t, f) \/ Await(t, f)
    PROVE  Turn(n, t)
<1>1. stack[t] \in Seq(GoodFrame \cup {f})
  <2>1. stack[t] \in Seq(GoodFrame)
    BY DEF ControlOK
  <2> QED
    BY <2>1
<1>2. Below(t) \in Seq(GoodFrame \cup {f}) /\ StackMine(n, t, Below(t))
  BY <1>1, StackTop, MinePop DEF Below, Depth
<1>3. StackMine(n, t, Append(Below(t), f))
  BY <1>2, MineAdd
<1>4. stack' = [stack EXCEPT ![t] = Append(Below(t), f)] /\ outcome' = outcome
  BY DEF Continue, Await
<1>5. /\ stack'[t] = Append(Below(t), f)
      /\ \A u \in Tasks : u # t => stack'[u] = stack[u]
  BY <1>4 DEF ControlOK
<1> QED
  BY <1>3, <1>4, <1>5 DEF Turn

LEMMA ThrowTurn ==
    ASSUME ControlOK, NEW t \in Tasks, NEW n, Throw(t)
    PROVE  Turn(n, t) /\ outcome'[t] = "failed"
<1>1. /\ stack'[t] = <<>> /\ outcome'[t] = "failed"
      /\ \A u \in Tasks : u # t => stack'[u] = stack[u] /\ outcome'[u] = outcome[u]
  BY DEF Throw, ControlOK
<1>2. StackMine(n, t, <<>>)
  BY DEF StackMine
<1> QED
  BY <1>1, <1>2 DEF Turn

LEMMA PushTurn ==
    ASSUME ControlOK, NEW t \in Tasks, stack[t] # <<>>, outcome[t] = "busy",
           NEW n, StackMine(n, t, stack[t]), NEW f, FrameMine(n, t, f),
           NEW g, FrameMine(n, t, g), Push(t, f, g)
    PROVE  Turn(n, t)
<1> DEFINE S == GoodFrame \cup {f, g}
<1>1. stack[t] \in Seq(S) /\ f \in S /\ g \in S
  <2>1. stack[t] \in Seq(GoodFrame)
    BY DEF ControlOK
  <2> QED
    BY <2>1
<1> HIDE DEF S
<1>2. Below(t) \in Seq(S) /\ StackMine(n, t, Below(t))
  BY <1>1, StackTop, MinePop DEF Below, Depth
<1>3. Append(Below(t), f) \in Seq(S) /\ StackMine(n, t, Append(Below(t), f))
  BY <1>1, <1>2, MineAdd, StackPush
<1>4. StackMine(n, t, Append(Append(Below(t), f), g))
  BY <1>1, <1>3, MineAdd
<1>5. CASE Depth(t) < StackLimit
  <2>1. /\ stack' = [stack EXCEPT ![t] = Append(Append(Below(t), f), g)]
        /\ outcome' = outcome
    BY <1>5 DEF Push
  <2>2. /\ stack'[t] = Append(Append(Below(t), f), g)
        /\ \A u \in Tasks : u # t => stack'[u] = stack[u]
    BY <2>1 DEF ControlOK
  <2> QED
    BY <1>4, <2>1, <2>2 DEF Turn
<1>6. CASE ~ (Depth(t) < StackLimit)
  BY <1>6, ThrowTurn DEF Push
<1> QED
  BY <1>5, <1>6

LEMMA ReturnTurn ==
    ASSUME ControlOK, NEW t \in Tasks, stack[t] # <<>>, outcome[t] = "busy",
           NEW n, StackMine(n, t, stack[t]), Return(t)
    PROVE  Turn(n, t)
<1>1. stack[t] \in Seq(GoodFrame)
  BY DEF ControlOK
<1>2. /\ Below(t) \in Seq(GoodFrame) /\ StackMine(n, t, Below(t))
      /\ Depth(t) \in Nat \ {0} /\ Len(Below(t)) = Depth(t) - 1
  BY <1>1, StackTop, MinePop DEF Below, Depth
<1>3. Below(t) # <<>> => Depth(t) # 1
  BY <1>2
<1>4. /\ stack'[t] = Below(t)
      /\ outcome'[t] = IF Depth(t) = 1 THEN "done" ELSE outcome[t]
      /\ \A u \in Tasks : u # t => stack'[u] = stack[u] /\ outcome'[u] = outcome[u]
  BY DEF Return, ControlOK
<1> QED
  BY <1>2, <1>3, <1>4 DEF Turn

LEMMA AnswerTurn ==
    ASSUME ControlOK, NEW t \in Tasks, stack[t] # <<>>, outcome[t] = "busy",
           NEW n, StackMine(n, t, stack[t]), NEW ref \in Nat, Answer(t, ref)
    PROVE  Turn(n, t)
<1> DEFINE c == [Below(t) EXCEPT ![Depth(t) - 1].args = Append(@, ref)]
<1>1. stack[t] \in Seq(GoodFrame)
  BY DEF ControlOK
<1>2. StackMine(n, t, c)
  BY <1>1, MineAnswer DEF Below, Depth
<1>3. stack' = [stack EXCEPT ![t] = c] /\ outcome' = outcome
  BY DEF Answer
<1> HIDE DEF c
<1>4. stack'[t] = c /\ \A u \in Tasks : u # t => stack'[u] = stack[u]
  BY <1>3 DEF ControlOK
<1> QED
  BY <1>2, <1>3, <1>4 DEF Turn

LEMMA AwaitTop ==
    ASSUME ControlOK, NEW t \in Tasks, stack[t] # <<>>, NEW f, Await(t, f)
    PROVE  stack'[t] # <<>> /\ Top(t)' = f
<1>1. stack[t] \in Seq(GoodFrame \cup {f})
  <2>1. stack[t] \in Seq(GoodFrame)
    BY DEF ControlOK
  <2> QED
    BY <2>1
<1>2. Below(t) \in Seq(GoodFrame \cup {f})
  BY <1>1, StackTop DEF Below, Depth
<1> DEFINE b == Below(t)
<1>3. stack'[t] = Append(b, f)
  BY DEF Await, ControlOK
<1> HIDE DEF b
<1>4. /\ Len(Append(b, f)) \in Nat \ {0}
      /\ Append(b, f)[Len(Append(b, f))] = f
  BY <1>2, StackPush DEF b
<1>5. stack'[t] # <<>>
  BY <1>3, <1>4
<1> QED
  BY <1>3, <1>4, <1>5 DEF Top, Depth

-----------------------------------------------------------------------------
(* What the invariant says of the task that steps.                         *)

LEMMA OnceFacts ==
    ASSUME OnceInv, NEW t \in Tasks, NEW label, At(t, label)
    PROVE  /\ ControlOK /\ stack[t] # <<>> /\ outcome[t] = "busy"
           /\ Top(t) \in GoodFrame /\ Top(t) \in Frame /\ Top(t).at = label
           /\ StackMine(made, t, stack[t]) /\ FrameMine(made, t, Top(t))
<1>1. stack[t] # <<>> /\ Top(t) \in GoodFrame /\ Top(t).at = label
  BY AtFacts DEF OnceInv, IsoInv
<1>2. ControlOK /\ stack[t] \in Seq(GoodFrame)
  BY DEF OnceInv, IsoInv, TypeInv, ControlOK
<1>3. StackMine(made, t, stack[t]) /\ outcome[t] = "busy"
  BY <1>1 DEF OnceInv, Once, TasksMine
<1>4. FrameMine(made, t, Top(t))
  BY <1>1, <1>2, <1>3, MinePop DEF Top, Depth
<1> QED
  BY <1>1, <1>2, <1>3, <1>4 DEF GoodFrame

LEMMA MadeFacts ==
    ASSUME OnceInv
    PROVE  /\ made \in Seq(Instance) /\ Len(made) \in Nat
           /\ Instances = 1 .. Len(made)
           /\ \A i \in Instances : made[i].key \in AllKeys
           /\ ctxCache \in [Requests -> [AllKeys -> Nat]]
           /\ Requests \subseteq Tasks
<1>1. made \in Seq(Instance) /\ ctxCache \in [Requests -> [AllKeys -> Nat]]
  BY DEF OnceInv, IsoInv, TypeInv, StoreOK
<1>2. Len(made) \in Nat /\ Instances = 1 .. Len(made)
  BY <1>1 DEF Instances
<1>3. \A i \in Instances : made[i] \in Instance
  BY <1>1, <1>2
<1> QED
  BY <1>1, <1>2, <1>3 DEF Instance, Tasks

LEMMA KeptTasks ==
    ASSUME OnceInv, NEW n, Grows(made, n), NEW t \in Tasks, Turn(n, t),
           made' = n
    PROVE  TasksMine'
BY MineGrows DEF OnceInv, Once, TasksMine, Turn

LEMMA KeptHeld ==
    ASSUME OnceInv, NEW n, NEW t \in Tasks, Turn(n, t),
           NEW r \in Requests, r # t, NEW i, NEW k, Held(i, r, k),
           ctxCache'[r] = ctxCache[r]
    PROVE  Held(i, r, k)'
<1>1. stack'[r] = stack[r] /\ outcome'[r] = outcome[r]
  BY DEF Turn, Tasks
<1> QED
  BY <1>1 DEF Held, InHook, Top, Depth

(* A step that adds nothing to be cached and waits in no hook.             *)
LEMMA PlainStep ==
    ASSUME OnceInv, NEW t \in Tasks, Turn(made', t), Grows(made, made'),
           \A i \in DOMAIN made' \ DOMAIN made : ~ made'[i].cached,
           ctxCache' = ctxCache, ~ InHook(t), outcome[t] \notin Over
    PROVE  Once'
<1>1. TasksMine'
  BY KeptTasks
<1>2. \A i \in DOMAIN made' : made'[i].cached =>
        i \in DOMAIN made /\ made'[i] = made[i]
  BY DEF Grows
<1>3. OnePerContext'
  BY <1>2 DEF OnceInv, Once, OnePerContext, Instances
<1>4. CachedHeld'
  <2> SUFFICES ASSUME NEW i \in DOMAIN made', made'[i].cached
               PROVE  /\ made'[i].ctx \in Requests
                      /\ Held(i, made[i].ctx, made[i].key)'
    BY <1>2 DEF CachedHeld, Instances, Held, InHook, Top, Depth
  <2> DEFINE r == made[i].ctx
             k == made[i].key
  <2>1. i \in Instances /\ made'[i] = made[i] /\ made[i].cached
    BY <1>2 DEF Instances
  <2>2. r \in Requests /\ Held(i, r, k)
    BY <2>1 DEF OnceInv, Once, CachedHeld
  <2>3. CASE r # t
    BY <2>1, <2>2, <2>3, KeptHeld
  <2>4. CASE r = t
    <3>1. ctxCache[r][k] = i
      BY <2>2, <2>4 DEF Held
    <3> QED
      BY <2>1, <2>2, <3>1 DEF Held
  <2> QED
    BY <2>3, <2>4
<1> QED
  BY <1>1, <1>3, <1>4 DEF Once

-----------------------------------------------------------------------------
(* The frames that steps leave behind.                                     *)

LEMMA GotoMine ==
    ASSUME NEW m, NEW t, NEW f \in Frame, FrameMine(m, t, f), f.at \notin Inner,
           NEW label, label \notin Inner
    PROVE  FrameMine(m, t, Goto(f, label)) /\ FrameMine(m, t, Advance(f))
<1>1. /\ Goto(f, label).at = label /\ Goto(f, label).ctx = f.ctx
      /\ Goto(f, label).cached = f.cached
  BY DEF Goto, Frame
<1>2. /\ Advance(f).at = f.at /\ Advance(f).ctx = f.ctx
      /\ Advance(f).cached = f.cached
  BY DEF Advance, Frame
<1> QED
  BY <1>1, <1>2 DEF FrameMine, Inner

LEMMA CallMine ==
    ASSUME NEW m, NEW t, NEW label, label \notin Inner, NEW who, NEW key, NEW parent
    PROVE  FrameMine(m, t, Call(label, who, key, parent))
BY DEF FrameMine, Call, Inner

LEMMA GotoTurn ==
    ASSUME OnceInv, NEW t \in Tasks, NEW label, label \notin Inner, At(t, label),
           NEW next, next \notin Inner,
           Continue(t, Goto(Top(t), next)) \/ Await(t, Goto(Top(t), next))
    PROVE  Turn(made, t)
BY OnceFacts, GotoMine, ContinueTurn

LEMMA AdvanceTurn ==
    ASSUME OnceInv, NEW t \in Tasks, NEW label, label \notin Inner, At(t, label),
           Continue(t, Advance(Top(t))) \/ Await(t, Advance(Top(t)))
    PROVE  Turn(made, t)
BY OnceFacts, GotoMine, ContinueTurn

LEMMA CallTurn ==
    ASSUME OnceInv, NEW t \in Tasks, NEW label, label \notin Inner, At(t, label),
           NEW next, next \notin Inner, NEW who, NEW key, NEW parent,
           Push(t, Advance(Top(t)), Call(next, who, key, parent))
    PROVE  Turn(made, t)
<1> DEFINE g == Call(next, who, key, parent)
<1>1. FrameMine(made, t, g) /\ Push(t, Advance(Top(t)), g)
  BY CallMine
<1> HIDE DEF g
<1> QED
  BY <1>1, OnceFacts, GotoMine, PushTurn

LEMMA EndTurn ==
    ASSUME OnceInv, NEW t \in Tasks, NEW label, At(t, label),
           Return(t) \/ Throw(t)
    PROVE  Turn(made, t)
BY OnceFacts, ReturnTurn, ThrowTurn

(* The actions that build nothing, outside a hook.                         *)
LEMMA PlainAction ==
    ASSUME OnceInv, NEW t \in Tasks, NEW label, label # "hook", At(t, label),
           Turn(made, t), UNCHANGED <<made, ctxCache>>
    PROVE  Once'
<1>1. ~ InHook(t) /\ outcome[t] \notin Over
  BY OnceFacts DEF InHook, Over
<1>2. Grows(made, made')
  BY DEF Grows
<1> QED
  BY <1>1, <1>2, PlainStep

LEMMA WalkTurn ==
    ASSUME OnceInv, NEW t \in Tasks,
           \/ Import(t) \/ Offer(t) \/ ProvideClass(t) \/ Listed(t)
           \/ NextController(t) \/ Enter(t) \/ ResolveDependency(t)
           \/ DependenciesResolved(t) \/ DecideSingle(t) \/ Control(t)
    PROVE  Turn(made, t)
<1>1. /\ "imports" \notin Inner /\ "list" \notin Inner /\ "controllers" \notin Inner
      /\ "get" \notin Inner /\ "enter" \notin Inner /\ "deps" \notin Inner
      /\ "scope" \notin Inner /\ "args" \notin Inner /\ "control" \notin Inner
  BY DEF Inner
<1>2. CASE Import(t)
  BY <1>1, <1>2, CallTurn DEF Import
<1>3. CASE Offer(t)
  BY <1>1, <1>3, GotoTurn DEF Offer
<1>4. CASE ProvideClass(t)
  BY <1>1, <1>4, CallTurn DEF ProvideClass
<1>5. CASE Listed(t)
  <2>1. (IF Top(t).who \in Modules THEN "controllers" ELSE "get") \notin Inner
    BY <1>1
  <2> QED
    BY <1>1, <1>5, <2>1, GotoTurn DEF Listed
<1>6. CASE NextController(t)
  BY <1>1, <1>6, CallTurn DEF NextController
<1>7. CASE Enter(t)
  <2>1. (IF app.params[Top(t).who] = <<>> THEN "scope" ELSE "deps") \notin Inner
    BY <1>1
  <2> QED
    BY <1>1, <1>7, <2>1, GotoTurn, EndTurn DEF Enter
<1>8. CASE ResolveDependency(t)
  BY <1>1, <1>8, AdvanceTurn, CallTurn, EndTurn DEF ResolveDependency
<1>9. CASE DependenciesResolved(t)
  BY <1>1, <1>9, GotoTurn DEF DependenciesResolved
<1>10. CASE DecideSingle(t)
  BY <1>1, <1>10, GotoTurn DEF DecideSingle
<1>11. CASE Control(t)
  BY <1>1, <1>11, GotoTurn, EndTurn DEF Control
<1> QED
  BY <1>2, <1>3, <1>4, <1>5, <1>6, <1>7, <1>8, <1>9, <1>10, <1>11

LEMMA WalkOnce ==
    ASSUME OnceInv, NEW t \in Tasks,
           \/ Import(t) \/ Offer(t) \/ ProvideClass(t) \/ Listed(t)
           \/ NextController(t) \/ Enter(t) \/ ResolveDependency(t)
           \/ DependenciesResolved(t) \/ DecideSingle(t) \/ Control(t)
    PROVE  Once'
<1>1. Turn(made, t)
  BY WalkTurn
<1>2. UNCHANGED <<made, ctxCache>>
  BY DEF store, Import, Offer, ProvideClass, Listed, NextController, Enter,
         ResolveDependency, DependenciesResolved, DecideSingle, Control
<1>3. \E label \in Labels : label # "hook" /\ At(t, label)
  BY DEF Import, Offer, ProvideClass, Listed, NextController, Enter, Labels,
         ResolveDependency, DependenciesResolved, DecideSingle, Control
<1> QED
  BY <1>1, <1>2, <1>3, PlainAction

LEMMA RegisterOnce ==
    ASSUME OnceInv, NEW t \in Tasks,
           ProvideValue(t) \/ Publish(t) \/ DecideScoped(t) \/ ControlScoped(t)
    PROVE  Once'
<1>1. CASE ProvideValue(t)
  BY <1>1, AdvanceTurn, PlainAction DEF ProvideValue, Inner
<1>2. CASE Publish(t)
  BY <1>2, EndTurn, PlainAction DEF Publish
<1>3. CASE DecideScoped(t)
  BY <1>3, EndTurn, PlainAction DEF DecideScoped
<1>4. CASE ControlScoped(t)
  BY <1>4, EndTurn, PlainAction DEF ControlScoped
<1> QED
  BY <1>1, <1>2, <1>3, <1>4

LEMMA ReadTurn ==
    ASSUME OnceInv, NEW t \in Tasks, NEW label, At(t, label), NEW k,
           Read(t, k, Top(t).ctx)
    PROVE  Turn(made, t)
<1> DEFINE f == Top(t)
           g == [f EXCEPT !.args = Append(@, resolved[k].ref)]
           h == Factory(k, f.ctx)
<1>1. /\ ControlOK /\ stack[t] # <<>> /\ outcome[t] = "busy" /\ f \in Frame
      /\ StackMine(made, t, stack[t]) /\ FrameMine(made, t, f)
  BY OnceFacts
<1>2. CASE resolved[k] = None
  BY <1>2, EndTurn DEF Read
<1>3. CASE resolved[k] # None /\ resolved[k].kind # "factory"
  <2>1. Await(t, g)
    BY <1>3 DEF Read
  <2>2. g.at = f.at /\ g.ctx = f.ctx /\ g.cached = f.cached /\ g.i = f.i
    BY <1>1 DEF Frame
  <2> HIDE DEF f, g
  <2>3. FrameMine(made, t, g)
    BY <1>1, <2>2, MineSame
  <2> QED
    BY <1>1, <2>1, <2>3, ContinueTurn
<1>4. CASE resolved[k] # None /\ resolved[k].kind = "factory"
  <2>1. Push(t, f, h)
    BY <1>4 DEF Read
  <2>2. h.at = "make" /\ h.ctx = f.ctx
    BY DEF Factory, Call
  <2> HIDE DEF h
  <2>3. FrameMine(made, t, h)
    BY <1>1, <2>2 DEF FrameMine, Inner
  <2> QED
    BY <1>1, <2>1, <2>3, PushTurn
<1> QED
  BY <1>2, <1>3, <1>4

LEMMA ReadOnce ==
    ASSUME OnceInv, NEW t \in Tasks,
           ReadArgument(t) \/ (t \in Requests /\ GetController(t))
    PROVE  Once'
<1>1. Turn(made, t)
  BY ReadTurn DEF ReadArgument, GetController
<1>2. \E label \in {"args", "make", "get"} : At(t, label)
  BY DEF ReadArgument, GetController
<1>3. UNCHANGED <<made, ctxCache>>
  BY DEF ReadArgument, GetController, store
<1> QED
  BY <1>1, <1>2, <1>3, PlainAction

-----------------------------------------------------------------------------
(* What a factory builds, and where it goes.                               *)

LEMMA NewInstance ==
    ASSUME OnceInv, NEW t \in Tasks, NEW label \in Inner \cup {"args"},
           At(t, label), NEW b \in BOOLEAN, made' = Append(made, Built(Top(t), b))
    PROVE  /\ Grows(made, made') /\ Len(made) + 1 \in DOMAIN made'
           /\ \A i \in DOMAIN made' : i \in DOMAIN made \/ i = Len(made) + 1
           /\ made'[Len(made) + 1].ctx = Top(t).ctx
           /\ made'[Len(made) + 1].key = Top(t).key
           /\ made'[Len(made) + 1].cached = Top(t).cached
<1>1. /\ Top(t) \in GoodFrame /\ Top(t).who \in Classes
      /\ Top(t).key \in AllKeys
  <2>1. Top(t) \in GoodFrame /\ Top(t).at = label
    BY OnceFacts
  <2> QED
    BY <2>1 DEF GoodFrame, FrameOK, Inner
<1>2. FrameIso(made, Top(t))
  BY TopFacts DEF OnceInv
<1>3. /\ Grows(made, made') /\ Len(made) + 1 \in DOMAIN made'
      /\ made'[Len(made) + 1] = Built(Top(t), b)
  BY <1>1, <1>2, BuiltIso DEF OnceInv
<1>4. \A i \in DOMAIN made' : i \in DOMAIN made \/ i = Len(made) + 1
  <2>1. made \in Seq(Instance)
    BY MadeFacts
  <2> DEFINE x == Built(Top(t), b)
  <2> HIDE DEF x
  <2>2. \A i \in DOMAIN Append(made, x) : i \in DOMAIN made \/ i = Len(made) + 1
    BY <2>1
  <2> QED
    BY <2>2 DEF x
<1> QED
  BY <1>3, <1>4 DEF Built

(* A frame that is to be cached belongs to the request that runs it.       *)
LEMMA CachedMine ==
    ASSUME OnceInv, NEW t \in Tasks, NEW label, At(t, label), Top(t).cached
    PROVE  t \in Requests /\ Top(t).ctx = t
<1>1. Top(t) \in GoodFrame /\ FrameMine(made, t, Top(t))
  BY OnceFacts
<1>2. Top(t).ctx \in Requests /\ Top(t).ctx \in {None, t}
  BY <1>1 DEF GoodFrame, FrameOK, FrameMine
<1> QED
  BY <1>2, NamesAssumption

(* When the cache has no answer, no instance was built for the key: not    *)
(* even one that waits for its hook, for the hook would be on top.         *)
LEMMA NoneYet ==
    ASSUME OnceInv, NEW t \in Tasks, At(t, "make"), Top(t).cached,
           ~ Hit(Top(t)), NEW i \in Instances, made[i].cached,
           made[i].ctx = t, made[i].key = Top(t).key
    PROVE  FALSE
<1>1. Top(t).at = "make" /\ outcome[t] = "busy"
  BY OnceFacts
<1>2. Top(t).ctx = t
  BY CachedMine
<1>3. Held(i, t, Top(t).key)
  BY DEF OnceInv, Once, CachedHeld
<1>4. ctxCache[t][Top(t).key] = i
  BY <1>1, <1>3 DEF Held, InHook, Over
<1>5. i # 0
  BY MadeFacts
<1> QED
  BY <1>2, <1>4, <1>5 DEF Hit

LEMMA HeldAll ==
    ASSUME \A i \in DOMAIN made' : made'[i].cached =>
             \A r, k : r = made'[i].ctx /\ k = made'[i].key =>
               r \in Requests /\ Held(i, r, k)'
    PROVE  CachedHeld'
<1> SUFFICES ASSUME NEW i \in DOMAIN made', made'[i].cached
             PROVE  made'[i].ctx \in Requests /\ Held(i, made[i].ctx, made[i].key)'
  BY DEF CachedHeld, Instances, Held, InHook, Top, Depth
<1> QED
  BY DEF Held, InHook, Top, Depth

(* A factory adds an instance that is to be cached.                        *)
LEMMA CachedStep ==
    ASSUME OnceInv, NEW t \in Tasks, At(t, "make"), Top(t).cached,
           ~ Hit(Top(t)), made' = Append(made, Built(Top(t), FALSE)),
           Turn(made', t), NEW new, new = Len(made) + 1,
           NEW key, key = Top(t).key, Held(new, t, key)',
           \A r \in Requests : r # t => ctxCache'[r] = ctxCache[r],
           \A k \in AllKeys : k # key => ctxCache'[t][k] = ctxCache[t][k]
    PROVE  Once'
<1>1. /\ Grows(made, made') /\ new \in DOMAIN made'
      /\ \A i \in DOMAIN made' : i \in DOMAIN made \/ i = new
      /\ made'[new].ctx = Top(t).ctx /\ made'[new].key = key
      /\ made'[new].cached = Top(t).cached
  <2>1. "make" \in Inner \cup {"args"} /\ FALSE \in BOOLEAN
    BY DEF Inner
  <2> QED
    BY <2>1, NewInstance
<1>2. t \in Requests /\ Top(t).ctx = t
  BY CachedMine
<1>3. /\ Top(t).at = "make" /\ outcome[t] = "busy"
      /\ \A i \in DOMAIN made : made'[i] = made[i]
  BY <1>1, OnceFacts DEF Grows
<1>4. \A i \in DOMAIN made :
         made[i].cached /\ made[i].ctx = t => made[i].key # key
  BY NoneYet DEF Instances
<1>5. TasksMine'
  BY <1>1, KeptTasks
<1>6. OnePerContext'
  <2> SUFFICES ASSUME NEW i \in DOMAIN made', NEW j \in DOMAIN made',
                      made'[i].cached, made'[j].cached,
                      made'[i].ctx = made'[j].ctx, made'[i].key = made'[j].key
               PROVE  i = j
    BY DEF OnePerContext, Instances
  <2>1. CASE i \in DOMAIN made /\ j \in DOMAIN made
    BY <1>3, <2>1 DEF OnceInv, Once, OnePerContext, Instances
  <2>2. CASE i \in DOMAIN made /\ j = new
    <3>1. made[i].cached /\ made[i].ctx = t /\ made[i].key = key
      BY <1>1, <1>2, <1>3, <2>2
    <3> QED
      BY <1>4, <2>2, <3>1
  <2>3. CASE i = new /\ j \in DOMAIN made
    <3>1. made[j].cached /\ made[j].ctx = t /\ made[j].key = key
      BY <1>1, <1>2, <1>3, <2>3
    <3> QED
      BY <1>4, <2>3, <3>1
  <2> QED
    BY <1>1, <2>1, <2>2, <2>3
<1>7. CachedHeld'
  <2> SUFFICES ASSUME NEW i \in DOMAIN made', made'[i].cached,
                      NEW r, r = made'[i].ctx, NEW k, k = made'[i].key
               PROVE  r \in Requests /\ Held(i, r, k)'
    BY HeldAll
  <2>1. CASE i = new
    BY <1>1, <1>2, <2>1
  <2>2. CASE i \in DOMAIN made
    <3>1. /\ i \in Instances /\ made[i].cached
          /\ r = made[i].ctx /\ k = made[i].key
      BY <1>3, <2>2 DEF Instances
    <3>2. r \in Requests /\ Held(i, r, k) /\ k \in AllKeys
      BY <3>1, MadeFacts DEF OnceInv, Once, CachedHeld
    <3>3. CASE r # t
      BY <3>2, <3>3, KeptHeld
    <3>4. CASE r = t
      <4>1. ctxCache[t][k] = i
        BY <1>3, <3>2, <3>4 DEF Held, InHook, Over
      <4>2. ctxCache'[t][k] = i
        BY <1>4, <2>2, <3>1, <3>2, <3>4, <4>1
      <4> QED
        BY <3>2, <3>4, <4>2 DEF Held
    <3> QED
      BY <3>2, <3>3, <3>4
  <2> QED
    BY <1>1, <2>1, <2>2
<1> QED
  BY <1>5, <1>6, <1>7 DEF Once

(* A request that is over holds its instances whatever its cache is.       *)
LEMMA OverStep ==
    ASSUME OnceInv, NEW t \in Tasks, Turn(made, t), made' = made,
           outcome'[t] \in Over,
           \A r \in Requests : r # t => ctxCache'[r] = ctxCache[r]
    PROVE  Once'
<1>1. TasksMine'
  <2>1. Grows(made, made)
    BY DEF Grows
  <2> QED
    BY <2>1, KeptTasks
<1>2. OnePerContext'
  BY DEF OnceInv, Once, OnePerContext, Instances
<1>3. CachedHeld'
  <2> SUFFICES ASSUME NEW i \in Instances, made[i].cached,
                      NEW r, r = made[i].ctx, NEW k, k = made[i].key
               PROVE  r \in Requests /\ Held(i, r, k)'
    BY DEF CachedHeld, Instances, Held, InHook, Top, Depth
  <2>1. r \in Requests /\ Held(i, r, k)
    BY DEF OnceInv, Once, CachedHeld
  <2>2. CASE r = t
    BY <2>1, <2>2 DEF Held
  <2>3. CASE r # t
    BY <2>1, <2>3, KeptHeld
  <2> QED
    BY <2>1, <2>2, <2>3
<1> QED
  BY <1>1, <1>2, <1>3 DEF Once

LEMMA ConstructOnce ==
    ASSUME OnceInv, NEW t \in Tasks, Construct(t)
    PROVE  Once'
<1>1. /\ At(t, "args") /\ Return(t) /\ ctxCache' = ctxCache
      /\ made' = Append(made, Built(Top(t), TRUE))
  BY DEF Construct
<1>2. /\ ControlOK /\ stack[t] # <<>> /\ outcome[t] = "busy"
      /\ Top(t).at = "args" /\ StackMine(made, t, stack[t])
      /\ FrameMine(made, t, Top(t))
  BY <1>1, OnceFacts
<1>3. ~ Top(t).cached
  BY <1>2 DEF FrameMine, Inner
<1>4. /\ Grows(made, made')
      /\ \A i \in DOMAIN made' \ DOMAIN made : ~ made'[i].cached
  <2>1. "args" \in Inner \cup {"args"} /\ TRUE \in BOOLEAN
    OBVIOUS
  <2> QED
    BY <1>1, <1>3, <2>1, NewInstance
<1>5. StackMine(made', t, stack[t])
  BY <1>2, <1>4, MineGrows
<1>6. Turn(made', t)
  BY <1>1, <1>2, <1>5, ReturnTurn
<1>7. ~ InHook(t) /\ outcome[t] \notin Over
  BY <1>2 DEF InHook, Over
<1> QED
  BY <1>1, <1>4, <1>6, <1>7, PlainStep

LEMMA CacheHitOnce ==
    ASSUME OnceInv, NEW t \in Tasks, CacheHit(t)
    PROVE  Once'
<1> DEFINE ref == ctxCache[Top(t).ctx][Top(t).key]
<1>1. At(t, "make") /\ UNCHANGED <<made, ctxCache>>
  BY DEF CacheHit, store
<1>2. Top(t) \in GoodFrame /\ Top(t).at = "make" /\ Top(t).cached
  BY <1>1, OnceFacts DEF CacheHit, Hit
<1>3. ref \in Nat
  <2>1. Top(t).ctx \in Requests /\ Top(t).key \in AllKeys
    BY <1>2 DEF GoodFrame, FrameOK
  <2> QED
    BY <2>1, MadeFacts
<1>4. Answer(t, ref)
  BY DEF CacheHit
<1> HIDE DEF ref
<1>5. Turn(made, t)
  BY <1>1, <1>3, <1>4, OnceFacts, AnswerTurn
<1> QED
  BY <1>1, <1>5, PlainAction

LEMMA MakeOnce ==
    ASSUME OnceInv, NEW t \in Tasks, Make(t)
    PROVE  Once'
<1> DEFINE f == Top(t)
<1>1. /\ At(t, "make") /\ ~ Hit(f) /\ Remember(f, Len(made) + 1)
      /\ Answer(t, Len(made) + 1) /\ made' = Append(made, Built(f, FALSE))
  BY DEF Make
<1>2. /\ ControlOK /\ stack[t] # <<>> /\ outcome[t] = "busy"
      /\ f \in GoodFrame /\ f.at = "make" /\ StackMine(made, t, stack[t])
  BY <1>1, OnceFacts
<1>3. /\ Grows(made, made')
      /\ \A i \in DOMAIN made' \ DOMAIN made : made'[i].cached = f.cached
  <2>1. "make" \in Inner \cup {"args"} /\ FALSE \in BOOLEAN
    BY DEF Inner
  <2> QED
    BY <1>1, <2>1, NewInstance
<1>4. Turn(made', t)
  <2>1. StackMine(made', t, stack[t])
    BY <1>2, <1>3, MineGrows
  <2>2. Len(made) + 1 \in Nat
    BY MadeFacts
  <2> QED
    BY <1>1, <1>2, <2>1, <2>2, AnswerTurn
<1>5. CASE ~ f.cached
  <2>1. ctxCache' = ctxCache
    BY <1>1, <1>5 DEF Remember
  <2>2. ~ InHook(t) /\ outcome[t] \notin Over
    BY <1>2 DEF InHook, Over
  <2> QED
    BY <1>3, <1>4, <1>5, <2>1, <2>2, PlainStep
<1>6. CASE f.cached
  <2>1. PICK new, key : new = Len(made) + 1 /\ key = Top(t).key
    OBVIOUS
  <2>2. t \in Requests /\ f.ctx = t
    BY <1>1, <1>6, CachedMine
  <2>3. key \in AllKeys
    BY <1>2, <2>1 DEF GoodFrame, FrameOK
  <2>4. ctxCache' = [ctxCache EXCEPT ![t][key] = new]
    BY <1>1, <1>6, <2>1, <2>2 DEF Remember
  <2>5. /\ ctxCache'[t][key] = new
        /\ \A r \in Requests : r # t => ctxCache'[r] = ctxCache[r]
        /\ \A k \in AllKeys : k # key => ctxCache'[t][k] = ctxCache[t][k]
    BY <2>2, <2>3, <2>4, MadeFacts
  <2>6. Held(new, t, key)'
    BY <2>5 DEF Held
  <2> QED
    BY <1>1, <1>4, <1>6, <2>1, <2>5, <2>6, CachedStep
<1> QED
  BY <1>5, <1>6

LEMMA MakeHookedOnce ==
    ASSUME OnceInv, NEW t \in Tasks, MakeHooked(t)
    PROVE  Once'
<1> DEFINE f == Top(t)
<1>1. PICK new, key, g : /\ new = Len(made) + 1 /\ key = Top(t).key
                         /\ g = [f EXCEPT !.at = "hook", !.i = new]
  OBVIOUS
<1>2. /\ At(t, "make") /\ ~ Hit(f) /\ ctxCache' = ctxCache /\ Await(t, g)
      /\ made' = Append(made, Built(f, FALSE))
  BY <1>1 DEF MakeHooked
<1>3. /\ ControlOK /\ stack[t] # <<>> /\ outcome[t] = "busy"
      /\ f \in Frame /\ f.at = "make" /\ StackMine(made, t, stack[t])
      /\ FrameMine(made, t, f)
  BY <1>2, OnceFacts
<1>4. /\ Grows(made, made') /\ new \in DOMAIN made'
      /\ made'[new].cached = f.cached
      /\ \A i \in DOMAIN made' \ DOMAIN made : made'[i].cached = f.cached
  <2>1. "make" \in Inner \cup {"args"} /\ FALSE \in BOOLEAN
    BY DEF Inner
  <2> QED
    BY <1>1, <1>2, <2>1, NewInstance
<1>5. g.at = "hook" /\ g.i = new /\ g.ctx = f.ctx /\ g.cached = f.cached
  BY <1>1, <1>3 DEF Frame
<1>6. FrameMine(made', t, g)
  BY <1>3, <1>4, <1>5 DEF FrameMine, Inner
<1>7. StackMine(made', t, stack[t])
  BY <1>3, <1>4, MineGrows
<1>8. Turn(made', t)
  BY <1>2, <1>3, <1>6, <1>7, ContinueTurn
<1>9. CASE ~ f.cached
  <2>1. ~ InHook(t) /\ outcome[t] \notin Over
    BY <1>3 DEF InHook, Over
  <2> QED
    BY <1>2, <1>4, <1>8, <1>9, <2>1, PlainStep
<1>10. CASE f.cached
  <2>1. Held(new, t, key)'
    <3>1. stack'[t] # <<>> /\ Top(t)' = g
      BY <1>2, <1>3, AwaitTop
    <3> QED
      BY <1>5, <3>1 DEF Held, InHook
  <2> QED
    BY <1>1, <1>2, <1>8, <1>10, <2>1, CachedStep
<1> QED
  BY <1>9, <1>10

(* The hook is done: its instance moves from the stack into the cache.     *)
LEMMA HookDoneOnce ==
    ASSUME OnceInv, NEW t \in Tasks, HookDone(t)
    PROVE  Once'
<1> DEFINE f == Top(t)
<1>1. At(t, "hook") /\ Remember(f, f.i) /\ Answer(t, f.i) /\ made' = made
  BY DEF HookDone
<1>2. /\ ControlOK /\ stack[t] # <<>> /\ outcome[t] = "busy"
      /\ f \in GoodFrame /\ f \in Frame /\ f.at = "hook"
      /\ StackMine(made, t, stack[t]) /\ FrameMine(made, t, f)
  BY <1>1, OnceFacts
<1>3. f.i \in Nat /\ f.i \in Instances /\ made[f.i].cached = f.cached
  BY <1>2 DEF Frame, FrameMine, Instances
<1>4. made[f.i].ctx = f.ctx /\ made[f.i].key = f.key
  <2>1. FrameIso(made, f)
    BY <1>1, TopFacts DEF OnceInv
  <2> QED
    BY <1>2, <2>1 DEF FrameIso, Owned
<1>5. Grows(made, made) /\ Turn(made, t)
  BY <1>1, <1>2, <1>3, AnswerTurn DEF Grows
<1>6. TasksMine' /\ OnePerContext'
  <2>1. TasksMine'
    BY <1>1, <1>5, KeptTasks
  <2>2. OnePerContext'
    BY <1>1 DEF OnceInv, Once, OnePerContext, Instances
  <2> QED
    BY <2>1, <2>2
<1>7. f.cached => /\ t \in Requests /\ f.ctx = t /\ f.key \in AllKeys
                  /\ ctxCache' = [ctxCache EXCEPT ![t][f.key] = f.i]
  <2>1. f.cached => t \in Requests /\ f.ctx = t
    BY <1>1, CachedMine
  <2>2. f.key \in AllKeys
    BY <1>2 DEF GoodFrame, FrameOK
  <2> QED
    BY <1>1, <2>1, <2>2 DEF Remember
<1>8. \A r \in Requests : r # t => ctxCache'[r] = ctxCache[r]
  <2>1. CASE f.cached
    BY <1>7, <2>1, MadeFacts
  <2>2. CASE ~ f.cached
    BY <1>1, <2>2 DEF Remember
  <2> QED
    BY <2>1, <2>2
<1>9. CachedHeld'
  <2> SUFFICES ASSUME NEW i \in DOMAIN made', made'[i].cached,
                      NEW r, r = made'[i].ctx, NEW k, k = made'[i].key
               PROVE  r \in Requests /\ Held(i, r, k)'
    BY HeldAll
  <2>1. i \in Instances /\ made[i].cached /\ r = made[i].ctx /\ k = made[i].key
    BY <1>1 DEF Instances
  <2>2. r \in Requests /\ Held(i, r, k) /\ k \in AllKeys
    BY <2>1, MadeFacts DEF OnceInv, Once, CachedHeld
  <2>3. CASE r # t
    BY <1>5, <1>8, <2>2, <2>3, KeptHeld
  <2>4. CASE r = t
    <3>1. ctxCache[t][k] = i \/ f.i = i
      BY <1>2, <2>2, <2>4 DEF Held, InHook, Over
    <3>2. CASE ~ f.cached
      <4>1. ctxCache' = ctxCache /\ f.i # i
        BY <1>1, <1>3, <2>1, <3>2 DEF Remember
      <4> QED
        BY <2>2, <2>4, <3>1, <4>1 DEF Held
    <3>3. CASE f.cached /\ k = f.key
      <4>1. i = f.i
        BY <1>3, <1>4, <1>7, <2>1, <2>4, <3>3
           DEF OnceInv, Once, OnePerContext
      <4>2. ctxCache'[t][k] = i
        BY <1>7, <3>3, <4>1, MadeFacts
      <4> QED
        BY <2>2, <2>4, <4>2 DEF Held
    <3>4. CASE f.cached /\ k # f.key
      <4>1. ctxCache[t][k] = i
        BY <1>4, <2>1, <3>1, <3>4
      <4>2. ctxCache'[t][k] = i
        BY <1>7, <2>2, <3>4, <4>1, MadeFacts
      <4> QED
        BY <2>2, <2>4, <4>2 DEF Held
    <3> QED
      BY <3>2, <3>3, <3>4
  <2> QED
    BY <2>2, <2>3, <2>4
<1> QED
  BY <1>6, <1>9 DEF Once

LEMMA HookThrowsOnce ==
    ASSUME OnceInv, NEW t \in Tasks, HookThrows(t)
    PROVE  Once'
<1>1. At(t, "hook") /\ Throw(t) /\ UNCHANGED <<made, ctxCache>>
  BY DEF HookThrows, store
<1>2. Turn(made, t) /\ outcome'[t] = "failed"
  BY <1>1, OnceFacts, ThrowTurn
<1> QED
  BY <1>1, <1>2, OverStep DEF Over

-----------------------------------------------------------------------------
LEMMA ArriveOnce ==
    ASSUME OnceInv, NEW r \in Requests, Arrive(r)
    PROVE  Once'
<1> DEFINE f == [Call("list", r, app.route[r], None) EXCEPT !.ctx = r]
<1>1. f.at = "list" /\ f.ctx = r /\ f.cached = FALSE
  BY DEF Call
<1>2. /\ stack' = [stack EXCEPT ![r] = <<f>>] /\ outcome[r] = "idle"
      /\ outcome' = [outcome EXCEPT ![r] = "busy"]
      /\ UNCHANGED <<made, ctxCache>>
  BY DEF Arrive, store
<1> HIDE DEF f
<1>3. r \in Tasks /\ ControlOK
  BY DEF Tasks, OnceInv, IsoInv, TypeInv
<1>4. FrameMine(made, r, f)
  BY <1>1 DEF FrameMine, Inner
<1>5. StackMine(made, r, <<f>>)
  <2>1. Len(<<f>>) = 1 /\ <<f>>[1] = f
    OBVIOUS
  <2> QED
    BY <1>4, <2>1 DEF StackMine
<1>6. Turn(made, r)
  <2>1. /\ stack'[r] = <<f>> /\ outcome'[r] = "busy"
        /\ \A u \in Tasks : u # r => stack'[u] = stack[u] /\ outcome'[u] = outcome[u]
    BY <1>2, <1>3 DEF ControlOK
  <2> QED
    BY <1>5, <2>1 DEF Turn
<1>7. ~ InHook(r) /\ outcome[r] \notin Over
  BY <1>2, <1>3 DEF InHook, Over, OnceInv, Once, TasksMine
<1>8. Grows(made, made')
  BY <1>2 DEF Grows
<1> QED
  BY <1>2, <1>3, <1>6, <1>7, <1>8, PlainStep

LEMMA ServeOnce ==
    ASSUME OnceInv, NEW r \in Requests, Serve(r)
    PROVE  Once'
<1>1. r \in Tasks /\ At(r, "get") /\ UNCHANGED <<made, ctxCache>>
  BY DEF Serve, store, Tasks
<1>2. Turn(made, r)
  BY <1>1, EndTurn DEF Serve
<1> QED
  BY <1>1, <1>2, PlainAction

LEMMA HandleErrorOnce ==
    ASSUME OnceInv, NEW r \in Requests, HandleError(r)
    PROVE  Once'
<1>1. r \in Tasks /\ ControlOK /\ StackMine(made, r, stack[r])
  BY DEF Tasks, OnceInv, IsoInv, TypeInv, Once, TasksMine
<1>2. /\ outcome[r] = "failed" /\ UNCHANGED <<made, stack>>
      /\ outcome' = [outcome EXCEPT ![r] = "answered"]
  BY DEF HandleError
<1>3. stack[r] = <<>>
  BY <1>1, <1>2 DEF OnceInv, Once, TasksMine
<1>4. Turn(made, r) /\ outcome'[r] = "answered"
  BY <1>1, <1>2, <1>3 DEF Turn, ControlOK
<1>5. \A q \in Requests : q # r => ctxCache'[q] = ctxCache[q]
  BY MadeFacts DEF HandleError
<1> QED
  BY <1>1, <1>2, <1>4, <1>5, OverStep DEF Over

-----------------------------------------------------------------------------
LEMMA InitOnce == Init => OnceInv
<1> SUFFICES ASSUME Init PROVE OnceInv
  OBVIOUS
<1>1. TasksMine
  <2> DEFINE f == Call("imports", app.entry, None, None)
  <2>1. \A t \in Tasks : FrameMine(made, t, f)
    BY DEF FrameMine, Call, Inner
  <2> HIDE DEF f
  <2>2. \A t \in Tasks : StackMine(made, t, <<>>) /\ StackMine(made, t, <<f>>)
    <3>1. Len(<<f>>) = 1 /\ <<f>>[1] = f
      OBVIOUS
    <3> QED
      BY <2>1, <3>1 DEF StackMine
  <2>3. \A t \in Tasks : \/ stack[t] = <<f>> /\ outcome[t] = "busy"
                         \/ stack[t] = <<>>
    BY DEF Init, f
  <2> QED
    BY <2>2, <2>3 DEF TasksMine
<1>2. CachedHeld /\ OnePerContext
  BY DEF Init, CachedHeld, OnePerContext, Instances
<1> QED
  BY <1>1, <1>2, InitIso DEF OnceInv, Once

LEMMA NextOnce == OnceInv /\ [Next]_vars => OnceInv'
<1> SUFFICES ASSUME OnceInv, [Next]_vars PROVE OnceInv'
  OBVIOUS
<1>1. IsoInv'
  BY NextIso DEF OnceInv
<1>2. CASE UNCHANGED vars
  <2>1. UNCHANGED <<made, ctxCache, stack, outcome>>
    BY <1>2 DEF vars, store
  <2>2. Once'
    BY <2>1 DEF OnceInv, Once, TasksMine, CachedHeld, OnePerContext,
                Instances, Held, InHook, Top, Depth
  <2> QED
    BY <1>1, <2>2 DEF OnceInv
<1>3. CASE \E t \in Tasks : Step(t)
  BY <1>1, <1>3, WalkOnce, RegisterOnce, ReadOnce, ConstructOnce,
     CacheHitOnce, MakeOnce, MakeHookedOnce, HookDoneOnce, HookThrowsOnce
     DEF Step, OnceInv
<1>4. CASE \E r \in Requests : Arrive(r) \/ RequestStep(r)
  <2>1. Requests \subseteq Tasks
    BY DEF Tasks
  <2> QED
    BY <1>1, <1>4, <2>1, ArriveOnce, ReadOnce, ServeOnce, HandleErrorOnce
       DEF RequestStep, OnceInv
<1>5. CASE Quiet
  BY <1>2, <1>5 DEF Quiet
<1> QED
  BY <1>2, <1>3, <1>4, <1>5 DEF Next

(* Within one execution context a request-scoped key has one instance,     *)
(* although the cache is asked after the dependencies were awaited and     *)
(* filled after the hook was.                                              *)
THEOREM OneInstancePerContext == Spec => []OnePerContext
<1>1. Spec => []OnceInv
  BY InitOnce, NextOnce, PTL DEF Spec
<1>2. OnceInv => OnePerContext
  BY DEF OnceInv, Once
<1> QED
  BY <1>1, <1>2, PTL

-----------------------------------------------------------------------------
(* Pure singletons.  A class that is being built has its dependencies      *)
(* registered, and from then on nobody overwrites its scope: the class     *)
(* that a dependency makes scoped still waits for that dependency.  What   *)
(* is registered as a factory never has the global scope again.            *)
(* a is the application, reg the registry, sc the scopes, m the instances. *)

(* The frames of a class all of whose dependencies are registered.         *)
Ready == {"scope", "args"} \cup Inner
Settled(a, reg, c) == \A n \in DOMAIN a.params[c] : reg[a.params[c][n]] # None
Transient(sc, c) == c \in Services /\ sc[c] = "TRANSIENT"

(* A singleton of class c may be given the instance x, or a product of the *)
(* entry e.                                                                *)
Harmless(sc, m, c, x) ==
    x # 0 => /\ x \in DOMAIN m
             /\ \/ m[x].shared
                \/ c \in Controllers /\ Transient(sc, m[x].class)
Readable(sc, c, e) ==
    e.kind = "factory" => c \in Controllers /\ Transient(sc, e.class)

FramePure(a, reg, sc, m, f) ==
    /\ f.at \in Ready => Settled(a, reg, f.who)
    /\ f.at = "hook" => f.ctx # None
    /\ f.at \in Resolving \cup {"control"} =>
         f.ctx = None /\ (f.at # "args" => f.args = <<>>)
    /\ f.at = "control" => f.parent = None
    /\ f.at = "args" =>
         /\ \A n \in DOMAIN a.params[f.who] :
              Readable(sc, f.who, reg[a.params[f.who][n]])
         /\ \A n \in DOMAIN f.args : Harmless(sc, m, f.who, f.args[n])

(* f may be on top of low.                                                 *)
Follows(sc, low, f) ==
    /\ f.at \in Resolving /\ f.parent # None =>
         low.at = "deps" /\ low.who = f.parent
    /\ low.at = "args" =>
         /\ f.at = "make" /\ f.ctx = None
         /\ low.who \in Controllers /\ Transient(sc, f.who)

(* f may be on top of the stack s.                                         *)
Tops(sc, s, f) ==
    /\ s = <<>> => (f.at \in Resolving => f.parent = None)
    /\ s # <<>> => Follows(sc, s[Len(s)], f)

StackPure(a, reg, sc, m, s) ==
    \A j \in 1 .. Len(s) :
        /\ FramePure(a, reg, sc, m, s[j])
        /\ j = 1 /\ s[j].at \in Resolving => s[j].parent = None
        /\ j > 1 => Follows(sc, s[j - 1], s[j])

RegistryPure(a, reg, sc) ==
    \A k \in AllKeys : reg[k] # None /\ reg[k].kind = "factory" =>
        /\ Settled(a, reg, reg[k].class)
        /\ k \in Keys =>
             reg[k].class \in Services /\ sc[reg[k].class] # "GLOBAL"

MadePure(a, reg, sc, m) ==
    \A i \in DOMAIN m :
        /\ Settled(a, reg, m[i].class)
        /\ m[i].shared => \A n \in DOMAIN m[i].args :
                             Harmless(sc, m, m[i].class, m[i].args[n])

Pure ==
    /\ RegistryPure(app, resolved, scope)
    /\ MadePure(app, resolved, scope, made)
    /\ \A t \in Tasks : StackPure(app, resolved, scope, made, stack[t])

PureInv == ShareInv /\ IsoInv /\ Pure

LEMMA PureSplit ==
    ASSUME NEW a, NEW reg, NEW sc, NEW m, NEW S, NEW s \in Seq(S), s # <<>>,
           StackPure(a, reg, sc, m, s), NEW b, b = SubSeq(s, 1, Len(s) - 1)
    PROVE  /\ StackPure(a, reg, sc, m, b)
           /\ FramePure(a, reg, sc, m, s[Len(s)])
           /\ Tops(sc, b, s[Len(s)])
<1>1. /\ Len(s) \in Nat \ {0} /\ Len(b) = Len(s) - 1 /\ b \in Seq(S)
      /\ \A j \in 1 .. Len(s) - 1 : b[j] = s[j]
  BY StackTop
<1>2. ASSUME NEW j \in 1 .. Len(b)
      PROVE  /\ FramePure(a, reg, sc, m, b[j])
             /\ j = 1 /\ b[j].at \in Resolving => b[j].parent = None
             /\ j > 1 => Follows(sc, b[j - 1], b[j])
  <2>1. j \in 1 .. Len(s) /\ b[j] = s[j]
    BY <1>1
  <2>2. j > 1 => b[j - 1] = s[j - 1]
    BY <1>1
  <2>3. /\ FramePure(a, reg, sc, m, s[j])
        /\ j = 1 /\ s[j].at \in Resolving => s[j].parent = None
        /\ j > 1 => Follows(sc, s[j - 1], s[j])
    BY <2>1 DEF StackPure
  <2> QED
    BY <2>1, <2>2, <2>3
<1>3. /\ FramePure(a, reg, sc, m, s[Len(s)])
      /\ Len(s) = 1 /\ s[Len(s)].at \in Resolving => s[Len(s)].parent = None
      /\ Len(s) > 1 => Follows(sc, s[Len(s) - 1], s[Len(s)])
  <2>1. Len(s) \in 1 .. Len(s)
    BY <1>1
  <2> QED
    BY <2>1 DEF StackPure
<1>4. /\ b = <<>> => Len(s) = 1
      /\ b # <<>> => Len(s) > 1 /\ b[Len(b)] = s[Len(s) - 1]
  <2>1. \A u \in Seq(S) : u = <<>> <=> Len(u) = 0
    OBVIOUS
  <2>2. b = <<>> <=> Len(b) = 0
    BY <1>1, <2>1
  <2> QED
    BY <1>1, <2>2
<1>5. Tops(sc, b, s[Len(s)])
  BY <1>3, <1>4 DEF Tops
<1> QED
  BY <1>2, <1>3, <1>5 DEF StackPure

LEMMA PureAdd ==
    ASSUME NEW a, NEW reg, NEW sc, NEW m, NEW S, NEW s \in Seq(S), NEW f \in S,
           StackPure(a, reg, sc, m, s), FramePure(a, reg, sc, m, f),
           Tops(sc, s, f)
    PROVE  StackPure(a, reg, sc, m, Append(s, f))
<1> DEFINE p == Append(s, f)
<1>1. /\ Len(s) \in Nat /\ Len(p) = Len(s) + 1 /\ p[Len(s) + 1] = f
      /\ \A j \in 1 .. Len(s) : p[j] = s[j]
  BY StackPush
<1>2. Len(s) = 0 <=> s = <<>>
  OBVIOUS
<1> HIDE DEF p
<1>3. ASSUME NEW j \in 1 .. Len(p)
      PROVE  /\ FramePure(a, reg, sc, m, p[j])
             /\ j = 1 /\ p[j].at \in Resolving => p[j].parent = None
             /\ j > 1 => Follows(sc, p[j - 1], p[j])
  <2>1. CASE j = Len(s) + 1
    <3>1. p[j] = f /\ j - 1 = Len(s)
      BY <1>1, <2>1
    <3>2. j = 1 => s = <<>>
      BY <1>1, <1>2, <2>1
    <3>3. j > 1 => s # <<>> /\ p[j - 1] = s[Len(s)]
      BY <1>1, <1>2, <3>1
    <3> QED
      BY <3>1, <3>2, <3>3 DEF Tops
  <2>2. CASE j # Len(s) + 1
    <3>1. j \in 1 .. Len(s) /\ p[j] = s[j]
      BY <1>1, <2>2
    <3>2. j > 1 => p[j - 1] = s[j - 1]
      BY <1>1, <3>1
    <3>3. /\ FramePure(a, reg, sc, m, s[j])
          /\ j = 1 /\ s[j].at \in Resolving => s[j].parent = None
          /\ j > 1 => Follows(sc, s[j - 1], s[j])
      BY <3>1 DEF StackPure
    <3> QED
      BY <3>1, <3>2, <3>3
  <2> QED
    BY <2>1, <2>2
<1>4. StackPure(a, reg, sc, m, p)
  BY <1>3 DEF StackPure
<1> QED
  BY <1>4 DEF p

-----------------------------------------------------------------------------
(* What a step does to the registry, the scopes and the instances.         *)

Moves(a, reg, new, sc, nsc) ==
    /\ Keeps(reg, new)
    /\ \A c \in Services : sc[c] # "GLOBAL" => nsc[c] # "GLOBAL"
    /\ \A c \in Services :
         Settled(a, reg, c) /\ Transient(sc, c) => Transient(nsc, c)

LEMMA SettledMoves ==
    ASSUME NEW a, a.params \in [Classes -> Seq(Keys)], NEW c \in Classes,
           NEW reg, NEW new, Keeps(reg, new), Settled(a, reg, c)
    PROVE  Settled(a, new, c)
<1>1. \A n \in DOMAIN a.params[c] : a.params[c][n] \in AllKeys
  BY DEF AllKeys
<1> QED
  BY <1>1 DEF Settled, Keeps

LEMMA SameMoves ==
    ASSUME NEW a, NEW reg, NEW sc
    PROVE  Moves(a, reg, reg, sc, sc)
BY DEF Moves, Keeps

(* A registration that leaves the scopes alone.                            *)
LEMMA KeepMoves ==
    ASSUME NEW a, NEW reg, NEW new, NEW sc, Keeps(reg, new)
    PROVE  Moves(a, reg, new, sc, sc)
BY DEF Moves

LEMMA HarmlessMoves ==
    ASSUME NEW a, NEW reg, NEW new, NEW sc, NEW nsc, NEW m, NEW n, NEW c, NEW x,
           Moves(a, reg, new, sc, nsc), Grows(m, n), MadePure(a, reg, sc, m),
           Harmless(sc, m, c, x)
    PROVE  Harmless(nsc, n, c, x)
<1> SUFFICES ASSUME x # 0 PROVE Harmless(nsc, n, c, x)
  BY DEF Harmless
<1>1. /\ x \in DOMAIN m /\ x \in DOMAIN n /\ n[x] = m[x]
      /\ m[x].shared \/ (c \in Controllers /\ Transient(sc, m[x].class))
  BY DEF Harmless, Grows
<1>2. Settled(a, reg, m[x].class)
  BY <1>1 DEF MadePure
<1>3. Transient(sc, m[x].class) => Transient(nsc, m[x].class)
  BY <1>2 DEF Moves, Transient
<1> QED
  BY <1>1, <1>3 DEF Harmless

LEMMA MadeMoves ==
    ASSUME NEW a, a.params \in [Classes -> Seq(Keys)],
           NEW reg, NEW new, NEW sc, NEW nsc, NEW m \in Seq(Instance),
           Moves(a, reg, new, sc, nsc), MadePure(a, reg, sc, m)
    PROVE  MadePure(a, new, nsc, m)
<1> SUFFICES ASSUME NEW i \in DOMAIN m
             PROVE  /\ Settled(a, new, m[i].class)
                    /\ m[i].shared => \A n \in DOMAIN m[i].args :
                         Harmless(nsc, m, m[i].class, m[i].args[n])
  BY DEF MadePure
<1>1. m[i].class \in Classes
  <2>1. m[i] \in Instance
    OBVIOUS
  <2> QED
    BY <2>1 DEF Instance
<1>2. Settled(a, new, m[i].class)
  BY <1>1, SettledMoves DEF MadePure, Moves
<1>3. Grows(m, m)
  BY DEF Grows
<1>4. ASSUME m[i].shared, NEW n \in DOMAIN m[i].args
      PROVE  Harmless(nsc, m, m[i].class, m[i].args[n])
  <2>1. Harmless(sc, m, m[i].class, m[i].args[n])
    BY <1>4 DEF MadePure
  <2> QED
    BY <1>3, <2>1, HarmlessMoves
<1> QED
  BY <1>2, <1>4

(* An instance is added of a class that is settled; a shared one holds     *)
(* what a singleton may.                                                   *)
LEMMA MadeAdds ==
    ASSUME NEW a, NEW reg, NEW sc, NEW m \in Seq(Instance), NEW x \in Instance,
           MadePure(a, reg, sc, m), Settled(a, reg, x.class),
           x.shared => \A n \in DOMAIN x.args :
                         Harmless(sc, m, x.class, x.args[n])
    PROVE  MadePure(a, reg, sc, Append(m, x))
<1> DEFINE p == Append(m, x)
<1>1. /\ Grows(m, p) /\ p[Len(m) + 1] = x
      /\ \A i \in DOMAIN p : i \in DOMAIN m \/ i = Len(m) + 1
  BY GrowsAppend
<1>2. Moves(a, reg, reg, sc, sc)
  BY SameMoves
<1> HIDE DEF p
<1>3. \A c, y : Harmless(sc, m, c, y) => Harmless(sc, p, c, y)
  BY <1>1, <1>2, HarmlessMoves
<1>4. ASSUME NEW i \in DOMAIN p
      PROVE  /\ Settled(a, reg, p[i].class)
             /\ p[i].shared => \A n \in DOMAIN p[i].args :
                                 Harmless(sc, p, p[i].class, p[i].args[n])
  <2>1. CASE i = Len(m) + 1
    BY <1>1, <1>3, <2>1
  <2>2. CASE i \in DOMAIN m
    <3>1. p[i] = m[i]
      BY <1>1, <2>2 DEF Grows
    <3> QED
      BY <1>3, <2>2, <3>1 DEF MadePure
  <2> QED
    BY <1>1, <2>1, <2>2
<1>5. MadePure(a, reg, sc, p)
  BY <1>4 DEF MadePure
<1> QED
  BY <1>5 DEF p

(* A stack whose registry, scopes and instances move: no singleton is being*)
(* built on it, or only instances are added.                               *)
LEMMA StackMoves ==
    ASSUME NEW a, a.params \in [Classes -> Seq(Keys)],
           NEW s \in Seq(GoodFrame),
           NEW reg, NEW new, NEW sc, NEW nsc, NEW m, NEW n,
           StackPure(a, reg, sc, m, s), MadePure(a, reg, sc, m),
           Moves(a, reg, new, sc, nsc), Grows(m, n),
           \/ reg = new /\ sc = nsc
           \/ \A j \in 1 .. Len(s) : s[j].at # "args"
    PROVE  StackPure(a, new, nsc, n, s)
<1>1. ASSUME NEW j \in 1 .. Len(s)
      PROVE  /\ FramePure(a, reg, sc, m, s[j])
             /\ j = 1 /\ s[j].at \in Resolving => s[j].parent = None
             /\ j > 1 => Follows(sc, s[j - 1], s[j])
  BY DEF StackPure
<1>2. ASSUME NEW j \in 1 .. Len(s)
      PROVE  FramePure(a, new, nsc, n, s[j])
  <2>1. s[j] \in GoodFrame /\ FramePure(a, reg, sc, m, s[j])
    BY <1>1
  <2>2. ASSUME s[j].at \in Ready PROVE Settled(a, new, s[j].who)
    <3>1. s[j].who \in Classes
      BY <2>1, <2>2 DEF Ready, Inner, GoodFrame, FrameOK, Classes
    <3>2. Settled(a, reg, s[j].who)
      BY <2>1, <2>2 DEF FramePure
    <3> QED
      BY <3>1, <3>2, SettledMoves DEF Moves
  <2>3. ASSUME s[j].at = "args"
        PROVE  /\ \A k \in DOMAIN a.params[s[j].who] :
                    Readable(nsc, s[j].who, new[a.params[s[j].who][k]])
               /\ \A k \in DOMAIN s[j].args :
                    Harmless(nsc, n, s[j].who, s[j].args[k])
    <3>1. reg = new /\ sc = nsc
      BY <2>3
    <3>2. \A c, x : Harmless(sc, m, c, x) => Harmless(nsc, n, c, x)
      BY HarmlessMoves
    <3> QED
      BY <2>1, <2>3, <3>1, <3>2 DEF FramePure
  <2> QED
    BY <2>1, <2>2, <2>3 DEF FramePure
<1>3. ASSUME NEW j \in 1 .. Len(s), j > 1
      PROVE  Follows(nsc, s[j - 1], s[j])
  <2>1. j - 1 \in 1 .. Len(s)
    BY <1>3
  <2>2. Follows(sc, s[j - 1], s[j])
    BY <1>1, <1>3
  <2> QED
    BY <2>1, <2>2 DEF Follows
<1> QED
  BY <1>1, <1>2, <1>3 DEF StackPure

-----------------------------------------------------------------------------
(* What a task at one of its labels has on its stack.                      *)

LEMMA PureFacts ==
    ASSUME PureInv, NEW t \in Tasks, NEW label, At(t, label)
    PROVE  /\ stack[t] # <<>> /\ Top(t) \in GoodFrame /\ Top(t) \in Frame
           /\ Top(t).at = label
           /\ Below(t) \in Seq(GoodFrame) /\ Len(Below(t)) \in Nat
           /\ stack \in [Tasks -> Seq(GoodFrame)]
           /\ StackPure(app, resolved, scope, made, Below(t))
           /\ FramePure(app, resolved, scope, made, Top(t))
           /\ Tops(scope, Below(t), Top(t))
           /\ label \notin Inner =>
                \A j \in 1 .. Len(Below(t)) : Below(t)[j].at # "args"
<1>1. /\ stack[t] # <<>> /\ Top(t) \in GoodFrame /\ Top(t) \in Frame
      /\ Top(t).at = label
      /\ Below(t) \in Seq(GoodFrame)
      /\ stack \in [Tasks -> Seq(GoodFrame)]
      /\ MayCarry(app, resolved, available, Below(t), Top(t))
  BY ShareFacts DEF PureInv
<1>2. stack[t] \in Seq(GoodFrame)
  BY <1>1
<1>3. StackPure(app, resolved, scope, made, stack[t])
  BY DEF PureInv, Pure
<1>4. /\ StackPure(app, resolved, scope, made, Below(t))
      /\ FramePure(app, resolved, scope, made, Top(t))
      /\ Tops(scope, Below(t), Top(t))
  BY <1>1, <1>2, <1>3, PureSplit DEF Below, Top, Depth
<1>5. label \notin Inner =>
        \A j \in 1 .. Len(Below(t)) : Below(t)[j].at # "args"
  BY <1>1 DEF MayCarry, Above
<1>6. Len(Below(t)) \in Nat
  BY <1>1
<1> QED
  BY <1>1, <1>4, <1>5, <1>6

LEMMA PureBase ==
    ASSUME PureInv
    PROVE  /\ app.params \in [Classes -> Seq(Keys)] /\ made \in Seq(Instance)
           /\ resolved \in [AllKeys -> GoodEntry \cup {None}]
           /\ scope \in [Services -> Scopes]
           /\ RegistryPure(app, resolved, scope)
           /\ MadePure(app, resolved, scope, made)
           /\ RegistryIso(made, resolved)
<1>1. TypeInv
  BY DEF PureInv, ShareInv, RegInv
<1> QED
  BY <1>1, AppFacts DEF TypeInv, StoreOK, PureInv, Pure, IsoInv, Isolated,
                        StoreIso

(* What a step of task t leaves of the stacks.                             *)
TurnPure(new, nsc, n, t) ==
    /\ \A u \in Tasks : u # t => stack'[u] = stack[u]
    /\ StackPure(app, new, nsc, n, stack'[t])

LEMMA ContinuePure ==
    ASSUME PureInv, NEW t \in Tasks, NEW label, At(t, label),
           NEW new, NEW nsc, NEW n, NEW g,
           StackPure(app, new, nsc, n, Below(t)),
           FramePure(app, new, nsc, n, g), Tops(nsc, Below(t), g),
           Continue(t, g) \/ Await(t, g)
    PROVE  TurnPure(new, nsc, n, t)
<1> DEFINE b == Below(t)
           p == Append(b, g)
<1>1. b \in Seq(GoodFrame) /\ stack \in [Tasks -> Seq(GoodFrame)]
  BY PureFacts
<1>2. stack' = [stack EXCEPT ![t] = p]
  BY DEF Continue, Await
<1> HIDE DEF b
<1>3. b \in Seq(GoodFrame \cup {g})
  BY <1>1
<1>4. StackPure(app, new, nsc, n, p)
  BY <1>3, PureAdd DEF b
<1> QED
  BY <1>1, <1>2, <1>4 DEF TurnPure

LEMMA ThrowPure ==
    ASSUME PureInv, NEW t \in Tasks, NEW new, NEW nsc, NEW n, Throw(t)
    PROVE  TurnPure(new, nsc, n, t)
<1>1. stack \in [Tasks -> Seq(GoodFrame)]
  BY DEF PureInv, ShareInv, RegInv, TypeInv, ControlOK
<1>2. StackPure(app, new, nsc, n, <<>>)
  BY DEF StackPure
<1> QED
  BY <1>1, <1>2 DEF TurnPure, Throw

LEMMA ReturnPure ==
    ASSUME PureInv, NEW t \in Tasks, NEW label, At(t, label),
           NEW new, NEW nsc, NEW n,
           StackPure(app, new, nsc, n, Below(t)), Return(t)
    PROVE  TurnPure(new, nsc, n, t)
<1>1. stack \in [Tasks -> Seq(GoodFrame)]
  BY PureFacts
<1> QED
  BY <1>1 DEF TurnPure, Return

LEMMA PushPure ==
    ASSUME PureInv, NEW t \in Tasks, NEW label, At(t, label), NEW g, NEW h,
           FramePure(app, resolved, scope, made, g), Tops(scope, Below(t), g),
           FramePure(app, resolved, scope, made, h), Follows(scope, g, h),
           Push(t, g, h)
    PROVE  TurnPure(resolved, scope, made, t)
<1>1. CASE ~ (Depth(t) < StackLimit)
  BY <1>1, ThrowPure DEF Push
<1>2. CASE Depth(t) < StackLimit
  <2> DEFINE b == Below(t)
             p == Append(b, g)
             q == Append(p, h)
  <2>1. /\ b \in Seq(GoodFrame) /\ stack \in [Tasks -> Seq(GoodFrame)]
        /\ StackPure(app, resolved, scope, made, b)
    BY PureFacts
  <2>2. stack' = [stack EXCEPT ![t] = q]
    BY <1>2 DEF Push
  <2> HIDE DEF b
  <2>3. b \in Seq(GoodFrame \cup {g, h})
    BY <2>1
  <2>4. StackPure(app, resolved, scope, made, p)
    BY <2>1, <2>3, PureAdd DEF b
  <2>5. /\ p \in Seq(GoodFrame \cup {g, h}) /\ p # <<>>
        /\ Len(p) = Len(b) + 1 /\ p[Len(b) + 1] = g
    <3>1. /\ p \in Seq(GoodFrame \cup {g, h}) /\ Len(b) \in Nat
          /\ Len(p) = Len(b) + 1 /\ p[Len(b) + 1] = g
      BY <2>3, StackPush
    <3>2. Len(p) # 0
      BY <3>1
    <3> QED
      BY <3>1, <3>2
  <2> HIDE DEF p
  <2>6. Tops(scope, p, h)
    BY <2>5 DEF Tops
  <2>7. StackPure(app, resolved, scope, made, q)
    BY <2>4, <2>5, <2>6, PureAdd
  <2> QED
    BY <2>1, <2>2, <2>7 DEF TurnPure
<1> QED
  BY <1>1, <1>2

(* A frame that is handed an instance goes on as it was; a singleton must  *)
(* be handed what it may hold.                                             *)
LEMMA HandedPure ==
    ASSUME NEW a, NEW reg, NEW sc, NEW n, NEW f \in Frame, NEW ref \in Nat,
           FramePure(a, reg, sc, n, f),
           f.at \notin {"enter", "deps", "scope", "control"},
           f.at = "args" => Harmless(sc, n, f.who, ref),
           NEW g, g = [f EXCEPT !.args = Append(@, ref)]
    PROVE  /\ FramePure(a, reg, sc, n, g)
           /\ g.at = f.at /\ g.who = f.who /\ g.ctx = f.ctx
           /\ g.parent = f.parent
<1>1. /\ g.at = f.at /\ g.who = f.who /\ g.ctx = f.ctx /\ g.parent = f.parent
      /\ g.args = Append(f.args, ref) /\ f.args \in Seq(Nat)
  BY DEF Frame
<1>2. ASSUME f.at = "args", NEW k \in DOMAIN g.args
      PROVE  Harmless(sc, n, g.who, g.args[k])
  <2>1. (k \in DOMAIN f.args /\ g.args[k] = f.args[k]) \/ g.args[k] = ref
    BY <1>1, <1>2
  <2>2. \A j \in DOMAIN f.args : Harmless(sc, n, f.who, f.args[j])
    BY <1>2 DEF FramePure
  <2> QED
    BY <1>1, <1>2, <2>1, <2>2
<1>3. FramePure(a, reg, sc, n, g)
  <2>1. g.at \in Ready => Settled(a, reg, g.who)
    BY <1>1 DEF FramePure
  <2>2. g.at = "hook" => g.ctx # None
    BY <1>1 DEF FramePure
  <2>3. g.at \in Resolving \cup {"control"} =>
          g.ctx = None /\ (g.at # "args" => g.args = <<>>)
    BY <1>1 DEF FramePure, Resolving
  <2>4. g.at # "control"
    BY <1>1
  <2>5. g.at = "args" =>
          /\ \A k \in DOMAIN a.params[g.who] :
               Readable(sc, g.who, reg[a.params[g.who][k]])
          /\ \A k \in DOMAIN g.args : Harmless(sc, n, g.who, g.args[k])
    BY <1>1, <1>2 DEF FramePure
  <2> QED
    BY <2>1, <2>2, <2>3, <2>4, <2>5 DEF FramePure
<1> QED
  BY <1>1, <1>3

LEMMA AnswerPure ==
    ASSUME PureInv, NEW t \in Tasks, NEW label \in Inner, At(t, label),
           NEW ref \in Nat, NEW n, Grows(made, n), Answer(t, ref),
           \A low \in GoodFrame :
             /\ Below(t) # <<>> /\ low = Below(t)[Len(Below(t))]
             /\ low.at = "args"
             => Harmless(scope, n, low.who, ref)
    PROVE  TurnPure(resolved, scope, n, t)
<1> DEFINE b == Below(t)
           d == Depth(t) - 1
           c == [b EXCEPT ![d].args = Append(@, ref)]
<1>1. /\ b \in Seq(GoodFrame) /\ stack \in [Tasks -> Seq(GoodFrame)]
      /\ Top(t).at = label
      /\ StackPure(app, resolved, scope, made, b)
  BY PureFacts
<1>2. Len(b) = d /\ d \in Nat /\ MayCarry(app, resolved, available, b, Top(t))
  BY ShareFacts DEF PureInv
<1>3. stack' = [stack EXCEPT ![t] = c]
  BY DEF Answer
<1>4. StackPure(app, resolved, scope, n, b)
  BY <1>1, PureBase, SameMoves, StackMoves
<1>5. StackPure(app, resolved, scope, n, c)
  <2>1. CASE d = 0
    <3> HIDE DEF b, d
    <3>1. b = <<>>
      BY <1>1, <1>2, <2>1
    <3>2. c = b
      BY <2>1, <3>1
    <3> QED
      BY <1>4, <3>2
  <2>2. CASE d # 0
    <3> DEFINE f == b[d]
               g == [f EXCEPT !.args = Append(@, ref)]
    <3>1. d \in 1 .. Len(b) /\ f \in GoodFrame /\ f \in Frame /\ b # <<>>
      <4> HIDE DEF b, d
      <4> QED
        BY <1>1, <1>2, <2>2 DEF GoodFrame
    <3>2. /\ FramePure(app, resolved, scope, n, f)
          /\ d = 1 /\ f.at \in Resolving => f.parent = None
      BY <1>4, <3>1 DEF StackPure
    <3>3. f.at \notin {"enter", "deps", "scope", "control"}
      <4>1. Above(f, Top(t))
        BY <1>2, <3>1 DEF MayCarry
      <4>2. f.at # "deps"
        BY <1>1, <1>2, <3>1 DEF MayCarry, Needed, Resolving, Inner
      <4> QED
        BY <4>1, <4>2 DEF Above
    <3>4. f.at = "args" => Harmless(scope, n, f.who, ref)
      BY <1>2, <3>1
    <3>5. /\ FramePure(app, resolved, scope, n, g)
          /\ g.at = f.at /\ g.who = f.who /\ g.ctx = f.ctx
          /\ g.parent = f.parent
      <4>1. g = [f EXCEPT !.args = Append(@, ref)]
        OBVIOUS
      <4> HIDE DEF b, d, f, g
      <4> QED
        BY <3>1, <3>2, <3>3, <3>4, <4>1, HandedPure
    <3>6. g \in GoodFrame
      BY <3>1, ArgsOK
    <3>7. c = [b EXCEPT ![d] = g]
      OBVIOUS
    <3>8. /\ Len(c) = Len(b) /\ c[d] = g
          /\ \A j \in 1 .. Len(b) : j # d => c[j] = b[j]
      <4> HIDE DEF b, c, d, g
      <4> QED
        BY <1>1, <3>1, <3>6, <3>7
    <3> HIDE DEF c, g
    <3>9. ASSUME NEW j \in 1 .. Len(c)
          PROVE  /\ FramePure(app, resolved, scope, n, c[j])
                 /\ j = 1 /\ c[j].at \in Resolving => c[j].parent = None
                 /\ j > 1 => Follows(scope, c[j - 1], c[j])
      <4>1. /\ FramePure(app, resolved, scope, n, b[j])
            /\ j = 1 /\ b[j].at \in Resolving => b[j].parent = None
            /\ j > 1 => Follows(scope, b[j - 1], b[j])
        BY <1>4, <3>8 DEF StackPure
      <4>2. CASE j = d
        <5>1. j > 1 => c[j - 1] = b[j - 1]
          BY <1>2, <3>8, <4>2
        <5> QED
          BY <3>5, <3>8, <4>1, <4>2, <5>1 DEF Follows
      <4>3. CASE j # d
        <5>1. c[j] = b[j] /\ j < d
          BY <1>2, <3>8, <4>3
        <5>2. j > 1 => c[j - 1] = b[j - 1]
          BY <1>2, <3>8, <5>1
        <5> QED
          BY <4>1, <5>1, <5>2
      <4> QED
        BY <4>2, <4>3
    <3> QED
      BY <3>9 DEF StackPure
  <2> QED
    BY <2>1, <2>2
<1> HIDE DEF c
<1> QED
  BY <1>1, <1>3, <1>5 DEF TurnPure

-----------------------------------------------------------------------------
(* From the stack of one task to all of them.                              *)

LEMMA PureStep ==
    ASSUME PureInv, NEW t \in Tasks, app' = app, Grows(made, made'),
           TurnPure(resolved', scope', made', t),
           RegistryPure(app, resolved', scope'),
           MadePure(app, resolved', scope', made'),
           Moves(app, resolved, resolved', scope, scope'),
           \/ UNCHANGED <<resolved, scope>>
           \/ \A u \in Tasks : u # t =>
                \A j \in 1 .. Len(stack[u]) : stack[u][j].at # "args"
    PROVE  Pure'
<1>1. /\ stack \in [Tasks -> Seq(GoodFrame)]
      /\ \A u \in Tasks : StackPure(app, resolved, scope, made, stack[u])
  BY DEF PureInv, Pure, ShareInv, RegInv, TypeInv, ControlOK
<1>2. ASSUME NEW u \in Tasks
      PROVE  StackPure(app, resolved', scope', made', stack'[u])
  <2>1. CASE u = t
    BY <2>1 DEF TurnPure
  <2>2. CASE u # t
    <3>1. stack'[u] = stack[u] /\ stack[u] \in Seq(GoodFrame)
      BY <1>1, <2>2 DEF TurnPure
    <3>2. \/ resolved = resolved' /\ scope = scope'
          \/ \A j \in 1 .. Len(stack[u]) : stack[u][j].at # "args"
      BY <2>2
    <3>3. StackPure(app, resolved', scope', made', stack[u])
      BY <1>1, <3>1, <3>2, PureBase, StackMoves
    <3> QED
      BY <3>1, <3>3
  <2> QED
    BY <2>1, <2>2
<1> QED
  BY <1>2 DEF Pure

(* Only frames move.                                                       *)
LEMMA PureSame ==
    ASSUME PureInv, NEW t \in Tasks, TurnPure(resolved, scope, made, t),
           UNCHANGED <<app, resolved, scope, made>>
    PROVE  Pure'
<1>1. Grows(made, made') /\ Moves(app, resolved, resolved', scope, scope')
  BY SameMoves DEF Grows
<1>2. /\ RegistryPure(app, resolved', scope')
      /\ MadePure(app, resolved', scope', made')
  BY PureBase
<1> QED
  BY <1>1, <1>2, PureStep

(* A factory adds an instance.                                             *)
LEMMA PureAdds ==
    ASSUME PureInv, NEW t \in Tasks, NEW label \in Inner, At(t, label),
           made' = Append(made, Built(Top(t), FALSE)),
           TurnPure(resolved, scope, made', t),
           UNCHANGED <<app, resolved, scope>>
    PROVE  Pure'
<1> DEFINE x == Built(Top(t), FALSE)
<1>1. /\ Top(t) \in GoodFrame /\ Top(t).at \in Inner
      /\ FramePure(app, resolved, scope, made, Top(t))
  BY PureFacts
<1>2. /\ Settled(app, resolved, Top(t).who) /\ Top(t).who \in Classes
      /\ Top(t).key \in AllKeys
  BY <1>1 DEF FramePure, Ready, Inner, GoodFrame, FrameOK
<1>3. x \in Instance /\ x.class = Top(t).who /\ x.shared = FALSE
  BY <1>1, <1>2, BuiltOK DEF Built
<1> HIDE DEF x
<1>4. MadePure(app, resolved, scope, Append(made, x))
  BY <1>2, <1>3, PureBase, MadeAdds
<1>5. Grows(made, Append(made, x))
  BY <1>3, PureBase, GrowsAppend
<1>6. Moves(app, resolved, resolved', scope, scope')
  BY SameMoves
<1>7. RegistryPure(app, resolved', scope')
  BY PureBase
<1> QED
  BY <1>4, <1>5, <1>6, <1>7, PureStep DEF x

(* The registry after k got entry e.                                       *)
LEMMA RegistryMoves ==
    ASSUME PureInv, NEW k \in AllKeys, NEW e \in GoodEntry, NEW nsc,
           Resolve(k, e), Moves(app, resolved, resolved', scope, nsc),
           e.kind = "factory" => Settled(app, resolved, e.class),
           k \in Keys /\ e.kind = "factory" =>
             e.class \in Services /\ nsc[e.class] # "GLOBAL"
    PROVE  RegistryPure(app, resolved', nsc)
<1>1. /\ app.params \in [Classes -> Seq(Keys)]
      /\ resolved \in [AllKeys -> GoodEntry \cup {None}]
      /\ RegistryPure(app, resolved, scope) /\ Keeps(resolved, resolved')
  BY PureBase DEF Moves
<1>2. /\ resolved'[k] = e
      /\ \A x \in AllKeys : x # k => resolved'[x] = resolved[x]
  BY <1>1 DEF Resolve
<1>3. ASSUME NEW x \in AllKeys, resolved'[x] # None,
             resolved'[x].kind = "factory"
      PROVE  /\ Settled(app, resolved', resolved'[x].class)
             /\ x \in Keys => /\ resolved'[x].class \in Services
                             /\ nsc[resolved'[x].class] # "GLOBAL"
  <2>1. resolved'[x] \in GoodEntry
    BY <1>1, <1>2, <1>3
  <2>2. /\ Settled(app, resolved, resolved'[x].class)
        /\ x \in Keys => /\ resolved'[x].class \in Services
                        /\ nsc[resolved'[x].class] # "GLOBAL"
    <3>1. CASE x = k
      BY <1>2, <1>3, <3>1
    <3>2. CASE x # k
      <4>1. resolved'[x] = resolved[x]
        BY <1>2, <3>2
      <4>2. /\ Settled(app, resolved, resolved[x].class)
            /\ x \in Keys => /\ resolved[x].class \in Services
                            /\ scope[resolved[x].class] # "GLOBAL"
        BY <1>1, <1>3, <4>1 DEF RegistryPure
      <4> QED
        BY <4>1, <4>2 DEF Moves
    <3> QED
      BY <3>1, <3>2
  <2>3. resolved'[x].class \in Classes
    BY <1>3, <2>1 DEF GoodEntry
  <2> QED
    BY <1>1, <2>2, <2>3, SettledMoves
<1> QED
  BY <1>3 DEF RegistryPure

(* Nobody else is building a singleton while a task registers.             *)
LEMMA OthersFree ==
    ASSUME PureInv, SoleRegistrar(Apps), NEW t \in Tasks, stack[t] # <<>>,
           Registrar(t)
    PROVE  \A u \in Tasks : u # t =>
             \A j \in 1 .. Len(stack[u]) : stack[u][j].at # "args"
<1> SUFFICES ASSUME NEW u \in Tasks, u # t, NEW j \in 1 .. Len(stack[u])
             PROVE  stack[u][j].at # "args"
  OBVIOUS
<1>1. stack[u][j].at \notin Resolving
  BY Alone DEF PureInv
<1> QED
  BY <1>1 DEF Resolving

(* A task registers k, and goes on with g or returns.                      *)
LEMMA ResolvePure ==
    ASSUME PureInv, SoleRegistrar(Apps), NEW t \in Tasks, NEW label,
           At(t, label), label \notin Inner, Registrar(t),
           NEW k \in AllKeys, NEW e \in GoodEntry, Resolve(k, e),
           Moves(app, resolved, resolved', scope, scope'),
           e.kind = "factory" => Settled(app, resolved, e.class),
           k \in Keys /\ e.kind = "factory" =>
             e.class \in Services /\ scope'[e.class] # "GLOBAL",
           UNCHANGED <<app, made>>,
           \/ Return(t)
           \/ \E g : /\ Await(t, g) /\ Tops(scope', Below(t), g)
                     /\ FramePure(app, resolved', scope', made, g)
    PROVE  Pure'
<1>1. /\ stack[t] # <<>> /\ Below(t) \in Seq(GoodFrame)
      /\ StackPure(app, resolved, scope, made, Below(t))
      /\ \A j \in 1 .. Len(Below(t)) : Below(t)[j].at # "args"
  BY PureFacts
<1>2. Grows(made, made) /\ Grows(made, made')
  BY DEF Grows
<1>3. /\ app.params \in [Classes -> Seq(Keys)] /\ made \in Seq(Instance)
      /\ MadePure(app, resolved, scope, made)
  BY PureBase
<1>4. StackPure(app, resolved', scope', made, Below(t))
  BY <1>1, <1>2, <1>3, StackMoves
<1>5. TurnPure(resolved', scope', made, t)
  BY <1>4, ReturnPure, ContinuePure
<1>6. RegistryPure(app, resolved', scope')
  BY RegistryMoves
<1>7. MadePure(app, resolved', scope', made)
  BY <1>3, MadeMoves
<1>8. \A u \in Tasks : u # t =>
        \A j \in 1 .. Len(stack[u]) : stack[u][j].at # "args"
  BY <1>1, OthersFree
<1> QED
  BY <1>2, <1>5, <1>6, <1>7, <1>8, PureStep

-----------------------------------------------------------------------------
(* Purity, one step per action.                                            *)

(* A frame among these carries no promise.                                 *)
Free == {"imports", "list", "controllers", "get", "enter", "deps", "control"}

LEMMA FreePure ==
    ASSUME NEW a, NEW reg, NEW sc, NEW m, NEW f, f.at \in Free,
           f.at \in Resolving \cup {"control"} => f.ctx = None /\ f.args = <<>>,
           f.at = "control" => f.parent = None
    PROVE  FramePure(a, reg, sc, m, f)
BY DEF FramePure, Free, Ready, Inner, Resolving

(* Outside a factory, any frame may go on as one of the same parent.       *)
LEMMA TopsOn ==
    ASSUME PureInv, NEW t \in Tasks, NEW label, At(t, label),
           label \notin Inner, NEW nsc, NEW g,
           g.at \in Resolving =>
             g.parent = None \/ (label \in Resolving /\ g.parent = Top(t).parent)
    PROVE  Tops(nsc, Below(t), g)
<1> DEFINE b == Below(t)
<1>1. /\ Tops(scope, b, Top(t)) /\ Top(t).at = label /\ b \in Seq(GoodFrame)
      /\ \A j \in 1 .. Len(b) : b[j].at # "args"
  BY PureFacts
<1>2. b # <<>> => Len(b) \in 1 .. Len(b)
  BY <1>1
<1> QED
  BY <1>1, <1>2 DEF Tops, Follows

LEMMA MovedFields ==
    ASSUME NEW f \in Frame, NEW label
    PROVE  LET g == Goto(f, label) h == Advance(f) IN
           /\ g.at = label /\ g.who = f.who /\ g.ctx = f.ctx
           /\ g.parent = f.parent /\ g.args = f.args
           /\ h.at = f.at /\ h.who = f.who /\ h.ctx = f.ctx
           /\ h.parent = f.parent /\ h.args = f.args
<1>1. /\ Goto(f, label).at = label /\ Goto(f, label).who = f.who
      /\ Goto(f, label).ctx = f.ctx
  BY DEF Goto, Frame
<1>2. Goto(f, label).parent = f.parent /\ Goto(f, label).args = f.args
  BY DEF Goto, Frame
<1>3. /\ Advance(f).at = f.at /\ Advance(f).who = f.who
      /\ Advance(f).ctx = f.ctx
  BY DEF Advance, Frame
<1>4. Advance(f).parent = f.parent /\ Advance(f).args = f.args
  BY DEF Advance, Frame
<1> QED
  BY <1>1, <1>2, <1>3, <1>4

LEMMA CalledFields ==
    ASSUME NEW label, NEW who, NEW key, NEW parent
    PROVE  LET f == Call(label, who, key, parent) IN
           /\ f.at = label /\ f.who = who /\ f.ctx = None
           /\ f.parent = parent /\ f.args = <<>>
BY DEF Call

LEMMA MovePure ==
    ASSUME PureInv, NEW t \in Tasks, NEW label, At(t, label),
           label \notin Inner, NEW g, Continue(t, g) \/ Await(t, g),
           FramePure(app, resolved, scope, made, g),
           g.at \in Resolving =>
             g.parent = None \/ (label \in Resolving /\ g.parent = Top(t).parent),
           UNCHANGED <<app, resolved, scope, made>>
    PROVE  Pure'
<1>1. StackPure(app, resolved, scope, made, Below(t))
  BY PureFacts
<1>2. Tops(scope, Below(t), g)
  BY TopsOn
<1>3. TurnPure(resolved, scope, made, t)
  BY <1>1, <1>2, ContinuePure
<1> QED
  BY <1>3, PureSame

LEMMA EndPure ==
    ASSUME PureInv, NEW t \in Tasks, NEW label, At(t, label),
           Return(t) \/ Throw(t), UNCHANGED <<app, resolved, scope, made>>
    PROVE  Pure'
<1>1. StackPure(app, resolved, scope, made, Below(t))
  BY PureFacts
<1>2. TurnPure(resolved, scope, made, t)
  BY <1>1, ReturnPure, ThrowPure
<1> QED
  BY <1>2, PureSame

(* A list goes on, or calls for its next element.                          *)
LEMMA ListPure ==
    ASSUME PureInv, NEW t \in Tasks,
           NEW label \in {"imports", "list", "controllers"}, At(t, label),
           UNCHANGED <<app, resolved, scope, made>>,
           \/ \E l \in {"list", "controllers", "get"} :
                Continue(t, Goto(Top(t), l)) \/ Await(t, Goto(Top(t), l))
           \/ \E l \in {"imports", "enter", "control"} : \E c, k :
                Push(t, Advance(Top(t)), Call(l, c, k, None))
    PROVE  Pure'
<1>1. /\ Top(t) \in Frame /\ Top(t).at = label /\ label \notin Inner
      /\ Tops(scope, Below(t), Top(t))
  BY PureFacts DEF Inner
<1>2. CASE \E l \in {"list", "controllers", "get"} :
             Continue(t, Goto(Top(t), l)) \/ Await(t, Goto(Top(t), l))
  <2>1. PICK l \in {"list", "controllers", "get"} :
             Continue(t, Goto(Top(t), l)) \/ Await(t, Goto(Top(t), l))
    BY <1>2
  <2> DEFINE g == Goto(Top(t), l)
  <2>2. g.at = l
    BY <1>1, MovedFields
  <2> HIDE DEF g
  <2>3. g.at \in Free /\ g.at \notin Resolving \cup {"control"}
    BY <2>2 DEF Free, Resolving
  <2>4. FramePure(app, resolved, scope, made, g)
    BY <2>3, FreePure
  <2> QED
    BY <1>1, <2>1, <2>3, <2>4, MovePure DEF g
<1>3. CASE \E l \in {"imports", "enter", "control"} : \E c, k :
             Push(t, Advance(Top(t)), Call(l, c, k, None))
  <2>0. PICK l \in {"imports", "enter", "control"} :
             \E c, k : Push(t, Advance(Top(t)), Call(l, c, k, None))
    BY <1>3
  <2>1. PICK c, k : Push(t, Advance(Top(t)), Call(l, c, k, None))
    BY <2>0
  <2> DEFINE g == Advance(Top(t))
             h == Call(l, c, k, None)
  <2>2. g.at = label
    BY <1>1, MovedFields
  <2>3. h.at = l /\ h.ctx = None /\ h.parent = None /\ h.args = <<>>
    BY CalledFields
  <2> HIDE DEF g, h
  <2>4. /\ g.at \in Free /\ g.at \notin Resolving \cup {"control"}
        /\ h.at \in Free
    BY <2>2, <2>3 DEF Free, Resolving
  <2>5. /\ FramePure(app, resolved, scope, made, g)
        /\ FramePure(app, resolved, scope, made, h)
    BY <2>3, <2>4, FreePure
  <2>6. Tops(scope, Below(t), g)
    BY <1>1, <2>4, TopsOn
  <2>7. Follows(scope, g, h)
    BY <2>2, <2>3 DEF Follows
  <2>8. TurnPure(resolved, scope, made, t)
    BY <2>1, <2>5, <2>6, <2>7, PushPure DEF g, h
  <2> QED
    BY <2>8, PureSame
<1> QED
  BY <1>2, <1>3

LEMMA ImportPure ==
    ASSUME PureInv, NEW t \in Tasks, Import(t)
    PROVE  Pure'
<1>1. /\ At(t, "imports") /\ UNCHANGED <<app, resolved, scope, made>>
      /\ \E c : Push(t, Advance(Top(t)), Call("imports", c, None, None))
  BY DEF Import, store
<1> QED
  BY <1>1, ListPure

LEMMA OfferPure ==
    ASSUME PureInv, NEW t \in Tasks, Offer(t)
    PROVE  Pure'
<1>1. /\ At(t, "imports") /\ UNCHANGED <<app, resolved, scope, made>>
      /\ Continue(t, Goto(Top(t), "list"))
  BY DEF Offer
<1> QED
  BY <1>1, ListPure

LEMMA ProvideClassPure ==
    ASSUME PureInv, NEW t \in Tasks, ProvideClass(t)
    PROVE  Pure'
<1>1. /\ At(t, "list") /\ UNCHANGED <<app, resolved, scope, made>>
      /\ \E c, k : Push(t, Advance(Top(t)), Call("enter", c, k, None))
  BY DEF ProvideClass, store
<1> QED
  BY <1>1, ListPure

LEMMA ListedPure ==
    ASSUME PureInv, NEW t \in Tasks, Listed(t)
    PROVE  Pure'
<1>1. /\ At(t, "list") /\ UNCHANGED <<app, resolved, scope, made>>
      /\ \E l \in {"list", "controllers", "get"} : Await(t, Goto(Top(t), l))
  BY DEF Listed, store
<1> QED
  BY <1>1, ListPure

LEMMA NextControllerPure ==
    ASSUME PureInv, NEW t \in Tasks, NextController(t)
    PROVE  Pure'
<1>1. /\ At(t, "controllers") /\ UNCHANGED <<app, resolved, scope, made>>
      /\ \E c, k : Push(t, Advance(Top(t)), Call("control", c, k, None))
  BY DEF NextController, store
<1> QED
  BY <1>1, ListPure

(* A value says nothing about a class.                                     *)
LEMMA ValuePure ==
    ASSUME PureInv, SoleRegistrar(Apps), NEW t \in Tasks,
           NEW label \in {"list", "controllers"}, At(t, label), Registrar(t),
           NEW k \in AllKeys, Resolve(k, ValueEntry),
           Return(t) \/ (label = "list" /\ Await(t, Advance(Top(t)))),
           UNCHANGED <<app, scope, made>>
    PROVE  Pure'
<1> DEFINE g == Advance(Top(t))
           e == ValueEntry
<1>1. Top(t) \in Frame /\ Top(t).at = label /\ label \notin Inner
  BY PureFacts DEF Inner
<1>2. e \in GoodEntry /\ e.kind = "value"
  BY DEF ValueEntry, GoodEntry, Entry
<1>3. Keeps(resolved, resolved')
  BY <1>2, RegisteredKey DEF PureInv, ShareInv
<1>4. Moves(app, resolved, resolved', scope, scope')
  BY <1>3, KeepMoves
<1>5. g.at = label
  BY <1>1, MovedFields
<1>6. g.at \in Free /\ g.at \notin Resolving \cup {"control"}
  BY <1>5 DEF Free, Resolving
<1> HIDE DEF g, e
<1>7. FramePure(app, resolved', scope', made, g) /\ Tops(scope', Below(t), g)
  BY <1>1, <1>6, FreePure, TopsOn
<1> QED
  BY <1>1, <1>2, <1>4, <1>7, ResolvePure DEF g, e

LEMMA ProvideValuePure ==
    ASSUME PureInv, SoleRegistrar(Apps), NEW t \in Tasks, ProvideValue(t)
    PROVE  Pure'
<1> DEFINE f == Top(t)
           k == Providers(f)[f.i].key
<1>1. /\ At(t, "list") /\ f.i <= Len(Providers(f)) /\ Await(t, Advance(f))
      /\ Resolve(k, ValueEntry) /\ UNCHANGED <<app, scope, made>>
  BY DEF ProvideValue
<1>2. Registrar(t) /\ k \in AllKeys
  BY <1>1, ListFacts DEF PureInv, Provider, AllKeys
<1> HIDE DEF k
<1> QED
  BY <1>1, <1>2, ValuePure

LEMMA PublishPure ==
    ASSUME PureInv, SoleRegistrar(Apps), NEW t \in Tasks, Publish(t)
    PROVE  Pure'
<1> DEFINE f == Top(t)
<1>1. /\ At(t, "controllers") /\ Resolve(f.who, ValueEntry) /\ Return(t)
      /\ UNCHANGED <<app, scope, made>>
  BY DEF Publish
<1>2. /\ f.at = "controllers" /\ f \in GoodFrame /\ Belongs(t, f)
  BY <1>1, ShareFacts DEF PureInv
<1>3. f.who \in AllKeys /\ Registrar(t)
  BY <1>2 DEF GoodFrame, FrameOK, AllKeys, Belongs, Registrar
<1> QED
  BY <1>1, <1>3, ValuePure

(* A frame that resolves a class, under its next label.                    *)
LEMMA ResolvingPure ==
    ASSUME PureInv, NEW t \in Tasks, NEW label \in {"enter", "deps"},
           At(t, label), NEW g,
           \/ g = Advance(Top(t)) /\ label = "deps"
           \/ g = Goto(Top(t), "deps")
           \/ g = Goto(Top(t), "scope") /\ Settled(app, resolved, Top(t).who)
    PROVE  /\ FramePure(app, resolved, scope, made, g)
           /\ g.at \in Resolving /\ g.parent = Top(t).parent
           /\ g.at \in {"deps", "scope"} /\ g.who = Top(t).who
           /\ label \in Resolving /\ label \notin Inner
           /\ g = Advance(Top(t)) => g.at = "deps"
<1>1. /\ Top(t) \in Frame /\ Top(t).at = label
      /\ FramePure(app, resolved, scope, made, Top(t))
  BY PureFacts
<1>2. /\ g.at \in {"deps", "scope"} /\ g.who = Top(t).who
      /\ g.ctx = Top(t).ctx /\ g.parent = Top(t).parent
      /\ g.args = Top(t).args
      /\ g = Advance(Top(t)) /\ label = "deps" => g.at = "deps"
      /\ g.at = "scope" => Settled(app, resolved, Top(t).who)
  BY <1>1, MovedFields
<1>3. Top(t).ctx = None /\ Top(t).args = <<>>
  BY <1>1 DEF FramePure, Resolving
<1>4. FramePure(app, resolved, scope, made, g)
  BY <1>2, <1>3 DEF FramePure, Ready, Inner, Resolving
<1>5. g = Advance(Top(t)) => g.at = "deps"
  <2>1. Advance(Top(t)).at = label
    BY <1>1, MovedFields
  <2>2. Goto(Top(t), "deps").at = "deps"
    BY <1>1, MovedFields
  <2>3. g = Advance(Top(t)) => g.at = label
    BY <2>1
  <2> QED
    BY <1>2, <2>3
<1> QED
  BY <1>2, <1>4, <1>5 DEF Resolving, Inner

LEMMA EnterPure ==
    ASSUME PureInv, NEW t \in Tasks, Enter(t)
    PROVE  Pure'
<1> DEFINE f == Top(t)
<1>1. At(t, "enter") /\ UNCHANGED <<app, resolved, scope, made>>
  BY DEF Enter, store
<1>2. CASE Return(t)
  BY <1>1, <1>2, EndPure
<1>3. CASE Continue(t, Goto(f, "scope")) /\ app.params[f.who] = <<>>
  <2>1. Settled(app, resolved, f.who)
    BY <1>3 DEF Settled
  <2> QED
    BY <1>1, <1>3, <2>1, ResolvingPure, MovePure
<1>4. CASE Continue(t, Goto(f, "deps"))
  BY <1>1, <1>4, ResolvingPure, MovePure
<1>5. Return(t) \/ Continue(t, Goto(f, IF app.params[f.who] = <<>> THEN "scope"
                                       ELSE "deps"))
  BY DEF Enter
<1> QED
  <2>1. CASE app.params[f.who] = <<>>
    BY <1>2, <1>3, <1>5, <2>1
  <2>2. CASE app.params[f.who] # <<>>
    BY <1>2, <1>4, <1>5, <2>2
  <2> QED
    BY <2>1, <2>2

LEMMA ResolveDependencyPure ==
    ASSUME PureInv, NEW t \in Tasks, ResolveDependency(t)
    PROVE  Pure'
<1> DEFINE f == Top(t)
           g == Advance(f)
           k == app.params[f.who][f.i]
           h == Call("enter", available[k], k, f.who)
<1>1. At(t, "deps") /\ UNCHANGED <<app, resolved, scope, made>>
  BY DEF ResolveDependency, store
<1>2. /\ FramePure(app, resolved, scope, made, g) /\ g.at = "deps"
      /\ g.at \in Resolving /\ "deps" \in Resolving /\ "deps" \notin Inner
      /\ g.parent = f.parent /\ g.who = f.who
  BY <1>1, ResolvingPure
<1>3. CASE Continue(t, g)
  <2> HIDE DEF g
  <2> QED
    BY <1>1, <1>2, <1>3, MovePure
<1>4. CASE Push(t, g, h)
  <2>1. h.at = "enter" /\ h.ctx = None /\ h.parent = f.who /\ h.args = <<>>
    BY CalledFields
  <2> HIDE DEF g, h
  <2>2. FramePure(app, resolved, scope, made, h)
    BY <2>1, FreePure DEF Free
  <2>3. Follows(scope, g, h)
    BY <1>2, <2>1 DEF Follows
  <2>4. Tops(scope, Below(t), g)
    BY <1>1, <1>2, TopsOn
  <2>5. TurnPure(resolved, scope, made, t)
    BY <1>1, <1>2, <1>4, <2>2, <2>3, <2>4, PushPure
  <2> QED
    BY <1>1, <2>5, PureSame
<1>5. CASE Throw(t)
  BY <1>1, <1>5, EndPure
<1> QED
  BY <1>3, <1>4, <1>5 DEF ResolveDependency

LEMMA DependenciesResolvedPure ==
    ASSUME PureInv, NEW t \in Tasks, DependenciesResolved(t)
    PROVE  Pure'
<1> DEFINE f == Top(t)
           g == Goto(f, "scope")
<1>1. /\ At(t, "deps") /\ f.i > Len(app.params[f.who]) /\ Await(t, g)
      /\ UNCHANGED <<app, resolved, scope, made>>
  BY DEF DependenciesResolved, store
<1>2. Settled(app, resolved, f.who)
  <2>1. /\ f.i \in Nat \ {0} /\ app.params[f.who] \in Seq(Keys)
        /\ \A n \in DOMAIN app.params[f.who] : n < f.i =>
             resolved[app.params[f.who][n]] # None
    BY <1>1, DepsDue DEF PureInv, ShareInv
  <2>2. \A n \in DOMAIN app.params[f.who] : n < f.i
    BY <1>1, <2>1
  <2> QED
    BY <2>1, <2>2 DEF Settled
<1>3. /\ FramePure(app, resolved, scope, made, g) /\ g.parent = f.parent
      /\ "deps" \in Resolving /\ "deps" \notin Inner
  BY <1>1, <1>2, ResolvingPure
<1> HIDE DEF g
<1> QED
  BY <1>1, <1>3, MovePure

-----------------------------------------------------------------------------
(* The decision.  What is registered as a factory has a scope other than   *)
(* the global one, so a class all of whose dependencies are global, or, if *)
(* a controller, none of whose is a request's, reads no other factories.   *)

LEMMA ReadableDependencies ==
    ASSUME PureInv, NEW c \in Classes, Settled(app, resolved, c),
           \/ DependencyScopes(c) \subseteq {"GLOBAL"}
           \/ c \in Controllers /\ "REQUEST" \notin DependencyScopes(c)
    PROVE  \A n \in DOMAIN app.params[c] :
             Readable(scope, c, resolved[app.params[c][n]])
<1> SUFFICES ASSUME NEW n \in DOMAIN app.params[c],
                    resolved[app.params[c][n]].kind = "factory"
             PROVE  /\ c \in Controllers
                    /\ Transient(scope, resolved[app.params[c][n]].class)
  BY DEF Readable
<1> DEFINE k == app.params[c][n]
           d == resolved[k].class
<1>1. /\ app.params \in [Classes -> Seq(Keys)] /\ scope \in [Services -> Scopes]
      /\ RegistryPure(app, resolved, scope)
  BY PureBase
<1>2. k \in Keys /\ k \in AllKeys /\ k \in Dependencies(c)
  BY <1>1 DEF AllKeys, Dependencies
<1>3. resolved[k] # None
  BY DEF Settled
<1>4. d \in Services /\ scope[d] # "GLOBAL"
  BY <1>1, <1>2, <1>3 DEF RegistryPure
<1>5. scope[d] \in DependencyScopes(c)
  BY <1>2, <1>3, <1>4 DEF DependencyScopes
<1> HIDE DEF d
<1>6. c \in Controllers /\ scope[d] # "REQUEST"
  BY <1>4, <1>5
<1>7. scope[d] = "TRANSIENT"
  BY <1>1, <1>4, <1>6 DEF Scopes
<1> QED
  BY <1>4, <1>6, <1>7 DEF Transient, d

(* A class becomes a singleton: its arguments are read next.               *)
LEMMA DecidedPure ==
    ASSUME PureInv, NEW t \in Tasks, NEW label \in {"scope", "control"},
           At(t, label), Settled(app, resolved, Top(t).who),
           \/ DependencyScopes(Top(t).who) \subseteq {"GLOBAL"}
           \/ /\ Top(t).who \in Controllers
              /\ "REQUEST" \notin DependencyScopes(Top(t).who),
           Continue(t, Goto(Top(t), "args")),
           label = "control" => Top(t).parent = None,
           UNCHANGED <<app, resolved, scope, made>>
    PROVE  Pure'
<1> DEFINE f == Top(t)
           g == Goto(f, "args")
<1>1. /\ f \in Frame /\ f \in GoodFrame /\ f.at = label
      /\ FramePure(app, resolved, scope, made, f)
  BY PureFacts
<1>2. f.who \in Classes
  BY <1>1 DEF GoodFrame, FrameOK, Classes
<1>3. /\ g.at = "args" /\ g.who = f.who /\ g.ctx = f.ctx
      /\ g.parent = f.parent /\ g.args = f.args
  BY <1>1, MovedFields
<1>4. f.ctx = None /\ f.args = <<>>
  BY <1>1 DEF FramePure, Resolving
<1>5. \A n \in DOMAIN app.params[f.who] :
        Readable(scope, f.who, resolved[app.params[f.who][n]])
  BY <1>2, ReadableDependencies
<1> HIDE DEF g
<1>6. FramePure(app, resolved, scope, made, g)
  <2>1. DOMAIN g.args = {}
    BY <1>3, <1>4
  <2> QED
    BY <1>3, <1>4, <1>5, <2>1 DEF FramePure
<1>7. label \notin Inner /\ (label = "scope" => label \in Resolving)
  BY DEF Inner, Resolving
<1> QED
  BY <1>3, <1>6, <1>7, MovePure DEF g

LEMMA DecideSinglePure ==
    ASSUME PureInv, NEW t \in Tasks, DecideSingle(t)
    PROVE  Pure'
<1>1. /\ At(t, "scope") /\ UNCHANGED <<app, resolved, scope, made>>
      /\ DependencyScopes(Top(t).who) \subseteq {"GLOBAL"}
      /\ Continue(t, Goto(Top(t), "args"))
  BY DEF DecideSingle, CanBeSingleton, store
<1>2. Settled(app, resolved, Top(t).who)
  BY <1>1, PureFacts DEF FramePure, Ready
<1> QED
  BY <1>1, <1>2, DecidedPure

LEMMA ControlPure ==
    ASSUME PureInv, NEW t \in Tasks, Control(t)
    PROVE  Pure'
<1> DEFINE f == Top(t)
<1>1. At(t, "control") /\ UNCHANGED <<app, resolved, scope, made>>
  BY DEF Control, store
<1>2. CASE Throw(t)
  BY <1>1, <1>2, EndPure
<1>3. CASE /\ \A k \in Dependencies(f.who) : resolved[k] # None
           /\ "REQUEST" \notin DependencyScopes(f.who)
           /\ Continue(t, Goto(f, "args"))
  <2>1. Settled(app, resolved, f.who)
    BY <1>3 DEF Dependencies, Settled
  <2>2. /\ f \in GoodFrame /\ f.at = "control"
        /\ FramePure(app, resolved, scope, made, f)
    BY <1>1, PureFacts
  <2>3. f.who \in Controllers /\ f.parent = None
    BY <2>2 DEF GoodFrame, FrameOK, FramePure
  <2> QED
    BY <1>1, <1>3, <2>1, <2>3, DecidedPure
<1> QED
  BY <1>2, <1>3 DEF Control

(* A class that was asked for by another one is scoped: the other one      *)
(* still waits for it, so that its own scope, which is overwritten, is     *)
(* nobody's yet.                                                           *)
LEMMA DecideScopedPure ==
    ASSUME PureInv, SoleRegistrar(Apps), NEW t \in Tasks, DecideScoped(t)
    PROVE  Pure'
<1> DEFINE f == Top(t)
           b == Below(t)
           e == FactoryEntry(f.who, scope[f.who] = "TRANSIENT")
<1>1. /\ At(t, "scope") /\ Resolve(f.key, e) /\ Return(t)
      /\ scope' = [c \in Services |->
                     IF (c = f.who /\ scope[c] = "GLOBAL") \/ c = f.parent
                     THEN "REQUEST" ELSE scope[c]]
      /\ UNCHANGED <<app, made>>
  BY DEF DecideScoped
<1>2. /\ f \in GoodFrame /\ f.at = "scope" /\ Tops(scope, b, f)
      /\ FramePure(app, resolved, scope, made, f)
  BY <1>1, PureFacts
<1>3. Belongs(t, f) /\ MayCarry(app, resolved, available, b, f)
  BY <1>1, ShareFacts DEF PureInv
<1>4. f.who \in Services /\ f.who \in Classes /\ f.key \in AllKeys
  BY <1>2 DEF GoodFrame, FrameOK, Classes, AllKeys
<1>5. Settled(app, resolved, f.who)
  BY <1>2 DEF FramePure, Ready
<1>6. e \in GoodEntry /\ e.class = f.who /\ e.kind = "factory"
  <2>1. (scope[f.who] = "TRANSIENT") \in BOOLEAN
    OBVIOUS
  <2> QED
    BY <1>4, <2>1 DEF FactoryEntry, GoodEntry, Entry, Classes
<1>7. scope \in [Services -> Scopes]
  BY PureBase
<1> HIDE DEF e
<1>8. Keeps(resolved, resolved')
  BY <1>1, <1>4, <1>6, RegisteredKey DEF PureInv, ShareInv
<1>9. ASSUME NEW c \in Services, Settled(app, resolved, c), f.parent = c
      PROVE  FALSE
  <2>1. f.parent # None /\ f.at \in Resolving
    BY <1>2, <1>9, NamesAssumption DEF Resolving
  <2>2. b # <<>> /\ b[Len(b)].at = "deps" /\ b[Len(b)].who = c
    BY <1>2, <1>9, <2>1 DEF Tops, Follows
  <2>3. Needed(app, resolved, available, b[Len(b)], f)
    BY <1>3, <2>2 DEF MayCarry
  <2> QED
    BY <1>9, <2>2, <2>3 DEF Needed, Settled
<1>10. Moves(app, resolved, resolved', scope, scope')
  <2>1. \A c \in Services : scope[c] # "GLOBAL" => scope'[c] # "GLOBAL"
    BY <1>1
  <2>2. \A c \in Services :
          Settled(app, resolved, c) /\ Transient(scope, c) => Transient(scope', c)
    BY <1>1, <1>9 DEF Transient
  <2> QED
    BY <1>8, <2>1, <2>2 DEF Moves
<1>11. scope'[f.who] # "GLOBAL"
  BY <1>1, <1>4
<1>12. Registrar(t) /\ "scope" \notin Inner
  BY <1>2, <1>3 DEF Belongs, Resolving, Inner
<1> HIDE DEF f, b
<1> QED
  BY <1>1, <1>4, <1>5, <1>6, <1>10, <1>11, <1>12, ResolvePure DEF b

LEMMA ControlScopedPure ==
    ASSUME PureInv, SoleRegistrar(Apps), NEW t \in Tasks, ControlScoped(t)
    PROVE  Pure'
<1> DEFINE c == Top(t).who
           e == FactoryEntry(c, FALSE)
<1>1. /\ At(t, "control") /\ Resolve(c, e) /\ Return(t)
      /\ \A k \in Dependencies(c) : resolved[k] # None
      /\ UNCHANGED <<app, scope, made>>
  BY DEF ControlScoped
<1>2. Top(t) \in GoodFrame /\ Top(t).at = "control" /\ Belongs(t, Top(t))
  BY <1>1, ShareFacts DEF PureInv
<1>3. /\ c \in Classes /\ c \in AllKeys /\ c \notin Keys /\ Registrar(t)
      /\ "control" \notin Inner
  BY <1>2, NamesAssumption DEF GoodFrame, FrameOK, Classes, AllKeys, Belongs,
                               Registrar, Inner
<1>4. e \in GoodEntry /\ e.class = c
  BY <1>3 DEF FactoryEntry, GoodEntry, Entry, Classes
<1>5. Settled(app, resolved, c)
  BY <1>1 DEF Dependencies, Settled
<1> HIDE DEF e, c
<1>6. Keeps(resolved, resolved')
  BY <1>1, <1>3, <1>4, RegisteredKey DEF PureInv, ShareInv
<1>7. Moves(app, resolved, resolved', scope, scope')
  BY <1>1, <1>6, KeepMoves
<1> QED
  BY <1>1, <1>3, <1>4, <1>5, <1>7, ResolvePure

-----------------------------------------------------------------------------
(* The arguments.                                                          *)

LEMMA ReadPure ==
    ASSUME PureInv, NEW t \in Tasks, NEW label \in {"args", "make", "get"},
           At(t, label), NEW k \in AllKeys,
           label = "args" =>
             Readable(scope, Top(t).who, resolved[k]),
           Read(t, k, Top(t).ctx), UNCHANGED <<app, resolved, scope, made>>
    PROVE  Pure'
<1> DEFINE f == Top(t)
           ref == resolved[k].ref
           g == [f EXCEPT !.args = Append(@, ref)]
           h == Factory(k, f.ctx)
<1>1. /\ f \in Frame /\ f \in GoodFrame /\ f.at = label
      /\ FramePure(app, resolved, scope, made, f) /\ Tops(scope, Below(t), f)
      /\ StackPure(app, resolved, scope, made, Below(t))
  BY PureFacts
<1>2. CASE Throw(t)
  BY <1>2, EndPure
<1>3. CASE /\ resolved[k] # None /\ resolved[k].kind # "factory"
           /\ Await(t, g)
  <2>1. resolved[k] \in GoodEntry /\ RegistryIso(made, resolved)
    BY <1>3, PureBase
  <2>2. ref \in Nat
    BY <2>1 DEF GoodEntry, Entry
  <2>3. Harmless(scope, made, f.who, ref)
    BY <1>3, <2>1 DEF RegistryIso, Shared, Harmless
  <2>4. g = [f EXCEPT !.args = Append(@, ref)]
    OBVIOUS
  <2> HIDE DEF f, g, ref
  <2>5. /\ FramePure(app, resolved, scope, made, g)
        /\ g.at = f.at /\ g.who = f.who /\ g.ctx = f.ctx /\ g.parent = f.parent
    BY <1>1, <2>2, <2>3, <2>4, HandedPure
  <2>6. Tops(scope, Below(t), g)
    BY <1>1, <2>5 DEF Tops, Follows
  <2>7. TurnPure(resolved, scope, made, t)
    BY <1>1, <1>3, <2>5, <2>6, ContinuePure
  <2> QED
    BY <2>7, PureSame
<1>4. CASE /\ resolved[k] # None /\ resolved[k].kind = "factory"
           /\ Push(t, f, h)
  <2>1. /\ h.at = "make" /\ h.who = resolved[k].class /\ h.ctx = f.ctx
    BY DEF Factory, Call
  <2>2. Settled(app, resolved, resolved[k].class)
    BY <1>4, PureBase DEF RegistryPure
  <2>3. label = "args" =>
          f.ctx = None /\ f.who \in Controllers
          /\ Transient(scope, resolved[k].class)
    BY <1>1, <1>4 DEF FramePure, Readable, Resolving
  <2> HIDE DEF f, h
  <2>4. FramePure(app, resolved, scope, made, h)
    BY <2>1, <2>2 DEF FramePure, Resolving
  <2>5. Follows(scope, f, h)
    BY <1>1, <2>1, <2>3 DEF Follows, Resolving
  <2>6. TurnPure(resolved, scope, made, t)
    BY <1>1, <1>4, <2>4, <2>5, PushPure
  <2> QED
    BY <2>6, PureSame
<1> QED
  BY <1>2, <1>3, <1>4 DEF Read

LEMMA ReadArgumentPure ==
    ASSUME PureInv, NEW t \in Tasks, ReadArgument(t)
    PROVE  Pure'
<1> DEFINE f == Top(t)
           n == Len(f.args) + 1
           k == app.params[f.who][n]
<1>1. /\ At(t, "args") \/ At(t, "make")
      /\ ~ Complete(f)
      /\ Read(t, k, f.ctx) /\ UNCHANGED <<app, resolved, scope, made>>
  BY DEF ReadArgument, store
<1>2. PICK label \in {"args", "make"} : At(t, label)
  BY <1>1
<1>3. /\ f \in GoodFrame /\ f \in Frame /\ f.at = label
      /\ FramePure(app, resolved, scope, made, f)
  BY <1>2, PureFacts
<1>4. f.who \in Classes /\ Len(f.args) \in Nat
  BY <1>3 DEF GoodFrame, FrameOK, Frame
<1>5. app.params[f.who] \in Seq(Keys)
  BY <1>4, PureBase
<1>6. n \in DOMAIN app.params[f.who] /\ k \in AllKeys
  BY <1>1, <1>4, <1>5 DEF Complete, AllKeys
<1>7. label = "args" => Readable(scope, f.who, resolved[k])
  BY <1>3, <1>6 DEF FramePure
<1> QED
  BY <1>1, <1>2, <1>6, <1>7, ReadPure

LEMMA GetControllerPure ==
    ASSUME PureInv, NEW r \in Requests, GetController(r)
    PROVE  Pure'
<1>1. /\ At(r, "get") /\ Read(r, Top(r).key, Top(r).ctx) /\ r \in Tasks
      /\ UNCHANGED <<app, resolved, scope, made>>
  BY DEF GetController, store, Tasks
<1>2. Top(r) \in GoodFrame /\ Top(r).at = "get"
  BY <1>1, PureFacts
<1>3. Top(r).key \in AllKeys
  BY <1>2 DEF GoodFrame, FrameOK, AllKeys
<1> QED
  BY <1>1, <1>3, ReadPure

LEMMA ConstructPure ==
    ASSUME PureInv, SoleRegistrar(Apps), NEW t \in Tasks, Construct(t)
    PROVE  Pure'
<1> DEFINE f == Top(t)
           e == SingleEntry(f.who)
           x == Built(f, TRUE)
           p == Append(made, x)
<1>1. /\ At(t, "args") /\ Resolve(f.key, e) /\ Return(t)
      /\ made' = p /\ UNCHANGED <<app, scope>>
  BY DEF Construct
<1>2. /\ f \in GoodFrame /\ f.at = "args" /\ stack[t] # <<>>
      /\ Below(t) \in Seq(GoodFrame)
      /\ FramePure(app, resolved, scope, made, f)
      /\ StackPure(app, resolved, scope, made, Below(t))
      /\ \A j \in 1 .. Len(Below(t)) : Below(t)[j].at # "args"
  BY <1>1, PureFacts DEF Inner
<1>3. f.who \in Classes /\ f.key \in AllKeys
  BY <1>2 DEF GoodFrame, FrameOK
<1>4. e \in GoodEntry /\ e.kind = "single"
  BY <1>3, EntriesOK DEF SingleEntry, PureInv, ShareInv, RegInv
<1>5. /\ x \in Instance /\ x.class = f.who /\ x.args = f.args
  BY <1>2, <1>3, BuiltOK DEF Built
<1>6. Registrar(t)
  <2>1. Belongs(t, f)
    BY <1>1, ShareFacts DEF PureInv
  <2> QED
    BY <1>2, <2>1 DEF Belongs, Resolving
<1> HIDE DEF e, x
<1>7. Keeps(resolved, resolved')
  BY <1>1, <1>3, <1>4, RegisteredKey DEF PureInv, ShareInv
<1>8. Moves(app, resolved, resolved', scope, scope)
  BY <1>7, KeepMoves
<1>9. /\ app.params \in [Classes -> Seq(Keys)] /\ made \in Seq(Instance)
      /\ MadePure(app, resolved, scope, made)
  BY PureBase
<1>10. Grows(made, p)
  BY <1>5, <1>9, GrowsAppend
<1>11. MadePure(app, resolved', scope, p)
  <2>1. /\ Settled(app, resolved, x.class)
        /\ \A n \in DOMAIN x.args : Harmless(scope, made, x.class, x.args[n])
    BY <1>2, <1>5 DEF FramePure, Ready
  <2>2. MadePure(app, resolved, scope, p)
    BY <1>5, <1>9, <2>1, MadeAdds
  <2>3. p \in Seq(Instance)
    BY <1>5, <1>9
  <2> HIDE DEF p
  <2> QED
    BY <1>8, <1>9, <2>2, <2>3, MadeMoves
<1> HIDE DEF p
<1>12. RegistryPure(app, resolved', scope)
  BY <1>1, <1>3, <1>4, <1>8, RegistryMoves
<1>13. TurnPure(resolved', scope, p, t)
  <2>1. StackPure(app, resolved', scope, p, Below(t))
    BY <1>2, <1>8, <1>9, <1>10, StackMoves
  <2> QED
    BY <1>1, <2>1, ReturnPure
<1>14. \A u \in Tasks : u # t =>
         \A j \in 1 .. Len(stack[u]) : stack[u][j].at # "args"
  BY <1>2, <1>6, OthersFree
<1> QED
  BY <1>1, <1>8, <1>10, <1>11, <1>12, <1>13, <1>14, PureStep

(* A frame of a request's context is not asked for by a singleton.         *)
LEMMA NoSingletonBelow ==
    ASSUME PureInv, NEW t \in Tasks, NEW label, At(t, label),
           Top(t).ctx # None, Below(t) # <<>>
    PROVE  Below(t)[Len(Below(t))].at # "args"
<1>1. Tops(scope, Below(t), Top(t))
  BY PureFacts
<1> QED
  BY <1>1 DEF Tops, Follows

LEMMA CacheHitPure ==
    ASSUME PureInv, NEW t \in Tasks, CacheHit(t)
    PROVE  Pure'
<1> DEFINE ref == ctxCache[Top(t).ctx][Top(t).key]
<1>1. /\ At(t, "make") /\ Hit(Top(t)) /\ Answer(t, ref)
      /\ UNCHANGED <<app, resolved, scope, made>>
  BY DEF CacheHit, store
<1>2. Top(t) \in GoodFrame /\ Top(t).at = "make"
  BY <1>1, PureFacts
<1>3. /\ Top(t).ctx \in Requests /\ Top(t).ctx # None
      /\ Top(t).key \in AllKeys
  BY <1>1, <1>2, NamesAssumption DEF Hit, GoodFrame, FrameOK
<1>4. ref \in Nat
  BY <1>3 DEF PureInv, IsoInv, TypeInv, StoreOK
<1>5. Grows(made, made) /\ "make" \in Inner
  BY DEF Grows, Inner
<1> HIDE DEF ref
<1>6. TurnPure(resolved, scope, made, t)
  BY <1>1, <1>3, <1>4, <1>5, NoSingletonBelow, AnswerPure
<1> QED
  BY <1>1, <1>6, PureSame

LEMMA MakePure ==
    ASSUME PureInv, NEW t \in Tasks, Make(t)
    PROVE  Pure'
<1> DEFINE f == Top(t)
           x == Built(f, FALSE)
           ref == Len(made) + 1
<1>1. /\ At(t, "make") /\ made' = Append(made, x) /\ Answer(t, ref)
      /\ UNCHANGED <<app, resolved, scope>>
  BY DEF Make
<1>2. f \in GoodFrame /\ f.at = "make" /\ Tops(scope, Below(t), f)
  BY <1>1, PureFacts
<1>3. f.who \in Classes /\ f.key \in AllKeys
  BY <1>2 DEF GoodFrame, FrameOK
<1>4. x \in Instance /\ x.class = f.who
  BY <1>2, <1>3, BuiltOK DEF Built
<1>5. ref \in Nat /\ made \in Seq(Instance)
  BY PureBase
<1> HIDE DEF x
<1>6. Grows(made, made') /\ ref \in DOMAIN made' /\ made'[ref] = x
  BY <1>1, <1>4, <1>5, GrowsAppend
<1> HIDE DEF ref
<1>7. \A low \in GoodFrame :
        /\ Below(t) # <<>> /\ low = Below(t)[Len(Below(t))]
        /\ low.at = "args"
        => Harmless(scope, made', low.who, ref)
  BY <1>2, <1>4, <1>6 DEF Tops, Follows, Harmless
<1>8. "make" \in Inner
  BY DEF Inner
<1>9. TurnPure(resolved, scope, made', t)
  BY <1>1, <1>5, <1>6, <1>7, <1>8, AnswerPure
<1> QED
  BY <1>1, <1>8, <1>9, PureAdds DEF x

LEMMA MakeHookedPure ==
    ASSUME PureInv, NEW t \in Tasks, MakeHooked(t)
    PROVE  Pure'
<1> DEFINE f == Top(t)
           x == Built(f, FALSE)
           g == [f EXCEPT !.at = "hook", !.i = Len(made) + 1]
<1>1. /\ At(t, "make") /\ f.ctx # None /\ made' = Append(made, x)
      /\ Await(t, g) /\ UNCHANGED <<app, resolved, scope>>
  BY DEF MakeHooked
<1>2. /\ f \in GoodFrame /\ f \in Frame /\ f.at = "make"
      /\ Below(t) \in Seq(GoodFrame)
      /\ FramePure(app, resolved, scope, made, f)
      /\ StackPure(app, resolved, scope, made, Below(t))
  BY <1>1, PureFacts
<1>3. f.who \in Classes /\ f.key \in AllKeys
  BY <1>2 DEF GoodFrame, FrameOK
<1>4. x \in Instance
  BY <1>2, <1>3, BuiltOK
<1>5. /\ g.at = "hook" /\ g.who = f.who /\ g.ctx = f.ctx
  BY <1>2 DEF Frame
<1> HIDE DEF g, x
<1>6. Grows(made, made')
  BY <1>1, <1>4, PureBase, GrowsAppend
<1>7. StackPure(app, resolved, scope, made', Below(t))
  BY <1>2, <1>6, PureBase, SameMoves, StackMoves
<1>8. FramePure(app, resolved, scope, made', g)
  BY <1>1, <1>2, <1>5 DEF FramePure, Ready, Inner, Resolving
<1>9. Tops(scope, Below(t), g)
  <2>1. Below(t) # <<>> => Below(t)[Len(Below(t))].at # "args"
    BY <1>1, NoSingletonBelow
  <2> QED
    BY <1>5, <2>1 DEF Tops, Follows, Resolving
<1>10. TurnPure(resolved, scope, made', t)
  BY <1>1, <1>7, <1>8, <1>9, ContinuePure
<1>11. "make" \in Inner
  BY DEF Inner
<1> QED
  BY <1>1, <1>10, <1>11, PureAdds DEF x

LEMMA HookDonePure ==
    ASSUME PureInv, NEW t \in Tasks, HookDone(t)
    PROVE  Pure'
<1> DEFINE ref == Top(t).i
<1>1. /\ At(t, "hook") /\ Answer(t, ref)
      /\ UNCHANGED <<app, resolved, scope, made>>
  BY DEF HookDone
<1>2. /\ Top(t) \in Frame /\ Top(t).at = "hook"
      /\ FramePure(app, resolved, scope, made, Top(t))
  BY <1>1, PureFacts
<1>3. ref \in Nat /\ Top(t).ctx # None
  BY <1>2 DEF Frame, FramePure
<1>4. Grows(made, made) /\ "hook" \in Inner
  BY DEF Grows, Inner
<1> HIDE DEF ref
<1>5. TurnPure(resolved, scope, made, t)
  BY <1>1, <1>3, <1>4, NoSingletonBelow, AnswerPure
<1> QED
  BY <1>1, <1>5, PureSame

-----------------------------------------------------------------------------
(* Requests come and go.                                                   *)

LEMMA ArrivePure ==
    ASSUME PureInv, NEW r \in Requests, Arrive(r)
    PROVE  Pure'
<1> DEFINE f == [Call("list", r, app.route[r], None) EXCEPT !.ctx = r]
<1>1. /\ stack' = [stack EXCEPT ![r] = <<f>>] /\ r \in Tasks
      /\ UNCHANGED <<app, resolved, scope, made>>
  BY DEF Arrive, store, Tasks
<1>2. f.at = "list"
  BY DEF Call
<1> HIDE DEF f
<1>3. FramePure(app, resolved, scope, made, f)
  BY <1>2, FreePure DEF Free, Resolving
<1>4. StackPure(app, resolved, scope, made, <<f>>)
  BY <1>2, <1>3 DEF StackPure, Resolving
<1>5. TurnPure(resolved, scope, made, r)
  <2>1. stack \in [Tasks -> Seq(GoodFrame)]
    BY DEF PureInv, ShareInv, RegInv, TypeInv, ControlOK
  <2> QED
    BY <1>1, <1>4, <2>1 DEF TurnPure
<1> QED
  BY <1>1, <1>5, PureSame

LEMMA StillPure ==
    ASSUME PureInv, UNCHANGED <<app, resolved, scope, made, stack>>
    PROVE  Pure'
BY DEF PureInv, Pure

LEMMA RequestPure ==
    ASSUME PureInv, NEW r \in Requests, RequestStep(r)
    PROVE  Pure'
<1>1. CASE GetController(r)
  BY <1>1, GetControllerPure
<1>2. CASE Serve(r)
  <2>1. /\ At(r, "get") /\ r \in Tasks
        /\ Return(r) \/ Throw(r)
        /\ UNCHANGED <<app, resolved, scope, made>>
    BY <1>2 DEF Serve, store, Tasks
  <2> QED
    BY <2>1, EndPure
<1>3. CASE HandleError(r)
  BY <1>3, StillPure DEF HandleError
<1> QED
  BY <1>1, <1>2, <1>3 DEF RequestStep

LEMMA StepPure ==
    ASSUME PureInv, SoleRegistrar(Apps), NEW t \in Tasks, Step(t)
    PROVE  Pure'
<1>1. CASE Import(t) \/ Offer(t) \/ ProvideValue(t) \/ ProvideClass(t)
  BY <1>1, ImportPure, OfferPure, ProvideValuePure, ProvideClassPure
<1>2. CASE Listed(t) \/ NextController(t) \/ Publish(t)
  BY <1>2, ListedPure, NextControllerPure, PublishPure
<1>3. CASE Enter(t) \/ ResolveDependency(t) \/ DependenciesResolved(t)
  BY <1>3, EnterPure, ResolveDependencyPure, DependenciesResolvedPure
<1>4. CASE DecideSingle(t) \/ DecideScoped(t)
  BY <1>4, DecideSinglePure, DecideScopedPure
<1>5. CASE Control(t) \/ ControlScoped(t)
  BY <1>5, ControlPure, ControlScopedPure
<1>6. CASE ReadArgument(t) \/ Construct(t)
  BY <1>6, ReadArgumentPure, ConstructPure
<1>7. CASE CacheHit(t) \/ Make(t) \/ MakeHooked(t) \/ HookDone(t)
  BY <1>7, CacheHitPure, MakePure, MakeHookedPure, HookDonePure
<1>8. CASE HookThrows(t)
  BY <1>8, EndPure DEF HookThrows, store
<1> QED
  BY <1>1, <1>2, <1>3, <1>4, <1>5, <1>6, <1>7, <1>8 DEF Step

LEMMA InitPure == Init => Pure
<1> SUFFICES ASSUME Init PROVE Pure
  OBVIOUS
<1>1. RegistryPure(app, resolved, scope)
  BY DEF Init, RegistryPure
<1>2. MadePure(app, resolved, scope, made)
  BY DEF Init, MadePure
<1>3. ASSUME NEW t \in Tasks
      PROVE  StackPure(app, resolved, scope, made, stack[t])
  <2>1. CASE t = Boot
    <3> DEFINE f == Call("imports", app.entry, None, None)
    <3>1. stack[t] = <<f>>
      BY <2>1 DEF Init, Tasks
    <3>2. f.at = "imports"
      BY CalledFields
    <3> HIDE DEF f
    <3>3. FramePure(app, resolved, scope, made, f)
      BY <3>2, FreePure DEF Free, Resolving
    <3> QED
      BY <3>1, <3>2, <3>3 DEF StackPure, Resolving
  <2>2. CASE t # Boot
    BY <2>2 DEF Init, StackPure
  <2> QED
    BY <2>1, <2>2
<1> QED
  BY <1>1, <1>2, <1>3 DEF Pure

LEMMA NextPure ==
    ASSUME PureInv, OneKeyPerClass(Apps), SoleRegistrar(Apps), [Next]_vars
    PROVE  PureInv'
<1>1. ShareInv' /\ IsoInv'
  BY NextShare, NextIso DEF PureInv
<1>2. Pure'
  <2>1. CASE UNCHANGED vars
    BY <2>1, StillPure DEF vars, store
  <2>2. CASE \E t \in Tasks : Step(t)
    BY <2>2, StepPure
  <2>3. CASE \E r \in Requests : Arrive(r) \/ RequestStep(r)
    BY <2>3, ArrivePure, RequestPure
  <2>4. CASE Quiet
    BY <2>1, <2>4 DEF Quiet
  <2> QED
    BY <2>1, <2>2, <2>3, <2>4 DEF Next
<1> QED
  BY <1>1, <1>2 DEF PureInv

(* A singleton injectable never holds an instance made by a factory, and a *)
(* singleton controller at most a transient one, although a class's scope  *)
(* is overwritten while the graph is being resolved.                       *)
THEOREM SingletonsPure ==
    ASSUME OneKeyPerClass(Apps), SoleRegistrar(Apps)
    PROVE  Spec => []PureSingletons
<1>1. Init => PureInv
  BY InitType, InitReg, InitShare, InitIso, InitPure
     DEF PureInv, ShareInv, RegInv
<1>2. PureInv /\ [Next]_vars => PureInv'
  BY NextPure
<1>3. PureInv => PureSingletons
  <2> SUFFICES ASSUME PureInv, NEW i \in Instances, made[i].shared,
                      NEW x \in Captured(i)
               PROVE  \/ made[x].shared
                      \/ /\ made[i].class \in Controllers
                         /\ scope[made[x].class] = "TRANSIENT"
    BY DEF PureSingletons
  <2>1. PICK n \in DOMAIN made[i].args : x = made[i].args[n] /\ x # 0
    BY DEF Captured
  <2>2. Harmless(scope, made, made[i].class, x)
    BY <2>1 DEF PureInv, Pure, MadePure, Instances
  <2> QED
    BY <2>1, <2>2 DEF Harmless, Transient
<1> QED
  BY <1>1, <1>2, <1>3, PTL DEF Spec
=============================================================================
