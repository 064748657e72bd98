---------------------------- MODULE EventEmitter ----------------------------
(***************************************************************************)
(* EventEmitter (src/events/events.ts) and the module that subscribes the  *)
(* methods decorated with @OnEvent (src/events/module.ts).  Everything is  *)
(* synchronous, so what makes it hard is reentrance: while an event is     *)
(* dispatched, a listener may emit, subscribe and unsubscribe.             *)
(*                                                                         *)
(* The emitter keeps the listeners twice, in a Map of its own and in the   *)
(* EventTarget that dispatches.  EventTarget is external: it dispatches to *)
(* the listeners there were at the start, but not to a removed one.        *)
(***************************************************************************)
EXTENDS Naturals, Sequences

CONSTANTS
    Channels,
    Declared,      \* the channels of the injectables' methods with @OnEvent
    MaxListeners,  \* bound: subscriptions ever made
    MaxDepth       \* bound: emissions within each other

ASSUME EmitterAssumption ==
    /\ Declared \in Seq(Channels)
    /\ MaxListeners \in Nat /\ MaxDepth \in Nat

VARIABLES
    listenersRegistered,  \* the Map: an absent channel is an empty sequence
    eventTarget,          \* the EventTarget's listeners
    lastListener,         \* each subscription makes a new listener
    dispatching,          \* the dispatches in progress, the innermost last
    bootstrap             \* the declared method whose turn it is, or 0

vars == <<listenersRegistered, eventTarget, lastListener, dispatching,
          bootstrap>>

Dispatch == [channel : Channels, left : Seq(Nat), busy : BOOLEAN]

Init ==
    /\ listenersRegistered = [c \in Channels |-> <<>>]
    /\ eventTarget = [c \in Channels |-> <<>>]
    /\ lastListener = 0
    /\ dispatching = <<>>
    /\ bootstrap = 0

Depth == Len(dispatching)
Current == dispatching[Depth]
Elements(s) == {s[i] : i \in DOMAIN s}

(* Code of the application runs at the top level or in a listener.         *)
Runs ==
    /\ bootstrap = 0
    /\ dispatching # <<>> => Current.busy

(* subscribe: each call makes a new function, so the target never takes    *)
(* two subscriptions for one.                                              *)
AddListener(c) ==
    /\ lastListener < MaxListeners
    /\ lastListener' = lastListener + 1
    /\ eventTarget' = [eventTarget EXCEPT ![c] = Append(@, lastListener')]
    /\ listenersRegistered' =
         [listenersRegistered EXCEPT ![c] = Append(@, lastListener')]
    /\ UNCHANGED dispatching

Subscribe(c) ==
    /\ Runs
    /\ AddListener(c)
    /\ UNCHANGED bootstrap

(* emit: it throws for a channel the Map does not have.                    *)
Emit(c) ==
    /\ Runs
    /\ listenersRegistered[c] # <<>>
    /\ Depth < MaxDepth
    /\ dispatching' = Append(dispatching,
         [channel |-> c, left |-> eventTarget[c], busy |-> FALSE])
    /\ UNCHANGED <<listenersRegistered, eventTarget, lastListener, bootstrap>>

(* EventTarget: the next listener is called, or passed over if it has been *)
(* removed since the dispatch began.                                       *)
Call ==
    /\ ~ Runs /\ bootstrap = 0
    /\ Current.left # <<>>
    /\ dispatching' = [dispatching EXCEPT
         ![Depth].left = Tail(@),
         ![Depth].busy = Head(Current.left) \in Elements(eventTarget[Current.channel])]
    /\ UNCHANGED <<listenersRegistered, eventTarget, lastListener, bootstrap>>

ListenerReturns ==
    /\ Runs /\ dispatching # <<>>
    /\ dispatching' = [dispatching EXCEPT ![Depth].busy = FALSE]
    /\ UNCHANGED <<listenersRegistered, eventTarget, lastListener, bootstrap>>

EmitReturns ==
    /\ ~ Runs /\ bootstrap = 0
    /\ Current.left = <<>>
    /\ dispatching' = SubSeq(dispatching, 1, Depth - 1)
    /\ UNCHANGED <<listenersRegistered, eventTarget, lastListener, bootstrap>>

(* removeEventListener, of every listener in gone: the others keep their   *)
(* places.                                                                 *)
Without(s, gone) ==
    LET kept[n \in 0 .. Len(s)] ==
          IF n = 0 THEN <<>>
          ELSE IF s[n] \in gone THEN kept[n - 1] ELSE Append(kept[n - 1], s[n])
    IN kept[Len(s)]

(* Mutant: the Map forgets the channel, the target keeps its listeners.    *)
DeleteChannelsHalf(cs) ==
    /\ listenersRegistered' =
         [c \in Channels |-> IF c \in cs THEN <<>> ELSE listenersRegistered[c]]
    /\ UNCHANGED <<eventTarget, lastListener, dispatching, bootstrap>>

(* deleteChannel, of some channels.                                        *)
DeleteChannels(cs) ==
    /\ eventTarget' = [c \in Channels |->
         IF c \in cs
         THEN Without(eventTarget[c], Elements(listenersRegistered[c]))
         ELSE eventTarget[c]]
    /\ listenersRegistered' =
         [c \in Channels |-> IF c \in cs THEN <<>> ELSE listenersRegistered[c]]
    /\ UNCHANGED <<lastListener, dispatching, bootstrap>>

(* unsubscribe(channelName).                                               *)
Unsubscribe(c) == Runs /\ DeleteChannels({c})

(* unsubscribe(), which is also what onAppClose does.                      *)
UnsubscribeAll == Runs /\ DeleteChannels(Channels)

(* onAppBootstrap: the module's hook runs once per init() of an            *)
(* application, from the top level, and subscribes every declared method.  *)
OnAppBootstrap ==
    /\ bootstrap = 0 /\ dispatching = <<>>
    /\ Declared # <<>>
    /\ lastListener + Len(Declared) <= MaxListeners
    /\ bootstrap' = 1
    /\ UNCHANGED <<listenersRegistered, eventTarget, lastListener, dispatching>>

RegisterMethod ==
    /\ bootstrap # 0
    /\ AddListener(Declared[bootstrap])
    /\ bootstrap' = IF bootstrap = Len(Declared) THEN 0 ELSE bootstrap + 1

Next ==
    \/ \E c \in Channels : Subscribe(c) \/ Emit(c) \/ Unsubscribe(c)
    \/ UnsubscribeAll
    \/ Call \/ ListenerReturns \/ EmitReturns
    \/ OnAppBootstrap \/ RegisterMethod

Spec == Init /\ [][Next]_vars

-----------------------------------------------------------------------------
(* Every variable has its type.                                            *)
TypeOK ==
    /\ listenersRegistered \in [Channels -> Seq(1 .. MaxListeners)]
    /\ eventTarget \in [Channels -> Seq(1 .. MaxListeners)]
    /\ lastListener \in 0 .. MaxListeners
    /\ dispatching \in Seq(Dispatch) /\ Len(dispatching) <= MaxDepth
    /\ bootstrap \in 0 .. Len(Declared)

(* Nested emissions, subscriptions and removals made by listeners included,*)
(* the emitter delivers each event as the abstract Subscriptions does.     *)
Promised == INSTANCE Subscriptions WITH
    subscribed <- [c \in Channels |-> Elements(listenersRegistered[c])],
    last <- lastListener,
    emissions <- [i \in DOMAIN dispatching |->
                    [channel |-> dispatching[i].channel,
                     due |-> Elements(dispatching[i].left) \cap
                             Elements(eventTarget[dispatching[i].channel]),
                     busy |-> dispatching[i].busy]]

ImplementsSubscriptions == Promised!Spec

=============================================================================
