--------------------------- MODULE Subscriptions ---------------------------
(* What an event emitter promises: an event goes to the listeners that its *)
(* channel has when it is emitted, each once, in the order in which they   *)
(* subscribed, except those that have been unsubscribed meanwhile.         *)
(* Emissions nest: a listener may emit.                                    *)
EXTENDS Naturals, Sequences

CONSTANT Channels

VARIABLES
    subscribed,  \* the listeners of each channel, by the order of subscription
    last,        \* the last subscription
    emissions    \* the emissions in progress, the innermost last

vars == <<subscribed, last, emissions>>

(* due: who is still to get the event; busy: a listener has it now.        *)
Emission == [channel : Channels, due : SUBSET Nat, busy : BOOLEAN]

Depth == Len(emissions)
Current == emissions[Depth]

(* The application's code runs at the top level or inside a listener.      *)
Runs == emissions # <<>> => Current.busy

Init ==
    /\ subscribed = [c \in Channels |-> {}]
    /\ last = 0
    /\ emissions = <<>>

Subscribe(c) ==
    /\ Runs
    /\ last' = last + 1
    /\ subscribed' = [subscribed EXCEPT ![c] = @ \cup {last'}]
    /\ UNCHANGED emissions

(* Some channels lose all their listeners.                                 *)
Unsubscribe(cs) ==
    /\ Runs
    /\ subscribed' = [c \in Channels |-> IF c \in cs THEN {} ELSE subscribed[c]]
    /\ emissions' = [i \in DOMAIN emissions |->
                       IF emissions[i].channel \in cs
                       THEN [emissions[i] EXCEPT !.due = {}] ELSE emissions[i]]
    /\ UNCHANGED last

Emit(c) ==
    /\ Runs
    /\ subscribed[c] # {}
    /\ emissions' = Append(emissions, [channel |-> c, due |-> subscribed[c],
                                       busy |-> FALSE])
    /\ UNCHANGED <<subscribed, last>>

Deliver ==
    /\ ~ Runs
    /\ \E l \in Current.due :
         /\ \A k \in Current.due : l <= k
         /\ emissions' = [emissions EXCEPT
                            ![Depth].due = @ \ {l}, ![Depth].busy = TRUE]
    /\ UNCHANGED <<subscribed, last>>

Handled ==
    /\ emissions # <<>> /\ Current.busy
    /\ emissions' = [emissions EXCEPT ![Depth].busy = FALSE]
    /\ UNCHANGED <<subscribed, last>>

Emitted ==
    /\ ~ Runs
    /\ Current.due = {}
    /\ emissions' = SubSeq(emissions, 1, Depth - 1)
    /\ UNCHANGED <<subscribed, last>>

Next ==
    \/ \E c \in Channels : Subscribe(c) \/ Emit(c)
    \/ \E cs \in SUBSET Channels : Unsubscribe(cs)
    \/ Deliver \/ Handled \/ Emitted

Spec == Init /\ [][Next]_vars

=============================================================================
