---------------------------- MODULE FixedWindow ----------------------------
(* What a throttler's storage promises, in terms of windows only: the      *)
(* first hit of a key opens a window of the duration it asks for, every    *)
(* hit of the key is counted until the window has run its time, and then   *)
(* the key has no window again.  Windows are lost once, when the           *)
(* application closes.  There is no timer and nothing to evict.            *)
EXTENDS Naturals

CONSTANTS
    Keys,  \* the callers and routes that are told apart
    Ttls,  \* the durations of windows, in ticks of the clock
    None   \* no window

VARIABLES
    now,     \* the clock
    window,  \* the live window of each key
    reply,   \* what the last hit was told
    closed   \* whether the application has closed the storage

vars == <<now, window, reply, closed>>

Init ==
    /\ now = 0
    /\ window = [k \in Keys |-> None]
    /\ reply = None
    /\ closed = FALSE

Told(hits, left) == [totalHits |-> hits, timeToExpire |-> left]

Hit(k, ttl) ==
    /\ \/ /\ window[k] = None
          /\ window' = [window EXCEPT ![k] =
                          IF ttl = 0 THEN None
                          ELSE [hits |-> 1, until |-> now + ttl]]
          /\ reply' = Told(1, ttl)
       \/ /\ window[k] # None
          /\ window' = [window EXCEPT ![k].hits = @ + 1]
          /\ reply' = Told(window[k].hits + 1, window[k].until - now)
    /\ UNCHANGED <<now, closed>>

(* Time passes; the windows that have run their time are over.             *)
Tick ==
    /\ now' = now + 1
    /\ window' = [k \in Keys |->
                    IF window[k] # None /\ window[k].until > now + 1
                    THEN window[k] ELSE None]
    /\ UNCHANGED <<reply, closed>>

Close ==
    /\ ~ closed
    /\ closed' = TRUE
    /\ window' = [k \in Keys |-> None]
    /\ UNCHANGED <<now, reply>>

Next == (\E k \in Keys, ttl \in Ttls : Hit(k, ttl)) \/ Tick \/ Close

Spec == Init /\ [][Next]_vars

=============================================================================
