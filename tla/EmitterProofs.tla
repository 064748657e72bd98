---------------------------- MODULE EmitterProofs ----------------------------
(* The event emitter, with the listeners it keeps twice, implements the    *)
(* abstract subscriptions: for any channels, declared methods, numbers of  *)
(* listeners and depths of emission.                                       *)
EXTENDS EventEmitter, SequenceTheorems, WellFoundedInduction, TLAPS

(* The inductive invariant.  Listeners are numbered as they subscribe, so  *)
(* the order of a sequence is the order of subscription, and nobody is in  *)
(* one twice.                                                              *)

UpTo(n, s) == \A i \in DOMAIN s : s[i] <= n
Rising(s) == \A i, j \in DOMAIN s : i < j => s[i] < s[j]

(* The Map and the EventTarget hold the same listeners.                    *)
CopiesAgree == eventTarget = listenersRegistered

ChannelsInOrder ==
    \A c \in Channels : UpTo(lastListener, eventTarget[c]) /\ Rising(eventTarget[c])

(* A dispatch goes through those that were there when it began.            *)
DispatchesInOrder ==
    \A i \in DOMAIN dispatching :
        /\ UpTo(lastListener, dispatching[i].left)
        /\ Rising(dispatching[i].left)

(* The bootstrap is over before anything is emitted.                       *)
BootstrapFirst == bootstrap # 0 => dispatching = <<>>

EmitterInv ==
    /\ TypeOK /\ CopiesAgree /\ ChannelsInOrder /\ DispatchesInOrder
    /\ BootstrapFirst

-----------------------------------------------------------------------------
(* Sequences of listeners.                                                 *)

LEMMA Subscribed ==
    ASSUME NEW n \in Nat, NEW s \in Seq(Nat), UpTo(n, s), Rising(s)
    PROVE  /\ Append(s, n + 1) \in Seq(Nat)
           /\ UpTo(n + 1, Append(s, n + 1)) /\ Rising(Append(s, n + 1))
           /\ Elements(Append(s, n + 1)) = Elements(s) \cup {n + 1}
<1> DEFINE a == Append(s, n + 1)
<1>1. /\ a \in Seq(Nat) /\ Len(a) = Len(s) + 1
      /\ \A i \in 1 .. Len(s) : a[i] = s[i]
      /\ a[Len(s) + 1] = n + 1
  BY AppendProperties
<1>2. DOMAIN s = 1 .. Len(s) /\ DOMAIN a = 1 .. Len(s) + 1 /\ Len(s) \in Nat
  BY <1>1, LenProperties
<1>3. \A i \in DOMAIN s : s[i] \in Nat /\ s[i] <= n
  BY <1>2, ElementOfSeq DEF UpTo
<1> HIDE DEF a
<1>4. UpTo(n + 1, a)
  <2> SUFFICES ASSUME NEW i \in DOMAIN a
               PROVE  a[i] <= n + 1
    BY DEF UpTo
  <2>1. CASE i = Len(s) + 1
    BY <1>1, <2>1
  <2>2. CASE i # Len(s) + 1
    <3>1. i \in DOMAIN s /\ a[i] = s[i]
      BY <1>1, <1>2, <2>2
    <3> QED
      BY <1>3, <3>1
  <2> QED
    BY <2>1, <2>2
<1>5. Rising(a)
  <2> SUFFICES ASSUME NEW i \in DOMAIN a, NEW j \in DOMAIN a, i < j
               PROVE  a[i] < a[j]
    BY DEF Rising
  <2>1. i \in DOMAIN s /\ a[i] = s[i]
    BY <1>1, <1>2
  <2>2. CASE j = Len(s) + 1
    BY <2>1, <2>2, <1>1, <1>3
  <2>3. CASE j # Len(s) + 1
    <3>1. j \in DOMAIN s /\ a[j] = s[j]
      BY <2>3, <1>1, <1>2
    <3> QED
      BY <2>1, <3>1 DEF Rising
  <2> QED
    BY <2>2, <2>3
<1>6. Elements(a) = Elements(s) \cup {n + 1}
  BY <1>1, <1>2 DEF Elements
<1> QED
  BY <1>1, <1>4, <1>5, <1>6 DEF a

LEMMA FirstCalled ==
    ASSUME NEW n \in Nat, NEW s \in Seq(Nat), s # <<>>, UpTo(n, s), Rising(s)
    PROVE  /\ Tail(s) \in Seq(Nat) /\ UpTo(n, Tail(s)) /\ Rising(Tail(s))
           /\ Elements(Tail(s)) = Elements(s) \ {Head(s)}
           /\ Head(s) \in Elements(s)
           /\ \A l \in Elements(s) : Head(s) <= l
<1> DEFINE t == Tail(s)
<1>1. /\ t \in Seq(Nat) /\ Len(t) = Len(s) - 1
      /\ \A i \in 1 .. Len(t) : t[i] = s[i + 1]
  BY HeadTailProperties
<1>2. DOMAIN s = 1 .. Len(s) /\ DOMAIN t = 1 .. Len(t) /\ Len(s) \in Nat \ {0}
  BY <1>1, LenProperties, EmptySeq
<1>3. Head(s) = s[1]
  OBVIOUS
<1>4. \A i \in DOMAIN s : s[i] \in Nat /\ s[i] <= n
  BY <1>2, ElementOfSeq DEF UpTo
<1>5. \A i \in 2 .. Len(s) : s[1] < s[i]
  BY <1>2 DEF Rising
<1> HIDE DEF t
<1>6. UpTo(n, t)
  <2> SUFFICES ASSUME NEW i \in 1 .. Len(t) PROVE t[i] <= n
    BY <1>2 DEF UpTo
  <2>1. i + 1 \in DOMAIN s /\ t[i] = s[i + 1]
    BY <1>1, <1>2
  <2> QED
    BY <2>1, <1>4
<1>7. Rising(t)
  <2> SUFFICES ASSUME NEW i \in 1 .. Len(t), NEW j \in 1 .. Len(t), i < j
               PROVE  t[i] < t[j]
    BY <1>2 DEF Rising
  <2>1. i + 1 \in DOMAIN s /\ j + 1 \in DOMAIN s /\ i + 1 < j + 1
    BY <1>1, <1>2
  <2> QED
    BY <2>1, <1>1 DEF Rising
<1>8. \A i \in 2 .. Len(s) : i - 1 \in DOMAIN t /\ t[i - 1] = s[i]
  BY <1>1, <1>2
<1>9. Elements(t) = Elements(s) \ {s[1]}
  <2>1. ASSUME NEW l \in Elements(t) PROVE l \in Elements(s) \ {s[1]}
    <3>1. PICK i \in DOMAIN t : l = t[i]
      BY DEF Elements
    <3>2. i + 1 \in 2 .. Len(s) /\ l = s[i + 1]
      BY <3>1, <1>1, <1>2
    <3>3. i + 1 \in DOMAIN s /\ 1 \in DOMAIN s
      BY <3>2, <1>2
    <3>4. l \in Elements(s)
      BY <3>2, <3>3 DEF Elements
    <3> QED
      BY <3>2, <3>3, <3>4, <1>4, <1>5
  <2>2. ASSUME NEW l \in Elements(s), l # s[1] PROVE l \in Elements(t)
    <3>1. PICK i \in DOMAIN s : l = s[i]
      BY DEF Elements
    <3>2. i \in 2 .. Len(s)
      BY <3>1, <2>2, <1>2
    <3> QED
      BY <3>1, <3>2, <1>8 DEF Elements
  <2> QED
    BY <2>1, <2>2
<1>10. s[1] \in Elements(s)
  BY <1>2 DEF Elements
<1>11. \A l \in Elements(s) : s[1] <= l
  <2> SUFFICES ASSUME NEW i \in DOMAIN s PROVE s[1] <= s[i]
    BY DEF Elements
  <2> QED
    BY <1>2, <1>4, <1>5
<1> QED
  BY <1>1, <1>3, <1>6, <1>7, <1>9, <1>10, <1>11 DEF t

LEMMA FrontOfSeq ==
    ASSUME NEW S, NEW d \in Seq(S), d # <<>>
    PROVE  LET f == SubSeq(d, 1, Len(d) - 1)
           IN  /\ f \in Seq(S) /\ Len(f) = Len(d) - 1 /\ DOMAIN f = 1 .. Len(d) - 1
               /\ \A i \in 1 .. Len(d) - 1 : f[i] = d[i]
<1> DEFINE k == Len(d) - 1
           f == SubSeq(d, 1, k)
<1>1. /\ Len(d) \in Nat \ {0}
      /\ \A i \in 1 .. Len(d) : d[i] \in S
  BY EmptySeq, ElementOfSeq
<1>2. 1 \in Int /\ k \in Int /\ \A i \in 1 .. k : d[i] \in S
  BY <1>1
<1>3. k \in Nat /\ k - 1 + 1 = k /\ (1 <= k \/ k = 0)
  <2>1. \A l \in Nat \ {0} : l - 1 \in Nat /\ (1 <= l - 1 \/ l - 1 = 0)
    OBVIOUS
  <2>2. k \in Nat /\ (1 <= k \/ k = 0)
    BY <1>1, <2>1 DEF k
  <2>3. \A l \in Nat : l - 1 + 1 = l
    OBVIOUS
  <2> QED
    BY <2>2, <2>3
<1> HIDE DEF k
<1>4. /\ f \in Seq(S) /\ Len(f) = IF 1 <= k THEN k - 1 + 1 ELSE 0
      /\ \A i \in 1 .. k - 1 + 1 : f[i] = d[1 + i - 1]
  BY <1>2, SubSeqProperties
<1>5. \A i \in 1 .. k : 1 + i - 1 = i
  BY <1>3
<1> HIDE DEF f
<1>6. f \in Seq(S) /\ Len(f) = k /\ \A i \in 1 .. k : f[i] = d[i]
  BY <1>3, <1>4, <1>5
<1>7. DOMAIN f = 1 .. k
  BY <1>6, LenProperties
<1> QED
  BY <1>6, <1>7 DEF f, k

(* Who removes all the listeners of a channel leaves none.                 *)
LEMMA NoneLeft ==
    ASSUME NEW s \in Seq(Nat)
    PROVE  Without(s, Elements(s)) = <<>>
<1> DEFINE gone == Elements(s)
           Step(f, n) ==
               IF n = 0 THEN <<>>
               ELSE IF s[n] \in gone THEN f[n - 1] ELSE Append(f[n - 1], s[n])
           IsKept(f) == f = [n \in 0 .. Len(s) |-> Step(f, n)]
           Nothing == [n \in 0 .. Len(s) |-> <<>>]
           kept == CHOOSE f : IsKept(f)
<1>1. Len(s) \in Nat /\ \A n \in 1 .. Len(s) : s[n] \in gone
  BY LenProperties DEF Elements
<1>2. Without(s, gone) = kept[Len(s)]
  BY DEF Without
<1>3. IsKept(Nothing)
  <2>1. \A n \in 0 .. Len(s) : Step(Nothing, n) = <<>>
    BY <1>1
  <2> QED
    BY <2>1
<1>4. IsKept(kept)
  <2> HIDE DEF IsKept, Nothing
  <2> QED
    BY <1>3
<1> HIDE DEF kept
<1>5. ASSUME NEW n \in 0 .. Len(s), kept[n] # <<>> PROVE FALSE
  <2> DEFINE Bad == {m \in 0 .. Len(s) : kept[m] # <<>>}
             Less == OpToRel(<, Nat)
  <2>1. Bad \subseteq Nat /\ Bad # {}
    BY <1>1, <1>5
  <2>2. IsWellFoundedOn(Less, Nat)
    BY NatLessThanWellFounded
  <2>3. \A y, z \in Nat : y < z => <<y, z>> \in Less
    BY DEF OpToRel
  <2>4. PICK m \in Bad : \A j \in Bad : <<j, m>> \notin Less
    <3> HIDE DEF Bad, Less
    <3> QED
      BY <2>1, <2>2, WFMin
  <2>5. kept[0] = <<>>
    BY <1>1, <1>4
  <2>6. m \in 1 .. Len(s)
    BY <2>5, <1>1
  <2>7. kept[m] = kept[m - 1]
    BY <2>6, <1>1, <1>4
  <2>8. m - 1 \in Bad /\ m \in Nat /\ m - 1 \in Nat /\ m - 1 < m
    BY <2>6, <2>7, <1>1
  <2> QED
    BY <2>3, <2>4, <2>8
<1> QED
  BY <1>1, <1>2, <1>5

-----------------------------------------------------------------------------
(* The refinement mapping, as operators on the state.                      *)

Targets == [Channels -> Seq(Nat)]

EmissionOf(e, t) ==
    [channel |-> e.channel,
     due |-> Elements(e.left) \cap Elements(t[e.channel]),
     busy |-> e.busy]
EmissionsOf(d, t) == [i \in DOMAIN d |-> EmissionOf(d[i], t)]
SubscribedOf(l) == [c \in Channels |-> Elements(l[c])]

LEMMA EmissionTyped ==
    ASSUME NEW e \in Dispatch, NEW t \in Targets
    PROVE  EmissionOf(e, t) \in Promised!Emission
<1>1. e.channel \in Channels /\ e.left \in Seq(Nat) /\ e.busy \in BOOLEAN
  BY DEF Dispatch
<1>2. Elements(e.left) \subseteq Nat
  BY <1>1, LenProperties, ElementOfSeq DEF Elements
<1> QED
  BY <1>1, <1>2 DEF EmissionOf, Promised!Emission

LEMMA EmissionsTyped ==
    ASSUME NEW d \in Seq(Dispatch), NEW t \in Targets
    PROVE  /\ EmissionsOf(d, t) \in Seq(Promised!Emission)
           /\ Len(EmissionsOf(d, t)) = Len(d) /\ Len(d) \in Nat
           /\ DOMAIN EmissionsOf(d, t) = 1 .. Len(d)
           /\ \A i \in 1 .. Len(d) : EmissionsOf(d, t)[i] = EmissionOf(d[i], t)
<1> DEFINE m == EmissionsOf(d, t)
<1>1. Len(d) \in Nat /\ DOMAIN d = 1 .. Len(d)
  BY LenProperties
<1>2. \A i \in 1 .. Len(d) : m[i] = EmissionOf(d[i], t)
  BY <1>1 DEF EmissionsOf
<1>3. \A i \in 1 .. Len(d) : EmissionOf(d[i], t) \in Promised!Emission
  BY ElementOfSeq, EmissionTyped
<1>4. m \in [1 .. Len(d) -> Promised!Emission]
  BY <1>1, <1>3 DEF EmissionsOf
<1>5. m \in Seq(Promised!Emission)
  BY <1>1, <1>4, SeqDef
<1>6. DOMAIN m = 1 .. Len(d)
  BY <1>1 DEF EmissionsOf
<1>7. Len(m) = Len(d)
  <2> HIDE DEF m
  <2>1. DOMAIN m = 1 .. Len(m) /\ Len(m) \in Nat
    BY <1>5, LenProperties
  <2> QED
    BY <1>1, <1>6, <2>1
<1> QED
  BY <1>1, <1>2, <1>5, <1>6, <1>7

LEMMA EmissionsEmpty ==
    ASSUME NEW d \in Seq(Dispatch), NEW t \in Targets
    PROVE  EmissionsOf(d, t) = <<>> <=> d = <<>>
<1> DEFINE m == EmissionsOf(d, t)
<1>1. m \in Seq(Promised!Emission) /\ Len(m) = Len(d)
  BY EmissionsTyped
<1> HIDE DEF m
<1>2. (m = <<>> <=> Len(m) = 0) /\ (d = <<>> <=> Len(d) = 0)
  BY <1>1, EmptySeq
<1> QED
  BY <1>1, <1>2 DEF m

LEMMA EmissionsAppend ==
    ASSUME NEW d \in Seq(Dispatch), NEW t \in Targets, NEW e \in Dispatch
    PROVE  EmissionsOf(Append(d, e), t) = Append(EmissionsOf(d, t), EmissionOf(e, t))
<1> DEFINE m == EmissionsOf(d, t)
           a == Append(d, e)
           n == EmissionsOf(a, t)
           x == EmissionOf(e, t)
<1>1. /\ a \in Seq(Dispatch) /\ Len(a) = Len(d) + 1
      /\ \A i \in 1 .. Len(d) : a[i] = d[i]
      /\ a[Len(d) + 1] = e
  BY AppendProperties
<1>2. x \in Promised!Emission
  BY EmissionTyped
<1>3. /\ m \in Seq(Promised!Emission) /\ Len(m) = Len(d) /\ Len(d) \in Nat
      /\ \A i \in 1 .. Len(d) : m[i] = EmissionOf(d[i], t)
  BY EmissionsTyped
<1> HIDE DEF a
<1>4. /\ n \in Seq(Promised!Emission) /\ Len(n) = Len(a)
      /\ \A i \in 1 .. Len(a) : n[i] = EmissionOf(a[i], t)
  BY <1>1, EmissionsTyped
<1> HIDE DEF m, n
<1>5. /\ Append(m, x) \in Seq(Promised!Emission)
      /\ Len(Append(m, x)) = Len(m) + 1
      /\ \A i \in 1 .. Len(m) : Append(m, x)[i] = m[i]
      /\ Append(m, x)[Len(m) + 1] = x
  BY <1>2, <1>3, AppendProperties
<1> HIDE DEF x
<1>6. \A i \in 1 .. Len(n) : n[i] = Append(m, x)[i]
  <2> TAKE i \in 1 .. Len(n)
  <2>1. CASE i = Len(d) + 1
    BY <2>1, <1>1, <1>3, <1>4, <1>5 DEF x
  <2>2. CASE i \in 1 .. Len(d)
    BY <2>2, <1>1, <1>3, <1>4, <1>5
  <2> QED
    BY <2>1, <2>2, <1>1, <1>3, <1>4
<1>7. Len(n) = Len(Append(m, x))
  BY <1>1, <1>3, <1>4, <1>5
<1>8. n = Append(m, x)
  BY <1>4, <1>5, <1>6, <1>7, SeqEqual
<1> QED
  BY <1>8 DEF m, n, x, a

LEMMA EmissionsFront ==
    ASSUME NEW d \in Seq(Dispatch), d # <<>>, NEW t \in Targets
    PROVE  EmissionsOf(SubSeq(d, 1, Len(d) - 1), t)
             = SubSeq(EmissionsOf(d, t), 1, Len(d) - 1)
<1> DEFINE k == Len(d) - 1
           m == EmissionsOf(d, t)
           f == SubSeq(d, 1, k)
           n == EmissionsOf(f, t)
<1>1. Len(d) \in Nat \ {0}
  BY EmptySeq
<1>2. \A i \in 1 .. Len(d) : d[i] \in Dispatch
  BY ElementOfSeq
<1>3. /\ m \in Seq(Promised!Emission) /\ Len(m) = Len(d)
      /\ \A i \in 1 .. Len(d) : m[i] = EmissionOf(d[i], t)
  BY EmissionsTyped
<1> HIDE DEF m
<1>4. /\ f \in Seq(Dispatch) /\ Len(f) = k
      /\ \A i \in 1 .. k : f[i] = d[i]
  BY FrontOfSeq
<1> HIDE DEF f
<1>5. /\ n \in Seq(Promised!Emission) /\ Len(n) = k
      /\ \A i \in 1 .. k : n[i] = EmissionOf(f[i], t)
  BY <1>4, EmissionsTyped
<1>6. \A i \in 1 .. Len(m) : m[i] \in Promised!Emission
  BY <1>3, ElementOfSeq
<1>7. /\ SubSeq(m, 1, k) \in Seq(Promised!Emission) /\ Len(SubSeq(m, 1, k)) = k
      /\ \A i \in 1 .. k : SubSeq(m, 1, k)[i] = m[i]
  BY <1>1, <1>3, <1>6, SubSeqProperties
<1> HIDE DEF n
<1>8. \A i \in 1 .. Len(n) : n[i] = SubSeq(m, 1, k)[i]
  BY <1>1, <1>3, <1>4, <1>5, <1>7
<1>9. n = SubSeq(m, 1, k)
  BY <1>5, <1>7, <1>8, SeqEqual
<1> QED
  BY <1>9 DEF m, n, f

LEMMA EmissionsExcept ==
    ASSUME NEW d \in Seq(Dispatch), NEW t \in Targets, NEW e \in Dispatch,
           NEW k \in 1 .. Len(d)
    PROVE  EmissionsOf([d EXCEPT ![k] = e], t)
             = [EmissionsOf(d, t) EXCEPT ![k] = EmissionOf(e, t)]
<1>1. DOMAIN d = 1 .. Len(d)
  BY LenProperties
<1> QED
  BY <1>1 DEF EmissionsOf

-----------------------------------------------------------------------------
(* What is known in a state that meets the invariant.                      *)

Lists == [Channels -> Seq(1 .. MaxListeners)]
Emissions == EmissionsOf(dispatching, eventTarget)

LEMMA InvFacts ==
    ASSUME EmitterInv
    PROVE  /\ lastListener \in Nat /\ MaxListeners \in Nat
           /\ eventTarget \in Targets
           /\ \A c \in Channels :
                eventTarget[c] \in Seq(Nat) /\ eventTarget[c] \in Seq(1 .. MaxListeners)
           /\ dispatching \in Seq(Dispatch) /\ Depth \in Nat
           /\ DOMAIN dispatching = 1 .. Depth
           /\ \A i \in 1 .. Depth :
                /\ dispatching[i] \in Dispatch
                /\ dispatching[i].channel \in Channels
                /\ dispatching[i].left \in Seq(Nat)
                /\ dispatching[i].busy \in BOOLEAN
<1>1. lastListener \in Nat /\ MaxListeners \in Nat /\ dispatching \in Seq(Dispatch)
  BY EmitterAssumption DEF EmitterInv, TypeOK
<1>2. \A s \in Seq(1 .. MaxListeners) : s \in Seq(Nat)
  <2>1. 1 .. MaxListeners \subseteq Nat
    OBVIOUS
  <2> QED
    BY <2>1, SeqMonotonic
<1>3. eventTarget \in Lists
  BY DEF EmitterInv, TypeOK, Lists
<1>4. eventTarget \in Targets
  BY <1>2, <1>3 DEF Lists, Targets
<1>5. Depth \in Nat /\ DOMAIN dispatching = 1 .. Depth
  BY <1>1, LenProperties DEF Depth
<1>6. \A i \in 1 .. Depth : dispatching[i] \in Dispatch
  BY <1>1, ElementOfSeq DEF Depth
<1> QED
  BY <1>1, <1>2, <1>3, <1>4, <1>5, <1>6 DEF Lists, Dispatch

(* The operation under subscribe and the module's hook.                    *)
LEMMA AddListenerKeeps ==
    ASSUME EmitterInv, NEW c \in Channels, AddListener(c)
    PROVE  /\ eventTarget' \in Lists
           /\ lastListener' \in 0 .. MaxListeners
           /\ CopiesAgree' /\ ChannelsInOrder' /\ DispatchesInOrder'
           /\ SubscribedOf(listenersRegistered')
                = [SubscribedOf(listenersRegistered) EXCEPT
                     ![c] = @ \cup {lastListener'}]
           /\ Emissions' = Emissions
<1> DEFINE n == lastListener
<1>1. /\ n < MaxListeners /\ lastListener' = n + 1
      /\ eventTarget' = [eventTarget EXCEPT ![c] = Append(@, n + 1)]
      /\ listenersRegistered' = [listenersRegistered EXCEPT ![c] = Append(@, n + 1)]
      /\ dispatching' = dispatching
  BY DEF AddListener
<1>2. eventTarget = listenersRegistered
  BY DEF EmitterInv, CopiesAgree
<1>3. eventTarget \in Lists /\ n \in 0 .. MaxListeners
  BY DEF EmitterInv, TypeOK, Lists
<1>4. \A x \in Channels : UpTo(n, eventTarget[x]) /\ Rising(eventTarget[x])
  BY DEF EmitterInv, ChannelsInOrder
<1>5. \A i \in DOMAIN dispatching :
        UpTo(n, dispatching[i].left) /\ Rising(dispatching[i].left)
  BY DEF EmitterInv, DispatchesInOrder
<1>6. n \in Nat /\ n + 1 \in 1 .. MaxListeners
  BY <1>1, InvFacts
<1> DEFINE old == eventTarget[c]
           new == Append(old, n + 1)
<1>7. eventTarget'[c] = new /\ listenersRegistered'[c] = new
  BY <1>1, <1>2, <1>3 DEF Lists
<1>8. \A x \in Channels \ {c} : eventTarget'[x] = eventTarget[x]
  BY <1>1, <1>3 DEF Lists
<1>9. old \in Seq(Nat) /\ old \in Seq(1 .. MaxListeners)
  BY InvFacts
<1>10. /\ UpTo(n + 1, new) /\ Rising(new)
       /\ Elements(new) = Elements(old) \cup {n + 1}
  <2> HIDE DEF n
  <2>1. UpTo(n, old) /\ Rising(old)
    BY <1>4
  <2> HIDE DEF old
  <2> QED
    BY <1>6, <1>9, <2>1, Subscribed
<1>11. new \in Seq(1 .. MaxListeners)
  <2> HIDE DEF old, n
  <2> QED
    BY <1>6, <1>9, AppendProperties
<1> HIDE DEF new
<1>12. eventTarget' \in Lists
  <2>1. eventTarget' = [eventTarget EXCEPT ![c] = new]
    BY <1>1 DEF new
  <2> QED
    BY <1>3, <1>11, <2>1 DEF Lists
<1>13. CopiesAgree'
  BY <1>1, <1>2 DEF CopiesAgree
<1>15. \A s \in Seq(Nat) : UpTo(n, s) => UpTo(n + 1, s)
  <2>1. \A s \in Seq(Nat) : \A i \in DOMAIN s : s[i] \in Nat
    BY LenProperties, ElementOfSeq
  <2> QED
    BY <1>6, <2>1 DEF UpTo
<1>16. ChannelsInOrder'
  <2> SUFFICES ASSUME NEW x \in Channels
               PROVE  UpTo(n + 1, eventTarget'[x]) /\ Rising(eventTarget'[x])
    BY <1>1 DEF ChannelsInOrder
  <2>1. CASE x = c
    BY <2>1, <1>7, <1>10
  <2>2. CASE x # c
    <3>1. eventTarget'[x] = eventTarget[x] /\ eventTarget[x] \in Seq(Nat)
      BY <2>2, <1>8, InvFacts
    <3> QED
      BY <3>1, <1>4, <1>15
  <2> QED
    BY <2>1, <2>2
<1>17. DispatchesInOrder'
  <2> SUFFICES ASSUME NEW i \in DOMAIN dispatching
               PROVE  /\ UpTo(n + 1, dispatching[i].left)
                      /\ Rising(dispatching[i].left)
    BY <1>1 DEF DispatchesInOrder
  <2>1. dispatching[i].left \in Seq(Nat)
    BY InvFacts
  <2> QED
    BY <2>1, <1>5, <1>15
<1>18. SubscribedOf(listenersRegistered')
         = [SubscribedOf(listenersRegistered) EXCEPT ![c] = @ \cup {lastListener'}]
  <2>1. \A x \in Channels : Elements(listenersRegistered'[x])
          = IF x = c THEN Elements(listenersRegistered[x]) \cup {n + 1}
            ELSE Elements(listenersRegistered[x])
    <3> TAKE x \in Channels
    <3>1. CASE x = c
      BY <3>1, <1>2, <1>7, <1>10
    <3>2. CASE x # c
      <4>1. listenersRegistered'[x] = listenersRegistered[x]
        BY <3>2, <1>1, <1>2, <1>3 DEF Lists
      <4> QED
        BY <3>2, <4>1
    <3> QED
      BY <3>1, <3>2
  <2> QED
    BY <2>1, <1>1 DEF SubscribedOf
<1>19. Emissions' = Emissions
  <2>1. ASSUME NEW i \in DOMAIN dispatching
        PROVE  EmissionOf(dispatching[i], eventTarget')
                 = EmissionOf(dispatching[i], eventTarget)
    <3> DEFINE e == dispatching[i]
    <3>1. e.channel \in Channels /\ e.left \in Seq(Nat)
      BY InvFacts
    <3>2. n + 1 \notin Elements(e.left)
      <4>1. \A j \in DOMAIN e.left : e.left[j] \in Nat /\ e.left[j] <= n
        BY <3>1, <1>5, LenProperties, ElementOfSeq DEF UpTo
      <4> QED
        BY <4>1, <1>6 DEF Elements
    <3>3. Elements(e.left) \cap Elements(eventTarget'[e.channel])
            = Elements(e.left) \cap Elements(eventTarget[e.channel])
      <4>1. CASE e.channel = c
        BY <4>1, <3>2, <1>7, <1>10
      <4>2. CASE e.channel # c
        BY <4>2, <3>1, <1>8
      <4> QED
        BY <4>1, <4>2
    <3> QED
      BY <3>3 DEF EmissionOf
  <2> QED
    BY <2>1, <1>1 DEF Emissions, EmissionsOf
<1> QED
  BY <1>1, <1>6, <1>12, <1>13, <1>16, <1>17, <1>18, <1>19

(* The operation under unsubscribe: both copies lose the channels.         *)
LEMMA DeleteChannelsKeeps ==
    ASSUME EmitterInv, NEW cs \in SUBSET Channels, DeleteChannels(cs)
    PROVE  /\ eventTarget' \in Lists
           /\ eventTarget' = [c \in Channels |-> IF c \in cs THEN <<>> ELSE eventTarget[c]]
           /\ CopiesAgree' /\ ChannelsInOrder'
<1>1. /\ eventTarget' = [c \in Channels |->
           IF c \in cs THEN Without(eventTarget[c], Elements(listenersRegistered[c]))
           ELSE eventTarget[c]]
      /\ listenersRegistered' =
           [c \in Channels |-> IF c \in cs THEN <<>> ELSE listenersRegistered[c]]
      /\ lastListener' = lastListener
  BY DEF DeleteChannels
<1>2. eventTarget = listenersRegistered
  BY DEF EmitterInv, CopiesAgree
<1>3. \A c \in Channels :
        Without(eventTarget[c], Elements(listenersRegistered[c])) = <<>>
  BY <1>2, InvFacts, NoneLeft
<1>4. eventTarget' = [c \in Channels |-> IF c \in cs THEN <<>> ELSE eventTarget[c]]
  BY <1>1, <1>3
<1>5. CopiesAgree'
  BY <1>1, <1>2, <1>4 DEF CopiesAgree
<1>6. <<>> \in Seq(1 .. MaxListeners) /\ DOMAIN <<>> = {}
  BY EmptySeq
<1>7. eventTarget' \in Lists
  BY <1>4, <1>6, InvFacts DEF Lists
<1>8. ChannelsInOrder'
  <2> SUFFICES ASSUME NEW c \in Channels
               PROVE  UpTo(lastListener, eventTarget'[c]) /\ Rising(eventTarget'[c])
    BY <1>1 DEF ChannelsInOrder
  <2>1. CASE c \in cs
    <3>1. eventTarget'[c] = <<>>
      BY <2>1, <1>4
    <3> QED
      BY <3>1, <1>6 DEF UpTo, Rising
  <2>2. CASE c \notin cs
    <3>1. eventTarget'[c] = eventTarget[c]
      BY <2>2, <1>4
    <3> QED
      BY <3>1 DEF EmitterInv, ChannelsInOrder
  <2> QED
    BY <2>1, <2>2
<1> QED
  BY <1>4, <1>5, <1>7, <1>8

-----------------------------------------------------------------------------
(* The emissions of the abstract specification, and each action.           *)

LEMMA EmissionsFacts ==
    ASSUME EmitterInv
    PROVE  /\ Emissions \in Seq(Promised!Emission) /\ Len(Emissions) = Depth
           /\ DOMAIN Emissions = 1 .. Depth
           /\ \A i \in 1 .. Depth :
                Emissions[i] = EmissionOf(dispatching[i], eventTarget)
           /\ Emissions = <<>> <=> dispatching = <<>>
           /\ dispatching # <<>> =>
                /\ Depth \in 1 .. Depth /\ Depth # 0
                /\ Emissions[Depth] = EmissionOf(Current, eventTarget)
<1>1. dispatching \in Seq(Dispatch) /\ eventTarget \in Targets /\ Depth \in Nat
  BY InvFacts
<1>2. dispatching # <<>> => Depth # 0
  BY <1>1, EmptySeq DEF Depth
<1> QED
  BY <1>1, <1>2, EmissionsTyped, EmissionsEmpty DEF Emissions, Depth, Current

LEMMA RunsMaps ==
    ASSUME EmitterInv
    PROVE  /\ bootstrap = 0 => (Runs <=> Promised!Runs)
           /\ dispatching = <<>> => Promised!Runs
<1>1. Promised!Runs <=> (Emissions # <<>> => Emissions[Len(Emissions)].busy)
  BY DEF Promised!Runs, Promised!Current, Promised!Depth, Emissions, EmissionsOf,
         EmissionOf
<1>2. dispatching # <<>> => Emissions[Len(Emissions)].busy = Current.busy
  BY EmissionsFacts DEF EmissionOf
<1> QED
  BY <1>1, <1>2, EmissionsFacts DEF Runs

LEMMA SubscribeMaps ==
    ASSUME EmitterInv, NEW c \in Channels, AddListener(c), Promised!Runs
    PROVE  Promised!Subscribe(c)
<1>1. /\ SubscribedOf(listenersRegistered') = [SubscribedOf(listenersRegistered) EXCEPT
                                                 ![c] = @ \cup {lastListener'}]
      /\ Emissions' = Emissions
  BY AddListenerKeeps
<1>2. lastListener' = lastListener + 1
  BY DEF AddListener
<1> QED
  BY <1>1, <1>2 DEF Promised!Subscribe, SubscribedOf, Emissions, EmissionsOf, EmissionOf

LEMMA UnsubscribeMaps ==
    ASSUME EmitterInv, NEW cs \in SUBSET Channels, Runs, bootstrap = 0,
           DeleteChannels(cs)
    PROVE  Promised!Unsubscribe(cs)
<1>1. /\ eventTarget' = [c \in Channels |-> IF c \in cs THEN <<>> ELSE eventTarget[c]]
      /\ eventTarget' \in Lists
  BY DeleteChannelsKeeps
<1>2. /\ listenersRegistered' =
           [c \in Channels |-> IF c \in cs THEN <<>> ELSE listenersRegistered[c]]
      /\ dispatching' = dispatching /\ lastListener' = lastListener
  BY DEF DeleteChannels
<1>3. Elements(<<>>) = {}
  BY EmptySeq DEF Elements
<1>4. SubscribedOf(listenersRegistered')
        = [c \in Channels |-> IF c \in cs THEN {} ELSE SubscribedOf(listenersRegistered)[c]]
  BY <1>2, <1>3 DEF SubscribedOf
<1>5. Emissions' = [i \in DOMAIN Emissions |->
                      IF Emissions[i].channel \in cs
                      THEN [Emissions[i] EXCEPT !.due = {}] ELSE Emissions[i]]
  <2>1. DOMAIN Emissions = DOMAIN dispatching
    BY EmissionsFacts, InvFacts
  <2>2. ASSUME NEW i \in DOMAIN dispatching
        PROVE  EmissionOf(dispatching[i], eventTarget')
                 = IF Emissions[i].channel \in cs
                   THEN [Emissions[i] EXCEPT !.due = {}] ELSE Emissions[i]
    <3> DEFINE e == dispatching[i]
    <3>1. e.channel \in Channels /\ Emissions[i] = EmissionOf(e, eventTarget)
      BY InvFacts, EmissionsFacts
    <3>2. Emissions[i].channel = e.channel
      BY <3>1 DEF EmissionOf
    <3>3. CASE e.channel \in cs
      <4>1. Elements(eventTarget'[e.channel]) = {}
        BY <3>3, <3>1, <1>1, <1>3
      <4> QED
        BY <3>1, <3>2, <3>3, <4>1 DEF EmissionOf
    <3>4. CASE e.channel \notin cs
      <4>1. eventTarget'[e.channel] = eventTarget[e.channel]
        BY <3>4, <3>1, <1>1
      <4> QED
        BY <3>1, <3>2, <3>4, <4>1 DEF EmissionOf
    <3> QED
      BY <3>3, <3>4
  <2>3. Emissions' = [i \in DOMAIN dispatching |-> EmissionOf(dispatching[i], eventTarget')]
    BY <1>2 DEF Emissions, EmissionsOf
  <2> QED
    BY <2>1, <2>2, <2>3
<1>6. Promised!Runs
  BY RunsMaps
<1> QED
  BY <1>2, <1>4, <1>5, <1>6 DEF Promised!Unsubscribe, SubscribedOf, Emissions,
     EmissionsOf, EmissionOf

LEMMA EmitStep ==
    ASSUME EmitterInv, NEW c \in Channels, Emit(c)
    PROVE  TypeOK' /\ DispatchesInOrder' /\ Promised!Emit(c)
<1> DEFINE e == [channel |-> c, left |-> eventTarget[c], busy |-> FALSE]
<1>1. /\ Runs /\ listenersRegistered[c] # <<>> /\ Depth < MaxDepth /\ bootstrap = 0
      /\ dispatching' = Append(dispatching, e)
      /\ UNCHANGED <<listenersRegistered, eventTarget, lastListener, bootstrap>>
  BY DEF Emit, Runs
<1>2. /\ dispatching \in Seq(Dispatch) /\ eventTarget \in Targets /\ Depth \in Nat
      /\ DOMAIN dispatching = 1 .. Depth /\ eventTarget[c] \in Seq(Nat)
  BY InvFacts
<1>3. e \in Dispatch
  BY <1>2 DEF Dispatch
<1>4. e.left = eventTarget[c] /\ e.channel = c /\ e.busy = FALSE
  OBVIOUS
<1>5. eventTarget = listenersRegistered
  BY DEF EmitterInv, CopiesAgree
<1>6. EmissionOf(e, eventTarget)
        = [channel |-> c, due |-> SubscribedOf(listenersRegistered)[c], busy |-> FALSE]
  BY <1>4, <1>5 DEF EmissionOf, SubscribedOf
<1> HIDE DEF e
<1>7. /\ dispatching' \in Seq(Dispatch) /\ Len(dispatching') = Depth + 1
      /\ \A i \in 1 .. Depth : dispatching'[i] = dispatching[i]
      /\ dispatching'[Depth + 1] = e
  BY <1>1, <1>2, <1>3, AppendProperties DEF Depth
<1>8. TypeOK'
  BY <1>1, <1>2, <1>7, EmitterAssumption DEF EmitterInv, TypeOK
<1>9. DispatchesInOrder'
  <2>1. DOMAIN dispatching' = 1 .. Depth + 1
    BY <1>7, LenProperties
  <2>2. \A i \in 1 .. Depth : /\ UpTo(lastListener, dispatching[i].left)
                              /\ Rising(dispatching[i].left)
    BY <1>2 DEF EmitterInv, DispatchesInOrder
  <2>3. UpTo(lastListener, e.left) /\ Rising(e.left)
    BY <1>4 DEF EmitterInv, ChannelsInOrder
  <2>4. \A i \in 1 .. Depth + 1 : i \in 1 .. Depth \/ i = Depth + 1
    BY <1>2
  <2>5. \A i \in 1 .. Depth + 1 : /\ UpTo(lastListener, dispatching'[i].left)
                                  /\ Rising(dispatching'[i].left)
    BY <1>7, <2>2, <2>3, <2>4
  <2> QED
    BY <1>1, <2>1, <2>5 DEF DispatchesInOrder
<1>10. Emissions' = Append(Emissions, EmissionOf(e, eventTarget))
  BY <1>1, <1>2, <1>3, EmissionsAppend DEF Emissions
<1>11. SubscribedOf(listenersRegistered)[c] # {}
  <2>1. listenersRegistered[c] \in Seq(Nat)
    BY <1>2, <1>5
  <2>2. 1 \in DOMAIN listenersRegistered[c]
    BY <1>1, <2>1, LenProperties, EmptySeq
  <2> QED
    BY <2>2 DEF SubscribedOf, Elements
<1>12. Promised!Runs
  BY <1>1, RunsMaps
<1>13. Emissions' = Append(Emissions, [channel |-> c,
                             due |-> SubscribedOf(listenersRegistered)[c],
                             busy |-> FALSE])
  BY <1>6, <1>10
<1>14. Promised!Emit(c)
  BY <1>1, <1>11, <1>12, <1>13 DEF Promised!Emit, SubscribedOf, Emissions,
     EmissionsOf, EmissionOf
<1> QED
  BY <1>8, <1>9, <1>14

(* Records with a field replaced.                                          *)
LEMMA BusyReplaced ==
    ASSUME NEW e \in Dispatch, NEW b
    PROVE  [e EXCEPT !.busy = b] = [channel |-> e.channel, left |-> e.left, busy |-> b]
BY DEF Dispatch

LEMMA LeftReplaced ==
    ASSUME NEW e \in Dispatch, NEW s, NEW b
    PROVE  [[e EXCEPT !.left = s] EXCEPT !.busy = b]
             = [channel |-> e.channel, left |-> s, busy |-> b]
<1>1. PICK c, l, v : e = [channel |-> c, left |-> l, busy |-> v]
  BY DEF Dispatch
<1> DEFINE r == [e EXCEPT !.left = s]
<1>2. r = [channel |-> c, left |-> s, busy |-> v]
  BY <1>1
<1> HIDE DEF r
<1>3. [r EXCEPT !.busy = b] = [channel |-> c, left |-> s, busy |-> b]
  BY <1>2
<1> QED
  BY <1>1, <1>3 DEF r

LEMMA DueReplaced ==
    ASSUME NEW e \in Promised!Emission, NEW s, NEW b
    PROVE  [[e EXCEPT !.due = s] EXCEPT !.busy = b]
             = [channel |-> e.channel, due |-> s, busy |-> b]
<1>1. PICK c, d, v : e = [channel |-> c, due |-> d, busy |-> v]
  BY DEF Promised!Emission
<1> DEFINE r == [e EXCEPT !.due = s]
<1>2. r = [channel |-> c, due |-> s, busy |-> v]
  BY <1>1
<1> HIDE DEF r
<1>3. [r EXCEPT !.busy = b] = [channel |-> c, due |-> s, busy |-> b]
  BY <1>2
<1> QED
  BY <1>1, <1>3 DEF r

LEMMA EmissionBusyReplaced ==
    ASSUME NEW e \in Promised!Emission, NEW b
    PROVE  [e EXCEPT !.busy = b] = [channel |-> e.channel, due |-> e.due, busy |-> b]
BY DEF Promised!Emission

(* The dispatch that is in progress goes on.                               *)
LEMMA CurrentChanges ==
    ASSUME EmitterInv, dispatching # <<>>, NEW e \in Dispatch,
           UpTo(lastListener, e.left), Rising(e.left),
           dispatching' = [dispatching EXCEPT ![Depth] = e],
           UNCHANGED <<listenersRegistered, eventTarget, lastListener, bootstrap>>
    PROVE  /\ EmitterInv'
           /\ Emissions' = [Emissions EXCEPT ![Depth] = EmissionOf(e, eventTarget)]
<1>1. /\ dispatching \in Seq(Dispatch) /\ eventTarget \in Targets /\ Depth \in Nat
      /\ DOMAIN dispatching = 1 .. Depth /\ Depth \in 1 .. Depth
  BY InvFacts, EmissionsFacts
<1>2. /\ dispatching' \in Seq(Dispatch) /\ Len(dispatching') = Depth
      /\ \A i \in 1 .. Depth :
           dispatching'[i] = IF i = Depth THEN e ELSE dispatching[i]
  BY <1>1, ExceptSeq DEF Depth
<1>3. TypeOK'
  BY <1>2 DEF EmitterInv, TypeOK, Depth
<1>4. DOMAIN dispatching' = 1 .. Depth
  BY <1>2, LenProperties
<1>5. DispatchesInOrder'
  <2> SUFFICES ASSUME NEW i \in 1 .. Depth
               PROVE  /\ UpTo(lastListener, dispatching'[i].left)
                      /\ Rising(dispatching'[i].left)
    BY <1>4 DEF DispatchesInOrder
  <2>1. CASE i = Depth
    BY <2>1, <1>2
  <2>2. CASE i # Depth
    BY <2>2, <1>1, <1>2 DEF EmitterInv, DispatchesInOrder
  <2> QED
    BY <2>1, <2>2
<1>6. CopiesAgree' /\ ChannelsInOrder'
  BY DEF EmitterInv, CopiesAgree, ChannelsInOrder
<1>7. BootstrapFirst'
  BY DEF EmitterInv, BootstrapFirst
<1>8. Emissions' = [Emissions EXCEPT ![Depth] = EmissionOf(e, eventTarget)]
  BY <1>1, EmissionsExcept DEF Emissions, Depth
<1> QED
  BY <1>3, <1>5, <1>6, <1>7, <1>8 DEF EmitterInv

LEMMA CallStep ==
    ASSUME EmitterInv, Call
    PROVE  EmitterInv' /\ (Promised!Deliver \/ UNCHANGED Promised!vars)
<1> DEFINE l == Head(Current.left)
           listens == l \in Elements(eventTarget[Current.channel])
           e == [channel |-> Current.channel, left |-> Tail(Current.left),
                 busy |-> listens]
           x == EmissionOf(Current, eventTarget)
           y == EmissionOf(e, eventTarget)
<1>1. /\ ~ Runs /\ bootstrap = 0 /\ Current.left # <<>>
      /\ dispatching' = [dispatching EXCEPT ![Depth].left = Tail(@),
                                            ![Depth].busy = listens]
      /\ UNCHANGED <<listenersRegistered, eventTarget, lastListener, bootstrap>>
  BY DEF Call
<1>2. dispatching # <<>> /\ ~ Current.busy
  BY <1>1 DEF Runs
<1>3. /\ DOMAIN dispatching = 1 .. Depth /\ Depth \in 1 .. Depth
      /\ Current \in Dispatch /\ Current.left \in Seq(Nat)
      /\ Current.channel \in Channels
      /\ dispatching \in Seq(Dispatch)
  BY <1>2, InvFacts, EmissionsFacts DEF Current
<1>4. UpTo(lastListener, Current.left) /\ Rising(Current.left)
  BY <1>3 DEF EmitterInv, DispatchesInOrder, Current
<1>5. /\ Tail(Current.left) \in Seq(Nat)
      /\ UpTo(lastListener, Tail(Current.left)) /\ Rising(Tail(Current.left))
      /\ Elements(Tail(Current.left)) = Elements(Current.left) \ {l}
      /\ l \in Elements(Current.left)
      /\ \A k \in Elements(Current.left) : l <= k
  BY <1>1, <1>3, <1>4, FirstCalled, InvFacts
<1>6. dispatching' = [dispatching EXCEPT ![Depth] = e]
  <2> HIDE DEF listens
  <2>1. \A s, b : [[Current EXCEPT !.left = s] EXCEPT !.busy = b]
                    = [channel |-> Current.channel, left |-> s, busy |-> b]
    <3>1. Current \in Dispatch
      BY <1>3
    <3> QED
      BY <3>1, LeftReplaced, Zenon
  <2>2. [[Current EXCEPT !.left = Tail(@)] EXCEPT !.busy = listens] = e
    BY <2>1
  <2> QED
    BY <1>1, <1>3, <2>2 DEF Current
<1>7. e \in Dispatch /\ e.left = Tail(Current.left) /\ e.channel = Current.channel
      /\ e.busy = listens
  BY <1>3, <1>5 DEF Dispatch
<1> HIDE DEF e
<1>8. /\ EmitterInv'
      /\ Emissions' = [Emissions EXCEPT ![Depth] = y]
  BY <1>1, <1>2, <1>5, <1>6, <1>7, CurrentChanges
<1>9. /\ Emissions \in Seq(Promised!Emission) /\ Len(Emissions) = Depth
      /\ DOMAIN Emissions = 1 .. Depth /\ Emissions[Depth] = x
  BY <1>2, EmissionsFacts
<1>10. /\ x.due = Elements(Current.left) \cap Elements(eventTarget[Current.channel])
       /\ y = [channel |-> x.channel, due |-> x.due \ {l}, busy |-> listens]
       /\ x = [channel |-> x.channel, due |-> x.due, busy |-> x.busy]
       /\ x.busy = FALSE
  <2>1. Current.busy = FALSE
    BY <1>2, <1>3 DEF Dispatch
  <2>2. Elements(e.left) \cap Elements(eventTarget[e.channel])
          = (Elements(Current.left) \cap Elements(eventTarget[Current.channel])) \ {l}
    BY <1>5, <1>7
  <2> HIDE DEF l
  <2> QED
    BY <1>7, <2>1, <2>2 DEF EmissionOf
<1> HIDE DEF x, y, l
<1>11. CASE listens
  <2>1. l \in x.due /\ \A k \in x.due : l <= k
    BY <1>5, <1>10, <1>11
  <2>2. [[x EXCEPT !.due = @ \ {l}] EXCEPT !.busy = TRUE] = y
    <3>1. \A s, b : [[x EXCEPT !.due = s] EXCEPT !.busy = b]
                      = [channel |-> x.channel, due |-> s, busy |-> b]
      <4>1. x \in Promised!Emission
        BY <1>3, InvFacts, EmissionTyped DEF x
      <4> QED
        BY <4>1, DueReplaced, Zenon
    <3> QED
      BY <3>1, <1>10, <1>11
  <2>3. Emissions' = [Emissions EXCEPT ![Depth].due = @ \ {l}, ![Depth].busy = TRUE]
    BY <1>3, <1>8, <1>9, <2>2
  <2>4. ~ Promised!Runs
    BY <1>1, RunsMaps
  <2>5. \E k \in Emissions[Len(Emissions)].due :
          /\ \A j \in Emissions[Len(Emissions)].due : k <= j
          /\ Emissions' = [Emissions EXCEPT ![Len(Emissions)].due = @ \ {k},
                                            ![Len(Emissions)].busy = TRUE]
    BY <1>9, <2>1, <2>3
  <2> QED
    BY <1>1, <1>8, <2>4, <2>5 DEF Promised!Deliver, Promised!Current, Promised!Depth,
       SubscribedOf, Emissions, EmissionsOf, EmissionOf
<1>12. CASE ~ listens
  <2>1. l \notin x.due /\ listens = FALSE
    BY <1>10, <1>12
  <2>2. y = x
    BY <2>1, <1>10
  <2>3. Emissions' = Emissions
    BY <2>2, <1>8, <1>9
  <2> QED
    BY <1>1, <1>8, <2>3 DEF Promised!vars, SubscribedOf, Emissions, EmissionsOf,
       EmissionOf
<1> QED
  BY <1>11, <1>12

LEMMA ListenerReturnsStep ==
    ASSUME EmitterInv, ListenerReturns
    PROVE  EmitterInv' /\ Promised!Handled
<1> DEFINE e == [channel |-> Current.channel, left |-> Current.left, busy |-> FALSE]
           x == EmissionOf(Current, eventTarget)
           y == EmissionOf(e, eventTarget)
<1>1. /\ bootstrap = 0 /\ dispatching # <<>> /\ Current.busy
      /\ dispatching' = [dispatching EXCEPT ![Depth].busy = FALSE]
      /\ UNCHANGED <<listenersRegistered, eventTarget, lastListener, bootstrap>>
  BY DEF ListenerReturns, Runs
<1>2. /\ DOMAIN dispatching = 1 .. Depth /\ Depth \in 1 .. Depth
      /\ Current \in Dispatch /\ dispatching \in Seq(Dispatch)
  BY <1>1, InvFacts, EmissionsFacts DEF Current
<1>3. UpTo(lastListener, Current.left) /\ Rising(Current.left)
  BY <1>2 DEF EmitterInv, DispatchesInOrder, Current
<1>4. dispatching' = [dispatching EXCEPT ![Depth] = e]
  <2>1. [Current EXCEPT !.busy = FALSE] = e
    BY <1>2, BusyReplaced
  <2> QED
    BY <1>1, <1>2, <2>1 DEF Current
<1>5. /\ e \in Dispatch /\ e.left = Current.left /\ e.channel = Current.channel
      /\ e.busy = FALSE
  BY <1>2 DEF Dispatch
<1> HIDE DEF e
<1>6. /\ EmitterInv'
      /\ Emissions' = [Emissions EXCEPT ![Depth] = y]
  BY <1>1, <1>3, <1>4, <1>5, CurrentChanges
<1>7. /\ Len(Emissions) = Depth /\ DOMAIN Emissions = 1 .. Depth
      /\ Emissions[Depth] = x /\ Emissions # <<>>
  BY <1>1, EmissionsFacts
<1>8. x.busy /\ [x EXCEPT !.busy = FALSE] = y
  <2> DEFINE due == Elements(Current.left) \cap Elements(eventTarget[Current.channel])
  <2>1. /\ x = [channel |-> Current.channel, due |-> due, busy |-> Current.busy]
        /\ y = [channel |-> Current.channel, due |-> due, busy |-> FALSE]
    BY <1>5 DEF EmissionOf
  <2>2. x \in Promised!Emission
    BY <1>2, InvFacts, EmissionTyped
  <2> HIDE DEF x, y, due
  <2>3. [x EXCEPT !.busy = FALSE] = [channel |-> x.channel, due |-> x.due, busy |-> FALSE]
    BY <2>2, EmissionBusyReplaced, Zenon
  <2>4. x.channel = Current.channel /\ x.due = due /\ x.busy = Current.busy
    BY <2>1
  <2> QED
    BY <1>1, <2>1, <2>3, <2>4
<1> HIDE DEF x, y
<1>9. /\ Emissions # <<>> /\ Emissions[Len(Emissions)].busy
      /\ Emissions' = [Emissions EXCEPT ![Len(Emissions)].busy = FALSE]
  BY <1>6, <1>7, <1>8
<1>10. Promised!Handled
  BY <1>1, <1>9 DEF Promised!Handled, Promised!Current, Promised!Depth,
     SubscribedOf, Emissions, EmissionsOf, EmissionOf
<1> QED
  BY <1>6, <1>10

LEMMA EmitReturnsStep ==
    ASSUME EmitterInv, EmitReturns
    PROVE  EmitterInv' /\ Promised!Emitted
<1> DEFINE front == SubSeq(dispatching, 1, Depth - 1)
<1>1. /\ ~ Runs /\ bootstrap = 0 /\ Current.left = <<>>
      /\ dispatching' = front
      /\ UNCHANGED <<listenersRegistered, eventTarget, lastListener, bootstrap>>
  BY DEF EmitReturns
<1>2. dispatching # <<>>
  BY <1>1 DEF Runs
<1>3. /\ dispatching \in Seq(Dispatch) /\ eventTarget \in Targets /\ Depth \in Nat \ {0}
      /\ DOMAIN dispatching = 1 .. Depth
      /\ \A i \in 1 .. Depth : dispatching[i] \in Dispatch
  BY <1>2, InvFacts, EmissionsFacts
<1>4. /\ front \in Seq(Dispatch) /\ DOMAIN front = 1 .. Depth - 1
      /\ Len(front) <= Depth
      /\ \A i \in 1 .. Depth - 1 : front[i] = dispatching[i]
  BY <1>3, FrontOfSeq DEF Depth
<1> HIDE DEF front
<1>5. TypeOK'
  <2>1. Depth <= MaxDepth /\ MaxDepth \in Nat /\ Len(front) \in Nat
    BY <1>4, LenProperties, EmitterAssumption DEF EmitterInv, TypeOK, Depth
  <2>2. Len(front) <= MaxDepth
    BY <2>1, <1>3, <1>4
  <2> QED
    BY <1>1, <1>4, <2>2 DEF EmitterInv, TypeOK
<1>6. DispatchesInOrder'
  <2> SUFFICES ASSUME NEW i \in 1 .. Depth - 1
               PROVE  UpTo(lastListener, front[i].left) /\ Rising(front[i].left)
    BY <1>1, <1>4 DEF DispatchesInOrder
  <2>1. i \in DOMAIN dispatching /\ front[i] = dispatching[i]
    BY <1>3, <1>4
  <2> QED
    BY <2>1 DEF EmitterInv, DispatchesInOrder
<1>7. EmitterInv'
  BY <1>1, <1>5, <1>6 DEF EmitterInv, CopiesAgree, ChannelsInOrder, BootstrapFirst
<1>8. Emissions' = SubSeq(Emissions, 1, Len(Emissions) - 1)
  <2>1. EmissionsOf(front, eventTarget) = SubSeq(Emissions, 1, Depth - 1)
    BY <1>2, <1>3, EmissionsFront DEF Emissions, Depth, front
  <2> QED
    BY <1>1, <2>1, EmissionsFacts DEF Emissions
<1>9. Emissions[Len(Emissions)].due = {}
  <2>1. Emissions[Len(Emissions)] = EmissionOf(Current, eventTarget)
    BY <1>2, EmissionsFacts
  <2>2. Elements(<<>>) = {}
    BY EmptySeq DEF Elements
  <2> QED
    BY <1>1, <2>1, <2>2 DEF EmissionOf
<1>10. ~ Promised!Runs
  BY <1>1, RunsMaps
<1>11. Promised!Emitted
  BY <1>1, <1>8, <1>9, <1>10 DEF Promised!Emitted, Promised!Current, Promised!Depth,
     SubscribedOf, Emissions, EmissionsOf, EmissionOf
<1> QED
  BY <1>7, <1>11

-----------------------------------------------------------------------------
(* The invariant holds, and every step is one of the abstract emitter.     *)

LEMMA InitMaps == Init => EmitterInv /\ Promised!Init
<1> SUFFICES ASSUME Init PROVE EmitterInv /\ Promised!Init
  OBVIOUS
<1>1. /\ \A S : <<>> \in Seq(S)
      /\ DOMAIN <<>> = {} /\ Len(<<>>) = 0 /\ Elements(<<>>) = {}
  BY EmptySeq DEF Elements
<1>2. TypeOK
  BY <1>1, EmitterAssumption, LenProperties DEF Init, TypeOK
<1>3. CopiesAgree /\ BootstrapFirst
  BY DEF Init, CopiesAgree, BootstrapFirst
<1>4. ChannelsInOrder /\ DispatchesInOrder
  BY <1>1 DEF Init, ChannelsInOrder, DispatchesInOrder, UpTo, Rising
<1>5. SubscribedOf(listenersRegistered) = [c \in Channels |-> {}]
  BY <1>1 DEF Init, SubscribedOf
<1>6. Emissions = <<>>
  BY <1>2, <1>3, <1>4, EmissionsFacts DEF Init, EmitterInv
<1>7. Promised!Init
  BY <1>5, <1>6 DEF Init, Promised!Init, SubscribedOf, Emissions, EmissionsOf,
     EmissionOf
<1> QED
  BY <1>2, <1>3, <1>4, <1>7 DEF EmitterInv

LEMMA SubscribeStep ==
    ASSUME EmitterInv, NEW c \in Channels, Subscribe(c)
    PROVE  EmitterInv' /\ Promised!Subscribe(c)
<1>1. /\ Runs /\ bootstrap = 0 /\ AddListener(c)
      /\ bootstrap' = bootstrap /\ dispatching' = dispatching
  BY DEF Subscribe, AddListener, Runs
<1>2. EmitterInv'
  BY <1>1, AddListenerKeeps DEF EmitterInv, TypeOK, BootstrapFirst, Lists, CopiesAgree
<1>3. Promised!Runs
  BY <1>1, RunsMaps
<1> QED
  BY <1>1, <1>2, <1>3, SubscribeMaps

LEMMA RegisterMethodStep ==
    ASSUME EmitterInv, RegisterMethod
    PROVE  EmitterInv' /\ \E c \in Channels : Promised!Subscribe(c)
<1> DEFINE c == Declared[bootstrap]
<1>1. bootstrap # 0 /\ AddListener(c) /\ dispatching' = dispatching
  BY DEF RegisterMethod, AddListener
<1>2. /\ Declared \in Seq(Channels) /\ Len(Declared) \in Nat
      /\ bootstrap \in 0 .. Len(Declared)
  BY EmitterAssumption, LenProperties DEF EmitterInv, TypeOK
<1>3. bootstrap \in 1 .. Len(Declared) /\ c \in Channels
  BY <1>1, <1>2, ElementOfSeq
<1> HIDE DEF c
<1>4. bootstrap' \in 0 .. Len(Declared)
  <2>1. bootstrap' = IF bootstrap = Len(Declared) THEN 0 ELSE bootstrap + 1
    BY DEF RegisterMethod
  <2> QED
    BY <1>2, <1>3, <2>1
<1>5. dispatching = <<>>
  BY <1>1 DEF EmitterInv, BootstrapFirst
<1>6. EmitterInv'
  BY <1>1, <1>3, <1>4, <1>5, AddListenerKeeps
     DEF EmitterInv, TypeOK, BootstrapFirst, Lists, CopiesAgree
<1>7. Promised!Subscribe(c)
  BY <1>1, <1>3, <1>5, RunsMaps, SubscribeMaps
<1> QED
  BY <1>3, <1>6, <1>7

LEMMA DeleteStep ==
    ASSUME EmitterInv, NEW cs \in SUBSET Channels, Runs, DeleteChannels(cs)
    PROVE  EmitterInv' /\ Promised!Unsubscribe(cs)
<1>1. /\ bootstrap = 0
      /\ UNCHANGED <<lastListener, dispatching, bootstrap>>
  BY DEF Runs, DeleteChannels
<1>2. eventTarget' \in Lists /\ CopiesAgree' /\ ChannelsInOrder'
  BY DeleteChannelsKeeps
<1>3. TypeOK'
  BY <1>1, <1>2 DEF EmitterInv, TypeOK, Lists, CopiesAgree
<1>4. DispatchesInOrder' /\ BootstrapFirst'
  BY <1>1 DEF EmitterInv, DispatchesInOrder, BootstrapFirst
<1> QED
  BY <1>1, <1>2, <1>3, <1>4, UnsubscribeMaps DEF EmitterInv

LEMMA NextMaps ==
    EmitterInv /\ [Next]_vars => EmitterInv' /\ [Promised!Next]_(Promised!vars)
<1> SUFFICES ASSUME EmitterInv, [Next]_vars
             PROVE  EmitterInv' /\ [Promised!Next]_(Promised!vars)
  OBVIOUS
<1>1. ASSUME NEW c \in Channels, Subscribe(c)
      PROVE  EmitterInv' /\ Promised!Next
  BY <1>1, SubscribeStep DEF Promised!Next
<1>2. ASSUME NEW c \in Channels, Emit(c)
      PROVE  EmitterInv' /\ Promised!Next
  <2>1. TypeOK' /\ DispatchesInOrder' /\ Promised!Emit(c)
    BY <1>2, EmitStep
  <2>2. CopiesAgree' /\ ChannelsInOrder' /\ BootstrapFirst'
    BY <1>2 DEF Emit, Runs, EmitterInv, CopiesAgree, ChannelsInOrder, BootstrapFirst
  <2> QED
    BY <2>1, <2>2 DEF Promised!Next, EmitterInv
<1>3. ASSUME NEW c \in Channels, Unsubscribe(c)
      PROVE  EmitterInv' /\ Promised!Next
  <2>1. {c} \in SUBSET Channels /\ Runs /\ DeleteChannels({c})
    BY <1>3 DEF Unsubscribe
  <2> QED
    BY <2>1, DeleteStep DEF Promised!Next
<1>4. CASE UnsubscribeAll
  <2>1. Channels \in SUBSET Channels /\ Runs /\ DeleteChannels(Channels)
    BY <1>4 DEF UnsubscribeAll
  <2> QED
    BY <2>1, DeleteStep DEF Promised!Next
<1>5. CASE Call
  BY <1>5, CallStep DEF Promised!Next
<1>6. CASE ListenerReturns
  BY <1>6, ListenerReturnsStep DEF Promised!Next
<1>7. CASE EmitReturns
  BY <1>7, EmitReturnsStep DEF Promised!Next
<1>8. CASE OnAppBootstrap
  <2>1. /\ dispatching = <<>> /\ bootstrap' = 1 /\ Declared # <<>>
        /\ UNCHANGED <<listenersRegistered, eventTarget, lastListener, dispatching>>
    BY <1>8 DEF OnAppBootstrap
  <2>2. bootstrap' \in 0 .. Len(Declared)
    BY <2>1, EmitterAssumption, EmptySeq
  <2>3. EmitterInv'
    BY <2>1, <2>2 DEF EmitterInv, TypeOK, CopiesAgree, ChannelsInOrder,
       DispatchesInOrder, BootstrapFirst
  <2>4. UNCHANGED Promised!vars
    BY <2>1 DEF Promised!vars
  <2> QED
    BY <2>3, <2>4
<1>9. CASE RegisterMethod
  BY <1>9, RegisterMethodStep DEF Promised!Next
<1>10. CASE UNCHANGED vars
  <2>1. EmitterInv'
    BY <1>10 DEF vars, EmitterInv, TypeOK, CopiesAgree, ChannelsInOrder,
       DispatchesInOrder, BootstrapFirst
  <2>2. UNCHANGED Promised!vars
    BY <1>10 DEF vars, Promised!vars
  <2> QED
    BY <2>1, <2>2
<1> QED
  BY <1>1, <1>2, <1>3, <1>4, <1>5, <1>6, <1>7, <1>8, <1>9, <1>10 DEF Next

(* With listeners that emit, subscribe and unsubscribe while an event is   *)
(* dispatched, and the two copies that emit looks up and dispatches from,  *)
(* an event goes once, and in the order of their subscription, to those    *)
(* who were subscribed when it was emitted and still are.                  *)
THEOREM EmitterImplementsSubscriptions == Spec => ImplementsSubscriptions
<1> QED
  BY InitMaps, NextMaps, PTL DEF Spec, ImplementsSubscriptions, Promised!Spec

(* The Map that emit looks a channel up in and the target it dispatches    *)
(* from hold the same listeners, whoever subscribes and unsubscribes when. *)
THEOREM CopiesKept == Spec => []CopiesAgree
<1>1. EmitterInv => CopiesAgree
  BY DEF EmitterInv
<1> QED
  BY <1>1, InitMaps, NextMaps, PTL DEF Spec

=============================================================================
