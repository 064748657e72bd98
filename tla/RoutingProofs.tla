--------------------------- MODULE RoutingProofs ---------------------------
(* Routing for any controllers, settings and requests: an init that        *)
(* resolves has registered everything, paths are joined, middlewares come  *)
(* first, and a method gets the arguments that its decorators ask for.     *)
(* The recursive functions of the model compute what they say by the       *)
(* argument of the least place at which they would not.                    *)
EXTENDS Routing, SequenceTheorems, WellFoundedInduction, TLAPS

LEMMA Least ==
    ASSUME NEW S, S \subseteq Nat, S # {}
    PROVE  \E m \in S : \A n \in S : m <= n
<1> DEFINE Less == OpToRel(<, Nat)
<1>1. IsWellFoundedOn(Less, Nat)
  BY NatLessThanWellFounded
<1>2. \A y, z \in Nat : y < z => <<y, z>> \in Less
  BY DEF OpToRel
<1> HIDE DEF Less
<1>3. PICK m \in S : \A n \in S : <<n, m>> \notin Less
  BY <1>1, WFMin
<1>4. ASSUME NEW n \in S PROVE m <= n
  <2>1. m \in Nat /\ n \in Nat
    BY <1>3
  <2>2. ~ (n < m)
    BY <1>2, <1>3, <2>1
  <2> QED
    BY <2>1, <2>2
<1> QED
  BY <1>3, <1>4

-----------------------------------------------------------------------------
(* Sequences.                                                              *)

LEMMA IsSequenceFacts ==
    ASSUME NEW s, IsSequence(s)
    PROVE  /\ Len(s) \in Nat /\ DOMAIN s = 1 .. Len(s)
           /\ \A i \in 1 .. Len(s) : s[i] \in Range(s)
<1>1. s \in Seq(Range(s))
  BY DEF IsSequence
<1> QED
  BY <1>1, LenProperties

LEMMA InSequence ==
    ASSUME NEW C, NEW s \in Seq(C)
    PROVE  IsSequence(s)
<1>1. /\ Len(s) \in Nat /\ DOMAIN s = 1 .. Len(s)
      /\ s = [i \in 1 .. Len(s) |-> s[i]]
  BY LenProperties
<1>2. \A i \in 1 .. Len(s) : s[i] \in Range(s)
  BY <1>1 DEF Range
<1> QED
  BY <1>1, <1>2, IsASeq DEF IsSequence

LEMMA SequenceIn ==
    ASSUME NEW s, IsSequence(s), NEW C, Range(s) \subseteq C
    PROVE  s \in Seq(C)
<1>1. s \in Seq(Range(s))
  BY DEF IsSequence
<1>2. /\ Len(s) \in Nat /\ s = [i \in 1 .. Len(s) |-> s[i]]
      /\ \A i \in 1 .. Len(s) : s[i] \in C
  BY <1>1, LenProperties
<1> QED
  BY <1>2, IsASeq

LEMMA AppendSequence ==
    ASSUME NEW s, IsSequence(s), NEW e
    PROVE  /\ IsSequence(Append(s, e))
           /\ Len(Append(s, e)) = Len(s) + 1
           /\ Append(s, e)[Len(s) + 1] = e
           /\ \A i \in 1 .. Len(s) : Append(s, e)[i] = s[i]
<1> DEFINE C == Range(s) \cup {e}
<1>1. s \in Seq(C) /\ e \in C
  BY SequenceIn
<1> HIDE DEF C
<1>2. Append(s, e) \in Seq(C)
  BY <1>1
<1>3. IsSequence(Append(s, e))
  BY <1>2, InSequence
<1> QED
  BY <1>1, <1>3, AppendProperties

LEMMA AppendCat ==
    ASSUME NEW C, NEW s \in Seq(C), NEW t \in Seq(C), NEW e \in C
    PROVE  s \o Append(t, e) = Append(s \o t, e)
<1> DEFINE u == Append(t, e)
           v == s \o t
<1>1. /\ u \in Seq(C) /\ Len(u) = Len(t) + 1 /\ u[Len(t) + 1] = e
      /\ \A i \in 1 .. Len(t) : u[i] = t[i]
  BY AppendProperties
<1>2. /\ v \in Seq(C) /\ Len(v) = Len(s) + Len(t)
      /\ \A i \in 1 .. Len(s) + Len(t) :
           v[i] = IF i <= Len(s) THEN s[i] ELSE t[i - Len(s)]
  BY ConcatProperties
<1>3. Len(s) \in Nat /\ Len(t) \in Nat
  BY LenProperties
<1> HIDE DEF u, v
<1>4. /\ s \o u \in Seq(C) /\ Len(s \o u) = Len(s) + Len(t) + 1
      /\ \A i \in 1 .. Len(s) + Len(t) + 1 :
           (s \o u)[i] = IF i <= Len(s) THEN s[i] ELSE u[i - Len(s)]
  <2>1. /\ s \o u \in Seq(C) /\ Len(s \o u) = Len(s) + Len(u)
        /\ \A i \in 1 .. Len(s) + Len(u) :
             (s \o u)[i] = IF i <= Len(s) THEN s[i] ELSE u[i - Len(s)]
    BY <1>1, ConcatProperties
  <2>2. Len(s) + Len(u) = Len(s) + Len(t) + 1
    BY <1>1, <1>3
  <2> QED
    BY <2>1, <2>2
<1>5. /\ Append(v, e) \in Seq(C) /\ Len(Append(v, e)) = Len(s) + Len(t) + 1
      /\ Append(v, e)[Len(s) + Len(t) + 1] = e
      /\ \A i \in 1 .. Len(s) + Len(t) : Append(v, e)[i] = v[i]
  <2>0. v \in Seq(C)
    BY <1>2
  <2>1. /\ Append(v, e) \in Seq(C) /\ Len(Append(v, e)) = Len(v) + 1
        /\ Append(v, e)[Len(v) + 1] = e
        /\ \A i \in 1 .. Len(v) : Append(v, e)[i] = v[i]
    BY <2>0, AppendProperties
  <2> QED
    BY <1>2, <2>1
<1>6. ASSUME NEW i \in 1 .. Len(s) + Len(t) + 1
      PROVE  (s \o u)[i] = Append(v, e)[i]
  <2>1. CASE i = Len(s) + Len(t) + 1
    <3>1. i - Len(s) = Len(t) + 1 /\ ~ (i <= Len(s))
      BY <1>3, <2>1
    <3> QED
      BY <1>1, <1>4, <1>5, <2>1, <3>1
  <2>2. CASE i <= Len(s)
    <3>1. i \in 1 .. Len(s) + Len(t)
      BY <1>3, <2>2
    <3> QED
      BY <1>2, <1>4, <1>5, <2>2, <3>1
  <2>3. CASE i > Len(s) /\ i < Len(s) + Len(t) + 1
    <3>1. /\ i \in 1 .. Len(s) + Len(t) /\ ~ (i <= Len(s))
          /\ i - Len(s) \in 1 .. Len(t)
      BY <1>3, <2>3
    <3> QED
      BY <1>1, <1>2, <1>4, <1>5, <3>1
  <2>4. \/ i = Len(s) + Len(t) + 1
        \/ i <= Len(s)
        \/ i > Len(s) /\ i < Len(s) + Len(t) + 1
    BY <1>3
  <2> QED
    BY <2>1, <2>2, <2>3, <2>4
<1>7. s \o u = Append(v, e)
  BY <1>4, <1>5, <1>6, SeqEqual
<1> QED
  BY <1>7 DEF u, v

-----------------------------------------------------------------------------
(* The names of a path.                                                    *)

LEMMA SegmentsDef ==
    ASSUME NEW C, NEW p \in Seq(C)
    PROVE  \E names :
             /\ DOMAIN names = 0 .. Len(p)
             /\ names[0] = <<>>
             /\ \A n \in 1 .. Len(p) :
                  names[n] = IF p[n] = Slash THEN names[n - 1]
                             ELSE Append(names[n - 1], p[n])
             /\ Segments(p) = names[Len(p)]
<1> DEFINE Step(f, n) ==
               IF n = 0 THEN <<>>
               ELSE IF p[n] = Slash THEN f[n - 1] ELSE Append(f[n - 1], p[n])
           Are(f, k) == f = [n \in 0 .. k |-> Step(f, n)]
           names == CHOOSE f : Are(f, Len(p))
           Bad == {k \in Nat : ~ \E f : Are(f, k)}
<1>1. Len(p) \in Nat
  BY LenProperties
<1>2. Bad = {}
  <2>1. SUFFICES ASSUME Bad # {} PROVE FALSE
    OBVIOUS
  <2>2. PICK k \in Bad : \A n \in Bad : k <= n
    <3> HIDE DEF Bad
    <3>1. Bad \subseteq Nat
      BY DEF Bad
    <3> QED
      BY <2>1, <3>1, Least
  <2>3. k \in Nat /\ ~ \E f : Are(f, k)
    BY <2>2
  <2>4. CASE k = 0
    <3> DEFINE f == [n \in 0 .. 0 |-> <<>>]
    <3>1. \A n \in 0 .. 0 : Step(f, n) = <<>>
      OBVIOUS
    <3>2. Are(f, 0)
      BY <3>1
    <3> QED
      BY <2>3, <2>4, <3>2
  <2>5. CASE k # 0
    <3>1. k - 1 \in Nat /\ k - 1 \notin Bad
      <4> HIDE DEF Bad
      <4>1. k - 1 \in Nat /\ ~ (k <= k - 1)
        BY <2>3, <2>5
      <4> QED
        BY <4>1, <2>2
    <3>2. PICK g : Are(g, k - 1)
      BY <3>1
    <3> DEFINE f == [n \in 0 .. k |-> Step(g, n)]
    <3>3. \A n \in 0 .. k - 1 : f[n] = g[n]
      <4>1. \A n \in 0 .. k - 1 : g[n] = Step(g, n)
        BY <3>2
      <4>2. \A n \in 0 .. k : f[n] = Step(g, n)
        OBVIOUS
      <4> HIDE DEF Step, f
      <4> QED
        BY <2>3, <4>1, <4>2
    <3>4. ASSUME NEW n \in 0 .. k PROVE Step(f, n) = Step(g, n)
      <4> HIDE DEF f
      <4>1. n # 0 => f[n - 1] = g[n - 1]
        BY <2>3, <3>3
      <4> QED
        BY <4>1
    <3>5. Are(f, k)
      BY <3>4
    <3> QED
      BY <2>3, <3>5
  <2> QED
    BY <2>4, <2>5
<1>3. Are(names, Len(p))
  <2>1. \E f : Are(f, Len(p))
    BY <1>1, <1>2
  <2> HIDE DEF Are
  <2> QED
    BY <2>1
<1>4. Segments(p) = names[Len(p)]
  BY DEF Segments
<1> HIDE DEF names
<1>5. \A n \in 0 .. Len(p) : names[n] = Step(names, n)
  BY <1>3
<1>6. DOMAIN names = 0 .. Len(p)
  BY <1>3
<1>7. names[0] = <<>>
  BY <1>1, <1>5
<1>8. \A n \in 1 .. Len(p) :
        names[n] = IF p[n] = Slash THEN names[n - 1]
                   ELSE Append(names[n - 1], p[n])
  BY <1>1, <1>5
<1> QED
  BY <1>4, <1>6, <1>7, <1>8

LEMMA SegmentsType ==
    ASSUME NEW C, NEW p \in Seq(C), NEW names,
           names[0] = <<>>,
           \A n \in 1 .. Len(p) :
             names[n] = IF p[n] = Slash THEN names[n - 1]
                        ELSE Append(names[n - 1], p[n])
    PROVE  \A n \in 0 .. Len(p) : names[n] \in Seq(C)
<1> DEFINE Bad == {n \in 0 .. Len(p) : names[n] \notin Seq(C)}
<1>1. Len(p) \in Nat /\ \A n \in 1 .. Len(p) : p[n] \in C
  BY LenProperties
<1>2. SUFFICES ASSUME Bad # {} PROVE FALSE
  OBVIOUS
<1>3. PICK m \in Bad : \A n \in Bad : m <= n
  <2>1. Bad \subseteq Nat
    BY <1>1
  <2> HIDE DEF Bad
  <2> QED
    BY <1>2, <2>1, Least
<1>4. m \in 1 .. Len(p) /\ names[m] \notin Seq(C)
  <2>1. <<>> \in Seq(C) /\ names[0] = <<>>
    OBVIOUS
  <2>2. m \in 0 .. Len(p) /\ names[m] \notin Seq(C)
    BY <1>3
  <2>3. m # 0
    BY <2>1, <2>2
  <2> QED
    BY <1>1, <2>2, <2>3
<1>5. names[m - 1] \in Seq(C)
  BY <1>1, <1>3, <1>4
<1>6. names[m] = names[m - 1] \/ names[m] = Append(names[m - 1], p[m])
  BY <1>4
<1>7. Append(names[m - 1], p[m]) \in Seq(C)
  BY <1>1, <1>4, <1>5, AppendProperties
<1> QED
  BY <1>4, <1>5, <1>6, <1>7

(* The names of two paths behind each other.                               *)
LEMMA SegmentsCat ==
    ASSUME NEW C, NEW p \in Seq(C), NEW q \in Seq(C)
    PROVE  /\ Segments(p \o q) = Segments(p) \o Segments(q)
           /\ Segments(p) \in Seq(C)
<1> DEFINE c == p \o q
<1>1. /\ c \in Seq(C) /\ Len(c) = Len(p) + Len(q)
      /\ Len(p) \in Nat /\ Len(q) \in Nat
      /\ \A i \in 1 .. Len(p) : c[i] = p[i]
      /\ \A i \in 1 .. Len(q) : c[Len(p) + i] = q[i]
      /\ \A i \in 1 .. Len(q) : q[i] \in C
  BY ConcatProperties, LenProperties
<1>2. PICK a : /\ a[0] = <<>>
               /\ \A n \in 1 .. Len(p) :
                    a[n] = IF p[n] = Slash THEN a[n - 1]
                           ELSE Append(a[n - 1], p[n])
               /\ Segments(p) = a[Len(p)]
  BY SegmentsDef
<1>3. PICK b : /\ b[0] = <<>>
               /\ \A n \in 1 .. Len(q) :
                    b[n] = IF q[n] = Slash THEN b[n - 1]
                           ELSE Append(b[n - 1], q[n])
               /\ Segments(q) = b[Len(q)]
  BY SegmentsDef
<1>4. PICK d : /\ d[0] = <<>>
               /\ \A n \in 1 .. Len(c) :
                    d[n] = IF c[n] = Slash THEN d[n - 1]
                           ELSE Append(d[n - 1], c[n])
               /\ Segments(c) = d[Len(c)]
  BY <1>1, SegmentsDef
<1>5. /\ \A n \in 0 .. Len(p) : a[n] \in Seq(C)
      /\ \A n \in 0 .. Len(q) : b[n] \in Seq(C)
  BY <1>2, <1>3, SegmentsType
<1> HIDE DEF c
<1>6. \A n \in 0 .. Len(p) : d[n] = a[n]
  <2> DEFINE Bad == {n \in 0 .. Len(p) : d[n] # a[n]}
  <2>1. SUFFICES ASSUME Bad # {} PROVE FALSE
    OBVIOUS
  <2>2. PICK m \in Bad : \A n \in Bad : m <= n
    <3>1. Bad \subseteq Nat
      BY <1>1
    <3> HIDE DEF Bad
    <3> QED
      BY <2>1, <3>1, Least
  <2>3. m \in 1 .. Len(p) /\ m \in 1 .. Len(c)
    BY <1>1, <1>2, <1>4, <2>2
  <2>4. d[m - 1] = a[m - 1]
    BY <1>1, <2>2, <2>3
  <2> QED
    BY <1>1, <1>2, <1>4, <2>2, <2>3, <2>4
<1>7. \A n \in 0 .. Len(q) : d[Len(p) + n] = Segments(p) \o b[n]
  <2> DEFINE Bad == {n \in 0 .. Len(q) : d[Len(p) + n] # Segments(p) \o b[n]}
  <2>1. SUFFICES ASSUME Bad # {} PROVE FALSE
    OBVIOUS
  <2>2. PICK m \in Bad : \A n \in Bad : m <= n
    <3>1. Bad \subseteq Nat
      BY <1>1
    <3> HIDE DEF Bad
    <3> QED
      BY <2>1, <3>1, Least
  <2>3. Segments(p) \in Seq(C)
    BY <1>1, <1>2, <1>5
  <2>4. m # 0
    <3>1. Segments(p) \o <<>> = Segments(p)
      BY <2>3, ConcatEmptySeq
    <3>2. d[Len(p) + 0] = Segments(p)
      BY <1>1, <1>2, <1>6
    <3> QED
      BY <1>3, <2>2, <3>1, <3>2
  <2>5. /\ m \in 1 .. Len(q) /\ m - 1 \in 0 .. Len(q)
        /\ Len(p) + m \in 1 .. Len(c)
        /\ Len(p) + m - 1 = Len(p) + (m - 1)
    BY <1>1, <2>2, <2>4
  <2>6. d[Len(p) + (m - 1)] = Segments(p) \o b[m - 1]
    <3>1. ~ (m <= m - 1)
      BY <2>5
    <3> QED
      BY <2>2, <2>5, <3>1
  <2>7. c[Len(p) + m] = q[m] /\ q[m] \in C /\ b[m - 1] \in Seq(C)
    BY <1>1, <1>5, <2>5
  <2>8. Segments(p) \o Append(b[m - 1], q[m])
          = Append(Segments(p) \o b[m - 1], q[m])
    <3>1. \A s, t \in Seq(C) : \A e \in C :
             s \o Append(t, e) = Append(s \o t, e)
      BY AppendCat
    <3> QED
      BY <2>3, <2>7, <3>1
  <2>9. d[Len(p) + m] = IF q[m] = Slash THEN d[Len(p) + (m - 1)]
                        ELSE Append(d[Len(p) + (m - 1)], q[m])
    BY <1>4, <2>5, <2>7
  <2>10. b[m] = IF q[m] = Slash THEN b[m - 1] ELSE Append(b[m - 1], q[m])
    BY <1>3, <2>5
  <2>11. d[Len(p) + m] = Segments(p) \o b[m]
    BY <2>6, <2>8, <2>9, <2>10
  <2> QED
    BY <2>2, <2>11
<1>8. d[Len(c)] = Segments(p) \o b[Len(q)]
  BY <1>1, <1>7
<1> QED
  BY <1>1, <1>2, <1>3, <1>4, <1>5, <1>8 DEF c

LEMMA SegmentsShort ==
    /\ Segments(<<>>) = <<>>
    /\ Segments(<<Slash>>) = <<>>
<1>1. <<>> \in Seq({Slash}) /\ <<Slash>> \in Seq({Slash})
  OBVIOUS
<1>2. PICK a : a[0] = <<>> /\ Segments(<<>>) = a[Len(<<>>)]
  BY <1>1, SegmentsDef
<1>3. PICK b : /\ b[0] = <<>>
               /\ \A n \in 1 .. Len(<<Slash>>) :
                    b[n] = IF <<Slash>>[n] = Slash THEN b[n - 1]
                           ELSE Append(b[n - 1], <<Slash>>[n])
               /\ Segments(<<Slash>>) = b[Len(<<Slash>>)]
  BY <1>1, SegmentsDef
<1>4. Len(<<>>) = 0 /\ Len(<<Slash>>) = 1 /\ <<Slash>>[1] = Slash
  OBVIOUS
<1>5. b[1] = b[0]
  BY <1>3, <1>4
<1> QED
  BY <1>2, <1>3, <1>4, <1>5

-----------------------------------------------------------------------------
(* Joined paths.                                                           *)

LEMMA PrefixFacts ==
    ASSUME NEW C, Slash \in C, NEW p \in Seq(C)
    PROVE  /\ SetPrefix(p) \in Seq(C)
           /\ Segments(SetPrefix(p)) = Segments(p)
           /\ Tidy(p) =>
                /\ Tidy(SetPrefix(p))
                /\ SetPrefix(p) # <<>> =>
                     SetPrefix(p)[Len(SetPrefix(p))] # Slash
<1>1. CASE p # <<>> /\ Last(p) = Slash
  <2> DEFINE f == Front(p)
  <2>1. SetPrefix(p) = f
    BY <1>1 DEF SetPrefix
  <2>2. /\ Len(p) \in Nat \ {0} /\ p[Len(p)] = Slash
        /\ f = SubSeq(p, 1, Len(p) - 1)
    BY <1>1, LenProperties, EmptySeq DEF Last, Front
  <2>3. /\ f \in Seq(C) /\ Len(f) = Len(p) - 1
        /\ \A i \in 1 .. Len(f) : f[i] = p[i]
    <3>1. /\ 1 \in Int /\ Len(p) - 1 \in Int
          /\ \A i \in 1 .. Len(p) - 1 : p[i] \in C
      BY <2>2, LenProperties
    <3>2. /\ f \in Seq(C)
          /\ Len(f) = IF 1 <= Len(p) - 1 THEN Len(p) - 1 - 1 + 1 ELSE 0
          /\ \A i \in 1 .. Len(p) - 1 - 1 + 1 : f[i] = p[1 + i - 1]
      BY <2>2, <3>1, SubSeqProperties
    <3>3. Len(f) = Len(p) - 1
      <4>1. \A n \in Nat \ {0} :
              (IF 1 <= n - 1 THEN n - 1 - 1 + 1 ELSE 0) = n - 1
        OBVIOUS
      <4>2. Len(p) \in Nat \ {0}
        BY <2>2
      <4> HIDE DEF f
      <4> QED
        BY <3>2, <4>1, <4>2
    <3>4. \A i \in 1 .. Len(p) - 1 : f[i] = p[i]
      BY <2>2, <3>2
    <3> QED
      BY <3>2, <3>3, <3>4
  <2> HIDE DEF f
  <2>4. p = f \o <<Slash>>
    <3>1. <<Slash>> \in Seq(C) /\ Len(<<Slash>>) = 1 /\ <<Slash>>[1] = Slash
      OBVIOUS
    <3>2. /\ f \o <<Slash>> \in Seq(C) /\ Len(f \o <<Slash>>) = Len(p)
          /\ \A i \in 1 .. Len(p) : (f \o <<Slash>>)[i] = p[i]
      BY <2>2, <2>3, <3>1, ConcatProperties
    <3> QED
      BY <3>2, SeqEqual
  <2>5. Segments(f) = Segments(p)
    <3>1. <<Slash>> \in Seq(C)
      OBVIOUS
    <3>2. /\ Segments(f \o <<Slash>>) = Segments(f) \o Segments(<<Slash>>)
          /\ Segments(f) \in Seq(C)
      BY <2>3, <3>1, SegmentsCat
    <3>3. Segments(f) \o <<>> = Segments(f)
      BY <3>2, ConcatEmptySeq
    <3> QED
      BY <2>4, <3>2, <3>3, SegmentsShort
  <2>6. ASSUME Tidy(p) PROVE Tidy(f) /\ (f # <<>> => f[Len(f)] # Slash)
    <3>1. \A i \in 1 .. Len(p) : i > 1 => ~ (p[i] = Slash /\ p[i - 1] = Slash)
      BY <2>6, LenProperties DEF Tidy
    <3>2. DOMAIN f = 1 .. Len(f) /\ Len(f) \in Nat
      BY <2>3, LenProperties
    <3>3. Tidy(f)
      <4> SUFFICES ASSUME NEW i \in 1 .. Len(f), i > 1
                   PROVE  ~ (f[i] = Slash /\ f[i - 1] = Slash)
        BY <3>2 DEF Tidy
      <4>1. /\ f[i] = p[i] /\ f[i - 1] = p[i - 1] /\ i \in 1 .. Len(p)
        BY <2>3, <3>2
      <4> QED
        BY <3>1, <4>1
    <3>4. ASSUME f # <<>> PROVE f[Len(f)] # Slash
      <4>1. Len(f) # 0
        BY <2>3, <3>4, EmptySeq
      <4>2. f[Len(f)] = p[Len(p) - 1] /\ Len(p) > 1
        BY <2>2, <2>3, <3>2, <4>1
      <4> QED
        BY <2>2, <3>1, <4>2
    <3> QED
      BY <3>3, <3>4
  <2> QED
    BY <2>1, <2>3, <2>5, <2>6
<1>2. CASE ~ (p # <<>> /\ Last(p) = Slash)
  <2>1. SetPrefix(p) = p
    BY <1>2 DEF SetPrefix
  <2>2. p # <<>> => p[Len(p)] # Slash
    BY <1>2 DEF Last
  <2> QED
    BY <2>1, <2>2
<1> QED
  BY <1>1, <1>2

LEMMA Trimmed ==
    ASSUME NEW C, Slash \in C, NEW p \in Seq(C)
    PROVE  /\ TrimSlash(p) \in Seq(C)
           /\ Segments(TrimSlash(p)) = Segments(p)
           /\ Tidy(p) =>
                /\ Tidy(TrimSlash(p))
                /\ TrimSlash(p) # <<>> =>
                     /\ TrimSlash(p)[1] # Slash
                     /\ TrimSlash(p)[Len(TrimSlash(p))] # Slash
<1> DEFINE q == SetPrefix(p)
           t == IF q # <<>> /\ Head(q) = Slash THEN Tail(q) ELSE q
<1>1. TrimSlash(p) = t
  BY DEF TrimSlash, SetPrefix
<1>2. /\ q \in Seq(C)
      /\ Segments(q) = Segments(p)
      /\ Tidy(p) => Tidy(q) /\ (q # <<>> => q[Len(q)] # Slash)
  BY PrefixFacts
<1> HIDE DEF q
<1>3. CASE q # <<>> /\ Head(q) = Slash
  <2>1. /\ Len(q) \in Nat \ {0} /\ q[1] = Slash /\ t = Tail(q)
        /\ t \in Seq(C) /\ Len(t) = Len(q) - 1
        /\ \A i \in 1 .. Len(t) : t[i] = q[i + 1]
    BY <1>2, <1>3, HeadTailProperties, LenProperties, EmptySeq
  <2>2. q = <<Slash>> \o t
    BY <1>2, <1>3, <2>1, HeadTailProperties
  <2>3. Segments(t) = Segments(q)
    <3>1. <<Slash>> \in Seq(C)
      OBVIOUS
    <3>2. /\ Segments(<<Slash>> \o t) = Segments(<<Slash>>) \o Segments(t)
          /\ Segments(t) \in Seq(C)
      BY <2>1, <3>1, SegmentsCat
    <3>3. <<>> \o Segments(t) = Segments(t)
      BY <3>2, ConcatEmptySeq
    <3> QED
      BY <2>2, <3>2, <3>3, SegmentsShort
  <2>4. ASSUME Tidy(p)
        PROVE  Tidy(t) /\ (t # <<>> => t[1] # Slash /\ t[Len(t)] # Slash)
    <3>1. /\ \A i \in 1 .. Len(q) :
               i > 1 => ~ (q[i] = Slash /\ q[i - 1] = Slash)
          /\ q[Len(q)] # Slash
      BY <1>2, <1>3, <2>4, LenProperties DEF Tidy
    <3>2. DOMAIN t = 1 .. Len(t) /\ Len(t) \in Nat
      BY <2>1, LenProperties
    <3>3. Tidy(t)
      <4> SUFFICES ASSUME NEW i \in 1 .. Len(t), i > 1
                   PROVE  ~ (t[i] = Slash /\ t[i - 1] = Slash)
        BY <3>2 DEF Tidy
      <4>1. /\ t[i] = q[i + 1] /\ t[i - 1] = q[i]
            /\ i + 1 \in 1 .. Len(q) /\ i + 1 > 1 /\ i + 1 - 1 = i
        BY <2>1, <3>2
      <4> QED
        BY <3>1, <4>1
    <3>4. ASSUME t # <<>> PROVE t[1] # Slash /\ t[Len(t)] # Slash
      <4>1. Len(t) # 0
        BY <2>1, <3>4, EmptySeq
      <4>2. t[1] = q[2] /\ 2 \in 1 .. Len(q) /\ t[Len(t)] = q[Len(q)]
        BY <2>1, <3>2, <4>1
      <4> QED
        BY <2>1, <3>1, <4>2
    <3> QED
      BY <3>3, <3>4
  <2> HIDE DEF t
  <2> QED
    BY <1>1, <1>2, <2>1, <2>3, <2>4
<1>4. CASE ~ (q # <<>> /\ Head(q) = Slash)
  <2>1. t = q
    BY <1>4
  <2>2. q # <<>> => q[1] # Slash
    BY <1>2, <1>4, HeadTailProperties
  <2> QED
    BY <1>1, <1>2, <2>1, <2>2
<1> QED
  BY <1>3, <1>4

Closed(p) == Tidy(p) /\ (p # <<>> => p[Len(p)] # Slash)

LEMMA TidyCat ==
    ASSUME NEW C, NEW p \in Seq(C), NEW q \in Seq(C), Closed(p), Tidy(q)
    PROVE  Tidy(p \o q) /\ (Closed(q) => Closed(p \o q))
<1> DEFINE c == p \o q
<1>1. /\ c \in Seq(C) /\ Len(c) = Len(p) + Len(q)
      /\ Len(p) \in Nat /\ Len(q) \in Nat /\ DOMAIN c = 1 .. Len(c)
      /\ DOMAIN p = 1 .. Len(p) /\ DOMAIN q = 1 .. Len(q)
      /\ \A i \in 1 .. Len(p) : c[i] = p[i]
      /\ \A i \in Len(p) + 1 .. Len(p) + Len(q) : c[i] = q[i - Len(p)]
  BY ConcatProperties, LenProperties
<1>2. c = <<>> <=> p = <<>> /\ q = <<>>
  BY <1>1, EmptySeq
<1>3. Len(p) # 0 => p[Len(p)] # Slash
  BY EmptySeq DEF Closed
<1> HIDE DEF c
<1>4. ASSUME NEW i \in 1 .. Len(p) + Len(q), i > 1
      PROVE  ~ (c[i] = Slash /\ c[i - 1] = Slash)
  <2>1. CASE i <= Len(p)
    <3>1. i \in 1 .. Len(p) /\ i - 1 \in 1 .. Len(p)
      BY <1>1, <1>4, <2>1
    <3>2. c[i] = p[i] /\ c[i - 1] = p[i - 1]
      BY <1>1, <3>1
    <3> QED
      BY <1>1, <1>4, <3>1, <3>2 DEF Closed, Tidy
  <2>2. CASE i = Len(p) + 1
    <3>1. i - 1 = Len(p) /\ Len(p) \in 1 .. Len(p)
      BY <1>1, <1>4, <2>2
    <3> QED
      BY <1>1, <1>3, <3>1
  <2>3. CASE i > Len(p) + 1
    <3> DEFINE j == i - Len(p)
    <3>1. /\ j \in 1 .. Len(q) /\ j > 1 /\ i - 1 - Len(p) = j - 1
          /\ i \in Len(p) + 1 .. Len(p) + Len(q)
          /\ i - 1 \in Len(p) + 1 .. Len(p) + Len(q)
      BY <1>1, <1>4, <2>3
    <3>2. c[i] = q[j] /\ c[i - 1] = q[j - 1]
      BY <1>1, <3>1
    <3> QED
      BY <1>1, <3>1, <3>2 DEF Tidy
  <2> QED
    BY <1>1, <1>4, <2>1, <2>2, <2>3
<1>5. Tidy(c)
  BY <1>1, <1>4 DEF Tidy
<1>6. ASSUME Closed(q), c # <<>> PROVE c[Len(c)] # Slash
  <2>1. CASE q = <<>>
    <3>1. Len(q) = 0 /\ Len(c) = Len(p) /\ p # <<>> /\ Len(p) # 0
      BY <1>1, <1>2, <1>6, <2>1, EmptySeq
    <3>2. Len(p) \in 1 .. Len(p)
      BY <1>1, <3>1
    <3> QED
      BY <1>1, <1>3, <3>1, <3>2
  <2>2. CASE q # <<>>
    <3>1. q[Len(q)] # Slash /\ Len(q) # 0
      BY <1>6, <2>2, EmptySeq DEF Closed
    <3>2. /\ Len(c) \in Len(p) + 1 .. Len(p) + Len(q)
          /\ Len(c) - Len(p) = Len(q)
      BY <1>1, <3>1
    <3> QED
      BY <1>1, <3>1, <3>2
  <2> QED
    BY <2>1, <2>2
<1> QED
  BY <1>5, <1>6 DEF Closed, c

(* A part of a path, behind its slash.                                     *)
Part(x) == IF TrimSlash(x) = <<>> THEN <<>> ELSE <<Slash>> \o TrimSlash(x)

LEMMA PartFacts ==
    ASSUME NEW C, Slash \in C, NEW x \in Seq(C)
    PROVE  /\ Part(x) \in Seq(C)
           /\ Segments(Part(x)) = Segments(x)
           /\ Tidy(x) => Closed(Part(x))
<1> DEFINE t == TrimSlash(x)
<1>1. /\ t \in Seq(C) /\ Segments(t) = Segments(x)
      /\ Tidy(x) => Tidy(t) /\ (t # <<>> => t[1] # Slash /\ t[Len(t)] # Slash)
  BY Trimmed
<1>2. Part(x) = IF t = <<>> THEN <<>> ELSE <<Slash>> \o t
  BY DEF Part
<1> HIDE DEF t
<1>3. CASE t = <<>>
  <2>1. Part(x) = t
    BY <1>2, <1>3
  <2>2. Closed(<<>>) /\ <<>> \in Seq(C)
    BY DEF Closed, Tidy
  <2> QED
    BY <1>1, <1>3, <2>1, <2>2
<1>4. CASE t # <<>>
  <2> DEFINE p == <<Slash>> \o t
  <2>1. /\ p \in Seq(C) /\ Len(p) = 1 + Len(t) /\ Len(t) \in Nat \ {0}
        /\ p[1] = Slash /\ \A i \in 2 .. 1 + Len(t) : p[i] = t[i - 1]
    <3>1. <<Slash>> \in Seq(C) /\ Len(<<Slash>>) = 1 /\ <<Slash>>[1] = Slash
      OBVIOUS
    <3>2. Len(t) \in Nat \ {0}
      BY <1>1, <1>4, EmptySeq
    <3>3. /\ p \in Seq(C) /\ Len(p) = Len(<<Slash>>) + Len(t)
          /\ \A i \in 1 .. Len(<<Slash>>) + Len(t) :
               p[i] = IF i <= Len(<<Slash>>) THEN <<Slash>>[i]
                      ELSE t[i - Len(<<Slash>>)]
      BY <1>1, <3>1, ConcatProperties
    <3> HIDE DEF p
    <3>4. p[1] = Slash
      BY <3>1, <3>2, <3>3
    <3>5. \A i \in 2 .. 1 + Len(t) : p[i] = t[i - 1]
      BY <3>1, <3>2, <3>3
    <3> QED
      BY <3>1, <3>2, <3>3, <3>4, <3>5
  <2>2. Segments(p) = Segments(t)
    <3>1. <<Slash>> \in Seq(C)
      OBVIOUS
    <3>2. /\ Segments(<<Slash>> \o t) = Segments(<<Slash>>) \o Segments(t)
          /\ Segments(t) \in Seq(C)
      BY <1>1, <3>1, SegmentsCat
    <3>3. <<>> \o Segments(t) = Segments(t)
      BY <3>2, ConcatEmptySeq
    <3> QED
      BY <3>2, <3>3, SegmentsShort
  <2>3. Part(x) = p
    BY <1>2, <1>4
  <2> HIDE DEF p
  <2>4. ASSUME Tidy(x) PROVE Closed(p)
    <3>1. DOMAIN p = 1 .. 1 + Len(t) /\ DOMAIN t = 1 .. Len(t)
      BY <1>1, <2>1, LenProperties
    <3>2. Tidy(t) /\ t[1] # Slash /\ t[Len(t)] # Slash
      BY <1>1, <1>4, <2>4
    <3>3. ASSUME NEW i \in 1 .. 1 + Len(t), i > 1
          PROVE  ~ (p[i] = Slash /\ p[i - 1] = Slash)
      <4>1. CASE i = 2
        <5>1. p[2] = t[1]
          BY <2>1, <3>3, <4>1
        <5> QED
          BY <3>2, <4>1, <5>1
      <4>2. CASE i # 2
        <5>1. /\ p[i] = t[i - 1] /\ p[i - 1] = t[i - 1 - 1]
              /\ i - 1 \in 1 .. Len(t) /\ i - 1 > 1
          BY <2>1, <3>3, <4>2
        <5> QED
          BY <3>1, <3>2, <5>1 DEF Tidy
      <4> QED
        BY <4>1, <4>2
    <3>4. p[Len(p)] # Slash
      <4>1. p[1 + Len(t)] = t[Len(t)]
        BY <2>1
      <4> QED
        BY <2>1, <3>2, <4>1
    <3> QED
      BY <3>1, <3>3, <3>4 DEF Closed, Tidy
  <2> QED
    BY <1>1, <2>1, <2>2, <2>3, <2>4
<1> QED
  BY <1>3, <1>4

LEMMA JoinedPath ==
    ASSUME NEW C, Slash \in C, prefix \in Seq(C),
           NEW base \in Seq(C), NEW endpoint \in Seq(C)
    PROVE  /\ RoutePath(base, endpoint) \in Seq(C)
           /\ Segments(RoutePath(base, endpoint))
                = Segments(prefix) \o Segments(base) \o Segments(endpoint)
           /\ Closed(prefix) /\ Tidy(base) /\ Tidy(endpoint) =>
                Tidy(RoutePath(base, endpoint))
<1> DEFINE b == Part(base)
           e == Part(endpoint)
           path == b \o e
           rest == IF path = <<>> THEN <<Slash>> ELSE path
<1>1. RoutePath(base, endpoint) = prefix \o rest
  BY DEF RoutePath, Part
<1>2. /\ b \in Seq(C) /\ Segments(b) = Segments(base)
      /\ Tidy(base) => Closed(b)
      /\ e \in Seq(C) /\ Segments(e) = Segments(endpoint)
      /\ Tidy(endpoint) => Closed(e)
  BY PartFacts
<1> HIDE DEF b, e
<1>3. /\ path \in Seq(C)
      /\ Segments(path) = Segments(base) \o Segments(endpoint)
      /\ Segments(base) \in Seq(C) /\ Segments(endpoint) \in Seq(C)
  <2>1. /\ path \in Seq(C)
        /\ Segments(path) = Segments(b) \o Segments(e)
    BY <1>2, ConcatProperties, SegmentsCat
  <2>2. Segments(b) \in Seq(C) /\ Segments(e) \in Seq(C)
    BY <1>2, SegmentsCat
  <2> HIDE DEF path
  <2> QED
    BY <1>2, <2>1, <2>2
<1>4. Tidy(base) /\ Tidy(endpoint) => Closed(path)
  BY <1>2, TidyCat DEF Closed
<1> HIDE DEF path
<1>5. /\ rest \in Seq(C) /\ Segments(rest) = Segments(path)
      /\ Closed(path) => Tidy(rest)
  <2>1. CASE path = <<>>
    <3>1. Tidy(<<Slash>>) /\ <<Slash>> \in Seq(C)
      BY DEF Tidy
    <3> QED
      BY <2>1, <3>1, SegmentsShort
  <2>2. CASE path # <<>>
    BY <1>3, <2>2 DEF Closed
  <2> QED
    BY <2>1, <2>2
<1> HIDE DEF rest
<1>6. /\ prefix \o rest \in Seq(C)
      /\ Segments(prefix \o rest) = Segments(prefix) \o Segments(rest)
      /\ Segments(prefix) \in Seq(C)
  BY <1>5, ConcatProperties, SegmentsCat
<1>7. Segments(prefix) \o (Segments(base) \o Segments(endpoint))
        = (Segments(prefix) \o Segments(base)) \o Segments(endpoint)
  <2>1. \A s, t, u \in Seq(C) : (s \o t) \o u = s \o (t \o u)
    BY ConcatAssociative
  <2>2. /\ Segments(prefix) \in Seq(C) /\ Segments(base) \in Seq(C)
        /\ Segments(endpoint) \in Seq(C)
    BY <1>3, <1>6
  <2>3. (Segments(prefix) \o Segments(base)) \o Segments(endpoint)
          = Segments(prefix) \o (Segments(base) \o Segments(endpoint))
    BY ONLY <2>1, <2>2, Zenon
  <2> QED
    BY <2>3
<1>8. Closed(prefix) /\ Tidy(rest) => Tidy(prefix \o rest)
  BY <1>5, TidyCat
<1> QED
  BY <1>1, <1>3, <1>4, <1>5, <1>6, <1>7, <1>8

-----------------------------------------------------------------------------
(* Registration: the controllers of a module one after the other, and the  *)
(* methods of each.                                                        *)

LEMMA RegisterHttpDef ==
    ASSUME NEW st, NEW c, IsSequence(Describe[c].methods)
    PROVE  \E after :
             /\ after[0] = st
             /\ \A n \in 1 .. Len(Describe[c].methods) :
                  after[n] =
                    CreateRoute(c, after[n - 1], Describe[c].methods[n])
             /\ RegisterHttp(st, c) = after[Len(Describe[c].methods)]
<1> DEFINE Step(f, n) ==
               IF n = 0 THEN st
               ELSE CreateRoute(c, f[n - 1], Describe[c].methods[n])
           Are(f, k) == f = [n \in 0 .. k |-> Step(f, n)]
           after == CHOOSE f : Are(f, Len(Describe[c].methods))
           Bad == {k \in Nat : ~ \E f : Are(f, k)}
<1>1. Len(Describe[c].methods) \in Nat
  BY IsSequenceFacts
<1>2. Bad = {}
  <2>1. SUFFICES ASSUME Bad # {} PROVE FALSE
    OBVIOUS
  <2>2. PICK k \in Bad : \A n \in Bad : k <= n
    <3> HIDE DEF Bad
    <3>1. Bad \subseteq Nat
      BY DEF Bad
    <3> QED
      BY <2>1, <3>1, Least
  <2>3. k \in Nat /\ ~ \E f : Are(f, k)
    BY <2>2
  <2>4. CASE k = 0
    <3> DEFINE f == [n \in 0 .. 0 |-> st]
    <3>1. \A n \in 0 .. 0 : Step(f, n) = st
      OBVIOUS
    <3>2. Are(f, 0)
      BY <3>1
    <3> QED
      BY <2>3, <2>4, <3>2
  <2>5. CASE k # 0
    <3>1. k - 1 \in Nat /\ k - 1 \notin Bad
      <4> HIDE DEF Bad
      <4>1. k - 1 \in Nat /\ ~ (k <= k - 1)
        BY <2>3, <2>5
      <4> QED
        BY <4>1, <2>2
    <3>2. PICK g : Are(g, k - 1)
      BY <3>1
    <3> DEFINE f == [n \in 0 .. k |-> Step(g, n)]
    <3>3. \A n \in 0 .. k - 1 : f[n] = g[n]
      <4>1. \A n \in 0 .. k - 1 : g[n] = Step(g, n)
        BY <3>2
      <4>2. \A n \in 0 .. k : f[n] = Step(g, n)
        OBVIOUS
      <4> HIDE DEF Step, f
      <4> QED
        BY <2>3, <4>1, <4>2
    <3>4. ASSUME NEW n \in 0 .. k PROVE Step(f, n) = Step(g, n)
      <4> HIDE DEF f
      <4>1. n # 0 => f[n - 1] = g[n - 1]
        BY <2>3, <3>3
      <4> QED
        BY <4>1
    <3>5. Are(f, k)
      BY <3>4
    <3> QED
      BY <2>3, <3>5
  <2> QED
    BY <2>4, <2>5
<1>3. Are(after, Len(Describe[c].methods))
  <2>1. \E f : Are(f, Len(Describe[c].methods))
    BY <1>1, <1>2
  <2> HIDE DEF Are
  <2> QED
    BY <2>1
<1>4. RegisterHttp(st, c) = after[Len(Describe[c].methods)]
  BY DEF RegisterHttp
<1> HIDE DEF after
<1>5. \A n \in 0 .. Len(Describe[c].methods) : after[n] = Step(after, n)
  BY <1>3
<1>6. DOMAIN after = 0 .. Len(Describe[c].methods)
  BY <1>3
<1>7. after[0] = st
  BY <1>1, <1>5
<1>8. \A n \in 1 .. Len(Describe[c].methods) :
        after[n] = CreateRoute(c, after[n - 1], Describe[c].methods[n])
  BY <1>1, <1>5
<1> QED
  BY <1>4, <1>7, <1>8

LEMMA RegisterAllDef ==
    ASSUME NEW st, NEW cs, IsSequence(cs)
    PROVE  \E after :
             /\ after[0] = st
             /\ \A n \in 1 .. Len(cs) : after[n] = Register(after[n - 1], cs[n])
             /\ RegisterAll(st, cs) = after[Len(cs)]
<1> DEFINE Step(f, n) == IF n = 0 THEN st ELSE Register(f[n - 1], cs[n])
           Are(f, k) == f = [n \in 0 .. k |-> Step(f, n)]
           after == CHOOSE f : Are(f, Len(cs))
           Bad == {k \in Nat : ~ \E f : Are(f, k)}
<1>1. Len(cs) \in Nat
  BY IsSequenceFacts
<1>2. Bad = {}
  <2>1. SUFFICES ASSUME Bad # {} PROVE FALSE
    OBVIOUS
  <2>2. PICK k \in Bad : \A n \in Bad : k <= n
    <3> HIDE DEF Bad
    <3>1. Bad \subseteq Nat
      BY DEF Bad
    <3> QED
      BY <2>1, <3>1, Least
  <2>3. k \in Nat /\ ~ \E f : Are(f, k)
    BY <2>2
  <2>4. CASE k = 0
    <3> DEFINE f == [n \in 0 .. 0 |-> st]
    <3>1. \A n \in 0 .. 0 : Step(f, n) = st
      OBVIOUS
    <3>2. Are(f, 0)
      BY <3>1
    <3> QED
      BY <2>3, <2>4, <3>2
  <2>5. CASE k # 0
    <3>1. k - 1 \in Nat /\ k - 1 \notin Bad
      <4> HIDE DEF Bad
      <4>1. k - 1 \in Nat /\ ~ (k <= k - 1)
        BY <2>3, <2>5
      <4> QED
        BY <4>1, <2>2
    <3>2. PICK g : Are(g, k - 1)
      BY <3>1
    <3> DEFINE f == [n \in 0 .. k |-> Step(g, n)]
    <3>3. \A n \in 0 .. k - 1 : f[n] = g[n]
      <4>1. \A n \in 0 .. k - 1 : g[n] = Step(g, n)
        BY <3>2
      <4>2. \A n \in 0 .. k : f[n] = Step(g, n)
        OBVIOUS
      <4> HIDE DEF Step, f
      <4> QED
        BY <2>3, <4>1, <4>2
    <3>4. ASSUME NEW n \in 0 .. k PROVE Step(f, n) = Step(g, n)
      <4> HIDE DEF f
      <4>1. n # 0 => f[n - 1] = g[n - 1]
        BY <2>3, <3>3
      <4> QED
        BY <4>1
    <3>5. Are(f, k)
      BY <3>4
    <3> QED
      BY <2>3, <3>5
  <2> QED
    BY <2>4, <2>5
<1>3. Are(after, Len(cs))
  <2>1. \E f : Are(f, Len(cs))
    BY <1>1, <1>2
  <2> HIDE DEF Are
  <2> QED
    BY <2>1
<1>4. RegisterAll(st, cs) = after[Len(cs)]
  BY DEF RegisterAll
<1> HIDE DEF after
<1>5. \A n \in 0 .. Len(cs) : after[n] = Step(after, n)
  BY <1>3
<1>6. DOMAIN after = 0 .. Len(cs)
  BY <1>3
<1>7. after[0] = st
  BY <1>1, <1>5
<1>8. \A n \in 1 .. Len(cs) : after[n] = Register(after[n - 1], cs[n])
  BY <1>1, <1>5
<1> QED
  BY <1>4, <1>7, <1>8

(* What a registration adds: entries of controllers that nobody owns,      *)
(* behind those that are there, and the controllers of the transports.     *)
IsState(st) ==
    /\ st = [table |-> st.table, delegated |-> st.delegated, ok |-> st.ok]
    /\ IsSequence(st.table) /\ st.ok \in BOOLEAN

EntryOf(e, c) ==
    \/ e.kind = "socket" /\ e.by = <<c>>
    \/ /\ e.kind = "route"
       /\ \E m \in Range(Describe[c].methods) :
            /\ e.by = <<c, m>>
            /\ e.path = RoutePath(Describe[c].endpoint, m.endpoint)
Given(d, c) == d[2] = c /\ Owners(c) # {}

Behind(t, u) ==
    Len(t) <= Len(u) /\ \A i \in 1 .. Len(t) : u[i] = t[i]

Leads(st, u, C) ==
    /\ IsState(u) /\ (u.ok => st.ok)
    /\ Behind(st.table, u.table)
    /\ \A i \in Len(st.table) + 1 .. Len(u.table) :
         \E c \in C : Owners(c) = {} /\ EntryOf(u.table[i], c)
    /\ st.delegated \subseteq u.delegated
    /\ \A d \in u.delegated : d \in st.delegated \/ \E c \in C : Given(d, c)

(* c has its transport, its socket or all its routes.                      *)
RouteIn(t, c, m) ==
    \E i \in DOMAIN t : t[i].kind = "route" /\ t[i].by = <<c, m>>
Reached(t, del, c) ==
    \/ \E o \in Transports : <<o, c>> \in del
    \/ \E i \in DOMAIN t : t[i].kind = "socket" /\ t[i].by = <<c>>
    \/ \A m \in Range(Describe[c].methods) : RouteIn(t, c, m)

LEMMA BehindKeeps ==
    ASSUME NEW t, NEW u, IsSequence(t), IsSequence(u), Behind(t, u)
    PROVE  /\ \A c, m : RouteIn(t, c, m) => RouteIn(u, c, m)
           /\ \A c, del, more : del \subseteq more /\ Reached(t, del, c)
                => Reached(u, more, c)
<1>1. \A i \in DOMAIN t : i \in DOMAIN u /\ u[i] = t[i]
  BY IsSequenceFacts DEF Behind
<1>2. \A c, m : RouteIn(t, c, m) => RouteIn(u, c, m)
  BY <1>1 DEF RouteIn
<1> QED
  BY <1>1, <1>2 DEF Reached

LEMMA LeadsOn ==
    ASSUME NEW C, NEW st, NEW u, NEW v,
           IsState(st), Leads(st, u, C), Leads(u, v, C)
    PROVE  Leads(st, v, C)
<1>1. /\ Len(st.table) \in Nat /\ Len(u.table) \in Nat /\ Len(v.table) \in Nat
      /\ Len(st.table) <= Len(u.table) /\ Len(u.table) <= Len(v.table)
  BY IsSequenceFacts DEF Leads, IsState, Behind
<1>2. Behind(st.table, v.table)
  BY <1>1 DEF Leads, Behind
<1>3. ASSUME NEW i \in Len(st.table) + 1 .. Len(v.table)
      PROVE  \E c \in C : Owners(c) = {} /\ EntryOf(v.table[i], c)
  <2>1. CASE i <= Len(u.table)
    <3>1. /\ i \in Len(st.table) + 1 .. Len(u.table)
          /\ i \in 1 .. Len(u.table)
      BY <1>1, <2>1
    <3>2. v.table[i] = u.table[i]
      BY <3>1 DEF Leads, Behind
    <3> QED
      BY <3>1, <3>2 DEF Leads
  <2>2. CASE i > Len(u.table)
    <3>1. i \in Len(u.table) + 1 .. Len(v.table)
      BY <1>1, <2>2
    <3> QED
      BY <3>1 DEF Leads
  <2> QED
    BY <1>1, <2>1, <2>2
<1> QED
  BY <1>2, <1>3 DEF Leads

LEMMA LeadsNowhere ==
    ASSUME NEW C, NEW st, IsState(st)
    PROVE  Leads(st, st, C)
<1>1. Len(st.table) \in Nat
  BY IsSequenceFacts DEF IsState
<1> QED
  BY <1>1 DEF Leads, Behind

LEMMA AddLeads ==
    ASSUME NEW st, IsState(st), NEW c, Owners(c) = {}, NEW e, EntryOf(e, c)
    PROVE  LET u == Add(st, e) IN
           /\ Leads(st, u, {c})
           /\ u.ok => \E i \in DOMAIN u.table : u.table[i] = e
<1> DEFINE u == Add(st, e)
           t == st.table
<1>1. /\ IsSequence(t) /\ Len(t) \in Nat
      /\ DOMAIN st = {"table", "delegated", "ok"}
  BY IsSequenceFacts DEF IsState
<1>2. CASE built
  <2>1. u = [table |-> t, delegated |-> st.delegated, ok |-> FALSE]
    BY <1>2 DEF Add, IsState
  <2> HIDE DEF u
  <2>2. u.table = t /\ u.delegated = st.delegated /\ u.ok = FALSE
    BY <2>1
  <2> QED
    BY <1>1, <2>1, <2>2 DEF Leads, Behind, IsState, u
<1>3. CASE ~ built
  <2> DEFINE w == Append(t, e)
  <2>1. u = [table |-> w, delegated |-> st.delegated, ok |-> st.ok]
    BY <1>3 DEF Add, IsState
  <2>2. /\ IsSequence(w) /\ Len(w) = Len(t) + 1 /\ w[Len(t) + 1] = e
        /\ \A i \in 1 .. Len(t) : w[i] = t[i]
    BY <1>1, AppendSequence
  <2> HIDE DEF u, w
  <2>3. u.table = w /\ u.delegated = st.delegated /\ u.ok = st.ok
    BY <2>1
  <2>4. IsState(u)
    BY <2>1, <2>2, <2>3 DEF IsState
  <2>5. Behind(t, w)
    BY <1>1, <2>2 DEF Behind
  <2>6. \A i \in Len(t) + 1 .. Len(w) : w[i] = e
    BY <1>1, <2>2
  <2>7. Len(t) + 1 \in DOMAIN w
    BY <1>1, <2>2, IsSequenceFacts
  <2>8. Leads(st, u, {c})
    BY <2>3, <2>4, <2>5, <2>6 DEF Leads
  <2> QED
    BY <2>2, <2>3, <2>7, <2>8 DEF u
<1> QED
  BY <1>2, <1>3

LEMMA CreateRouteLeads ==
    ASSUME NEW st, IsState(st), NEW c, Owners(c) = {},
           NEW m \in Range(Describe[c].methods)
    PROVE  LET u == CreateRoute(c, st, m) IN
           Leads(st, u, {c}) /\ (u.ok => RouteIn(u.table, c, m))
<1> DEFINE u == CreateRoute(c, st, m)
           undefined == Undefined \in {Describe[c].endpoint, m.endpoint}
           e == [kind |-> "route", verb |-> m.verb,
                 path |-> RoutePath(Describe[c].endpoint, m.endpoint),
                 by |-> <<c, m>>]
<1>1. CASE ~ st.ok
  <2>1. u = st
    BY <1>1 DEF CreateRoute
  <2> HIDE DEF u
  <2> QED
    BY <1>1, <2>1, LeadsNowhere DEF u
<1>2. CASE st.ok /\ undefined
  <2>1. u = [table |-> st.table, delegated |-> st.delegated, ok |-> FALSE]
    BY <1>2 DEF CreateRoute, IsState
  <2> HIDE DEF u
  <2>2. u.table = st.table /\ u.delegated = st.delegated /\ u.ok = FALSE
    BY <2>1
  <2>3. Leads(st, u, {c})
    <3>1. Leads(st, st, {c}) /\ IsState(u)
      BY <2>1, <2>2, LeadsNowhere DEF IsState
    <3> QED
      BY <2>2, <3>1 DEF Leads
  <2> QED
    BY <2>2, <2>3 DEF u
<1>3. CASE st.ok /\ ~ undefined
  <2>1. u = Add(st, e)
    BY <1>3 DEF CreateRoute
  <2>2. EntryOf(e, c) /\ e.kind = "route" /\ e.by = <<c, m>>
    BY DEF EntryOf
  <2> HIDE DEF u, e
  <2>3. Leads(st, u, {c}) /\ (u.ok => \E i \in DOMAIN u.table : u.table[i] = e)
    BY <2>1, <2>2, AddLeads
  <2> QED
    BY <2>2, <2>3 DEF RouteIn, u
<1> QED
  BY <1>1, <1>2, <1>3

LEMMA RegisterHttpLeads ==
    ASSUME NEW st, IsState(st), NEW c, Owners(c) = {},
           IsSequence(Describe[c].methods)
    PROVE  LET u == RegisterHttp(st, c) IN
           /\ Leads(st, u, {c})
           /\ u.ok => \A m \in Range(Describe[c].methods) :
                        RouteIn(u.table, c, m)
<1> DEFINE ms == Describe[c].methods
           Done(u, n) == /\ Leads(st, u, {c})
                         /\ u.ok => \A k \in 1 .. n : RouteIn(u.table, c, ms[k])
<1>1. /\ Len(ms) \in Nat /\ DOMAIN ms = 1 .. Len(ms)
      /\ \A k \in 1 .. Len(ms) : ms[k] \in Range(ms)
  BY IsSequenceFacts
<1>2. PICK after : /\ after[0] = st
                   /\ \A n \in 1 .. Len(ms) :
                        after[n] = CreateRoute(c, after[n - 1], ms[n])
                   /\ RegisterHttp(st, c) = after[Len(ms)]
  BY RegisterHttpDef
<1>3. ASSUME NEW n \in 0 .. Len(ms), ~ Done(after[n], n) PROVE FALSE
  <2> DEFINE Bad == {k \in 0 .. Len(ms) : ~ Done(after[k], k)}
  <2>1. PICK k \in Bad : \A j \in Bad : k <= j
    <3>1. Bad \subseteq Nat /\ Bad # {}
      <4> HIDE DEF Done
      <4> QED
        BY <1>1, <1>3
    <3> HIDE DEF Bad
    <3> QED
      BY <3>1, Least
  <2>2. k \in 0 .. Len(ms) /\ ~ Done(after[k], k)
    BY <2>1
  <2>3. k # 0
    <3>1. Done(st, 0)
      BY LeadsNowhere
    <3> QED
      BY <1>2, <2>2, <3>1
  <2> DEFINE v == after[k - 1]
             u == after[k]
  <2>4. k - 1 \in 0 .. Len(ms) /\ k \in 1 .. Len(ms) /\ ~ (k <= k - 1)
    BY <1>1, <2>2, <2>3
  <2>5. Done(v, k - 1)
    BY <2>1, <2>4
  <2>6. u = CreateRoute(c, v, ms[k]) /\ ms[k] \in Range(ms)
    BY <1>1, <1>2, <2>4
  <2> HIDE DEF u, v
  <2>7. Leads(v, u, {c}) /\ (u.ok => RouteIn(u.table, c, ms[k]))
    <3>1. IsState(v)
      BY <2>5 DEF Leads
    <3> QED
      BY <2>6, <3>1, CreateRouteLeads
  <2>8. Leads(st, u, {c})
    BY <2>5, <2>7, LeadsOn
  <2>9. ASSUME u.ok, NEW j \in 1 .. k PROVE RouteIn(u.table, c, ms[j])
    <3>1. CASE j = k
      BY <2>7, <2>9, <3>1
    <3>2. CASE j # k
      <4>1. j \in 1 .. k - 1
        BY <2>4, <3>2
      <4>2. v.ok /\ RouteIn(v.table, c, ms[j])
        BY <2>5, <2>7, <2>9, <4>1 DEF Leads
      <4>3. /\ IsSequence(v.table) /\ IsSequence(u.table)
            /\ Behind(v.table, u.table)
        BY <2>5, <2>7 DEF Leads, IsState
      <4> QED
        BY <4>2, <4>3, BehindKeeps
    <3> QED
      BY <3>1, <3>2
  <2>10. Done(u, k)
    BY <2>8, <2>9
  <2> QED
    BY <2>2, <2>10 DEF u
<1>4. Done(after[Len(ms)], Len(ms))
  <2> HIDE DEF Done
  <2> QED
    BY <1>1, <1>3
<1> QED
  BY <1>1, <1>2, <1>4 DEF Range

LEMMA DelegateLeads ==
    ASSUME NEW st, IsState(st), NEW c, Owners(c) # {},
           transports \subseteq Transports
    PROVE  LET u == Delegate(st, c) IN
           Leads(st, u, {c}) /\ Reached(u.table, u.delegated, c)
<1> DEFINE u == Delegate(st, c)
           o == CHOOSE t \in Owners(c) : TRUE
<1>1. u = [table |-> st.table, delegated |-> st.delegated \cup {<<o, c>>},
           ok |-> st.ok]
  BY DEF Delegate, IsState
<1>2. o \in Transports
  <2>1. o \in Owners(c)
    OBVIOUS
  <2> QED
    BY <2>1 DEF Owners
<1> HIDE DEF u, o
<1>3. /\ u.table = st.table /\ u.delegated = st.delegated \cup {<<o, c>>}
      /\ u.ok = st.ok
  BY <1>1
<1>4. IsState(u) /\ Leads(st, st, {c})
  BY <1>1, <1>3, LeadsNowhere DEF IsState
<1>5. \A d \in u.delegated : d \in st.delegated \/ Given(d, c)
  BY <1>3 DEF Given
<1>6. Leads(st, u, {c})
  BY <1>3, <1>4, <1>5 DEF Leads
<1>7. Reached(u.table, u.delegated, c)
  BY <1>2, <1>3 DEF Reached
<1> QED
  BY <1>6, <1>7 DEF u

LEMMA RegisterLeads ==
    ASSUME NEW st, IsState(st), NEW c, transports \subseteq Transports,
           IsSequence(Describe[c].methods)
    PROVE  LET u == Register(st, c) IN
           Leads(st, u, {c}) /\ (u.ok => Reached(u.table, u.delegated, c))
<1> DEFINE u == Register(st, c)
           s == RegisterWebSocket(st, c)
           h == RegisterHttp(st, c)
<1>1. \/ ~ st.ok /\ u = st
      \/ st.ok /\ Owners(c) # {} /\ u = Delegate(st, c)
      \/ st.ok /\ Owners(c) = {} /\ u = s
      \/ st.ok /\ Owners(c) = {} /\ u = h
  BY DEF Register
<1>2. Owners(c) = {} => /\ Leads(st, s, {c})
                        /\ s.ok => Reached(s.table, s.delegated, c)
  <2> SUFFICES ASSUME Owners(c) = {}
               PROVE  /\ Leads(st, s, {c})
                      /\ s.ok => Reached(s.table, s.delegated, c)
    OBVIOUS
  <2> DEFINE p == TrimSlash(Describe[c].socket)
             e == [kind |-> "socket", verb |-> "GET",
                   path |-> IF p = <<>> THEN <<>> ELSE <<Slash>> \o p,
                   by |-> <<c>>]
  <2>1. s = Add(st, e)
    BY DEF RegisterWebSocket
  <2>2. EntryOf(e, c) /\ e.kind = "socket" /\ e.by = <<c>>
    BY DEF EntryOf
  <2> HIDE DEF e, s
  <2>3. Leads(st, s, {c}) /\ (s.ok => \E i \in DOMAIN s.table : s.table[i] = e)
    BY <2>1, <2>2, AddLeads
  <2> QED
    BY <2>2, <2>3 DEF Reached
<1>3. Owners(c) = {} => /\ Leads(st, h, {c})
                        /\ h.ok => Reached(h.table, h.delegated, c)
  BY RegisterHttpLeads DEF Reached
<1> HIDE DEF u, s, h
<1>4. Leads(st, st, {c})
  BY LeadsNowhere
<1>5. CASE u = Delegate(st, c) /\ Owners(c) # {}
  BY <1>5, DelegateLeads DEF u
<1> QED
  BY <1>1, <1>2, <1>3, <1>4, <1>5 DEF u

LEMMA LeadsMore ==
    ASSUME NEW C, NEW D, C \subseteq D, NEW st, NEW u, Leads(st, u, C)
    PROVE  Leads(st, u, D)
BY DEF Leads

LEMMA RegisterAllLeads ==
    ASSUME NEW st, IsState(st), NEW cs, IsSequence(cs),
           transports \subseteq Transports,
           \A c \in Range(cs) : IsSequence(Describe[c].methods)
    PROVE  LET u == RegisterAll(st, cs) IN
           /\ Leads(st, u, Range(cs))
           /\ u.ok => \A c \in Range(cs) : Reached(u.table, u.delegated, c)
<1> DEFINE C == Range(cs)
           Done(u, n) == /\ Leads(st, u, C)
                         /\ u.ok => \A k \in 1 .. n :
                                      Reached(u.table, u.delegated, cs[k])
<1>1. /\ Len(cs) \in Nat /\ DOMAIN cs = 1 .. Len(cs)
      /\ \A k \in 1 .. Len(cs) : cs[k] \in C
  BY IsSequenceFacts
<1>2. PICK after : /\ after[0] = st
                   /\ \A n \in 1 .. Len(cs) :
                        after[n] = Register(after[n - 1], cs[n])
                   /\ RegisterAll(st, cs) = after[Len(cs)]
  BY RegisterAllDef
<1>3. ASSUME NEW n \in 0 .. Len(cs), ~ Done(after[n], n) PROVE FALSE
  <2> DEFINE Bad == {k \in 0 .. Len(cs) : ~ Done(after[k], k)}
  <2>1. PICK k \in Bad : \A j \in Bad : k <= j
    <3>1. Bad \subseteq Nat /\ Bad # {}
      <4> HIDE DEF Done
      <4> QED
        BY <1>1, <1>3
    <3> HIDE DEF Bad
    <3> QED
      BY <3>1, Least
  <2>2. k \in 0 .. Len(cs) /\ ~ Done(after[k], k)
    BY <2>1
  <2>3. k # 0
    <3>1. Done(st, 0)
      BY LeadsNowhere
    <3> QED
      BY <1>2, <2>2, <3>1
  <2> DEFINE v == after[k - 1]
             u == after[k]
  <2>4. k - 1 \in 0 .. Len(cs) /\ k \in 1 .. Len(cs) /\ ~ (k <= k - 1)
    BY <1>1, <2>2, <2>3
  <2>5. Done(v, k - 1)
    BY <2>1, <2>4
  <2>6. u = Register(v, cs[k]) /\ cs[k] \in C
    BY <1>1, <1>2, <2>4
  <2> HIDE DEF u, v
  <2>7. Leads(v, u, C) /\ (u.ok => Reached(u.table, u.delegated, cs[k]))
    <3>1. IsState(v) /\ IsSequence(Describe[cs[k]].methods)
      BY <2>5, <2>6 DEF Leads
    <3>2. Leads(v, u, {cs[k]}) /\ (u.ok => Reached(u.table, u.delegated, cs[k]))
      BY <2>6, <3>1, RegisterLeads
    <3> QED
      BY <2>6, <3>2, LeadsMore
  <2>8. Leads(st, u, C)
    BY <2>5, <2>7, LeadsOn
  <2>9. ASSUME u.ok, NEW j \in 1 .. k PROVE Reached(u.table, u.delegated, cs[j])
    <3>1. CASE j = k
      BY <2>7, <2>9, <3>1
    <3>2. CASE j # k
      <4>1. j \in 1 .. k - 1
        BY <2>4, <3>2
      <4>2. v.ok /\ Reached(v.table, v.delegated, cs[j])
        BY <2>5, <2>7, <2>9, <4>1 DEF Leads
      <4>3. /\ IsSequence(v.table) /\ IsSequence(u.table)
            /\ Behind(v.table, u.table) /\ v.delegated \subseteq u.delegated
        BY <2>5, <2>7 DEF Leads, IsState
      <4> QED
        BY <4>2, <4>3, BehindKeeps
    <3> QED
      BY <3>1, <3>2
  <2>10. Done(u, k)
    BY <2>8, <2>9
  <2> QED
    BY <2>2, <2>10 DEF u
<1>4. Done(after[Len(cs)], Len(cs))
  BY <1>1, <1>3
<1> QED
  BY <1>1, <1>2, <1>4 DEF Range

-----------------------------------------------------------------------------
(* The inductive invariant of the table.  While no setting has changed     *)
(* since init began, what was registered is what would be registered now.  *)

ByOf(e, c) ==
    \/ e.kind = "socket" /\ e.by = <<c>>
    \/ /\ e.kind = "route"
       /\ \E m \in Range(Describe[c].methods) : e.by = <<c, m>>

ShapeInv ==
    /\ setup \in Setups /\ next \in 1 .. Len(setup) + 1
    /\ phase \in {"new", "init", "done", "failed"}
    /\ late \in BOOLEAN
    /\ transports \subseteq Transports
    /\ IsSequence(table)
    /\ \A i \in 1 .. Len(table) :
         table[i].kind \in Uses \/ \E c \in Controllers : ByOf(table[i], c)

NothingYet ==
    phase = "new" =>
        /\ next = 1 /\ delegated = {} /\ ~ late
        /\ \A i \in 1 .. Len(table) : table[i].kind \in Uses

CurrentInv ==
    ~ late =>
        /\ \A i \in 1 .. Len(table) :
             \/ table[i].kind \in Uses
             \/ \E c \in Controllers : Owners(c) = {} /\ EntryOf(table[i], c)
        /\ \A d \in delegated : Owners(d[2]) # {}

EarlyInv ==
    /\ early \subseteq Uses
    /\ \A u \in early : \E j \in 1 .. Len(table) : table[j].kind = u
    /\ \A i \in 1 .. Len(table) : table[i].kind \notin Uses =>
         \A u \in early : \E j \in 1 .. i - 1 : table[j].kind = u

RegisteredInv ==
    /\ phase \in {"init", "done"} =>
         \A k \in 1 .. next - 1 : \A c \in Range(setup[k]) :
            Reached(table, delegated, c)
    /\ phase = "done" => next = Len(setup) + 1

TableInv ==
    ShapeInv /\ NothingYet /\ CurrentInv /\ EarlyInv /\ RegisteredInv

LEMMA SetupFacts ==
    ASSUME setup \in Setups
    PROVE  /\ Len(setup) \in Nat
           /\ \A k \in 1 .. Len(setup) :
                /\ IsSequence(setup[k]) /\ Range(setup[k]) \subseteq Controllers
                /\ \A c \in Range(setup[k]) : IsSequence(Describe[c].methods)
<1>1. setup \in Seq(Seq(Controllers))
  BY ControllersAssumption
<1>2. \A k \in 1 .. Len(setup) : setup[k] \in Seq(Controllers)
  BY <1>1, LenProperties
<1>3. ASSUME NEW k \in 1 .. Len(setup)
      PROVE  IsSequence(setup[k]) /\ Range(setup[k]) \subseteq Controllers
  <2>1. setup[k] \in Seq(Controllers)
    BY <1>2
  <2>2. DOMAIN setup[k] = 1 .. Len(setup[k])
        /\ \A i \in 1 .. Len(setup[k]) : setup[k][i] \in Controllers
    BY <2>1, LenProperties
  <2> QED
    BY <2>1, <2>2, InSequence DEF Range
<1> QED
  BY <1>1, <1>3, LenProperties, ControllersAssumption

LEMMA UsesNoEntry ==
    ASSUME NEW e, NEW c, EntryOf(e, c)
    PROVE  ByOf(e, c) /\ e.kind \notin Uses /\ e.by[1] = c
BY DEF EntryOf, ByOf, Uses

LEMMA SettingsKeep ==
    ASSUME UNCHANGED settings, NEW c
    PROVE  Owners(c)' = Owners(c) /\ \A e : EntryOf(e, c)' <=> EntryOf(e, c)
<1>1. prefix' = prefix /\ transports' = transports
  BY DEF settings
<1>2. \A e : EntryOf(e, c)' <=> EntryOf(e, c)
  <2> SUFFICES ASSUME NEW e PROVE EntryOf(e, c)' <=> EntryOf(e, c)
    OBVIOUS
  <2>1. \A m : RoutePath(Describe[c].endpoint, m.endpoint)'
                 = RoutePath(Describe[c].endpoint, m.endpoint)
    BY <1>1 DEF RoutePath
  <2> QED
    BY <2>1 DEF EntryOf
<1> QED
  BY <1>1, <1>2 DEF Owners

LEMMA InitTable == Init => TableInv
<1> SUFFICES ASSUME Init PROVE TableInv
  OBVIOUS
<1>1. setup \in Setups /\ Len(setup) \in Nat
  BY SetupFacts DEF Init
<1>2. IsSequence(table) /\ Len(table) = 0
  <2>1. <<>> \in Seq({}) /\ Len(<<>>) = 0
    OBVIOUS
  <2> QED
    BY <2>1, InSequence DEF Init
<1>3. ShapeInv
  <2>1. 1 \in 1 .. Len(setup) + 1 /\ \A i \in 1 .. Len(table) : FALSE
    BY <1>1, <1>2
  <2>2. /\ next = 1 /\ phase = "new" /\ late = FALSE /\ transports = {}
    BY DEF Init
  <2> QED
    BY <1>1, <1>2, <2>1, <2>2 DEF ShapeInv
<1> QED
  BY <1>1, <1>2, <1>3
     DEF Init, TableInv, NothingYet, CurrentInv, EarlyInv, RegisteredInv

(* The table is left as it is, and so is what controllers depend on.       *)
LEMMA SameTable ==
    ASSUME TableInv,
           UNCHANGED <<setup, next, settings, table, delegated, early, late>>,
           phase' = phase
    PROVE  TableInv'
<1>1. /\ UNCHANGED settings /\ setup' = setup /\ next' = next /\ table' = table
      /\ delegated' = delegated /\ early' = early /\ late' = late
      /\ transports' = transports
  BY DEF settings
<1>2. ShapeInv' /\ NothingYet' /\ EarlyInv' /\ RegisteredInv'
  BY <1>1 DEF TableInv, ShapeInv, NothingYet, EarlyInv, RegisteredInv
<1>3. CurrentInv'
  BY <1>1, SettingsKeep DEF TableInv, CurrentInv
<1> QED
  BY <1>2, <1>3 DEF TableInv

LEMMA CallInitTable ==
    ASSUME TableInv, CallInit
    PROVE  TableInv'
<1>1. /\ UNCHANGED settings /\ setup' = setup /\ next' = next /\ table' = table
      /\ delegated' = delegated /\ early' = early /\ late' = late
      /\ transports' = transports /\ phase = "new" /\ phase' = "init"
  BY DEF CallInit, settings
<1>2. ShapeInv' /\ NothingYet' /\ EarlyInv'
  BY <1>1 DEF TableInv, ShapeInv, NothingYet, EarlyInv
<1>3. CurrentInv'
  BY <1>1, SettingsKeep DEF TableInv, CurrentInv
<1>4. RegisteredInv'
  BY <1>1 DEF TableInv, NothingYet, RegisteredInv
<1> QED
  BY <1>2, <1>3, <1>4 DEF TableInv

LEMMA InitDoneTable ==
    ASSUME TableInv, InitDone
    PROVE  TableInv'
<1>1. /\ UNCHANGED settings /\ setup' = setup /\ next' = next /\ table' = table
      /\ delegated' = delegated /\ early' = early /\ late' = late
      /\ transports' = transports /\ phase = "init" /\ phase' = "done"
      /\ next > Len(setup)
  BY DEF InitDone, settings
<1>2. ShapeInv' /\ NothingYet' /\ EarlyInv'
  BY <1>1 DEF TableInv, ShapeInv, NothingYet, EarlyInv
<1>3. CurrentInv'
  BY <1>1, SettingsKeep DEF TableInv, CurrentInv
<1>4. RegisteredInv'
  <2>1. next = Len(setup) + 1
    BY <1>1, SetupFacts DEF TableInv, ShapeInv
  <2> QED
    BY <1>1, <2>1 DEF TableInv, RegisteredInv
<1> QED
  BY <1>2, <1>3, <1>4 DEF TableInv

LEMMA SettingTable ==
    ASSUME TableInv,
           UNCHANGED <<setup, phase, next, table, delegated, early>>,
           late' = (late \/ phase # "new"), transports' \subseteq Transports
    PROVE  TableInv'
<1>1. ShapeInv' /\ NothingYet' /\ EarlyInv' /\ RegisteredInv'
  BY DEF TableInv, ShapeInv, NothingYet, EarlyInv, RegisteredInv
<1>2. CurrentInv'
  BY DEF TableInv, NothingYet, CurrentInv
<1> QED
  BY <1>1, <1>2 DEF TableInv

LEMMA EntryThen ==
    ASSUME UNCHANGED settings
    PROVE  \A i, c : EntryOf(table'[i], c) <=> EntryOf(table[i], c)'
<1> SUFFICES ASSUME NEW i, NEW c
             PROVE  EntryOf(table'[i], c) <=> EntryOf(table[i], c)'
  OBVIOUS
<1>1. \A m : RoutePath(Describe[c].endpoint, m.endpoint)'
               = RoutePath(Describe[c].endpoint, m.endpoint)
  BY DEF RoutePath, settings
<1> QED
  BY <1>1 DEF EntryOf

LEMMA UseTable ==
    ASSUME TableInv, NEW u \in Uses, Use(u)
    PROVE  TableInv'
<1> DEFINE e == [kind |-> u, verb |-> "ALL", path |-> <<>>, by |-> <<u>>]
<1>1. /\ table' = Append(table, e) /\ e.kind = u
      /\ early' = IF phase = "new" THEN early \cup {u} ELSE early
      /\ UNCHANGED settings /\ setup' = setup /\ next' = next /\ phase' = phase
      /\ delegated' = delegated /\ late' = late /\ transports' = transports
  BY DEF Use, settings
<1> HIDE DEF e
<1>2. IsSequence(table) /\ Len(table) \in Nat
  BY IsSequenceFacts DEF TableInv, ShapeInv
<1>3. /\ IsSequence(table') /\ Len(table') = Len(table) + 1
      /\ table'[Len(table) + 1] = e
      /\ \A i \in 1 .. Len(table) : table'[i] = table[i]
  BY <1>1, <1>2, AppendSequence
<1>4. ASSUME NEW i \in 1 .. Len(table')
      PROVE  \/ table'[i].kind \in Uses
             \/ i \in 1 .. Len(table) /\ table'[i] = table[i]
  <2>1. CASE i \in 1 .. Len(table)
    BY <1>3, <2>1
  <2>2. CASE i = Len(table) + 1
    <3>1. table'[i] = e
      BY <1>3, <2>2
    <3> QED
      BY <1>1, <3>1
  <2> QED
    BY <1>2, <1>3, <2>1, <2>2
<1>5. ShapeInv'
  <2>1. \A i \in 1 .. Len(table') :
          table'[i].kind \in Uses \/ \E c \in Controllers : ByOf(table'[i], c)
    BY <1>4 DEF TableInv, ShapeInv
  <2>2. \A f, c : ByOf(f, c)' <=> ByOf(f, c)
    BY DEF ByOf
  <2> QED
    BY <1>1, <1>3, <2>1, <2>2 DEF TableInv, ShapeInv
<1>6. NothingYet'
  BY <1>1, <1>4 DEF TableInv, NothingYet
<1>7. CurrentInv'
  <2> SUFFICES ASSUME ~ late'
               PROVE  /\ \A i \in 1 .. Len(table') :
                           \/ table'[i].kind \in Uses
                           \/ \E c \in Controllers :
                                Owners(c)' = {} /\ EntryOf(table[i], c)'
                      /\ \A d \in delegated' : Owners(d[2])' # {}
    BY DEF CurrentInv
  <2>1. ASSUME NEW i \in 1 .. Len(table')
        PROVE  \/ table'[i].kind \in Uses
               \/ \E c \in Controllers : Owners(c) = {} /\ EntryOf(table'[i], c)
    BY <1>1, <1>4 DEF TableInv, CurrentInv
  <2>2. \A d \in delegated' : Owners(d[2]) # {}
    BY <1>1 DEF TableInv, CurrentInv
  <2>3. \A c : Owners(c)' = Owners(c)
    BY <1>1, SettingsKeep
  <2>4. \A i, c : EntryOf(table'[i], c) <=> EntryOf(table[i], c)'
    BY <1>1, EntryThen
  <2> QED
    BY <2>1, <2>2, <2>3, <2>4
<1>8. EarlyInv'
  <2>1. \A v \in early' : \E j \in 1 .. Len(table') : table'[j].kind = v
    <3> TAKE v \in early'
    <3>1. CASE v \in early
      <4>1. PICK j \in 1 .. Len(table) : table[j].kind = v
        BY <3>1 DEF TableInv, EarlyInv
      <4>2. j \in 1 .. Len(table') /\ table'[j] = table[j]
        BY <1>2, <1>3
      <4> QED
        BY <4>1, <4>2
    <3>2. CASE v = u
      <4>1. Len(table) + 1 \in 1 .. Len(table')
        BY <1>2, <1>3
      <4> QED
        BY <1>1, <1>3, <3>2, <4>1
    <3> QED
      BY <1>1, <3>1, <3>2
  <2>2. ASSUME NEW i \in 1 .. Len(table'), table'[i].kind \notin Uses,
               NEW v \in early'
        PROVE  \E j \in 1 .. i - 1 : table'[j].kind = v
    <3>1. i \in 1 .. Len(table) /\ table'[i] = table[i]
      BY <1>4, <2>2
    <3>2. phase # "new"
      BY <2>2, <3>1 DEF TableInv, NothingYet
    <3>3. PICK j \in 1 .. i - 1 : table[j].kind = v
      BY <1>1, <2>2, <3>1, <3>2 DEF TableInv, EarlyInv
    <3>4. table'[j] = table[j]
      BY <1>2, <1>3, <3>1
    <3> QED
      BY <3>3, <3>4
  <2> QED
    BY <1>1, <2>1, <2>2 DEF TableInv, EarlyInv
<1>9. RegisteredInv'
  <2>1. Behind(table, table')
    BY <1>2, <1>3 DEF Behind
  <2>2. \A c : Reached(table, delegated, c) => Reached(table', delegated, c)
    BY <1>2, <1>3, <2>1, BehindKeeps
  <2>3. \A c : Reached(table', delegated, c) <=> Reached(table, delegated, c)'
    BY <1>1 DEF Reached, RouteIn
  <2> QED
    BY <1>1, <2>2, <2>3 DEF TableInv, RegisteredInv
<1> QED
  BY <1>5, <1>6, <1>7, <1>8, <1>9 DEF TableInv

LEMMA BootstrapTable ==
    ASSUME TableInv, BootstrapModule
    PROVE  TableInv'
<1> DEFINE st == [table |-> table, delegated |-> delegated, ok |-> TRUE]
           u == RegisterAll(st, setup[next])
           C == Range(setup[next])
<1>1. /\ phase = "init" /\ next <= Len(setup) /\ next' = next + 1
      /\ table' = u.table /\ delegated' = u.delegated
      /\ phase' = IF u.ok THEN "init" ELSE "failed"
      /\ UNCHANGED settings /\ setup' = setup /\ early' = early /\ late' = late
      /\ transports' = transports
  BY DEF BootstrapModule, settings
<1>2. /\ Len(setup) \in Nat /\ next \in 1 .. Len(setup)
      /\ IsSequence(setup[next]) /\ C \subseteq Controllers
      /\ \A c \in C : IsSequence(Describe[c].methods)
  BY <1>1, SetupFacts DEF TableInv, ShapeInv
<1>3. IsSequence(table) /\ Len(table) \in Nat
  BY IsSequenceFacts DEF TableInv, ShapeInv
<1>4. IsState(st) /\ st.table = table /\ st.delegated = delegated
  BY <1>3 DEF IsState
<1>5. /\ Leads(st, u, C)
      /\ u.ok => \A c \in C : Reached(u.table, u.delegated, c)
  <2> HIDE DEF st
  <2>1. transports \subseteq Transports
    BY DEF TableInv, ShapeInv
  <2> QED
    BY <1>2, <1>4, <2>1, RegisterAllLeads
<1> HIDE DEF st, u, C
<1>6. /\ IsSequence(table') /\ Behind(table, table')
      /\ Len(table') \in Nat /\ Len(table) <= Len(table')
      /\ \A i \in 1 .. Len(table) : table'[i] = table[i]
  <2>1. IsSequence(table') /\ Behind(table, table')
    BY <1>1, <1>4, <1>5 DEF Leads, IsState
  <2> QED
    BY <2>1, IsSequenceFacts DEF Behind
<1>7. \A i \in 1 .. Len(table') :
        \/ i \in 1 .. Len(table) /\ table'[i] = table[i]
        \/ /\ i > Len(table)
           /\ \E c \in C : Owners(c) = {} /\ EntryOf(table'[i], c)
  <2>1. \A i \in Len(table) + 1 .. Len(table') :
          \E c \in C : Owners(c) = {} /\ EntryOf(table'[i], c)
    BY <1>1, <1>4, <1>5 DEF Leads
  <2> TAKE i \in 1 .. Len(table')
  <2>2. CASE i \in 1 .. Len(table)
    BY <1>6, <2>2
  <2>3. CASE i \in Len(table) + 1 .. Len(table')
    <3>1. i > Len(table)
      BY <1>3, <2>3
    <3> QED
      BY <2>1, <2>3, <3>1
  <2>4. i \in 1 .. Len(table) \/ i \in Len(table) + 1 .. Len(table')
    BY <1>3, <1>6
  <2> QED
    BY <2>2, <2>3, <2>4
<1>8. ShapeInv'
  <2>1. \A i \in 1 .. Len(table') :
          table'[i].kind \in Uses \/ \E c \in Controllers : ByOf(table'[i], c)
    BY <1>2, <1>7, UsesNoEntry DEF TableInv, ShapeInv
  <2>2. next' \in 1 .. Len(setup) + 1
    BY <1>1, <1>2
  <2> QED
    BY <1>1, <1>6, <2>1, <2>2 DEF TableInv, ShapeInv, ByOf
<1>9. NothingYet'
  BY <1>1 DEF NothingYet
<1>10. CurrentInv'
  <2> SUFFICES ASSUME ~ late'
               PROVE  /\ \A i \in 1 .. Len(table') :
                           \/ table'[i].kind \in Uses
                           \/ \E c \in Controllers :
                                Owners(c)' = {} /\ EntryOf(table[i], c)'
                      /\ \A d \in delegated' : Owners(d[2])' # {}
    BY DEF CurrentInv
  <2>1. ASSUME NEW i \in 1 .. Len(table')
        PROVE  \/ table'[i].kind \in Uses
               \/ \E c \in Controllers : Owners(c) = {} /\ EntryOf(table'[i], c)
    BY <1>1, <1>2, <1>7 DEF TableInv, CurrentInv
  <2>2. \A d \in delegated' : Owners(d[2]) # {}
    BY <1>1, <1>4, <1>5 DEF Leads, Given, TableInv, CurrentInv
  <2>3. \A c : Owners(c)' = Owners(c)
    BY <1>1, SettingsKeep
  <2>4. \A i, c : EntryOf(table'[i], c) <=> EntryOf(table[i], c)'
    BY <1>1, EntryThen
  <2> QED
    BY <2>1, <2>2, <2>3, <2>4
<1>11. EarlyInv'
  <2>1. \A v \in early : \E j \in 1 .. Len(table') : table'[j].kind = v
    <3> TAKE v \in early
    <3>1. PICK j \in 1 .. Len(table) : table[j].kind = v
      BY DEF TableInv, EarlyInv
    <3>2. j \in 1 .. Len(table') /\ table'[j] = table[j]
      BY <1>3, <1>6
    <3> QED
      BY <3>1, <3>2
  <2>2. ASSUME NEW i \in 1 .. Len(table'), table'[i].kind \notin Uses,
               NEW v \in early
        PROVE  \E j \in 1 .. i - 1 : table'[j].kind = v
    <3>1. \E j \in 1 .. i - 1 : j \in 1 .. Len(table) /\ table[j].kind = v
      <4>1. CASE i \in 1 .. Len(table) /\ table'[i] = table[i]
        <5>1. PICK j \in 1 .. i - 1 : table[j].kind = v
          BY <2>2, <4>1 DEF TableInv, EarlyInv
        <5>2. j \in 1 .. Len(table)
          BY <1>3, <4>1
        <5> QED
          BY <5>1, <5>2
      <4>2. CASE i > Len(table)
        <5>1. PICK j \in 1 .. Len(table) : table[j].kind = v
          BY DEF TableInv, EarlyInv
        <5>2. j \in 1 .. i - 1
          BY <1>3, <1>6, <4>2
        <5> QED
          BY <5>1, <5>2
      <4> QED
        BY <1>7, <4>1, <4>2
    <3> QED
      BY <1>6, <3>1
  <2> QED
    BY <1>1, <2>1, <2>2 DEF TableInv, EarlyInv
<1>12. RegisteredInv'
  <2>1. delegated \subseteq delegated'
    BY <1>1, <1>4, <1>5 DEF Leads
  <2>2. ASSUME u.ok, NEW k \in 1 .. next, NEW c \in Range(setup[k])
        PROVE  Reached(table', delegated', c)
    <3>1. CASE k = next
      BY <1>1, <1>5, <2>2, <3>1 DEF C
    <3>2. CASE k # next
      <4>1. k \in 1 .. next - 1
        BY <1>2, <3>2
      <4>2. Reached(table, delegated, c)
        BY <1>1, <2>2, <4>1 DEF TableInv, RegisteredInv
      <4> QED
        BY <1>3, <1>6, <2>1, <4>2, BehindKeeps
    <3> QED
      BY <3>1, <3>2
  <2>3. \A c : Reached(table', delegated', c) <=> Reached(table, delegated, c)'
    BY DEF Reached, RouteIn
  <2>4. next' - 1 = next
    BY <1>1, <1>2
  <2> QED
    BY <1>1, <2>2, <2>3, <2>4 DEF RegisteredInv
<1> QED
  BY <1>8, <1>9, <1>10, <1>11, <1>12 DEF TableInv

LEMMA TableNext ==
    ASSUME TableInv, [Next]_vars
    PROVE  TableInv'
<1>1. CASE CallInit
  BY <1>1, CallInitTable
<1>2. CASE BootstrapModule
  BY <1>2, BootstrapTable
<1>3. CASE InitDone
  BY <1>3, InitDoneTable
<1>4. CASE \E p \in BasePaths : RegisterBasePath(p)
  <2>1. transports' \subseteq Transports
    BY <1>4 DEF RegisterBasePath, TableInv, ShapeInv
  <2> QED
    BY <1>4, <2>1, SettingTable DEF RegisterBasePath
<1>5. CASE \E t \in Transports : UseTransport(t)
  <2>1. transports' \subseteq Transports
    BY <1>5 DEF UseTransport, TableInv, ShapeInv
  <2> QED
    BY <1>5, <2>1, SettingTable DEF UseTransport
<1>6. CASE \E u \in Uses : Use(u)
  BY <1>6, UseTable
<1>7. CASE \E r \in Requests : Dispatch(r) \/ Resolve(r)
  BY <1>7, SameTable DEF Dispatch, Resolve
<1>8. CASE UNCHANGED vars
  BY <1>8, SameTable DEF vars, settings
<1>9. CASE Idle
  BY <1>8, <1>9 DEF Idle
<1> QED
  BY <1>1, <1>2, <1>3, <1>4, <1>5, <1>6, <1>7, <1>8, <1>9 DEF Next

LEMMA TableAlways == Spec => []TableInv
<1>1. Init => TableInv
  BY InitTable
<1>2. TableInv /\ [Next]_vars => TableInv'
  BY TableNext
<1> QED
  BY <1>1, <1>2, PTL DEF Spec

(* An init that resolves has registered every controller, and what a       *)
(* transport owns has neither route nor socket: nothing that happens       *)
(* between two modules of DanetApplication.bootstrap loses a controller.   *)
THEOREM InitRegisters == Spec => []InitRegistersAll
<1>1. TableInv => InitRegistersAll
  <2> SUFFICES ASSUME TableInv PROVE InitRegistersAll
    OBVIOUS
  <2>1. /\ setup \in Setups /\ IsSequence(table)
        /\ Len(setup) \in Nat /\ DOMAIN setup = 1 .. Len(setup)
        /\ DOMAIN table = 1 .. Len(table)
    <3>1. setup \in Seq(Seq(Controllers))
      BY ControllersAssumption DEF TableInv, ShapeInv
    <3> QED
      BY <3>1, LenProperties, IsSequenceFacts DEF TableInv, ShapeInv
  <2>2. ASSUME phase = "done", NEW c \in Bootstrapped
        PROVE  \/ \E t \in Transports : <<t, c>> \in delegated
               \/ \E s \in Sockets : s.by = <<c>>
               \/ \A m \in Range(Describe[c].methods) :
                    \E e \in Routes : e.by = <<c, m>>
    <3>1. PICK k \in 1 .. Len(setup) : c \in Range(setup[k])
      BY <2>1 DEF Bootstrapped
    <3>2. k \in 1 .. next - 1
      BY <2>1, <2>2 DEF TableInv, RegisteredInv
    <3>3. Reached(table, delegated, c)
      BY <2>2, <3>1, <3>2 DEF TableInv, RegisteredInv
    <3> QED
      BY <3>3 DEF Reached, RouteIn, Sockets, Routes
  <2>3. ASSUME ~ late, NEW d \in delegated, NEW e \in Routes \cup Sockets
        PROVE  e.by[1] # d[2]
    <3>1. PICK i \in 1 .. Len(table) : e = table[i] /\ e.kind \notin Uses
      BY <2>1 DEF Routes, Sockets, Uses
    <3>2. PICK c \in Controllers : Owners(c) = {} /\ EntryOf(e, c)
      BY <2>3, <3>1 DEF TableInv, CurrentInv
    <3>3. Owners(d[2]) # {}
      BY <2>3 DEF TableInv, CurrentInv
    <3> QED
      BY <3>2, <3>3, UsesNoEntry
  <2> QED
    BY <2>2, <2>3 DEF InitRegistersAll
<1> QED
  BY <1>1, TableAlways, PTL

-----------------------------------------------------------------------------
(* The base path is a path, and nothing is joined to it with two slashes.  *)

PrefixInv == IsSequence(prefix) /\ (PathsTidy => Closed(prefix))

LEMMA InitPrefix == Init => PrefixInv
<1> SUFFICES ASSUME Init PROVE PrefixInv
  OBVIOUS
<1>1. IsSequence(<<>>)
  <2>1. <<>> \in Seq({})
    OBVIOUS
  <2> QED
    BY <2>1, InSequence
<1>2. Closed(<<>>)
  BY DEF Closed, Tidy
<1> QED
  BY <1>1, <1>2 DEF Init, PrefixInv

LEMMA PrefixNext ==
    ASSUME PrefixInv, [Next]_vars
    PROVE  PrefixInv'
<1>1. CASE prefix' = prefix
  BY <1>1 DEF PrefixInv
<1>2. CASE \E p \in BasePaths : RegisterBasePath(p)
  <2>1. PICK p \in BasePaths : prefix' = SetPrefix(p)
    BY <1>2 DEF RegisterBasePath
  <2> DEFINE C == Range(p) \cup {Slash}
             q == SetPrefix(p)
  <2>2. p \in Seq(C)
    BY ControllersAssumption, SequenceIn
  <2>3. Slash \in C
    OBVIOUS
  <2> HIDE DEF C, q
  <2>4. /\ q \in Seq(C)
        /\ Tidy(p) => Tidy(q) /\ (q # <<>> => q[Len(q)] # Slash)
    BY <2>2, <2>3, PrefixFacts DEF q
  <2>5. IsSequence(q)
    BY <2>4, InSequence
  <2>6. PathsTidy => Closed(q)
    BY <2>4 DEF PathsTidy, Closed
  <2> QED
    BY <2>1, <2>5, <2>6 DEF PrefixInv, q
<1>3. prefix' = prefix \/ \E p \in BasePaths : RegisterBasePath(p)
  BY DEF Next, vars, settings, CallInit, BootstrapModule, InitDone,
         UseTransport, Use, Dispatch, Resolve, Idle
<1> QED
  BY <1>1, <1>2, <1>3

LEMMA PrefixAlways == Spec => []PrefixInv
<1>1. Init => PrefixInv
  BY InitPrefix
<1>2. PrefixInv /\ [Next]_vars => PrefixInv'
  BY PrefixNext
<1> QED
  BY <1>1, <1>2, PTL DEF Spec

LEMMA RoutesJoined ==
    ASSUME PrefixInv, TableInv, ~ late, NEW e \in Routes
    PROVE  /\ Segments(e.path) =
                Segments(prefix) \o Segments(Describe[e.by[1]].endpoint)
                                 \o Segments(e.by[2].endpoint)
           /\ PathsTidy => Tidy(e.path)
<1>1. PICK i \in 1 .. Len(table) : e = table[i] /\ e.kind = "route"
  BY IsSequenceFacts DEF Routes, TableInv, ShapeInv
<1>2. PICK c \in Controllers : EntryOf(e, c)
  BY <1>1 DEF TableInv, CurrentInv, Uses
<1>3. PICK m \in Range(Describe[c].methods) :
        /\ e.by = <<c, m>>
        /\ e.path = RoutePath(Describe[c].endpoint, m.endpoint)
  BY <1>1, <1>2 DEF EntryOf
<1> DEFINE base == Describe[c].endpoint
           end == m.endpoint
           C == Range(prefix) \cup Range(base) \cup Range(end) \cup {Slash}
<1>4. IsSequence(prefix) /\ IsSequence(base) /\ IsSequence(end)
  BY ControllersAssumption DEF PrefixInv
<1>5. PathsTidy => Closed(prefix) /\ Tidy(base) /\ Tidy(end)
  BY DEF PrefixInv, PathsTidy
<1> HIDE DEF base, end
<1>6. prefix \in Seq(C) /\ base \in Seq(C) /\ end \in Seq(C) /\ Slash \in C
  BY <1>4, SequenceIn
<1> HIDE DEF C
<1>7. /\ Segments(RoutePath(base, end))
           = Segments(prefix) \o Segments(base) \o Segments(end)
      /\ PathsTidy => Tidy(RoutePath(base, end))
  BY <1>5, <1>6, JoinedPath
<1> QED
  BY <1>3, <1>7 DEF base, end

(* Every route has the names of the base path, of its controller and of    *)
(* its method, in this order and no others, however they are written       *)
(* (Router.setPrefix, Router.createRoute, trimSlash).                      *)
THEOREM NamesJoined == Spec => []NamesAreJoined
<1>1. PrefixInv /\ TableInv => NamesAreJoined
  BY RoutesJoined DEF NamesAreJoined
<1> QED
  BY <1>1, PrefixAlways, TableAlways, PTL

(* Moreover what is joined has no empty segment before its end, if no part *)
(* has one of its own: the joint adds none.                                *)
THEOREM PathsJoined == ASSUME PathsTidy PROVE Spec => []PathsAreJoined
<1>1. PrefixInv /\ TableInv => PathsAreJoined
  BY RoutesJoined DEF NamesAreJoined, PathsAreJoined
<1> QED
  BY <1>1, PrefixAlways, TableAlways, PTL

-----------------------------------------------------------------------------
(* The arguments of a method.                                              *)

LEMMA ResolverMapDef ==
    ASSUME NEW ds, IsSequence(ds)
    PROVE  \E map :
             /\ map[0] = <<>>
             /\ \A n \in 1 .. Len(ds) :
                  map[n] = IF ds[Len(ds) - n + 1] = None THEN map[n - 1]
                           ELSE Append(map[n - 1], Len(ds) - n + 1)
             /\ ResolverMap(ds) = map[Len(ds)]
<1> DEFINE size == Len(ds)
           Step(f, n) ==
               IF n = 0 THEN <<>>
               ELSE IF ds[size - n + 1] = None THEN f[n - 1]
               ELSE Append(f[n - 1], size - n + 1)
           Are(f, k) == f = [n \in 0 .. k |-> Step(f, n)]
           map == CHOOSE f : Are(f, size)
           Bad == {k \in Nat : ~ \E f : Are(f, k)}
<1>1. size \in Nat
  BY IsSequenceFacts
<1>2. Bad = {}
  <2>1. SUFFICES ASSUME Bad # {} PROVE FALSE
    OBVIOUS
  <2>2. PICK k \in Bad : \A n \in Bad : k <= n
    <3> HIDE DEF Bad
    <3>1. Bad \subseteq Nat
      BY DEF Bad
    <3> QED
      BY <2>1, <3>1, Least
  <2>3. k \in Nat /\ ~ \E f : Are(f, k)
    BY <2>2
  <2>4. CASE k = 0
    <3> DEFINE f == [n \in 0 .. 0 |-> <<>>]
    <3>1. \A n \in 0 .. 0 : Step(f, n) = <<>>
      OBVIOUS
    <3>2. Are(f, 0)
      BY <3>1
    <3> QED
      BY <2>3, <2>4, <3>2
  <2>5. CASE k # 0
    <3>1. k - 1 \in Nat /\ k - 1 \notin Bad
      <4> HIDE DEF Bad
      <4>1. k - 1 \in Nat /\ ~ (k <= k - 1)
        BY <2>3, <2>5
      <4> QED
        BY <4>1, <2>2
    <3>2. PICK g : Are(g, k - 1)
      BY <3>1
    <3> DEFINE f == [n \in 0 .. k |-> Step(g, n)]
    <3>3. \A n \in 0 .. k - 1 : f[n] = g[n]
      <4>1. \A n \in 0 .. k - 1 : g[n] = Step(g, n)
        BY <3>2
      <4>2. \A n \in 0 .. k : f[n] = Step(g, n)
        OBVIOUS
      <4> HIDE DEF Step, f
      <4> QED
        BY <2>3, <4>1, <4>2
    <3>4. ASSUME NEW n \in 0 .. k PROVE Step(f, n) = Step(g, n)
      <4> HIDE DEF f
      <4>1. n # 0 => f[n - 1] = g[n - 1]
        BY <2>3, <3>3
      <4> QED
        BY <4>1
    <3>5. Are(f, k)
      BY <3>4
    <3> QED
      BY <2>3, <3>5
  <2> QED
    BY <2>4, <2>5
<1>3. Are(map, size)
  <2>1. \E f : Are(f, size)
    BY <1>1, <1>2
  <2> HIDE DEF Are
  <2> QED
    BY <2>1
<1>4. ResolverMap(ds) = map[size]
  BY DEF ResolverMap
<1> HIDE DEF map
<1>5. \A n \in 0 .. size : map[n] = Step(map, n)
  BY <1>3
<1>6. map[0] = <<>>
  BY <1>1, <1>5
<1>7. \A n \in 1 .. size :
        map[n] = IF ds[size - n + 1] = None THEN map[n - 1]
                 ELSE Append(map[n - 1], size - n + 1)
  BY <1>1, <1>5
<1> QED
  BY <1>4, <1>6, <1>7

(* The positions behind place n that have a decorator, each once.          *)
Lists(M, ds, n) ==
    /\ M \in Seq(Nat)
    /\ \A k \in 1 .. Len(M) : M[k] \in n + 1 .. Len(ds) /\ ds[M[k]] # None
    /\ \A k, j \in 1 .. Len(M) : M[k] = M[j] => k = j
    /\ \A i \in n + 1 .. Len(ds) :
         ds[i] # None => \E k \in 1 .. Len(M) : M[k] = i

LEMMA ListsOne ==
    ASSUME NEW ds, IsSequence(ds), NEW n \in 1 .. Len(ds),
           NEW M, Lists(M, ds, n),
           NEW N, N = IF ds[n] = None THEN M ELSE Append(M, n)
    PROVE  Lists(N, ds, n - 1)
<1>1. /\ Len(ds) \in Nat /\ n - 1 + 1 = n /\ n \in Nat
      /\ M \in Seq(Nat) /\ Len(M) \in Nat
  BY IsSequenceFacts, LenProperties DEF Lists
<1>2. \A i \in n .. Len(ds) : i = n \/ i \in n + 1 .. Len(ds)
  BY <1>1
<1>3. \A i \in n + 1 .. Len(ds) : i \in n .. Len(ds) /\ i # n
  BY <1>1
<1>4. CASE ds[n] = None
  BY <1>1, <1>2, <1>3, <1>4 DEF Lists
<1>5. CASE ds[n] # None
  <2>1. /\ N \in Seq(Nat) /\ Len(N) = Len(M) + 1 /\ N[Len(M) + 1] = n
        /\ \A i \in 1 .. Len(M) : N[i] = M[i]
    BY <1>1, <1>5, AppendProperties
  <2>2. \A k \in 1 .. Len(N) : k \in 1 .. Len(M) \/ k = Len(M) + 1
    BY <1>1, <2>1
  <2>3. \A k \in 1 .. Len(M) : k \in 1 .. Len(N)
    BY <1>1, <2>1
  <2>4. Len(M) + 1 \in 1 .. Len(N)
    BY <1>1, <2>1
  <2>5. \A k \in 1 .. Len(N) : N[k] \in n .. Len(ds) /\ ds[N[k]] # None
    BY <1>1, <1>3, <1>5, <2>1, <2>2 DEF Lists
  <2>6. ASSUME NEW k \in 1 .. Len(N), NEW j \in 1 .. Len(N), N[k] = N[j]
        PROVE  k = j
    <3>1. \A i \in 1 .. Len(M) : N[i] # n
      BY <1>3, <2>1 DEF Lists
    <3> QED
      BY <2>1, <2>2, <2>6, <3>1 DEF Lists
  <2>7. ASSUME NEW i \in n .. Len(ds), ds[i] # None
        PROVE  \E k \in 1 .. Len(N) : N[k] = i
    <3>1. CASE i = n
      BY <2>1, <2>4, <3>1
    <3>2. CASE i \in n + 1 .. Len(ds)
      BY <2>1, <2>3, <2>7, <3>2 DEF Lists
    <3> QED
      BY <1>2, <3>1, <3>2
  <2> QED
    BY <1>1, <2>1, <2>5, <2>6, <2>7 DEF Lists
<1> QED
  BY <1>4, <1>5

(* The Map has every decorated parameter once.                             *)
LEMMA ResolverMapLists ==
    ASSUME NEW ds, IsSequence(ds)
    PROVE  Lists(ResolverMap(ds), ds, 0)
<1>1. PICK map :
        /\ map[0] = <<>>
        /\ \A n \in 1 .. Len(ds) :
             map[n] = IF ds[Len(ds) - n + 1] = None THEN map[n - 1]
                      ELSE Append(map[n - 1], Len(ds) - n + 1)
        /\ ResolverMap(ds) = map[Len(ds)]
  BY ResolverMapDef
<1> DEFINE Bad == {n \in 0 .. Len(ds) : ~ Lists(map[n], ds, Len(ds) - n)}
<1>2. Len(ds) \in Nat
  BY IsSequenceFacts
<1>3. Bad = {}
  <2>1. SUFFICES ASSUME Bad # {} PROVE FALSE
    OBVIOUS
  <2>2. PICK m \in Bad : \A n \in Bad : m <= n
    <3>1. Bad \subseteq Nat
      BY <1>2
    <3> HIDE DEF Bad
    <3> QED
      BY <2>1, <3>1, Least
  <2>3. m \in 0 .. Len(ds) /\ ~ Lists(map[m], ds, Len(ds) - m)
    BY <2>2
  <2>4. Lists(map[0], ds, Len(ds))
    <3>1. /\ <<>> \in Seq(Nat) /\ Len(<<>>) = 0
          /\ \A i \in Len(ds) + 1 .. Len(ds) : FALSE
      BY <1>2
    <3> QED
      BY <1>1, <3>1 DEF Lists
  <2>5. m \in 1 .. Len(ds)
    BY <1>2, <2>3, <2>4
  <2>6. Lists(map[m - 1], ds, Len(ds) - (m - 1))
    BY <1>2, <2>2, <2>5
  <2> DEFINE n == Len(ds) - m + 1
             N == map[m]
             M == map[m - 1]
  <2>7. n \in 1 .. Len(ds) /\ Len(ds) - (m - 1) = n /\ Len(ds) - m = n - 1
    BY <1>2, <2>5
  <2>8. N = IF ds[n] = None THEN M ELSE Append(M, n)
    BY <1>1, <2>5
  <2>9. Lists(M, ds, n)
    BY <2>6, <2>7
  <2> HIDE DEF n, N, M
  <2>10. Lists(N, ds, n - 1)
    BY <2>7, <2>8, <2>9, ListsOne
  <2> QED
    BY <2>3, <2>7, <2>10 DEF N
<1>4. Lists(map[Len(ds)], ds, Len(ds) - Len(ds))
  BY <1>2, <1>3
<1> QED
  BY <1>1, <1>2, <1>4

LEMMA PutFacts ==
    ASSUME NEW args, IsSequence(args), NEW i \in Nat \ {0}, NEW v
    PROVE  /\ IsSequence(Put(args, i, v))
           /\ i \in DOMAIN Put(args, i, v) /\ Put(args, i, v)[i] = v
           /\ \A k \in DOMAIN args : k # i =>
                k \in DOMAIN Put(args, i, v) /\ Put(args, i, v)[k] = args[k]
<1> DEFINE n == IF i > Len(args) THEN i ELSE Len(args)
           p == Put(args, i, v)
<1>1. Len(args) \in Nat /\ DOMAIN args = 1 .. Len(args)
  BY IsSequenceFacts
<1>2. n \in Nat /\ i \in 1 .. n /\ \A k \in 1 .. Len(args) : k \in 1 .. n
  BY <1>1
<1>3. p = [k \in 1 .. n |->
             IF k = i THEN v
             ELSE IF k \in DOMAIN args THEN args[k] ELSE <<None>>]
  BY DEF Put
<1> HIDE DEF n, p
<1>4. /\ DOMAIN p = 1 .. n /\ p[i] = v
      /\ \A k \in DOMAIN args : k # i => p[k] = args[k]
  BY <1>1, <1>2, <1>3
<1>5. IsSequence(p)
  <2>1. p = [k \in 1 .. n |-> p[k]] /\ \A k \in 1 .. n : p[k] \in Range(p)
    BY <1>3, <1>4 DEF Range
  <2>2. p \in Seq(Range(p))
    BY <1>2, <2>1, IsASeq
  <2> QED
    BY <2>2 DEF IsSequence
<1> QED
  BY <1>1, <1>2, <1>4, <1>5 DEF p

-----------------------------------------------------------------------------
(* The inductive invariant of the requests.  The arguments of the first n  *)
(* resolvers of the Map are in place, and none of them threw.              *)

Filled(ds, n, args, r) ==
    LET M == ResolverMap(ds) IN
    /\ n \in 0 .. Len(M) /\ IsSequence(args)
    /\ \A k \in 1 .. n :
         /\ M[k] \in DOMAIN args /\ args[M[k]] = ValueOf(ds[M[k]], r)
         /\ ErrorOf(ds[M[k]], r) = None

IsRoute(by) == \E c \in Controllers : \E m \in Range(Describe[c].methods) :
    by = <<c, m>>

RequestOK(r) ==
    /\ request[r] # "coming" => built
    /\ request[r] = "coming" => at[r] = 0 /\ params[r] = <<>>
    /\ request[r] \in {"resolving", "called"} =>
         /\ early \subseteq seen[r]
         /\ IsRoute(route[r])
         /\ Filled(Decorators(r), at[r], params[r], r)
    /\ request[r] = "called" => at[r] = Len(ResolverMap(Decorators(r)))

RequestInv ==
    /\ DOMAIN request = Requests /\ DOMAIN route = Requests
    /\ DOMAIN seen = Requests
    /\ DOMAIN at = Requests /\ DOMAIN params = Requests
    /\ \A r \in Requests : RequestOK(r)

LEMMA InitRequest == Init => RequestInv
BY DEF Init, ParametersInit, RequestInv, RequestOK

LEMMA RouteDecorators ==
    ASSUME NEW by, IsRoute(by)
    PROVE  IsSequence(by[2].decorators)
BY ControllersAssumption DEF IsRoute

LEMMA NothingFilled ==
    ASSUME NEW ds, IsSequence(ds), NEW r
    PROVE  Filled(ds, 0, <<>>, r)
<1>1. ResolverMap(ds) \in Seq(Nat)
  BY ResolverMapLists DEF Lists
<1>2. Len(ResolverMap(ds)) \in Nat
  BY <1>1, LenProperties
<1>3. <<>> \in Seq({})
  OBVIOUS
<1>4. IsSequence(<<>>)
  BY <1>3, InSequence
<1> QED
  BY <1>2, <1>4 DEF Filled

LEMMA ContentKept ==
    ASSUME content' = content
    PROVE  \A d, r : /\ ValueOf(d, r)' = ValueOf(d, r)
                     /\ ErrorOf(d, r)' = ErrorOf(d, r)
BY DEF ValueOf, ReadQuery, ErrorOf, Accepts

(* A request that a step does not touch is as it was.                      *)
LEMMA SameRequest ==
    ASSUME NEW r, RequestOK(r), content' = content, built => built',
           early' = early \/ request[r] = "coming",
           request'[r] = request[r], route'[r] = route[r], seen'[r] = seen[r],
           at'[r] = at[r], params'[r] = params[r]
    PROVE  RequestOK(r)'
<1>1. Decorators(r)' = Decorators(r)
  BY DEF Decorators
<1>2. Filled(Decorators(r), at[r], params[r], r)
        => Filled(Decorators(r), at[r], params[r], r)'
  BY <1>1, ContentKept DEF Filled
<1>3. IsRoute(route[r])' <=> IsRoute(route[r])
  BY DEF IsRoute
<1> QED
  BY <1>1, <1>2, <1>3 DEF RequestOK

LEMMA SameRequests ==
    ASSUME RequestInv, UNCHANGED requests, built' = built,
           early' = early \/ ~ built
    PROVE  RequestInv'
<1>1. /\ request' = request /\ route' = route /\ seen' = seen
      /\ content' = content /\ at' = at /\ params' = params
  BY DEF requests, resolving
<1>2. ASSUME NEW r \in Requests PROVE RequestOK(r)'
  <2>1. RequestOK(r)
    BY DEF RequestInv
  <2>2. early' = early \/ request[r] = "coming"
    BY <2>1 DEF RequestOK
  <2> QED
    BY <1>1, <2>1, <2>2, SameRequest
<1> QED
  BY <1>1, <1>2 DEF RequestInv

LEMMA DispatchRequest ==
    ASSUME TableInv, RequestInv, NEW r \in Requests, Dispatch(r)
    PROVE  RequestInv'
<1>1. /\ request[r] = "coming" /\ built' = TRUE /\ early' = early
      /\ content' = content /\ at' = at /\ params' = params /\ table' = table
  BY DEF Dispatch, resolving
<1>2. /\ DOMAIN request' = Requests /\ DOMAIN route' = Requests
      /\ DOMAIN seen' = Requests
      /\ \A q \in Requests : q # r =>
           /\ request'[q] = request[q]
           /\ route'[q] = route[q] /\ seen'[q] = seen[q]
  BY DEF Dispatch, RequestInv
<1>3. RequestOK(r)
  BY DEF RequestInv
<1>4. RequestOK(r)'
  <2>1. CASE request'[r] \notin {"resolving", "called", "coming"}
    BY <1>1, <2>1 DEF RequestOK
  <2>2. CASE request'[r] \in {"resolving", "called", "coming"}
    <3>1. Ending(r) # {}
      BY <2>2 DEF Dispatch, RequestInv
    <3> DEFINE i == CHOOSE k \in Ending(r) : \A n \in Ending(r) : k <= n
    <3>2. /\ seen'[r] = Passed(r, i) /\ route'[r] = table[i].by
          /\ request'[r] = "resolving" /\ table[i].kind = "route"
      BY <2>2, <3>1 DEF Dispatch, RequestInv
    <3>3. i \in Ending(r)
      <4>1. DOMAIN table = 1 .. Len(table) /\ Len(table) \in Nat
        BY IsSequenceFacts DEF TableInv, ShapeInv
      <4>2. Ending(r) \subseteq Nat
        BY <4>1 DEF Ending
      <4>3. \E k \in Ending(r) : \A n \in Ending(r) : k <= n
        BY <3>1, <4>2, Least
      <4> QED
        BY <4>3
    <3> HIDE DEF i
    <3>4. i \in 1 .. Len(table)
      BY <3>3, IsSequenceFacts DEF Ending, TableInv, ShapeInv
    <3>5. table[i].kind \notin Uses
      BY <3>2 DEF Uses
    <3>6. early \subseteq Passed(r, i)
      <4> SUFFICES ASSUME NEW u \in early PROVE u \in Passed(r, i)
        OBVIOUS
      <4>1. PICK j \in 1 .. i - 1 : table[j].kind = u
        BY <3>4, <3>5 DEF TableInv, EarlyInv
      <4>2. j \in 1 .. i /\ u \in Uses
        BY <3>4 DEF TableInv, EarlyInv
      <4> QED
        BY <4>1, <4>2 DEF Passed
    <3>7. IsRoute(route'[r])
      <4>1. PICK c \in Controllers : ByOf(table[i], c)
        BY <3>4, <3>5 DEF TableInv, ShapeInv
      <4> QED
        BY <3>2, <4>1 DEF ByOf, IsRoute
    <3>8. at'[r] = 0 /\ params'[r] = <<>>
      BY <1>1, <1>3 DEF RequestOK
    <3>9. IsSequence(route'[r][2].decorators)
      BY <3>7, RouteDecorators
    <3>10. Filled(route'[r][2].decorators, at'[r], params'[r], r)
      BY <3>8, <3>9, NothingFilled
    <3>11. Filled(Decorators(r), at[r], params[r], r)'
      BY <1>1, <3>10, ContentKept DEF Filled, Decorators
    <3>12. IsRoute(route[r])'
      BY <3>7 DEF IsRoute
    <3> QED
      BY <1>1, <3>2, <3>6, <3>11, <3>12 DEF RequestOK
  <2> QED
    BY <2>1, <2>2
<1>5. ASSUME NEW q \in Requests, q # r PROVE RequestOK(q)'
  <2>1. RequestOK(q)
    BY DEF RequestInv
  <2> QED
    BY <1>1, <1>2, <1>5, <2>1, SameRequest
<1> QED
  BY <1>1, <1>2, <1>4, <1>5 DEF RequestInv

(* A resolver that does not throw puts its value in its place.             *)
LEMMA FilledNext ==
    ASSUME NEW ds, IsSequence(ds), NEW n, NEW args, NEW r,
           Filled(ds, n, args, r),
           n < Len(ResolverMap(ds)), NEW i, i = ResolverMap(ds)[n + 1],
           ErrorOf(ds[i], r) = None
    PROVE  Filled(ds, n + 1, Put(args, i, ValueOf(ds[i], r)), r)
<1> DEFINE M == ResolverMap(ds)
           v == ValueOf(ds[i], r)
           new == Put(args, i, v)
<1>1. Lists(M, ds, 0)
  BY ResolverMapLists
<1>2. Filled(ds, n, args, r) /\ n < Len(M) /\ i = M[n + 1]
  OBVIOUS
<1>3. /\ n \in 0 .. Len(M) /\ IsSequence(args)
      /\ \A k \in 1 .. n :
           /\ M[k] \in DOMAIN args /\ args[M[k]] = ValueOf(ds[M[k]], r)
           /\ ErrorOf(ds[M[k]], r) = None
  BY DEF Filled
<1> HIDE DEF M
<1>4. /\ Len(M) \in Nat /\ \A k \in 1 .. Len(M) : M[k] \in 1 .. Len(ds)
      /\ \A k, j \in 1 .. Len(M) : M[k] = M[j] => k = j
  BY <1>1, LenProperties DEF Lists
<1>5. /\ n + 1 \in 1 .. Len(M) /\ n + 1 \in 0 .. Len(M)
      /\ \A k \in 1 .. n : k \in 1 .. Len(M) /\ k # n + 1
      /\ \A k \in 1 .. n + 1 : k = n + 1 \/ k \in 1 .. n
  BY <1>2, <1>3, <1>4
<1>6. i \in Nat \ {0}
  BY <1>2, <1>4, <1>5, IsSequenceFacts
<1>7. /\ IsSequence(new) /\ i \in DOMAIN new /\ new[i] = v
      /\ \A k \in DOMAIN args : k # i => k \in DOMAIN new /\ new[k] = args[k]
  BY <1>3, <1>6, PutFacts
<1> HIDE DEF new
<1>8. ASSUME NEW k \in 1 .. n + 1
      PROVE  /\ M[k] \in DOMAIN new /\ new[M[k]] = ValueOf(ds[M[k]], r)
             /\ ErrorOf(ds[M[k]], r) = None
  <2>1. CASE k = n + 1
    BY <1>2, <1>7, <2>1
  <2>2. CASE k \in 1 .. n
    <3>1. M[k] # i
      BY <1>2, <1>4, <1>5, <2>2
    <3> QED
      BY <1>3, <1>7, <2>2, <3>1
  <2> QED
    BY <1>5, <2>1, <2>2
<1> QED
  BY <1>5, <1>7, <1>8 DEF Filled, M, new

LEMMA ResolveRequest ==
    ASSUME RequestInv, NEW r \in Requests, Resolve(r)
    PROVE  RequestInv'
<1> DEFINE ds == Decorators(r)
<1>1. /\ request[r] = "resolving" /\ built' = built /\ early' = early
      /\ content' = content /\ route' = route /\ seen' = seen
  BY DEF Resolve, ResolveNext, ResolveThrows, resolving
<1>2. /\ DOMAIN request' = Requests /\ DOMAIN at' = Requests
      /\ DOMAIN params' = Requests
      /\ \A q \in Requests : q # r =>
           request'[q] = request[q] /\ at'[q] = at[q] /\ params'[q] = params[q]
  BY DEF Resolve, ResolveNext, ResolveThrows, resolving, RequestInv
<1>3. /\ RequestOK(r) /\ built /\ early \subseteq seen[r] /\ IsRoute(route[r])
      /\ Filled(ds, at[r], params[r], r)
  BY <1>1 DEF RequestInv, RequestOK
<1>4. IsSequence(ds) /\ ds' = ds /\ (IsRoute(route[r])' <=> IsRoute(route[r]))
  BY <1>1, <1>3, RouteDecorators DEF Decorators, IsRoute
<1>5. ASSUME Filled(ds, at'[r], params'[r], r)
      PROVE  Filled(ds, at[r], params[r], r)'
  BY <1>1, <1>4, <1>5, ContentKept DEF Filled
<1>6. RequestOK(r)'
  <2>1. CASE ResolveNext(ds, r) /\ UNCHANGED request
    <3> DEFINE i == ResolverMap(ds)[at[r] + 1]
               v == ValueOf(ds[i], r)
    <3>1. /\ at[r] < Len(ResolverMap(ds)) /\ ErrorOf(ds[i], r) = None
          /\ params'[r] = Put(params[r], i, v) /\ at'[r] = at[r] + 1
      BY <2>1 DEF ResolveNext, Pending, Current, RequestInv
    <3>2. Filled(ds, at[r] + 1, Put(params[r], i, v), r)
      <4> HIDE DEF ds
      <4> QED
        BY <1>3, <1>4, <3>1, FilledNext
    <3>3. Filled(ds, at'[r], params'[r], r)
      BY <3>1, <3>2
    <3> QED
      BY <1>1, <1>3, <1>4, <1>5, <2>1, <3>3 DEF RequestOK
  <2>2. CASE request'[r] = "refused"
    BY <1>1, <1>3, <2>2 DEF RequestOK
  <2>3. CASE ~ Pending(ds, r) /\ UNCHANGED resolving /\ request'[r] = "called"
    <3>1. at' = at /\ params' = params
      BY <2>3 DEF resolving
    <3>2. Filled(ds, at[r], params[r], r)'
      BY <1>3, <1>5, <3>1
    <3>3. at[r] = Len(ResolverMap(ds))
      <4>1. at[r] \in 0 .. Len(ResolverMap(ds)) /\ Len(ResolverMap(ds)) \in Nat
        BY <1>3, <1>4, ResolverMapLists, LenProperties DEF Filled, Lists
      <4> QED
        BY <2>3, <4>1 DEF Pending
    <3> QED
      BY <1>1, <1>3, <1>4, <2>3, <3>1, <3>2, <3>3 DEF RequestOK
  <2> QED
    BY <2>1, <2>2, <2>3 DEF Resolve, RequestInv
<1>7. ASSUME NEW q \in Requests, q # r PROVE RequestOK(q)'
  <2>1. RequestOK(q)
    BY DEF RequestInv
  <2> QED
    BY <1>1, <1>2, <1>7, <2>1, SameRequest
<1> QED
  BY <1>1, <1>2, <1>6, <1>7 DEF RequestInv

LEMMA RequestNext ==
    ASSUME TableInv, RequestInv, [Next]_vars
    PROVE  RequestInv'
<1>1. CASE \E r \in Requests : Dispatch(r)
  BY <1>1, DispatchRequest
<1>2. CASE \E r \in Requests : Resolve(r)
  BY <1>2, ResolveRequest
<1>3. CASE \E u \in Uses : Use(u)
  BY <1>3, SameRequests DEF Use
<1>4. CASE UNCHANGED <<requests, built, early>>
  BY <1>4, SameRequests
<1> QED
  BY <1>1, <1>2, <1>3, <1>4
     DEF Next, vars, requests, CallInit, BootstrapModule, InitDone,
         RegisterBasePath, UseTransport, Idle

LEMMA RequestAlways == Spec => []RequestInv
<1>1. Init => RequestInv
  BY InitRequest
<1>2. TableInv /\ RequestInv /\ [Next]_vars => RequestInv'
  BY RequestNext
<1> QED
  BY <1>1, <1>2, TableAlways, PTL DEF Spec

(* Every middleware that the application added before init ran before the  *)
(* controller's method: routes are behind them in the table of Hono, and   *)
(* no middleware is added once a request has come.                         *)
THEOREM MiddlewaresFirst == Spec => []MiddlewaresComeFirst
<1>1. RequestInv => MiddlewaresComeFirst
  BY DEF RequestInv, RequestOK, MiddlewaresComeFirst
<1> QED
  BY <1>1, RequestAlways, PTL

(* A method is called with what its decorators ask for, each in the place  *)
(* of its parameter, and never with a body that its class refuses, however *)
(* the resolvers of the requests interleave (resolveMethodParam).          *)
THEOREM ArgumentsArePlaced == Spec => []ArgumentsInPlace
<1>1. RequestInv => ArgumentsInPlace
  <2> SUFFICES ASSUME RequestInv, NEW r \in Requests, request[r] = "called",
                      NEW i \in DOMAIN Decorators(r), Decorators(r)[i] # None
               PROVE  /\ i \in DOMAIN params[r]
                      /\ params[r][i] = ValueOf(Decorators(r)[i], r)
                      /\ Decorators(r)[i].of = "body" =>
                           content[r].body \in
                             {"falsy", "accepted"}
                               \cup (IF Decorators(r)[i].prop # None
                                     THEN {"part"} ELSE {})
    BY DEF ArgumentsInPlace
  <2> DEFINE ds == Decorators(r)
             M == ResolverMap(ds)
  <2>1. /\ IsRoute(route[r]) /\ Filled(ds, at[r], params[r], r)
        /\ at[r] = Len(M)
    BY DEF RequestInv, RequestOK
  <2>2. IsSequence(ds) /\ i \in 1 .. Len(ds) /\ ds[i] # None
    BY <2>1, RouteDecorators, IsSequenceFacts DEF Decorators
  <2> HIDE DEF ds
  <2>3. Lists(M, ds, 0)
    BY <2>2, ResolverMapLists
  <2>4. PICK k \in 1 .. Len(M) : M[k] = i
    BY <2>2, <2>3 DEF Lists
  <2>5. /\ i \in DOMAIN params[r] /\ params[r][i] = ValueOf(ds[i], r)
        /\ ErrorOf(ds[i], r) = None
    BY <2>1, <2>4 DEF Filled
  <2>6. ds[i].of = "body" =>
          content[r].body \in {"falsy", "accepted"}
             \cup (IF ds[i].prop # None THEN {"part"} ELSE {})
    BY <2>5, ErrorsAssumption DEF ErrorOf, Accepts
  <2> QED
    BY <2>5, <2>6 DEF ds
<1> QED
  BY <1>1, RequestAlways, PTL
=============================================================================
