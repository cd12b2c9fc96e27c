--------------------------- MODULE SequenceFacts ---------------------------
(***************************************************************************)
(* Facts that the proofs of this project share: about sequences, with      *)
(* their domains spelled out as intervals, and induction and recursion     *)
(* over the natural numbers, stated for sets and functions (the library's  *)
(* theorems take operators, which the provers cannot instantiate).         *)
(***************************************************************************)
EXTENDS Integers, SequenceTheorems, WellFoundedInduction, TLAPS

(* Append(s, e) is s with e at the next index.                             *)
LEMMA AppendDomain ==
  ASSUME NEW S, NEW s \in Seq(S), NEW e \in S
  PROVE  /\ Len(s) \in Nat
         /\ DOMAIN s = 1 .. Len(s)
         /\ Append(s, e) \in Seq(S)
         /\ Len(Append(s, e)) = Len(s) + 1
         /\ DOMAIN Append(s, e) = 1 .. Len(s) + 1
         /\ \A i \in DOMAIN s : Append(s, e)[i] = s[i]
         /\ Append(s, e)[Len(s) + 1] = e
<1>1. /\ Append(s, e) \in Seq(S)
      /\ Len(Append(s, e)) = Len(s) + 1
      /\ \A i \in 1 .. Len(s) : Append(s, e)[i] = s[i]
      /\ Append(s, e)[Len(s) + 1] = e
  BY AppendProperties
<1>2. Len(s) \in Nat /\ DOMAIN s = 1 .. Len(s)
  BY LenProperties
<1>3. DOMAIN Append(s, e) = 1 .. Len(Append(s, e))
  BY <1>1, LenProperties
<1> QED BY <1>1, <1>2, <1>3

(* The elements of s \o t are those of s and, shifted, those of t.         *)
LEMMA ConcatDomain ==
  ASSUME NEW S, NEW s \in Seq(S), NEW t \in Seq(S)
  PROVE  /\ s \o t \in Seq(S)
         /\ Len(s) \in Nat /\ Len(t) \in Nat
         /\ Len(s \o t) = Len(s) + Len(t)
         /\ DOMAIN s = 1 .. Len(s)
         /\ DOMAIN t = 1 .. Len(t)
         /\ DOMAIN (s \o t) = 1 .. Len(s) + Len(t)
         /\ \A i \in DOMAIN (s \o t) :
              \/ i \in DOMAIN s /\ (s \o t)[i] = s[i]
              \/ \E j \in DOMAIN t : i = Len(s) + j /\ (s \o t)[i] = t[j]
<1>1. /\ s \o t \in Seq(S)
      /\ Len(s \o t) = Len(s) + Len(t)
      /\ \A i \in 1 .. Len(s) + Len(t) :
           (s \o t)[i] = IF i <= Len(s) THEN s[i] ELSE t[i - Len(s)]
  BY ConcatProperties
<1>2. /\ Len(s) \in Nat /\ DOMAIN s = 1 .. Len(s)
      /\ Len(t) \in Nat /\ DOMAIN t = 1 .. Len(t)
  BY LenProperties
<1>3. DOMAIN (s \o t) = 1 .. Len(s) + Len(t)
  BY <1>1, LenProperties
<1>4. ASSUME NEW i \in 1 .. Len(s) + Len(t)
      PROVE  \/ i \in 1 .. Len(s) /\ (s \o t)[i] = s[i]
             \/ \E j \in 1 .. Len(t) : i = Len(s) + j /\ (s \o t)[i] = t[j]
  <2>1. CASE i <= Len(s)
    BY <1>1, <1>2, <2>1
  <2>2. CASE ~(i <= Len(s))
    <3>1. i - Len(s) \in 1 .. Len(t) /\ i = Len(s) + (i - Len(s))
      BY <1>2, <2>2
    <3>2. (s \o t)[i] = t[i - Len(s)]
      BY <1>1, <2>2
    <3> QED BY <3>1, <3>2
  <2> QED BY <2>1, <2>2
<1> QED BY <1>1, <1>2, <1>3, <1>4

(* Tail(s) is s without its first element, which is Head(s).               *)
LEMMA TailDomain ==
  ASSUME NEW S, NEW s \in Seq(S), s # <<>>
  PROVE  /\ Len(s) \in Nat \ {0}
         /\ DOMAIN s = 1 .. Len(s)
         /\ 1 \in DOMAIN s
         /\ Head(s) = s[1]
         /\ Head(s) \in S
         /\ Tail(s) \in Seq(S)
         /\ Len(Tail(s)) = Len(s) - 1
         /\ DOMAIN Tail(s) = 1 .. Len(s) - 1
         /\ \A i \in DOMAIN Tail(s) : i + 1 \in DOMAIN s /\ Tail(s)[i] = s[i + 1]
<1>1. Len(s) \in Nat \ {0} /\ DOMAIN s = 1 .. Len(s)
  BY EmptySeq, LenProperties
<1>2. /\ Head(s) \in S
      /\ Tail(s) \in Seq(S)
      /\ Len(Tail(s)) = Len(s) - 1
      /\ \A i \in 1 .. Len(Tail(s)) : Tail(s)[i] = s[i + 1]
  BY HeadTailProperties
<1>3. DOMAIN Tail(s) = 1 .. Len(s) - 1
  BY <1>2, LenProperties
<1>4. Head(s) = s[1]
  OBVIOUS
<1> QED BY <1>1, <1>2, <1>3, <1>4
(* SubSeq(s, 1, Len(s) - 1) is s without its last element.                 *)
LEMMA LastRemoved ==
  ASSUME NEW S, NEW s \in Seq(S), s # <<>>
  PROVE  /\ Len(s) \in Nat \ {0}
         /\ s[Len(s)] \in S
         /\ SubSeq(s, 1, Len(s) - 1) \in Seq(S)
         /\ Len(SubSeq(s, 1, Len(s) - 1)) = Len(s) - 1
         /\ \A i \in 1 .. Len(s) - 1 : SubSeq(s, 1, Len(s) - 1)[i] = s[i]
<1> DEFINE d == Len(s)
<1>1. d \in Nat \ {0}
  BY EmptySeq, LenProperties
<1>2. d = Len(s)
  OBVIOUS
<1> HIDE DEF d
<1>3. d \in 1 .. d /\ \A i \in 1 .. d - 1 : i \in 1 .. d
  BY <1>1
<1>4. s[d] \in S /\ \A i \in 1 .. d - 1 : s[i] \in S
  BY <1>2, <1>3, ElementOfSeq
<1>5. /\ SubSeq(s, 1, d - 1) \in Seq(S) /\ Len(SubSeq(s, 1, d - 1)) = d - 1
      /\ \A i \in 1 .. d - 1 : SubSeq(s, 1, d - 1)[i] = s[i]
  BY <1>1, <1>4, SubSeqProperties
<1> QED BY <1>1, <1>2, <1>4, <1>5

-----------------------------------------------------------------------------
(* Induction over the natural numbers, for a set.                          *)
LEMMA NatSetInduction ==
  ASSUME NEW S, 0 \in S, \A n \in Nat : n \in S => n + 1 \in S
  PROVE  \A n \in Nat : n \in S
<1> DEFINE T == Nat \ S
           R == OpToRel(<, Nat)
<1> SUFFICES ASSUME T # {} PROVE FALSE
  OBVIOUS
<1>1. IsWellFoundedOn(R, Nat)
  BY NatLessThanWellFounded
<1>2. \A x, y \in Nat : x < y => <<x, y>> \in R
  BY DEF OpToRel
<1> HIDE DEF R
<1>3. PICK x \in T : \A y \in T : ~(<<y, x>> \in R)
  <2>1. T \subseteq Nat
    OBVIOUS
  <2> HIDE DEF T
  <2> QED BY <1>1, <2>1, WFMin
<1>4. x - 1 \in Nat /\ x - 1 < x
  OBVIOUS
<1>5. x - 1 \notin S
  <2>1. x - 1 \in S => (x - 1) + 1 \in S
    BY <1>4
  <2>2. (x - 1) + 1 = x
    BY <1>3
  <2> QED BY <2>1, <2>2
<1>6. x - 1 \in T /\ <<x - 1, x>> \in R
  BY <1>2, <1>4, <1>5
<1> QED BY <1>3, <1>6

(* A function of the natural numbers can be defined by what makes each     *)
(* value of the one before.                                                *)
LEMMA NatRecursion ==
  ASSUME NEW S, NEW c \in S, NEW step \in [S -> S]
  PROVE  \E f \in [Nat -> S] : f[0] = c /\ \A k \in Nat : f[k + 1] = step[f[k]]
<1> DEFINE Upto(k) == {g \in [0 .. k -> S] : g[0] = c /\ \A m \in 0 .. k - 1 : g[m + 1] = step[g[m]]}
<1>1. ASSUME NEW k \in Nat PROVE Upto(k) # {}
  <2> DEFINE D == {m \in Nat : Upto(m) # {}}
  <2>1. 0 \in D
    <3>1. [m \in 0 .. 0 |-> c] \in Upto(0)
      OBVIOUS
    <3> QED BY <3>1
  <2>2. ASSUME NEW m \in Nat, m \in D PROVE m + 1 \in D
    <3>1. PICK g \in Upto(m) : TRUE
      BY <2>2
    <3> DEFINE h == [q \in 0 .. m + 1 |-> IF q = m + 1 THEN step[g[m]] ELSE g[q]]
    <3>2. g \in [0 .. m -> S] /\ g[m] \in S
      BY <3>1
    <3>3. step[g[m]] \in S
      BY <3>2
    <3>4. h \in [0 .. m + 1 -> S]
      BY <3>2, <3>3
    <3>5. h[0] = c /\ h[m] = g[m] /\ h[m + 1] = step[g[m]]
      BY <3>1
    <3>6. ASSUME NEW q \in 0 .. m PROVE h[q + 1] = step[h[q]]
      <4>1. CASE q = m
        BY <3>5, <4>1
      <4>2. CASE q < m
        <5>1. q \in 0 .. m - 1 /\ h[q + 1] = g[q + 1] /\ h[q] = g[q]
          BY <4>2
        <5> QED BY <3>1, <5>1
      <4> QED BY <4>1, <4>2
    <3> HIDE DEF h
    <3>7. h \in Upto(m + 1)
      <4>1. (m + 1) - 1 = m
        OBVIOUS
      <4> QED BY <3>4, <3>5, <3>6, <4>1
    <3>8. Upto(m + 1) # {}
      BY <3>7
    <3> HIDE DEF Upto
    <3> QED BY <3>8
  <2> HIDE DEF D
  <2>3. k \in D
    BY <2>1, <2>2, NatSetInduction
  <2> QED BY <2>3 DEF D
<1>2. ASSUME NEW k \in Nat, NEW m \in Nat, NEW g \in Upto(k), NEW h \in Upto(m), k <= m
      PROVE  \A q \in 0 .. k : g[q] = h[q]
  <2> DEFINE D == {q \in Nat : q <= k => g[q] = h[q]}
  <2>1. 0 \in D
    OBVIOUS
  <2>2. ASSUME NEW q \in Nat, q \in D PROVE q + 1 \in D
    <3>1. CASE q + 1 <= k
      <4>1. g[q] = h[q] /\ q \in 0 .. k - 1 /\ q \in 0 .. m - 1
        BY <1>2, <2>2, <3>1
      <4>2. g[q + 1] = step[g[q]] /\ h[q + 1] = step[h[q]]
        BY <4>1
      <4> QED BY <4>1, <4>2
    <3>2. CASE ~(q + 1 <= k)
      BY <3>2
    <3> QED BY <3>1, <3>2
  <2> HIDE DEF D
  <2>3. \A q \in Nat : q \in D
    BY <2>1, <2>2, NatSetInduction
  <2> QED BY <2>3 DEF D
<1> DEFINE G(k) == CHOOSE g \in Upto(k) : TRUE
           f == [k \in Nat |-> G(k)[k]]
<1>3. ASSUME NEW k \in Nat PROVE G(k) \in Upto(k)
  <2>1. Upto(k) # {}
    BY <1>1
  <2> HIDE DEF Upto
  <2> QED BY <2>1
<1>4. f \in [Nat -> S]
  <2> HIDE DEF G
  <2>1. ASSUME NEW k \in Nat PROVE G(k)[k] \in S
    <3>1. G(k) \in [0 .. k -> S]
      BY <1>3
    <3> QED BY <3>1
  <2> QED BY <2>1
<1>5. f[0] = c
  <2> HIDE DEF G
  <2> QED BY <1>3
<1>6. ASSUME NEW k \in Nat PROVE f[k + 1] = step[f[k]]
  <2> HIDE DEF G
  <2>1. f[k + 1] = G(k + 1)[k + 1] /\ f[k] = G(k)[k]
    OBVIOUS
  <2> HIDE DEF f
  <2>2. G(k) \in Upto(k) /\ G(k + 1) \in Upto(k + 1)
    BY <1>3
  <2>3. G(k)[k] = G(k + 1)[k]
    <3> HIDE DEF Upto
    <3> QED BY <1>2, <2>2
  <2>4. G(k + 1)[k + 1] = step[G(k + 1)[k]]
    BY <2>2
  <2> QED BY <2>1, <2>3, <2>4
<1> HIDE DEF f
<1> QED BY <1>4, <1>5, <1>6
=============================================================================
